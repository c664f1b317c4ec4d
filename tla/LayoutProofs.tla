---------------------------- MODULE LayoutProofs ----------------------------
(* Proofs of the safety properties of Layout.                              *)
EXTENDS Layout, SequenceTheorems, WellFoundedInduction, TLAPS

-----------------------------------------------------------------------------
(* Induction over numbers, by way of a least counterexample.               *)

(* A set of numbers with a member has a least one.                         *)
LEMMA LeastNat ==
  ASSUME NEW S \in SUBSET Nat, S # {}
  PROVE  \E x \in S : \A y \in S : x <= y
<1> DEFINE R == {p \in Nat \X Nat : p[1] < p[2]}
<1>1. IsWellFoundedOn(R, Nat)
  BY NatLessThanWellFounded DEF OpToRel
<1> HIDE DEF R
<1>2. PICK x \in S : \A y \in S : ~ (<<y, x>> \in R)
  BY <1>1, WFMin
<1>3. \A y \in S : ~(y < x)
  BY <1>2 DEF R
<1>4. QED
  BY <1>3

(* f is the recursion over 0 .. n that starts with a and goes on by G.     *)
Recursion(f, V, a, G, n) ==
  /\ f \in [0 .. n -> V] /\ f[0] = a
  /\ \A i \in 1 .. n : f[i] = G[i][f[i - 1]]

(* Every recursion over 0 .. n defines a function.                         *)
LEMMA RecursionExists ==
  ASSUME NEW V, NEW a \in V, NEW G \in [Nat -> [V -> V]], NEW n \in Nat
  PROVE  \E f : Recursion(f, V, a, G, n)
<1> DEFINE Has(k) == \E f \in [0 .. k -> V] : /\ f[0] = a
                                              /\ \A i \in 1 .. k : f[i] = G[i][f[i - 1]]
<1> DEFINE S == {k \in Nat : ~Has(k)}
<1>1. Has(0)
  <2> DEFINE f == [i \in 0 .. 0 |-> a]
  <2>1. f \in [0 .. 0 -> V] /\ f[0] = a /\ \A i \in 1 .. 0 : f[i] = G[i][f[i - 1]]
    OBVIOUS
  <2> HIDE DEF f
  <2>2. QED
    BY <2>1
<1>2. ASSUME NEW k \in Nat, Has(k) PROVE Has(k + 1)
  <2>1. PICK f \in [0 .. k -> V] : /\ f[0] = a
                                   /\ \A i \in 1 .. k : f[i] = G[i][f[i - 1]]
    BY <1>2
  <2> DEFINE g == [i \in 0 .. k + 1 |-> IF i = k + 1 THEN G[k + 1][f[k]] ELSE f[i]]
  <2>2. f[k] \in V /\ G[k + 1][f[k]] \in V
    OBVIOUS
  <2>3. g \in [0 .. k + 1 -> V]
    BY <2>2
  <2>4. g[0] = a
    BY <2>1
  <2>5. \A i \in 1 .. k + 1 : g[i] = G[i][g[i - 1]]
    <3>1. TAKE i \in 1 .. k + 1
    <3>2. i \in 0 .. k + 1 /\ i - 1 \in 0 .. k + 1 /\ i - 1 # k + 1
      OBVIOUS
    <3>3. g[i - 1] = f[i - 1] /\ g[i] = IF i = k + 1 THEN G[k + 1][f[k]] ELSE f[i]
      BY <3>2
    <3> HIDE DEF g
    <3>4. CASE i = k + 1
      BY <3>3, <3>4
    <3>5. CASE i # k + 1
      BY <2>1, <3>3, <3>5
    <3>6. QED
      BY <3>4, <3>5
  <2> HIDE DEF g
  <2>6. QED
    BY <2>3, <2>4, <2>5
<1> HIDE DEF Has
<1>3. S = {}
  <2>1. SUFFICES ASSUME S # {} PROVE FALSE
    OBVIOUS
  <2>2. PICK x \in S : \A y \in S : x <= y
    BY <2>1, LeastNat
  <2>3. x # 0 /\ x - 1 \in Nat /\ x - 1 \notin S
    BY <1>1, <2>2
  <2>4. Has(x - 1)
    BY <2>3
  <2>5. Has(x - 1 + 1)
    BY <1>2, <2>3, <2>4
  <2>6. QED
    BY <2>2, <2>5
<1>4. QED
  BY <1>3 DEF Has, Recursion

-----------------------------------------------------------------------------
(* Lists of presets.                                                       *)

PresetSet == [id : DefaultIds \cup Customs, isCustom : BOOLEAN, widgets : SUBSET Widgets]

(* f is the function in Without.                                           *)
WithoutNext(f, s, id, n) ==
  IF n = 0 THEN <<>>
  ELSE IF s[n].id = id THEN f[n - 1] ELSE Append(f[n - 1], s[n])
WithoutRec(f, s, id) == f = [n \in 0 .. Len(s) |-> WithoutNext(f, s, id, n)]

(* It exists.                                                              *)
LEMMA WithoutExists ==
  ASSUME NEW s \in PresetLists, NEW id
  PROVE  \E f : WithoutRec(f, s, id)
<1> DEFINE V == Seq(PresetSet)
<1> DEFINE G == [n \in Nat |-> [l \in V |->
                   IF n \in 1 .. Len(s) THEN IF s[n].id = id THEN l ELSE Append(l, s[n])
                   ELSE l]]
<1>1. <<>> \in V /\ Len(s) \in Nat /\ s \in Seq(PresetSet)
  BY DEF PresetLists, PresetSet
<1>2. G \in [Nat -> [V -> V]]
  <2>1. ASSUME NEW n \in 1 .. Len(s), NEW l \in V
        PROVE  Append(l, s[n]) \in V
    <3>1. s[n] \in PresetSet
      BY <1>1
    <3>2. QED
      BY <3>1
  <2> HIDE DEF V
  <2>2. QED
    BY <2>1
<1> HIDE DEF V
<1>3. \A n \in 1 .. Len(s), l \in V : G[n][l] = IF s[n].id = id THEN l ELSE Append(l, s[n])
  BY <1>1
<1> HIDE DEF G
<1>4. PICK f \in [0 .. Len(s) -> V] :
        /\ f[0] = <<>>
        /\ \A i \in 1 .. Len(s) : f[i] = G[i][f[i - 1]]
  <2> DEFINE a == <<>>
  <2> DEFINE len == Len(s)
  <2>1. a \in V /\ len \in Nat
    BY <1>1
  <2> HIDE DEF a, len
  <2>2. \E f : Recursion(f, V, a, G, len)
    BY <1>2, <2>1, RecursionExists
  <2>3. QED
    BY <2>2 DEF a, len, Recursion
<1>5. \A i \in 1 .. Len(s) :
        f[i] = IF s[i].id = id THEN f[i - 1] ELSE Append(f[i - 1], s[i])
  <2>1. TAKE i \in 1 .. Len(s)
  <2>2. i - 1 \in 0 .. Len(s)
    BY <1>1
  <2>3. f[i - 1] \in V
    BY <1>4, <2>2
  <2>4. QED
    BY <1>3, <1>4, <2>3
<1>6. \A n \in 0 .. Len(s) : f[n] = WithoutNext(f, s, id, n)
  <2>1. ASSUME NEW n \in 0 .. Len(s) PROVE n = 0 \/ n \in 1 .. Len(s)
    BY <1>1
  <2>2. QED
    BY <1>4, <1>5, <2>1 DEF WithoutNext
<1>7. WithoutRec(f, s, id)
  BY <1>4, <1>6 DEF WithoutRec
<1>8. QED
  BY <1>7

(* The list without an id: the other presets, none of them new.            *)
LEMMA WithoutKeeps ==
  ASSUME NEW s \in PresetLists, NEW id
  PROVE  /\ Without(s, id) \in PresetLists
         /\ \A k \in DOMAIN Without(s, id) :
              \E j \in DOMAIN s : s[j] = Without(s, id)[k] /\ s[j].id # id
         /\ \A j \in DOMAIN s : s[j].id # id =>
              \E k \in DOMAIN Without(s, id) : Without(s, id)[k] = s[j]
<1> DEFINE f == CHOOSE g : WithoutRec(g, s, id)
<1>1. Without(s, id) = f[Len(s)]
  BY DEF Without, WithoutRec, WithoutNext
<1>2. WithoutRec(f, s, id)
  BY WithoutExists
<1> HIDE DEF f
<1> DEFINE Good(n) ==
      /\ f[n] \in Seq(PresetSet)
      /\ \A k \in 1 .. Len(f[n]) : \E j \in 1 .. n : s[j] = f[n][k] /\ s[j].id # id
      /\ \A j \in 1 .. n : s[j].id # id => \E k \in 1 .. Len(f[n]) : f[n][k] = s[j]
<1>3. s \in Seq(PresetSet) /\ Len(s) \in Nat /\ DOMAIN s = 1 .. Len(s)
  BY DEF PresetLists, PresetSet
<1>4. Good(0)
  <2>1. f[0] = <<>>
    BY <1>2, <1>3 DEF WithoutRec, WithoutNext
  <2>2. QED
    BY <2>1
<1>5. ASSUME NEW n \in 1 .. Len(s), Good(n - 1) PROVE Good(n)
  <2>1. f[n] = IF s[n].id = id THEN f[n - 1] ELSE Append(f[n - 1], s[n])
    <3>1. f[n] = WithoutNext(f, s, id, n)
      BY <1>2, <1>3 DEF WithoutRec
    <3>2. n # 0
      BY <1>3
    <3>3. QED
      BY <3>1, <3>2 DEF WithoutNext
  <2>2. s[n] \in PresetSet
    BY <1>3
  <2>3. CASE s[n].id = id
    <3>1. f[n] = f[n - 1]
      BY <2>1, <2>3
    <3> DEFINE old == f[n - 1]
    <3>2. /\ old \in Seq(PresetSet)
          /\ \A k \in 1 .. Len(old) : \E j \in 1 .. n - 1 : s[j] = old[k] /\ s[j].id # id
          /\ \A j \in 1 .. n - 1 : s[j].id # id => \E k \in 1 .. Len(old) : old[k] = s[j]
      BY <1>5
    <3>3. n \in Nat /\ 1 .. n - 1 \subseteq 1 .. n /\ \A j \in 1 .. n : j = n \/ j \in 1 .. n - 1
      BY <1>3
    <3> HIDE DEF old
    <3>4. Good(n) <=>
            /\ old \in Seq(PresetSet)
            /\ \A k \in 1 .. Len(old) : \E j \in 1 .. n : s[j] = old[k] /\ s[j].id # id
            /\ \A j \in 1 .. n : s[j].id # id => \E k \in 1 .. Len(old) : old[k] = s[j]
      BY <3>1 DEF old
    <3> HIDE DEF Good
    <3>5. QED
      BY <2>3, <3>2, <3>3, <3>4
  <2>4. CASE s[n].id # id
    <3> DEFINE old == f[n - 1]
    <3>1. f[n] = Append(old, s[n]) /\ old \in Seq(PresetSet)
      BY <1>5, <2>1, <2>4
    <3> DEFINE new == f[n]
    <3>2. /\ new \in Seq(PresetSet) /\ Len(new) = Len(old) + 1 /\ Len(old) \in Nat
          /\ new[Len(old) + 1] = s[n]
          /\ \A k \in 1 .. Len(old) : new[k] = old[k]
      BY <2>2, <3>1
    <3>3. /\ \A k \in 1 .. Len(old) : \E j \in 1 .. n - 1 : s[j] = old[k] /\ s[j].id # id
          /\ \A j \in 1 .. n - 1 : s[j].id # id => \E k \in 1 .. Len(old) : old[k] = s[j]
      BY <1>5
    <3>4. n \in Nat /\ n >= 1 /\ n \in 1 .. n
      BY <1>3
    <3> HIDE DEF old, new
    <3>5. \A k \in 1 .. Len(new) : \E j \in 1 .. n : s[j] = new[k] /\ s[j].id # id
      <4>1. TAKE k \in 1 .. Len(new)
      <4>2. CASE k = Len(old) + 1
        BY <2>4, <3>2, <3>4, <4>2
      <4>3. CASE k # Len(old) + 1
        <5>1. k \in 1 .. Len(old)
          BY <3>2, <4>3
        <5>2. PICK j \in 1 .. n - 1 : s[j] = old[k] /\ s[j].id # id
          BY <3>3, <5>1
        <5>3. j \in 1 .. n /\ new[k] = old[k]
          BY <3>2, <3>4, <5>1
        <5>4. QED
          BY <5>2, <5>3
      <4>4. QED
        BY <4>2, <4>3
    <3>6. ASSUME NEW j \in 1 .. n, s[j].id # id PROVE \E k \in 1 .. Len(new) : new[k] = s[j]
      <4>1. CASE j = n
        <5>1. Len(old) + 1 \in 1 .. Len(new)
          BY <3>2
        <5>2. QED
          BY <3>2, <4>1, <5>1
      <4>2. CASE j # n
        <5>1. j \in 1 .. n - 1
          BY <3>4, <4>2
        <5>2. PICK k \in 1 .. Len(old) : old[k] = s[j]
          BY <3>3, <3>6, <5>1
        <5>3. k \in 1 .. Len(new) /\ new[k] = old[k]
          BY <3>2
        <5>4. QED
          BY <5>2, <5>3
      <4>3. QED
        BY <4>1, <4>2
    <3>7. QED
      BY <3>2, <3>5, <3>6 DEF new
  <2>5. QED
    BY <2>3, <2>4
<1> HIDE DEF Good
<1> DEFINE S == {n \in 0 .. Len(s) : ~Good(n)}
<1>6. S = {}
  <2>1. SUFFICES ASSUME S # {} PROVE FALSE
    OBVIOUS
  <2>2. S \in SUBSET Nat
    OBVIOUS
  <2>3. PICK x \in S : \A y \in S : x <= y
    BY <2>1, <2>2, LeastNat
  <2>4. x # 0 /\ x \in 1 .. Len(s) /\ x - 1 \in 0 .. Len(s) /\ x - 1 \notin S
    BY <1>3, <1>4, <2>3
  <2>5. Good(x - 1)
    BY <2>4
  <2>6. QED
    BY <1>5, <2>3, <2>4, <2>5
<1>7. Good(Len(s))
  BY <1>3, <1>6
<1>8. /\ Without(s, id) \in Seq(PresetSet)
      /\ \A k \in 1 .. Len(Without(s, id)) :
           \E j \in 1 .. Len(s) : s[j] = Without(s, id)[k] /\ s[j].id # id
      /\ \A j \in 1 .. Len(s) : s[j].id # id =>
           \E k \in 1 .. Len(Without(s, id)) : Without(s, id)[k] = s[j]
  BY <1>1, <1>7 DEF Good
<1>9. DOMAIN Without(s, id) = 1 .. Len(Without(s, id))
  BY <1>8
<1>10. PresetLists = Seq(PresetSet)
  BY DEF PresetLists, PresetSet
<1>11. QED
  BY <1>3, <1>8, <1>9, <1>10

(* A list as the page has it: the built-in presets are never missing.      *)
Full(presets) ==
  /\ presets # <<>> /\ DefaultIds \subseteq IdsOf(presets)
  /\ \A i \in DOMAIN presets : presets[i].isCustom <=> presets[i].id \in Customs

(* Presets are lost by nobody who had them, short of removing them.        *)
Kept ==
  /\ stored.presets = <<>> \/ Full(stored.presets)
  /\ \A t \in Tabs :
       /\ page[t].mounted => /\ Full(page[t].presets)
                             /\ known[t] \ removed[t] \subseteq IdsOf(page[t].presets)
       /\ ~page[t].mounted => page[t].unsaved = {}

LInv == TypeOK /\ Kept /\ StoredIsShown

(* The built-in presets are a full list.                                   *)
LEMMA PresetsFull == Presets \in PresetLists /\ Full(Presets) /\ First \in DefaultIds
<1>1. /\ Presets \in Seq([id : DefaultIds, isCustom : {FALSE}, widgets : SUBSET Widgets])
      /\ Presets # <<>> /\ DefaultIds \cap Customs = {}
  BY LayoutAssumption
<1> DEFINE R == [id : DefaultIds, isCustom : {FALSE}, widgets : SUBSET Widgets]
<1>2. /\ R \subseteq PresetSet
      /\ \A p \in R : p.id \in DefaultIds /\ p.isCustom = FALSE
  BY DEF PresetSet
<1> HIDE DEF R
<1>3. Presets \in Seq(R)
  BY <1>1 DEF R
<1>4. /\ DOMAIN Presets = 1 .. Len(Presets) /\ Len(Presets) \in Nat /\ Len(Presets) > 0
      /\ \A i \in DOMAIN Presets : Presets[i] \in R
  BY <1>1, <1>3
<1>5. Presets \in Seq(PresetSet)
  BY <1>2, <1>3, SeqMonotonic
<1>6. \A i \in DOMAIN Presets : Presets[i].id \in DefaultIds /\ ~Presets[i].isCustom
  BY <1>2, <1>4
<1>7. First \in DefaultIds
  BY <1>4, <1>6 DEF First
<1>8. Full(Presets)
  BY <1>1, <1>6 DEF Full, DefaultIds
<1>9. QED
  BY <1>5, <1>7, <1>8 DEF PresetLists, PresetSet

(* The preset shown is one of the list.                                    *)
LEMMA ActiveListed ==
  ASSUME NEW t \in Tabs, page[t].presets \in PresetLists, page[t].presets # <<>>
  PROVE  \E i \in DOMAIN page[t].presets : ActivePreset(t) = page[t].presets[i]
<1> DEFINE s == page[t].presets
<1> DEFINE found == {i \in DOMAIN s : s[i].id = page[t].active}
<1>1. DOMAIN s \subseteq Nat /\ 1 \in DOMAIN s
  <2>1. s \in Seq(PresetSet) /\ s # <<>>
    BY DEF PresetLists, PresetSet
  <2> HIDE DEF s
  <2>2. QED
    BY <2>1
<1> HIDE DEF s
<1>2. CASE found = {}
  BY <1>1, <1>2 DEF ActivePreset, s
<1>3. CASE found # {}
  <2>1. found \in SUBSET Nat
    BY <1>1
  <2> HIDE DEF found
  <2>2. \E i \in found : \A j \in found : i <= j
    BY <1>3, <2>1, LeastNat
  <2> DEFINE least == CHOOSE i \in found : \A j \in found : i <= j
  <2>3. least \in found
    BY <2>2
  <2>4. ActivePreset(t) = s[least]
    BY <1>3 DEF ActivePreset, s, found
  <2>5. least \in DOMAIN s
    BY <2>3 DEF found
  <2> HIDE DEF least
  <2>6. QED
    BY <2>4, <2>5 DEF s
<1>4. QED
  BY <1>2, <1>3

(* Removing a custom preset leaves a full list with the other ids.         *)
LEMMA WithoutFull ==
  ASSUME NEW s \in PresetLists, Full(s), NEW id \in Customs
  PROVE  /\ Without(s, id) \in PresetLists /\ Full(Without(s, id))
         /\ IdsOf(s) \ {id} \subseteq IdsOf(Without(s, id))
<1> DEFINE w == Without(s, id)
<1>1. /\ w \in PresetLists
      /\ \A k \in DOMAIN w : \E j \in DOMAIN s : s[j] = w[k] /\ s[j].id # id
      /\ \A j \in DOMAIN s : s[j].id # id => \E k \in DOMAIN w : w[k] = s[j]
  BY WithoutKeeps
<1> HIDE DEF w
<1>2. IdsOf(s) \ {id} \subseteq IdsOf(w)
  BY <1>1 DEF IdsOf
<1>3. id \notin DefaultIds /\ DefaultIds # {}
  BY LayoutAssumption, PresetsFull
<1>4. DefaultIds \subseteq IdsOf(w)
  BY <1>2, <1>3 DEF Full
<1>5. w # <<>>
  BY <1>3, <1>4 DEF IdsOf
<1>6. \A k \in DOMAIN w : w[k].isCustom <=> w[k].id \in Customs
  BY <1>1 DEF Full
<1>7. QED
  BY <1>1, <1>2, <1>4, <1>5, <1>6 DEF Full, w

(* So does a new preset at the end.                                        *)
LEMMA AppendFull ==
  ASSUME NEW s \in PresetLists, Full(s), NEW id \in Customs, NEW widgets \in SUBSET Widgets
  PROVE  LET new == Append(s, Preset(id, TRUE, widgets)) IN
         new \in PresetLists /\ Full(new) /\ IdsOf(s) \cup {id} \subseteq IdsOf(new)
<1> DEFINE p == Preset(id, TRUE, widgets)
<1> DEFINE new == Append(s, p)
<1>1. p \in PresetSet /\ p.id = id /\ p.isCustom = TRUE
  BY DEF Preset, PresetSet
<1>2. s \in Seq(PresetSet)
  BY DEF PresetLists, PresetSet
<1> HIDE DEF p
<1>3. /\ new \in Seq(PresetSet) /\ DOMAIN new = 1 .. Len(s) + 1 /\ Len(s) \in Nat
      /\ DOMAIN s = 1 .. Len(s)
      /\ new[Len(s) + 1] = p /\ \A i \in DOMAIN s : new[i] = s[i]
  BY <1>1, <1>2
<1> HIDE DEF new
<1>4. \A i \in DOMAIN new : i \in DOMAIN s \/ i = Len(s) + 1
  BY <1>3
<1>5. IdsOf(s) \cup {id} \subseteq IdsOf(new)
  <2>1. IdsOf(s) \subseteq IdsOf(new)
    BY <1>3 DEF IdsOf
  <2>2. id \in IdsOf(new)
    BY <1>1, <1>3 DEF IdsOf
  <2>3. QED
    BY <2>1, <2>2
<1>6. \A i \in DOMAIN new : new[i].isCustom <=> new[i].id \in Customs
  BY <1>1, <1>3, <1>4 DEF Full
<1>7. new # <<>>
  BY <1>3
<1>8. QED
  BY <1>3, <1>5, <1>6, <1>7 DEF Full, new, p, PresetLists, PresetSet

(* And a change of widgets, as ToggleWidget makes it.                      *)
Mapped(s, id, w) ==
  LET change(p) == IF p.id = id THEN [p EXCEPT !.widgets = Toggled(@, w)] ELSE p
  IN [i \in DOMAIN s |-> change(s[i])]

LEMMA MapFull ==
  ASSUME NEW s \in PresetLists, Full(s), NEW id, NEW w \in Widgets
  PROVE  /\ Mapped(s, id, w) \in PresetLists /\ Full(Mapped(s, id, w))
         /\ IdsOf(s) = IdsOf(Mapped(s, id, w))
<1> DEFINE change(p) == IF p.id = id THEN [p EXCEPT !.widgets = Toggled(@, w)] ELSE p
<1> DEFINE new == [i \in DOMAIN s |-> change(s[i])]
<1>1. ASSUME NEW p \in PresetSet
      PROVE  change(p) \in PresetSet /\ change(p).id = p.id /\ change(p).isCustom = p.isCustom
  BY <1>1 DEF PresetSet, Toggled
<1>2. s \in Seq(PresetSet)
  BY DEF PresetLists, PresetSet
<1>3. Len(s) \in Nat /\ DOMAIN s = 1 .. Len(s) /\ \A i \in DOMAIN s : s[i] \in PresetSet
  BY <1>2
<1> HIDE DEF change
<1>4. /\ DOMAIN new = DOMAIN s
      /\ \A i \in DOMAIN s : /\ new[i] \in PresetSet /\ new[i].id = s[i].id
                             /\ new[i].isCustom = s[i].isCustom
  BY <1>1, <1>3
<1>5. new \in [1 .. Len(s) -> PresetSet]
  BY <1>1, <1>3
<1>6. new \in Seq(PresetSet)
  BY <1>3, <1>5
<1> HIDE DEF new
<1>7. IdsOf(new) = IdsOf(s)
  BY <1>4 DEF IdsOf
<1>8. new # <<>>
  <2>1. Len(s) > 0
    BY <1>2, <1>3 DEF Full
  <2>2. 1 \in DOMAIN new
    BY <1>3, <1>4, <2>1
  <2>3. QED
    BY <2>2
<1>9. QED
  BY <1>4, <1>6, <1>7, <1>8 DEF Full, new, change, Mapped, PresetLists, PresetSet

(* A step of one tab, which makes its page a new one.                      *)
LEMMA OnePage ==
  ASSUME LInv, NEW t \in Tabs, NEW new \in Pages, page' = [page EXCEPT ![t] = new],
         /\ stored' \in [presets : PresetLists, active : DefaultIds \cup Customs \cup {None},
                         columns : SUBSET Columns]
         /\ stored'.presets = <<>> \/ Full(stored'.presets)
         /\ writer' \in Tabs \cup {None}
         /\ known' \in [Tabs -> SUBSET Customs] /\ removed' \in [Tabs -> SUBSET Customs]
         /\ used' \subseteq Customs /\ changes' \in 0 .. MaxChanges /\ faults' \in 0 .. MaxFaults,
         \A u \in Tabs \ {t} : /\ known'[u] = known[u] /\ removed'[u] = removed[u]
                               /\ writer' = u => /\ writer = u
                                                 /\ stored'.presets = stored.presets
                                                 /\ stored'.active = stored.active,
         new.mounted => /\ Full(new.presets) /\ new.columns # {}
                        /\ known'[t] \ removed'[t] \subseteq IdsOf(new.presets),
         ~new.mounted => new.unsaved = {},
         writer' = t /\ new.mounted /\ "presets" \notin new.unsaved
           => stored'.presets = new.presets /\ stored'.active = new.active
  PROVE  LInv'
<1>1. page \in [Tabs -> Pages]
  BY DEF LInv, TypeOK
<1>2. /\ page' \in [Tabs -> Pages] /\ page'[t] = new
      /\ \A u \in Tabs \ {t} : page'[u] = page[u]
  BY <1>1
<1>3. \A u \in Tabs : page'[u].mounted => page'[u].presets # <<>> /\ page'[u].columns # {}
  BY <1>2 DEF LInv, TypeOK, Full
<1>4. TypeOK'
  BY <1>2, <1>3 DEF TypeOK, Pages, PresetLists, DefaultIds, IdsOf
<1>5. Kept'
  <2>1. ASSUME NEW u \in Tabs
        PROVE  /\ page'[u].mounted => /\ Full(page'[u].presets)
                                      /\ known'[u] \ removed'[u] \subseteq IdsOf(page'[u].presets)
               /\ ~page'[u].mounted => page'[u].unsaved = {}
    BY <1>2, <2>1 DEF LInv, Kept
  <2>2. QED
    BY <2>1 DEF Kept, Full, IdsOf, DefaultIds
<1>6. StoredIsShown'
  <2>1. ASSUME NEW u \in Tabs, writer' = u, page'[u].mounted, "presets" \notin page'[u].unsaved
        PROVE  stored'.presets = page'[u].presets /\ stored'.active = page'[u].active
    BY <1>2, <2>1 DEF LInv, StoredIsShown
  <2>2. QED
    BY <2>1 DEF StoredIsShown
<1>7. QED
  BY <1>4, <1>5, <1>6 DEF LInv

(* A change of the presets of a tab that shows the page.                   *)
LEMMA ChangeKeeps ==
  ASSUME LInv, NEW t \in Tabs, Ready(t), Changing,
         NEW p \in PresetLists, Full(p), NEW a \in DefaultIds \cup Customs,
         NEW m \in {None, "presets", "customize", "new"}, Change(t, p, a, m),
         UNCHANGED <<stored, writer, faults>>, used' \subseteq Customs,
         known' \in [Tabs -> SUBSET Customs], removed' \in [Tabs -> SUBSET Customs],
         \A u \in Tabs \ {t} : known'[u] = known[u] /\ removed'[u] = removed[u],
         known'[t] \ removed'[t] \subseteq IdsOf(p)
  PROVE  LInv'
<1> DEFINE due == IF p # page[t].presets \/ a # page[t].active
                  THEN page[t].unsaved \cup {"presets"} ELSE page[t].unsaved
<1> DEFINE new == [page[t] EXCEPT !.presets = p, !.active = a, !.modal = m, !.unsaved = due]
<1>1. /\ page \in [Tabs -> Pages] /\ page[t] \in Pages /\ page[t].mounted
      /\ page[t].unsaved = {} /\ page[t].columns # {}
  BY DEF LInv, TypeOK, Ready
<1>2. page' = [page EXCEPT ![t] = new]
  BY <1>1 DEF Change
<1>3. due \in SUBSET {"presets", "columns"}
  BY <1>1
<1>4. p # page[t].presets \/ a # page[t].active => "presets" \in due
  OBVIOUS
<1> HIDE DEF due
<1>5. /\ new \in Pages /\ new.mounted /\ new.presets = p /\ new.active = a
      /\ new.unsaved = due /\ new.columns # {}
  BY <1>1, <1>3 DEF Pages
<1>6. changes' \in 0 .. MaxChanges /\ faults' \in 0 .. MaxFaults
  BY LayoutAssumption DEF LInv, TypeOK, Changing
<1>7. writer = t /\ "presets" \notin due => stored.presets = p /\ stored.active = a
  BY <1>1, <1>4 DEF LInv, StoredIsShown
<1>8. /\ stored' \in [presets : PresetLists, active : DefaultIds \cup Customs \cup {None},
                      columns : SUBSET Columns]
      /\ stored'.presets = <<>> \/ Full(stored'.presets)
      /\ writer' \in Tabs \cup {None}
  BY DEF LInv, TypeOK, Kept
<1> HIDE DEF new
<1>9. QED
  BY <1>2, <1>5, <1>6, <1>7, <1>8, OnePage

(* A step of a page that leaves the presets and what is due of them alone. *)
LEMMA SamePresets ==
  ASSUME LInv, NEW t \in Tabs, NEW new \in Pages, page' = [page EXCEPT ![t] = new],
         new.mounted = page[t].mounted, new.presets = page[t].presets,
         new.active = page[t].active,
         "presets" \in page[t].unsaved => "presets" \in new.unsaved,
         new.mounted => new.columns # {}, ~new.mounted => new.unsaved = {},
         stored' \in [presets : PresetLists, active : DefaultIds \cup Customs \cup {None},
                      columns : SUBSET Columns],
         stored'.presets = stored.presets, stored'.active = stored.active,
         changes' \in 0 .. MaxChanges, UNCHANGED <<writer, known, removed, used, faults>>
  PROVE  LInv'
<1>1. /\ new.mounted => Full(new.presets) /\ known[t] \ removed[t] \subseteq IdsOf(new.presets)
      /\ writer = t /\ new.mounted /\ "presets" \notin new.unsaved
           => stored.presets = new.presets /\ stored.active = new.active
      /\ stored.presets = <<>> \/ Full(stored.presets)
  BY DEF LInv, Kept, StoredIsShown
<1>2. /\ writer' \in Tabs \cup {None}
      /\ known' \in [Tabs -> SUBSET Customs] /\ removed' \in [Tabs -> SUBSET Customs]
      /\ used' \subseteq Customs /\ faults' \in 0 .. MaxFaults
  BY DEF LInv, TypeOK
<1>3. /\ known'[t] = known[t] /\ removed'[t] = removed[t] /\ writer' = writer
      /\ \A u \in Tabs : known'[u] = known[u] /\ removed'[u] = removed[u]
  OBVIOUS
<1>4. QED
  BY <1>1, <1>2, <1>3, OnePage

(* Showing and leaving the page.                                           *)
LEMMA MountKeeps ==
  ASSUME LInv, NEW t \in Tabs, Mount(t) \/ Unmount(t)
  PROVE  LInv'
<1>0. /\ page \in [Tabs -> Pages]
      /\ stored \in [presets : PresetLists, active : DefaultIds \cup Customs \cup {None},
                     columns : SUBSET Columns]
      /\ writer \in Tabs \cup {None}
      /\ known \in [Tabs -> SUBSET Customs] /\ removed \in [Tabs -> SUBSET Customs]
      /\ used \subseteq Customs /\ changes \in 0 .. MaxChanges /\ faults \in 0 .. MaxFaults
      /\ stored.presets = <<>> \/ Full(stored.presets)
  BY DEF LInv, TypeOK, Kept
<1>1. /\ Unmounted \in Pages /\ Unmounted.mounted = FALSE /\ Unmounted.unsaved = {}
  BY PresetsFull, LayoutAssumption DEF Unmounted, Pages
<1>2. CASE Mount(t)
  <2> DEFINE new == [Unmounted EXCEPT !.mounted = TRUE, !.presets = LoadPresets,
                                      !.active = LoadActive, !.columns = LoadColumns,
                                      !.unsaved = {"presets", "columns"}]
  <2>1. /\ page' = [page EXCEPT ![t] = new]
        /\ known' = [known EXCEPT ![t] = IdsOf(LoadPresets) \cap Customs]
        /\ removed' = [removed EXCEPT ![t] = {}]
        /\ UNCHANGED <<stored, writer, used, changes, faults>>
    BY <1>2 DEF Mount
  <2>2. LoadPresets \in PresetLists /\ Full(LoadPresets)
    BY <1>0, PresetsFull DEF LoadPresets
  <2>3. LoadActive \in DefaultIds \cup Customs
    BY <1>0, PresetsFull DEF LoadActive
  <2>4. LoadColumns \in SUBSET Columns /\ LoadColumns # {}
    BY <1>0, LayoutAssumption DEF LoadColumns
  <2>5. /\ new \in Pages /\ new.mounted = TRUE /\ new.presets = LoadPresets
        /\ new.columns = LoadColumns /\ new.unsaved = {"presets", "columns"}
    BY <1>1, <2>2, <2>3, <2>4 DEF Pages
  <2> HIDE DEF new
  <2>6. /\ known' \in [Tabs -> SUBSET Customs] /\ removed' \in [Tabs -> SUBSET Customs]
        /\ known'[t] = IdsOf(LoadPresets) \cap Customs
        /\ \A u \in Tabs \ {t} : known'[u] = known[u] /\ removed'[u] = removed[u]
    BY <1>0, <2>1
  <2>7. QED
    BY <1>0, <2>1, <2>2, <2>4, <2>5, <2>6, OnePage
<1>3. CASE Unmount(t)
  <2>1. /\ page' = [page EXCEPT ![t] = Unmounted]
        /\ known' = [known EXCEPT ![t] = {}] /\ removed' = [removed EXCEPT ![t] = {}]
        /\ writer' = IF writer = t THEN None ELSE writer
        /\ UNCHANGED <<stored, used, changes, faults>>
    BY <1>3 DEF Unmount
  <2>2. /\ known' \in [Tabs -> SUBSET Customs] /\ removed' \in [Tabs -> SUBSET Customs]
        /\ \A u \in Tabs \ {t} : known'[u] = known[u] /\ removed'[u] = removed[u]
    BY <1>0, <2>1
  <2>3. writer' \in Tabs \cup {None} /\ \A u \in Tabs \ {t} : writer' = u => writer = u
    BY <1>0, <2>1, LayoutAssumption
  <2>4. QED
    BY <1>0, <1>1, <2>1, <2>2, <2>3, OnePage
<1>4. QED
  BY <1>2, <1>3

(* The effects.                                                            *)
LEMMA SavesKeep ==
  ASSUME LInv, NEW t \in Tabs, SavePresets(t) \/ SaveColumns(t)
  PROVE  LInv'
<1>0. /\ page \in [Tabs -> Pages] /\ page[t] \in Pages
      /\ stored \in [presets : PresetLists, active : DefaultIds \cup Customs \cup {None},
                     columns : SUBSET Columns]
      /\ writer \in Tabs \cup {None}
      /\ known \in [Tabs -> SUBSET Customs] /\ removed \in [Tabs -> SUBSET Customs]
      /\ used \subseteq Customs /\ changes \in 0 .. MaxChanges /\ faults \in 0 .. MaxFaults
      /\ stored.presets = <<>> \/ Full(stored.presets)
  BY DEF LInv, TypeOK, Kept
<1>1. /\ page[t].mounted
      /\ Full(page[t].presets) /\ page[t].columns # {}
      /\ known[t] \ removed[t] \subseteq IdsOf(page[t].presets)
  BY <1>0 DEF SavePresets, SaveColumns, LInv, TypeOK, Kept
<1>2. ASSUME NEW eff \in {"presets", "columns"}
      PROVE  LET new == [page[t] EXCEPT !.unsaved = @ \ {eff}] IN
             /\ new \in Pages /\ new.mounted = page[t].mounted
             /\ new.presets = page[t].presets /\ new.active = page[t].active
             /\ new.columns = page[t].columns /\ new.unsaved = page[t].unsaved \ {eff}
  BY <1>0 DEF Pages
<1>3. CASE SavePresets(t)
  <2> DEFINE new == [page[t] EXCEPT !.unsaved = @ \ {"presets"}]
  <2>1. page' = [page EXCEPT ![t] = new] /\ UNCHANGED <<known, removed, used, changes>>
    BY <1>0, <1>3 DEF SavePresets
  <2>2. /\ new \in Pages /\ new.mounted = page[t].mounted
        /\ new.presets = page[t].presets /\ new.active = page[t].active
        /\ new.columns = page[t].columns /\ new.unsaved = page[t].unsaved \ {"presets"}
    BY <1>2
  <2> HIDE DEF new
  <2>3. \/ /\ stored' = [stored EXCEPT !.presets = page[t].presets, !.active = page[t].active]
           /\ writer' = t /\ faults' = faults
        \/ /\ faults' \in 0 .. MaxFaults /\ writer' = None
           /\ stored' \in {stored, [stored EXCEPT !.presets = page[t].presets]}
    BY <1>0, <1>3, LayoutAssumption DEF SavePresets
  <2>4. /\ stored' \in [presets : PresetLists, active : DefaultIds \cup Customs \cup {None},
                        columns : SUBSET Columns]
        /\ stored'.presets = <<>> \/ Full(stored'.presets)
        /\ faults' \in 0 .. MaxFaults
        /\ \/ /\ writer' = t
              /\ stored'.presets = page[t].presets /\ stored'.active = page[t].active
           \/ writer' = None
    <3>1. page[t].presets \in PresetLists /\ page[t].active \in DefaultIds \cup Customs
      BY <1>0 DEF Pages
    <3>2. QED
      BY <1>0, <1>1, <2>3, <3>1
  <2>5. None \notin Tabs
    BY LayoutAssumption
  <2>6. CASE writer' = t /\ stored'.presets = page[t].presets /\ stored'.active = page[t].active
    BY <1>0, <1>1, <2>1, <2>2, <2>4, <2>6, OnePage
  <2>7. CASE writer' = None
    BY <1>0, <1>1, <2>1, <2>2, <2>4, <2>5, <2>7, OnePage
  <2>8. QED
    BY <2>4, <2>6, <2>7
<1>4. CASE SaveColumns(t)
  <2> DEFINE new == [page[t] EXCEPT !.unsaved = @ \ {"columns"}]
  <2>1. /\ page' = [page EXCEPT ![t] = new]
        /\ stored' = [stored EXCEPT !.columns = page[t].columns]
        /\ UNCHANGED <<writer, known, removed, used, changes, faults>>
    BY <1>0, <1>4 DEF SaveColumns
  <2>2. /\ new \in Pages /\ new.mounted = page[t].mounted
        /\ new.presets = page[t].presets /\ new.active = page[t].active
        /\ new.columns = page[t].columns /\ new.unsaved = page[t].unsaved \ {"columns"}
    BY <1>2
  <2> HIDE DEF new
  <2>3. /\ stored' \in [presets : PresetLists, active : DefaultIds \cup Customs \cup {None},
                        columns : SUBSET Columns]
        /\ stored'.presets = stored.presets /\ stored'.active = stored.active
    <3>1. page[t].columns \in SUBSET Columns
      BY <1>0 DEF Pages
    <3>2. QED
      BY <1>0, <2>1, <3>1
  <2>4. changes' \in 0 .. MaxChanges
    BY <1>0, <2>1
  <2>5. QED
    BY <1>1, <2>1, <2>2, <2>3, <2>4, SamePresets
<1>5. QED
  BY <1>3, <1>4

(* What the operator does with the presets.                                *)
LEMMA PresetsKeep ==
  ASSUME LInv, NEW t \in Tabs,
         \/ \E id \in DefaultIds \cup Customs : SelectPreset(t, id)
         \/ \E w \in Widgets : ToggleWidget(t, w)
         \/ \E id \in Customs : CreatePreset(t, id)
         \/ DeletePreset(t) \/ ResetToDefaults(t)
  PROVE  LInv'
<1> DEFINE s == page[t].presets
<1>0. /\ page[t] \in Pages /\ s \in PresetLists /\ page[t].active \in DefaultIds \cup Customs
      /\ known \in [Tabs -> SUBSET Customs] /\ removed \in [Tabs -> SUBSET Customs]
      /\ used \subseteq Customs
  BY DEF LInv, TypeOK, Pages
<1>1. /\ Ready(t) /\ Changing /\ UNCHANGED <<stored, writer, faults>>
      /\ Full(s) /\ known[t] \ removed[t] \subseteq IdsOf(s)
  BY DEF SelectPreset, ToggleWidget, CreatePreset, DeletePreset, ResetToDefaults, Ready, LInv, Kept
<1>2. ASSUME NEW id \in DefaultIds \cup Customs, SelectPreset(t, id) PROVE LInv'
  <2>1. Change(t, s, id, None) /\ UNCHANGED <<known, removed, used>>
    BY <1>2 DEF SelectPreset
  <2> HIDE DEF s
  <2>2. /\ used' \subseteq Customs
        /\ known' \in [Tabs -> SUBSET Customs] /\ removed' \in [Tabs -> SUBSET Customs]
        /\ \A u \in Tabs : known'[u] = known[u] /\ removed'[u] = removed[u]
    BY <1>0, <2>1
  <2>3. QED
    BY <1>0, <1>1, <2>1, <2>2, ChangeKeeps
<1>3. ASSUME NEW w \in Widgets, ToggleWidget(t, w) PROVE LInv'
  <2> DEFINE new == Mapped(s, ActivePreset(t).id, w)
  <2>1. Change(t, new, page[t].active, "customize") /\ UNCHANGED <<known, removed, used>>
    BY <1>3 DEF ToggleWidget, Mapped
  <2>2. new \in PresetLists /\ Full(new) /\ IdsOf(s) = IdsOf(new)
    BY <1>0, <1>1, MapFull
  <2> HIDE DEF s, new
  <2>3. /\ used' \subseteq Customs
        /\ known' \in [Tabs -> SUBSET Customs] /\ removed' \in [Tabs -> SUBSET Customs]
        /\ \A u \in Tabs : known'[u] = known[u] /\ removed'[u] = removed[u]
    BY <1>0, <2>1
  <2>4. QED
    BY <1>0, <1>1, <2>1, <2>2, <2>3, ChangeKeeps
<1>4. ASSUME NEW id \in Customs, CreatePreset(t, id) PROVE LInv'
  <2> DEFINE widgets == IF page[t].ticked = {} THEN FallbackWidgets ELSE page[t].ticked
  <2> DEFINE new == Append(s, Preset(id, TRUE, widgets))
  <2>1. /\ Change(t, new, id, None)
        /\ used' = used \cup {id} /\ known' = [known EXCEPT ![t] = @ \cup {id}]
        /\ UNCHANGED removed
    BY <1>4 DEF CreatePreset
  <2>2. widgets \in SUBSET Widgets
    BY <1>0, LayoutAssumption DEF Pages
  <2>3. new \in PresetLists /\ Full(new) /\ IdsOf(s) \cup {id} \subseteq IdsOf(new)
    <3> HIDE DEF s, widgets
    <3>1. QED
      BY <1>0, <1>1, <2>2, AppendFull
  <2> HIDE DEF s, new
  <2>4. /\ used' \subseteq Customs
        /\ known' \in [Tabs -> SUBSET Customs] /\ removed' \in [Tabs -> SUBSET Customs]
        /\ known'[t] = known[t] \cup {id} /\ removed'[t] = removed[t]
        /\ \A u \in Tabs \ {t} : known'[u] = known[u] /\ removed'[u] = removed[u]
    BY <1>0, <2>1
  <2>5. known'[t] \ removed'[t] \subseteq IdsOf(new)
    BY <1>1, <2>3, <2>4
  <2>6. QED
    BY <1>0, <1>1, <2>1, <2>3, <2>4, <2>5, ChangeKeeps
<1>5. CASE DeletePreset(t)
  <2> DEFINE id == ActivePreset(t).id
  <2> DEFINE new == Without(s, id)
  <2> DEFINE a == IF page[t].active = id THEN First ELSE page[t].active
  <2>1. /\ Change(t, new, a, "customize") /\ ActivePreset(t).isCustom
        /\ removed' = [removed EXCEPT ![t] = @ \cup {id}] /\ UNCHANGED <<known, used>>
    BY <1>5 DEF DeletePreset
  <2>2. id \in Customs
    <3>1. \E i \in DOMAIN s : ActivePreset(t) = s[i]
      BY <1>0, <1>1, ActiveListed DEF Full
    <3>2. QED
      BY <1>1, <2>1, <3>1 DEF Full
  <2>3. a \in DefaultIds \cup Customs
    BY <1>0, PresetsFull
  <2> HIDE DEF s, id, a
  <2>4. new \in PresetLists /\ Full(new) /\ IdsOf(s) \ {id} \subseteq IdsOf(new)
    BY <1>0, <1>1, <2>2, WithoutFull
  <2> HIDE DEF new
  <2>5. /\ used' \subseteq Customs
        /\ known' \in [Tabs -> SUBSET Customs] /\ removed' \in [Tabs -> SUBSET Customs]
        /\ known'[t] = known[t] /\ removed'[t] = removed[t] \cup {id}
        /\ \A u \in Tabs \ {t} : known'[u] = known[u] /\ removed'[u] = removed[u]
    BY <1>0, <2>1, <2>2
  <2>6. known'[t] \ removed'[t] \subseteq IdsOf(new)
    BY <1>1, <2>4, <2>5
  <2>7. QED
    BY <1>1, <2>1, <2>3, <2>4, <2>5, <2>6, ChangeKeeps
<1>6. CASE ResetToDefaults(t)
  <2>1. /\ Change(t, Presets, First, None)
        /\ removed' = [removed EXCEPT ![t] = @ \cup (IdsOf(s) \ DefaultIds)]
        /\ UNCHANGED <<known, used>>
    BY <1>6 DEF ResetToDefaults
  <2>2. IdsOf(s) \ DefaultIds \subseteq Customs
    <3>1. s \in Seq(PresetSet)
      BY <1>0 DEF PresetLists, PresetSet
    <3> HIDE DEF s
    <3>2. \A i \in DOMAIN s : s[i] \in PresetSet
      BY <3>1
    <3>3. QED
      BY <3>2 DEF IdsOf, PresetSet
  <2> HIDE DEF s
  <2>3. /\ used' \subseteq Customs
        /\ known' \in [Tabs -> SUBSET Customs] /\ removed' \in [Tabs -> SUBSET Customs]
        /\ known'[t] = known[t] /\ removed'[t] = removed[t] \cup (IdsOf(s) \ DefaultIds)
        /\ \A u \in Tabs \ {t} : known'[u] = known[u] /\ removed'[u] = removed[u]
    BY <1>0, <2>1, <2>2
  <2>4. known'[t] \ removed'[t] \subseteq IdsOf(Presets)
    BY <1>1, <2>3 DEF DefaultIds
  <2>5. QED
    BY <1>1, <2>1, <2>3, <2>4, PresetsFull, ChangeKeeps
<1>7. QED
  BY <1>2, <1>3, <1>4, <1>5, <1>6

(* Modals, the form for a new preset, and columns.                         *)
LEMMA OthersKeep ==
  ASSUME LInv, NEW t \in Tabs,
         \/ \E modal \in {None, "presets", "customize", "new"} : SetModal(t, modal)
         \/ \E w \in Widgets : TickWidget(t, w)
         \/ \E c \in Columns : ToggleColumn(t, c)
  PROVE  LInv'
<1>0. /\ page \in [Tabs -> Pages] /\ page[t] \in Pages /\ page[t].mounted
      /\ page[t].columns # {} /\ changes \in 0 .. MaxChanges
      /\ stored \in [presets : PresetLists, active : DefaultIds \cup Customs \cup {None},
                     columns : SUBSET Columns]
      /\ UNCHANGED <<stored, writer, known, removed, used, faults>>
      /\ changes' = changes \/ Changing
  BY DEF LInv, TypeOK, SetModal, TickWidget, ToggleColumn, Ready
<1>0a. changes' \in 0 .. MaxChanges
  BY <1>0, LayoutAssumption DEF Changing
<1>1. ASSUME NEW modal \in {None, "presets", "customize", "new"}, SetModal(t, modal) PROVE LInv'
  <2> DEFINE new == [page[t] EXCEPT !.modal = modal]
  <2>1. page' = [page EXCEPT ![t] = new]
    BY <1>0, <1>1 DEF SetModal
  <2>2. /\ new \in Pages /\ new.mounted = page[t].mounted /\ new.presets = page[t].presets
        /\ new.active = page[t].active /\ new.unsaved = page[t].unsaved
        /\ new.columns = page[t].columns
    BY <1>0 DEF Pages
  <2> HIDE DEF new
  <2>3. QED
    BY <1>0, <1>0a, <2>1, <2>2, SamePresets
<1>2. ASSUME NEW w \in Widgets, TickWidget(t, w) PROVE LInv'
  <2> DEFINE new == [page[t] EXCEPT !.ticked = Toggled(@, w)]
  <2>1. page' = [page EXCEPT ![t] = new]
    BY <1>0, <1>2 DEF TickWidget
  <2>2. /\ new \in Pages /\ new.mounted = page[t].mounted /\ new.presets = page[t].presets
        /\ new.active = page[t].active /\ new.unsaved = page[t].unsaved
        /\ new.columns = page[t].columns
    BY <1>0 DEF Pages, Toggled
  <2> HIDE DEF new
  <2>3. QED
    BY <1>0, <1>0a, <2>1, <2>2, SamePresets
<1>3. ASSUME NEW c \in Columns, ToggleColumn(t, c) PROVE LInv'
  <2> DEFINE new == [page[t] EXCEPT !.columns = Toggled(@, c), !.unsaved = @ \cup {"columns"}]
  <2>1. page' = [page EXCEPT ![t] = new] /\ page[t].columns # {c}
    BY <1>0, <1>3 DEF ToggleColumn
  <2>2. page[t].columns \in SUBSET Columns /\ page[t].unsaved \in SUBSET {"presets", "columns"}
    BY <1>0 DEF Pages
  <2>3. Toggled(page[t].columns, c) \in SUBSET Columns /\ Toggled(page[t].columns, c) # {}
    BY <1>0, <2>1, <2>2 DEF Toggled
  <2>4. /\ new \in Pages /\ new.mounted = page[t].mounted /\ new.presets = page[t].presets
        /\ new.active = page[t].active /\ new.unsaved = page[t].unsaved \cup {"columns"}
        /\ new.columns # {}
    BY <1>0, <2>2, <2>3 DEF Pages
  <2> HIDE DEF new
  <2>5. QED
    BY <1>0, <1>0a, <2>1, <2>4, SamePresets
<1>4. QED
  BY <1>1, <1>2, <1>3

(* The start.                                                              *)
LEMMA InitKeeps == Init => LInv
<1> SUFFICES ASSUME Init PROVE LInv
  OBVIOUS
<1>1. Unmounted \in Pages /\ Unmounted.mounted = FALSE /\ Unmounted.unsaved = {}
  BY PresetsFull, LayoutAssumption DEF Unmounted, Pages
<1>2. <<>> \in PresetLists
  BY DEF PresetLists
<1>3. TypeOK
  BY <1>1, <1>2, LayoutAssumption DEF Init, TypeOK
<1>4. Kept /\ StoredIsShown
  BY <1>1 DEF Init, Kept, StoredIsShown
<1>5. QED
  BY <1>3, <1>4 DEF LInv

(* The inductive invariant.                                                *)
LEMMA Invariant == Spec => []LInv
<1>1. LInv /\ Next => LInv'
  BY MountKeeps, SavesKeep, PresetsKeep, OthersKeep DEF Next
<1>2. LInv /\ UNCHANGED vars => LInv'
  BY DEF LInv, TypeOK, Kept, StoredIsShown, vars, Full, IdsOf
<1>3. QED
  BY InitKeeps, <1>1, <1>2, PTL DEF Spec

(* Everything keeps its type; a page shown has presets, and columns.       *)
THEOREM TypeCorrect == Spec => []TypeOK
<1>1. LInv => TypeOK
  BY DEF LInv
<1>2. QED
  BY Invariant, <1>1, PTL

(* Local storage holds what the tab that wrote last shows, for any number  *)
(* of tabs and presets: every change of them makes the effect due that saves*)
(* them (Dashboard.tsx:184-189).                                           *)
THEOREM StorageShown == Spec => []StoredIsShown
<1>1. LInv => StoredIsShown
  BY DEF LInv
<1>2. QED
  BY Invariant, <1>1, PTL

(* A tab that had a preset, and whose operator did not remove it, never    *)
(* deletes it from local storage by saving (Dashboard.tsx:146, 186).       *)
THEOREM LostOnlyByStale == Spec => LostOnlyByStaleTabs
<1>1. ASSUME LInv, NEW t \in Tabs, NEW id \in Customs,
             id \in IdsOf(stored.presets), id \notin IdsOf(stored'.presets), SavePresets(t)
      PROVE  id \in removed[t] \/ id \notin known[t]
  <2>1. page[t].mounted /\ known[t] \ removed[t] \subseteq IdsOf(page[t].presets)
    BY <1>1 DEF LInv, Kept, SavePresets
  <2>2. stored'.presets \in {stored.presets, page[t].presets}
    BY <1>1 DEF SavePresets, LInv, TypeOK
  <2>3. QED
    BY <1>1, <2>1, <2>2
<1>2. LInv =>
        [\A t \in Tabs, id \in Customs :
           (id \in IdsOf(stored.presets) /\ id \notin IdsOf(stored'.presets) /\ SavePresets(t))
           => id \in removed[t] \/ id \notin known[t]]_vars
  BY <1>1
<1>3. QED
  BY <1>2, Invariant, PTL DEF LostOnlyByStaleTabs
=============================================================================
