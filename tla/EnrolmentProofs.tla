------------------------- MODULE EnrolmentProofs -------------------------
(* Proofs of the safety properties of Enrolment.                           *)
EXTENDS Enrolment, FiniteSetTheorems, TLAPS

USE DEF Adds, Deletes, Saves

(* Every insertion into the table was an act of the operator, or will have *)
(* been: the requests under way are counted with the rows.                 *)
Posting == {c \in Calls : adds[c] # None /\ adds[c].at = "sent"}

Counted ==
  /\ tokenCalls <= acts /\ copies <= acts
  /\ \A d \in Names : /\ born[d] + Cardinality(Posting) <= acts + 1
                      /\ table[d] # None => born[d] >= 1
  /\ editing # None => editForm \in EditForms

(* Finitely many requests run, so they can be counted.                     *)
LEMMA PostingFinite == IsFiniteSet(Posting) /\ Cardinality(Posting) \in Nat
<1>1. IsFiniteSet(Posting)
  BY EnrolmentAssumption, FS_Subset DEF Posting
<1>2. QED
  BY <1>1, FS_CardinalityType

(* Composing and splitting tokens yields tokens.                           *)
LEMMA TokensTyped ==
  /\ NoToken \in Tokens
  /\ Texts \subseteq Tokens
  /\ \A h \in Heads, t \in Tokens : Composed(h, t) \in Tokens
  /\ \A t \in Tokens : /\ Parsed(t).head \in Heads
                       /\ Parsed(t).secret \in Tokens
                       /\ Parsed(t).secret.head = None
                       /\ Parsed(t).secret.secret # None <=> t.secret # None
  /\ \A t \in Texts : t.secret # None
  /\ \A h \in Heads, t \in Tokens : Composed(h, t).secret = t.secret
<1> USE EnrolmentAssumption
<1>1. NoToken \in Tokens /\ Texts \subseteq Tokens
  <2>1. \A s \in Secrets \cup {None} : Bare(s) \in Tokens
    BY DEF Bare, Tokens
  <2>2. \A t \in Pasted : t \in Tokens
    BY DEF Tokens
  <2>3. QED
    BY <2>1, <2>2 DEF NoToken, Texts
<1>2. \A h \in Heads, t \in Tokens : Composed(h, t) \in Tokens
  BY DEF Composed, Bare, Tokens
<1>3. \A s \in Secrets \cup {None} : Cut(s) \in Secrets \cup {None}
  BY DEF Cut
<1>4. \A t \in Tokens : /\ Parsed(t).head \in Heads
                        /\ Parsed(t).secret \in Tokens
                        /\ Parsed(t).secret.head = None
                        /\ Parsed(t).secret.secret # None <=> t.secret # None
  <2>1. \A s \in Secrets \cup {None} : Cut(s) # None <=> s # None
    BY DEF Cut
  <2>2. QED
    BY <1>3, <2>1 DEF Parsed, Bare, Tokens
<1>5. \A t \in Texts : t.secret # None
  BY DEF Texts, Bare
<1>6. \A h \in Heads, t \in Tokens : Composed(h, t).secret = t.secret
  BY DEF Composed, Bare, Tokens
<1>7. QED
  BY <1>1, <1>2, <1>4, <1>5, <1>6

(* What the form of the modal enrols is a device. *)
LEMMA PayloadTyped ==
  ASSUME TypeOK, tab \in Types, Complete
  PROVE  Payload \in Devices
<1>1. form \in Forms
  BY DEF TypeOK
<1>2. Or(form.url, Or(form.ip_address, form.endpoint)) \in Addresses \cup {None}
  BY <1>1 DEF Or, Forms
<1>3. form.name \in Names
  BY <1>1 DEF Forms, Complete
<1>4. Composed(form.head, form.secret) \in Tokens /\ NoToken \in Tokens
  BY <1>1, TokensTyped DEF Forms
<1>5. QED
  BY <1>2, <1>3, <1>4 DEF Payload, Devices

(* The list on the page shows devices, each of a birth.                    *)
LEMMA ListTyped ==
  ASSUME TypeOK, Counted
  PROVE  List \in [Names -> [dev : Devices, birth : 1 .. MaxActs + 1] \cup {None}]
<1>1. /\ table \in [Names -> Devices \cup {None}] /\ born \in [Names -> 0 .. MaxActs + 1]
      /\ \A d \in Names : table[d] # None => born[d] \in 1 .. MaxActs + 1
  BY EnrolmentAssumption DEF TypeOK, Counted
<1>2. QED
  BY <1>1 DEF List

(* What a step about a running enrolment leaves of it.                     *)
LEMMA AddsKept ==
  ASSUME TypeOK, NEW c \in Calls, Post(c) \/ Unstored(adds, c) \/ AddEnds(c) \/ AddFails(c)
  PROVE  /\ adds' \in [Calls -> [at : {"sent", "answered"}, dev : Devices, here : BOOLEAN]
                               \cup {None}]
         /\ \A e \in Calls : adds'[e] # None =>
              /\ adds[e] # None /\ adds'[e].dev = adds[e].dev
              /\ adds'[e].at = "sent" => adds[e].at = "sent"
<1>0. adds \in [Calls -> [at : {"sent", "answered"}, dev : Devices, here : BOOLEAN] \cup {None}]
  BY DEF TypeOK
<1>1. \/ adds' = [adds EXCEPT ![c] = None]
      \/ adds[c] # None /\ adds' = [adds EXCEPT ![c].at = "answered"]
      \/ adds[c] # None /\ adds' = [adds EXCEPT ![c].here = FALSE]
  BY DEF Post, Unstored, AddEnds, AddFails, Failed
<1>2. CASE adds' = [adds EXCEPT ![c] = None]
  BY <1>0, <1>2
<1>3. CASE adds[c] # None /\ adds' = [adds EXCEPT ![c].at = "answered"]
  BY <1>0, <1>3
<1>4. CASE adds[c] # None /\ adds' = [adds EXCEPT ![c].here = FALSE]
  BY <1>0, <1>4
<1>5. QED
  BY <1>1, <1>2, <1>3, <1>4

(* What a step about a running deletion leaves of it.                      *)
LEMMA DeletesKept ==
  ASSUME TypeOK, NEW c \in Calls,
         DeleteDevice(c) \/ Unstored(deletes, c) \/ DeleteEnds(c) \/ DeleteFails(c)
  PROVE  deletes' \in [Calls -> [at : {"sent", "answered"}, id : Names, here : BOOLEAN]
                                \cup {None}]
<1>0. deletes \in [Calls -> [at : {"sent", "answered"}, id : Names, here : BOOLEAN] \cup {None}]
  BY DEF TypeOK
<1>1. \/ deletes' = [deletes EXCEPT ![c] = None]
      \/ deletes[c] # None /\ deletes' = [deletes EXCEPT ![c].at = "answered"]
      \/ deletes[c] # None /\ deletes' = [deletes EXCEPT ![c].here = FALSE]
  BY DEF DeleteDevice, Unstored, DeleteEnds, DeleteFails, Failed
<1>2. QED
  BY <1>0, <1>1

(* What a step about a running edit leaves of it.                          *)
LEMMA SavesKept ==
  ASSUME TypeOK, NEW c \in Calls, Put(c) \/ Unstored(saves, c) \/ SaveEnds(c) \/ SaveFails(c)
  PROVE  /\ saves' \in [Calls -> [at : {"sent", "answered"}, body : Edits, here : BOOLEAN]
                                \cup {None}]
         /\ \A e \in Calls : saves'[e] # None =>
              saves[e] # None /\ saves'[e].body = saves[e].body
<1>0. saves \in [Calls -> [at : {"sent", "answered"}, body : Edits, here : BOOLEAN] \cup {None}]
  BY DEF TypeOK
<1>1. \/ saves' = [saves EXCEPT ![c] = None]
      \/ saves[c] # None /\ saves' = [saves EXCEPT ![c].at = "answered"]
      \/ saves[c] # None /\ saves' = [saves EXCEPT ![c].here = FALSE]
  BY DEF Put, Unstored, SaveEnds, SaveFails, Failed
<1>2. CASE saves' = [saves EXCEPT ![c] = None]
  BY <1>0, <1>2
<1>3. CASE saves[c] # None /\ saves' = [saves EXCEPT ![c].at = "answered"]
  BY <1>0, <1>3
<1>4. CASE saves[c] # None /\ saves' = [saves EXCEPT ![c].here = FALSE]
  BY <1>0, <1>4
<1>5. QED
  BY <1>1, <1>2, <1>3, <1>4

(* A request answered without its effect. *)
LEMMA NotStoredTyped ==
  ASSUME TypeOK, Counted, NEW c \in Calls, NotStored(c)
  PROVE  TypeOK' /\ Counted'
<1>1. /\ UNCHANGED <<serverVars, shown, isOpen, tab, form, loading, copiedType, tokenCalls,
                     copies, confirmDeleteId, isDeleting, editing, editForm, isSaving>>
      /\ acts \in Nat /\ acts' = acts + 1 /\ acts' \in 0 .. MaxActs
  BY EnrolmentAssumption DEF NotStored, Unstored, Act, TypeOK
<1>2. /\ adds' \in [Calls -> Adds \cup {None}] /\ deletes' \in [Calls -> Deletes \cup {None}]
      /\ saves' \in [Calls -> Saves \cup {None}]
  <2>1. /\ adds \in [Calls -> Adds \cup {None}] /\ deletes \in [Calls -> Deletes \cup {None}]
        /\ saves \in [Calls -> Saves \cup {None}]
    BY DEF TypeOK
  <2>2. QED
    BY <2>1, AddsKept, DeletesKept, SavesKept DEF NotStored
<1>3. Posting' \subseteq Posting
  <2>1. CASE adds' = adds
    BY <2>1 DEF Posting
  <2>2. CASE Unstored(adds, c)
    BY <2>2, AddsKept DEF Posting
  <2>3. QED
    BY <2>1, <2>2 DEF NotStored
<1>4. Cardinality(Posting') <= Cardinality(Posting) /\ Cardinality(Posting') \in Nat
  BY <1>3, PostingFinite, FS_Subset, FS_CardinalityType
<1>5. \A d \in Names : born[d] + Cardinality(Posting') <= acts' + 1
  <2>1. \A d \in Names : born[d] \in Nat
    BY EnrolmentAssumption DEF TypeOK
  <2>2. QED
    BY <1>1, <1>4, <2>1, PostingFinite DEF Counted
<1>6. tokenCalls <= acts' /\ copies <= acts'
  <2>1. tokenCalls \in Nat /\ copies \in Nat
    BY EnrolmentAssumption DEF TypeOK
  <2>2. QED
    BY <1>1, <2>1 DEF Counted
<1>7. TypeOK'
  BY <1>1, <1>2 DEF TypeOK, serverVars
<1>8. Counted'
  BY <1>1, <1>5, <1>6 DEF Counted, serverVars
<1>9. QED
  BY <1>7, <1>8

(* Rows and requests. *)
LEMMA ServerTyped ==
  ASSUME TypeOK, Counted, NEW c \in Calls, Post(c) \/ Put(c) \/ DeleteDevice(c)
  PROVE  TypeOK' /\ Counted'
<1> USE EnrolmentAssumption DEF modalVars, deleteVars, editVars
<1>0. /\ table \in [Names -> Devices \cup {None}] /\ born \in [Names -> 0 .. MaxActs + 1]
      /\ adds \in [Calls -> [at : {"sent", "answered"}, dev : Devices, here : BOOLEAN] \cup {None}]
      /\ deletes \in [Calls -> [at : {"sent", "answered"}, id : Names, here : BOOLEAN] \cup {None}]
      /\ saves \in [Calls -> [at : {"sent", "answered"}, body : Edits, here : BOOLEAN] \cup {None}]
      /\ acts \in 0 .. MaxActs /\ crossed \in BOOLEAN
  BY DEF TypeOK
<1>1. CASE Post(c)
  <2> DEFINE dev == adds[c].dev
  <2> DEFINE d == dev.name
  <2>1. /\ adds[c].at = "sent" /\ adds[c] # None /\ dev \in Devices /\ d \in Names
        /\ adds' = [adds EXCEPT ![c].at = "answered"]
        /\ UNCHANGED <<crossed, shown, isOpen, tab, form, loading, copiedType, tokenCalls, copies,
                       deleteVars, editVars, acts>>
    BY <1>0, <1>1 DEF Post, Devices
  <2>2. adds' \in [Calls -> [at : {"sent", "answered"}, dev : Devices, here : BOOLEAN] \cup {None}]
    BY <1>0, <2>1
  <2>3. Posting' = Posting \ {c} /\ c \in Posting
    BY <1>0, <2>1 DEF Posting
  <2>4. Cardinality(Posting') = Cardinality(Posting) - 1
    BY <2>3, PostingFinite, FS_RemoveElement
  <2>5. /\ table' \in [Names -> Devices \cup {None}]
        /\ born' \in [Names -> 0 .. MaxActs + 1]
        /\ \A e \in Names : /\ born'[e] <= born[e] + 1
                            /\ table'[e] # None => born'[e] >= 1
    <3>1. CASE table[d] = None
      <4>1. table' = [table EXCEPT ![d] = dev] /\ born' = [born EXCEPT ![d] = @ + 1]
        BY <1>1, <3>1 DEF Post, EnrollDevice
      <4>2. born[d] + 1 \in 0 .. MaxActs + 1
        <5>1. Cardinality(Posting) \in Nat /\ Cardinality(Posting) - 1 \in Nat
          <6>1. Cardinality(Posting') \in Nat
            BY <2>3, PostingFinite, FS_RemoveElement, FS_CardinalityType
          <6>2. QED
            BY <2>4, <6>1, PostingFinite
        <5>2. born[d] + Cardinality(Posting) <= acts + 1
          BY <2>1 DEF Counted
        <5>3. QED
          BY <1>0, <2>1, <5>1, <5>2
      <4> HIDE DEF dev, d
      <4>3. QED
        BY <1>0, <2>1, <4>1, <4>2 DEF Counted
    <3>2. CASE table[d] # None
      <4>1. /\ table' = [table EXCEPT ![d].name = dev.name, ![d].ip_address = dev.ip_address]
            /\ born' = born
        BY <1>1, <3>2 DEF Post, EnrollDevice
      <4>2. dev.name \in Names /\ dev.ip_address \in Addresses \cup {None} /\ table[d] \in Devices
        BY <1>0, <2>1, <3>2 DEF Devices
      <4>3. table' = [table EXCEPT ![d] = [table[d] EXCEPT !.name = dev.name,
                                                           !.ip_address = dev.ip_address]]
        BY <1>0, <2>1, <4>1
      <4> HIDE DEF dev, d
      <4>4. [table[d] EXCEPT !.name = dev.name, !.ip_address = dev.ip_address] \in Devices
        BY <4>2 DEF Devices
      <4>5. QED
        BY <1>0, <2>1, <3>2, <4>1, <4>3, <4>4 DEF Counted
    <3>3. QED
      BY <3>1, <3>2
  <2>6. \A e \in Names : born'[e] + Cardinality(Posting)' <= acts' + 1
    BY <1>0, <2>1, <2>4, <2>5, PostingFinite DEF Counted
  <2>7. TypeOK'
    BY <2>1, <2>2, <2>5 DEF TypeOK
  <2>8. Counted'
    BY <2>1, <2>5, <2>6 DEF Counted
  <2>9. QED
    BY <2>7, <2>8
<1>2. CASE Put(c)
  <2> DEFINE b == saves[c].body
  <2>1. /\ saves[c] # None /\ saves[c].body \in Edits
        /\ saves' = [saves EXCEPT ![c].at = "answered"]
        /\ UNCHANGED <<born, shown, modalVars, deleteVars, editing, editForm, isSaving, acts>>
        /\ crossed' \in BOOLEAN
    BY <1>0, <1>2 DEF Put
  <2>2. saves' \in [Calls ->
                      [at : {"sent", "answered"}, body : Edits, here : BOOLEAN] \cup {None}]
    BY <1>0, <2>1
  <2>3. b.id \in Names /\ b.name \in Names /\ b.ip \in Addresses \cup {None} /\ b.token \in Tokens
    BY <2>1 DEF Edits
  <2>4. /\ table' \in [Names -> Devices \cup {None}]
        /\ \A e \in Names : table'[e] # None => table[e] # None
    <3>1. UpdateDevice(b.id, b.name, b.ip, b.token)
      BY <1>2 DEF Put
    <3>2. CASE table[b.id] = None
      BY <1>0, <3>1, <3>2 DEF UpdateDevice
    <3>3. CASE table[b.id] # None
      <4> DEFINE t == IF b.token = NoToken THEN table[b.id].enroll_token ELSE b.token
      <4> DEFINE new == [table[b.id] EXCEPT !.name = b.name, !.ip_address = b.ip,
                                    !.enroll_token = t]
      <4>1. table[b.id] \in Devices /\ t \in Tokens
        BY <1>0, <2>3, <3>3 DEF Devices
      <4>2. table' = [table EXCEPT ![b.id] = new]
        BY <1>0, <2>3, <3>1, <3>3 DEF UpdateDevice
      <4> HIDE DEF b, t
      <4>3. new \in Devices
        BY <2>3, <4>1 DEF Devices
      <4> HIDE DEF new
      <4>4. QED
        BY <1>0, <2>3, <3>3, <4>2, <4>3
    <3>4. QED
      BY <3>2, <3>3
  <2>5. QED
    BY <2>1, <2>2, <2>4 DEF TypeOK, Counted, Posting
<1>3. CASE DeleteDevice(c)
  <2>1. /\ deletes[c] # None /\ deletes[c].id \in Names
        /\ table' = [table EXCEPT ![deletes[c].id] = None]
        /\ deletes' = [deletes EXCEPT ![c].at = "answered"]
        /\ UNCHANGED <<born, crossed, shown, modalVars, confirmDeleteId, isDeleting,
                      editVars, acts>>
    BY <1>0, <1>3 DEF DeleteDevice
  <2>2. deletes' \in [Calls ->
                      [at : {"sent", "answered"}, id : Names, here : BOOLEAN] \cup {None}]
    BY <1>0, <2>1
  <2>3. /\ table' \in [Names -> Devices \cup {None}]
        /\ \A e \in Names : table'[e] # None => table[e] # None
    BY <1>0, <2>1
  <2>4. QED
    BY <2>1, <2>2, <2>3 DEF TypeOK, Counted, Posting
<1>4. QED
  BY <1>1, <1>2, <1>3

(* The modal: its fields, its calls and its timeouts.                      *)
LEMMA ModalTyped ==
  ASSUME TypeOK, Counted,
         \/ Open \/ FetchTokenEnds \/ Close \/ CopyTimeout \/ TypeForm
         \/ \E t \in Tabs : SetTab(t)
         \/ \E type \in Snippets : CopyToClipboard(type)
         \/ \E c \in Calls : HandleManualAdd(c) \/ AddEnds(c) \/ AddFails(c)
  PROVE  TypeOK' /\ Counted'
<1> USE EnrolmentAssumption DEF serverVars, deleteVars, editVars
<1>0. /\ adds \in [Calls -> [at : {"sent", "answered"}, dev : Devices, here : BOOLEAN] \cup {None}]
      /\ acts \in 0 .. MaxActs /\ tokenCalls \in 0 .. MaxActs /\ copies \in 0 .. MaxActs
      /\ tokenCalls <= acts /\ copies <= acts
      /\ born \in [Names -> 0 .. MaxActs + 1]
  BY DEF TypeOK, Counted
<1>1. CASE Open \/ FetchTokenEnds \/ Close \/ CopyTimeout \/ \E t \in Tabs : SetTab(t)
  <2>1. UNCHANGED <<serverVars, shown, form, adds, deleteVars, editVars>>
    BY <1>1 DEF Open, FetchTokenEnds, Close, CopyTimeout, SetTab
  <2>2. /\ isOpen' \in BOOLEAN /\ loading' \in BOOLEAN /\ tab' \in Tabs
        /\ copiedType' \in Snippets \cup {None}
        /\ tokenCalls' \in 0 .. MaxActs /\ copies' \in 0 .. MaxActs
        /\ acts' \in 0 .. MaxActs /\ acts <= acts'
        /\ tokenCalls' <= acts' /\ copies' <= acts'
    <3>1. isOpen \in BOOLEAN /\ loading \in BOOLEAN /\ tab \in Tabs
          /\ copiedType \in Snippets \cup {None}
      BY DEF TypeOK
    <3>2. CASE Open
      BY <1>0, <3>1, <3>2 DEF Open, Act
    <3>3. CASE FetchTokenEnds
      <4>1. loading' \in BOOLEAN
        BY <3>3 DEF FetchTokenEnds
      <4>2. tokenCalls > 0 /\ tokenCalls' = tokenCalls - 1
        BY <3>3 DEF FetchTokenEnds
      <4>3. UNCHANGED <<isOpen, tab, copiedType, copies, acts>>
        BY <3>3 DEF FetchTokenEnds
      <4>4. QED
        BY <1>0, <3>1, <4>1, <4>2, <4>3
    <3>4. CASE Close
      <4>1. isOpen' \in BOOLEAN
        BY <3>4 DEF Close
      <4>2. UNCHANGED <<tab, loading, copiedType, tokenCalls, copies, acts>>
        BY <3>4 DEF Close
      <4>3. QED
        BY <1>0, <3>1, <4>1, <4>2
    <3>5. CASE \E t \in Tabs : SetTab(t)
      <4>1. tab' \in Tabs
        BY <3>5 DEF SetTab
      <4>2. UNCHANGED <<isOpen, loading, copiedType, tokenCalls, copies, acts>>
        BY <3>5 DEF SetTab
      <4>3. QED
        BY <1>0, <3>1, <4>1, <4>2
    <3>6. CASE CopyTimeout
      BY <1>0, <3>1, <3>6 DEF CopyTimeout
    <3>7. QED
      BY <1>1, <3>2, <3>3, <3>4, <3>5, <3>6
  <2>3. Posting' = Posting
    BY <2>1 DEF Posting
  <2>4. \A d \in Names : born[d] + Cardinality(Posting) <= acts' + 1
    BY <1>0, <2>2, PostingFinite DEF Counted
  <2>5. QED
    BY <2>1, <2>2, <2>3, <2>4 DEF TypeOK, Counted
<1>2. ASSUME NEW type \in Snippets, CopyToClipboard(type) PROVE TypeOK' /\ Counted'
  <2>1. /\ UNCHANGED <<serverVars, shown, isOpen, tab, form, loading, tokenCalls, adds,
                       deleteVars, editVars>>
        /\ copiedType' = type
        /\ copies' \in 0 .. MaxActs /\ acts' \in 0 .. MaxActs /\ acts' = acts + 1
        /\ tokenCalls <= acts' /\ copies' <= acts'
    BY <1>0, <1>2 DEF CopyToClipboard, Act
  <2>2. Posting' = Posting
    BY <2>1 DEF Posting
  <2>3. \A d \in Names : born[d] + Cardinality(Posting) <= acts' + 1
    BY <1>0, <2>1, PostingFinite DEF Counted
  <2>4. QED
    BY <2>1, <2>2, <2>3 DEF TypeOK, Counted
<1>3. CASE TypeForm
  <2>1. /\ UNCHANGED <<serverVars, shown, isOpen, tab, loading, copiedType,
                      tokenCalls, copies, adds, deleteVars, editVars>>
        /\ acts' \in 0 .. MaxActs /\ acts' = acts + 1
    BY <1>0, <1>3 DEF TypeForm, Act
  <2>2. form' \in Forms
    <3>0. form \in Forms /\ tab \in Types
      BY <1>3 DEF TypeForm, TypeOK
    <3>1. ASSUME NEW n \in Names PROVE [form EXCEPT !.name = n] \in Forms
      BY <3>0 DEF Forms
    <3>2. ASSUME NEW a \in Addresses PROVE [form EXCEPT ![FieldOf[tab]] = a] \in Forms
      <4>1. FieldOf[tab] \in {"endpoint", "url", "ip_address"}
        BY <3>0 DEF FieldOf
      <4>2. [form EXCEPT !["endpoint"] = a] \in Forms /\ [form EXCEPT !["url"] = a] \in Forms
            /\ [form EXCEPT !["ip_address"] = a] \in Forms
        BY <3>0 DEF Forms
      <4>3. QED
        BY <4>1, <4>2
    <3>3. ASSUME NEW h \in Heads PROVE [form EXCEPT !.head = h] \in Forms
      BY <3>0 DEF Forms
    <3>4. ASSUME NEW t \in Texts PROVE [form EXCEPT !.secret = t] \in Forms
      BY <3>0, TokensTyped DEF Forms
    <3>5. QED
      BY <1>3, <3>1, <3>2, <3>3, <3>4 DEF TypeForm, Typed
  <2>3. Posting' = Posting
    BY <2>1 DEF Posting
  <2>4. \A d \in Names : born[d] + Cardinality(Posting) <= acts' + 1
    BY <1>0, <2>1, PostingFinite DEF Counted
  <2>5. QED
    BY <1>0, <2>1, <2>2, <2>3, <2>4 DEF TypeOK, Counted
<1>4. ASSUME NEW c \in Calls, HandleManualAdd(c) PROVE TypeOK' /\ Counted'
  <2> DEFINE new == [at |-> "sent", dev |-> Payload, here |-> TRUE]
  <2>1. /\ UNCHANGED <<serverVars, shown, isOpen, tab, form, loading, copiedType,
                      tokenCalls, copies, deleteVars, editVars>>
        /\ acts' \in 0 .. MaxActs /\ acts' = acts + 1 /\ adds[c] = None
        /\ adds' = [adds EXCEPT ![c] = new]
    BY <1>0, <1>4 DEF HandleManualAdd, Act
  <2>2. new \in [at : {"sent", "answered"}, dev : Devices, here : BOOLEAN]
    BY <1>4, PayloadTyped DEF HandleManualAdd
  <2>3. adds' \in [Calls -> [at : {"sent", "answered"}, dev : Devices, here : BOOLEAN] \cup {None}]
    BY <1>0, <2>1, <2>2
  <2>4. Posting' \subseteq Posting \cup {c}
    BY <1>0, <2>1 DEF Posting
  <2>5. Cardinality(Posting') <= Cardinality(Posting) + 1 /\ Cardinality(Posting') \in Nat
    <3>1. /\ IsFiniteSet(Posting \cup {c})
          /\ Cardinality(Posting \cup {c}) <= Cardinality(Posting) + 1
      <4>1. Cardinality(Posting \cup {c})
              = IF c \in Posting THEN Cardinality(Posting) ELSE Cardinality(Posting) + 1
        BY PostingFinite, FS_AddElement
      <4>2. QED
        BY <4>1, PostingFinite, FS_AddElement
    <3>2. /\ IsFiniteSet(Posting') /\ Cardinality(Posting') <= Cardinality(Posting \cup {c})
      BY <2>4, <3>1, FS_Subset
    <3>3. Cardinality(Posting') \in Nat /\ Cardinality(Posting \cup {c}) \in Nat
      BY <3>1, <3>2, FS_CardinalityType
    <3>4. QED
      BY <3>1, <3>2, <3>3, PostingFinite
  <2>6. \A d \in Names : born[d] + Cardinality(Posting') <= acts' + 1
    BY <1>0, <2>1, <2>5, PostingFinite DEF Counted
  <2>7. QED
    BY <1>0, <2>1, <2>3, <2>6 DEF TypeOK, Counted
<1>5. ASSUME NEW c \in Calls, AddEnds(c) \/ AddFails(c) PROVE TypeOK' /\ Counted'
  <2>1. /\ UNCHANGED <<serverVars, shown, tab, form, loading, copiedType,
                      tokenCalls, copies, deleteVars, editVars>>
        /\ acts' = acts \/ Act
    BY <1>5 DEF AddEnds, AddFails
  <2>2. isOpen' \in BOOLEAN
    <3>1. isOpen \in BOOLEAN
      BY DEF TypeOK
    <3>2. isOpen' \in {FALSE, isOpen}
      BY <1>5 DEF AddEnds, AddFails
    <3>3. QED
      BY <3>1, <3>2
  <2>3. acts' \in 0 .. MaxActs /\ acts <= acts'
    BY <1>0, <2>1 DEF Act
  <2>4. /\ adds' \in [Calls -> [at : {"sent", "answered"}, dev : Devices, here : BOOLEAN]
                              \cup {None}]
        /\ Posting' \subseteq Posting
    BY <1>5, AddsKept DEF Posting
  <2>5. Cardinality(Posting') <= Cardinality(Posting) /\ Cardinality(Posting') \in Nat
    BY <2>4, PostingFinite, FS_Subset, FS_CardinalityType
  <2>6. \A d \in Names : born[d] + Cardinality(Posting') <= acts' + 1
    BY <1>0, <2>3, <2>5, PostingFinite DEF Counted
  <2>7. tokenCalls <= acts' /\ copies <= acts'
    BY <1>0, <2>3
  <2>8. QED
    BY <2>1, <2>2, <2>3, <2>4, <2>6, <2>7 DEF TypeOK, Counted
<1>6. QED
  BY <1>1, <1>2, <1>3, <1>4, <1>5

(* What the edit form sends.                                               *)
EditBody == [id |-> editing.id, name |-> editForm.name, ip |-> editForm.ip,
             token |-> FinalToken, clean |-> editForm.clean,
             of |-> editing.dev, birth |-> editing.birth]

(* It is an edit.                                                          *)
LEMMA EditBodyTyped ==
  ASSUME TypeOK, Counted, editing # None
  PROVE  EditBody \in Edits
<1>1. /\ editForm \in EditForms
      /\ editing \in [id : Names, dev : Devices, birth : 1 .. MaxActs + 1]
  BY DEF TypeOK, Counted
<1>2. FinalToken \in Tokens
  BY <1>1, TokensTyped DEF FinalToken, EditForms
<1>3. QED
  BY <1>1, <1>2 DEF EditBody, Edits, EditForms

(* The page: its cards, its edit form and its calls.                       *)
LEMMA PageTyped ==
  ASSUME TypeOK, Counted,
         \/ Refresh \/ TypeEdit \/ CancelEdit \/ Remount
         \/ \E d \in Names : Confirm(d) \/ HandleStartEdit(d)
         \/ \E c \in Calls : \/ DeleteEnds(c) \/ DeleteFails(c)
                             \/ HandleSaveEdit(c) \/ SaveEnds(c) \/ SaveFails(c)
                             \/ \E d \in Names : HandleDelete(d, c)
  PROVE  TypeOK' /\ Counted'
<1> USE EnrolmentAssumption DEF serverVars, modalVars, deleteVars, editVars
<1>0. /\ deletes \in [Calls -> [at : {"sent", "answered"}, id : Names, here : BOOLEAN] \cup {None}]
      /\ saves \in [Calls -> [at : {"sent", "answered"}, body : Edits, here : BOOLEAN] \cup {None}]
      /\ acts \in 0 .. MaxActs /\ tokenCalls <= acts /\ copies <= acts
      /\ tokenCalls \in Nat /\ copies \in Nat
      /\ born \in [Names -> 0 .. MaxActs + 1]
      /\ List \in [Names -> [dev : Devices, birth : 1 .. MaxActs + 1] \cup {None}]
      /\ shown \in [Names -> [dev : Devices, birth : 1 .. MaxActs + 1] \cup {None}]
      /\ confirmDeleteId \in Names \cup {None} /\ isDeleting \in BOOLEAN /\ isSaving \in BOOLEAN
      /\ editing \in [id : Names, dev : Devices, birth : 1 .. MaxActs + 1] \cup {None}
      /\ editForm \in EditForms \cup {None}
      /\ editing # None => editForm \in EditForms
  BY ListTyped DEF TypeOK, Counted
<1> DEFINE
  pageTyped == /\ shown' \in [Names -> [dev : Devices, birth : 1 .. MaxActs + 1] \cup {None}]
               /\ confirmDeleteId' \in Names \cup {None} /\ isDeleting' \in BOOLEAN
               /\ isSaving' \in BOOLEAN
               /\ editing' \in [id : Names, dev : Devices, birth : 1 .. MaxActs + 1] \cup {None}
               /\ editForm' \in EditForms \cup {None}
               /\ editing' # None => editForm' \in EditForms
               /\ deletes' \in [Calls ->
                      [at : {"sent", "answered"}, id : Names, here : BOOLEAN] \cup {None}]
               /\ saves' \in [Calls ->
                      [at : {"sent", "answered"}, body : Edits, here : BOOLEAN] \cup {None}]
(* None of these steps touches the rows, the modal or its requests.        *)
<1>1. ASSUME UNCHANGED <<serverVars, modalVars>>, acts' = acts \/ Act, pageTyped
      PROVE  TypeOK' /\ Counted'
  <2>1. acts' \in 0 .. MaxActs /\ acts <= acts'
    BY <1>0, <1>1 DEF Act
  <2>2. Posting' = Posting
    BY <1>1 DEF Posting
  <2>3. \A d \in Names : born[d] + Cardinality(Posting) <= acts' + 1
    BY <1>0, <2>1, PostingFinite DEF Counted
  <2>4. tokenCalls <= acts' /\ copies <= acts'
    BY <1>0, <2>1
  <2>5. QED
    BY <1>1, <2>1, <2>2, <2>3, <2>4 DEF TypeOK, Counted
<1>2. CASE Refresh \/ CancelEdit \/ \E d \in Names : Confirm(d)
  BY <1>0, <1>1, <1>2 DEF Refresh, CancelEdit, Confirm
<1>3. ASSUME NEW c \in Calls, NEW d \in Names, HandleDelete(d, c) PROVE TypeOK' /\ Counted'
  BY <1>0, <1>1, <1>3 DEF HandleDelete
<1>4. ASSUME NEW c \in Calls, DeleteEnds(c) \/ DeleteFails(c) PROVE TypeOK' /\ Counted'
  <2>1. deletes' \in [Calls ->
                      [at : {"sent", "answered"}, id : Names, here : BOOLEAN] \cup {None}]
    BY <1>4, DeletesKept
  <2>2. QED
    BY <1>0, <1>1, <1>4, <2>1 DEF DeleteEnds, DeleteFails
<1>5. ASSUME NEW d \in Names, HandleStartEdit(d) PROVE TypeOK' /\ Counted'
  <2> DEFINE dev == shown[d].dev
  <2> DEFINE p == Parsed(dev.enroll_token)
  <2>1. /\ dev \in Devices /\ shown[d].birth \in 1 .. MaxActs + 1
        /\ editing' = [id |-> d, dev |-> dev, birth |-> shown[d].birth]
        /\ editForm' = [name |-> dev.name, ip |-> dev.ip_address,
                        head |-> p.head, secret |-> p.secret, clean |-> TRUE]
        /\ UNCHANGED <<serverVars, shown, modalVars, deleteVars, isSaving, saves, acts>>
    BY <1>0, <1>5 DEF HandleStartEdit
  <2>2. /\ dev.name \in Names /\ dev.ip_address \in Addresses \cup {None}
        /\ dev.enroll_token \in Tokens
    BY <2>1 DEF Devices
  <2>3. p.head \in Heads /\ p.secret \in Tokens
    BY <2>2, TokensTyped
  <2> HIDE DEF dev, p
  <2>4. editForm' \in EditForms
    BY <2>1, <2>2, <2>3 DEF EditForms
  <2>5. editing' \in [id : Names, dev : Devices, birth : 1 .. MaxActs + 1]
    BY <2>1
  <2>6. QED
    BY <1>0, <1>1, <2>1, <2>4, <2>5
<1>6. CASE TypeEdit
  <2>1. /\ UNCHANGED <<serverVars, shown, modalVars, deleteVars, editing, isSaving, saves>>
        /\ Act /\ editForm \in EditForms
    BY <1>0, <1>6 DEF TypeEdit
  <2>2. editForm' \in EditForms
    <3>1. ASSUME NEW n \in Names, Retyped([editForm EXCEPT !.name = n])
          PROVE  editForm' \in EditForms
      BY <2>1, <3>1 DEF Retyped, EditForms
    <3>2. ASSUME NEW a \in Addresses \cup {None}, Retyped([editForm EXCEPT !.ip = a])
          PROVE  editForm' \in EditForms
      BY <2>1, <3>2 DEF Retyped, EditForms
    <3>3. ASSUME NEW h \in Heads, Retyped([editForm EXCEPT !.head = h])
          PROVE  editForm' \in EditForms
      BY <2>1, <3>3 DEF Retyped, EditForms
    <3>4. ASSUME NEW t \in Texts, Retyped([editForm EXCEPT !.secret = t])
          PROVE  editForm' \in EditForms
      BY <2>1, <3>4, TokensTyped DEF Retyped, EditForms
    <3>5. QED
      BY <1>6, <3>1, <3>2, <3>3, <3>4 DEF TypeEdit
  <2>3. QED
    BY <1>0, <1>1, <2>1, <2>2
<1>7. ASSUME NEW c \in Calls, HandleSaveEdit(c) PROVE TypeOK' /\ Counted'
  <2>1. /\ UNCHANGED <<serverVars, shown, modalVars, deleteVars, editing, editForm>>
        /\ Act /\ isSaving' = TRUE /\ editing # None
        /\ saves' = [saves EXCEPT ![c] = [at |-> "sent", here |-> TRUE, body |-> EditBody]]
    BY <1>7 DEF HandleSaveEdit, EditBody
  <2>2. EditBody \in Edits
    BY <2>1, EditBodyTyped
  <2>3. saves' \in [Calls ->
                      [at : {"sent", "answered"}, body : Edits, here : BOOLEAN] \cup {None}]
    BY <1>0, <2>1, <2>2
  <2>4. QED
    BY <1>0, <1>1, <2>1, <2>3
<1>8. ASSUME NEW c \in Calls, SaveEnds(c) \/ SaveFails(c) PROVE TypeOK' /\ Counted'
  <2>1. saves' \in [Calls ->
                      [at : {"sent", "answered"}, body : Edits, here : BOOLEAN] \cup {None}]
    BY <1>8, SavesKept
  <2>2. QED
    BY <1>0, <1>1, <1>8, <2>1 DEF SaveEnds, SaveFails
<1>9. CASE Remount
  <2>1. /\ deletes' = [c \in Calls |-> IF deletes[c] = None THEN None
                                    ELSE [deletes[c] EXCEPT !.here = FALSE]]
        /\ saves' = [c \in Calls |-> IF saves[c] = None THEN None
                                    ELSE [saves[c] EXCEPT !.here = FALSE]]
        /\ confirmDeleteId' = None /\ isDeleting' = FALSE
        /\ editing' = None /\ editForm' = None /\ isSaving' = FALSE
        /\ Act /\ UNCHANGED <<serverVars, shown, modalVars>>
    BY <1>9 DEF Remount
  <2>2. deletes' \in [Calls ->
                      [at : {"sent", "answered"}, id : Names, here : BOOLEAN] \cup {None}]
    <3>1. ASSUME NEW r \in [at : {"sent", "answered"}, id : Names, here : BOOLEAN]
          PROVE  [r EXCEPT !.here = FALSE] \in [at : {"sent", "answered"}, id : Names, here : BOOLEAN]
      OBVIOUS
    <3>2. \A c \in Calls : deletes[c] # None =>
            [deletes[c] EXCEPT !.here = FALSE] \in [at : {"sent", "answered"}, id : Names, here : BOOLEAN]
      BY <1>0, <3>1
    <3>3. QED
      BY <2>1, <3>2
  <2>3. saves' \in [Calls ->
                      [at : {"sent", "answered"}, body : Edits, here : BOOLEAN] \cup {None}]
    <3>1. ASSUME NEW r \in [at : {"sent", "answered"}, body : Edits, here : BOOLEAN]
          PROVE  [r EXCEPT !.here = FALSE] \in [at : {"sent", "answered"}, body : Edits, here : BOOLEAN]
      OBVIOUS
    <3>2. \A c \in Calls : saves[c] # None =>
            [saves[c] EXCEPT !.here = FALSE] \in [at : {"sent", "answered"}, body : Edits, here : BOOLEAN]
      BY <1>0, <3>1
    <3>3. QED
      BY <2>1, <3>2
  <2>4. QED
    BY <1>0, <1>1, <2>1, <2>2, <2>3
<1>10. QED
  BY <1>2, <1>3, <1>4, <1>5, <1>6, <1>7, <1>8, <1>9

(* The start.                                                              *)
LEMMA InitTyped == Init => TypeOK /\ Counted
<1> SUFFICES ASSUME Init PROVE TypeOK /\ Counted
  OBVIOUS
<1> USE EnrolmentAssumption
<1>1. /\ table \in [Names -> Devices \cup {None}]
      /\ \A d \in Names : born[d] \in {0, 1} /\ (table[d] # None => born[d] = 1)
      /\ born \in [Names -> 0 .. MaxActs + 1]
  <2>1. PICK S \in SUBSET Names :
       /\ table \in {t \in [Names -> UNION {Enrolled(d) : d \in Names} \cup {None}] :
                       \A d \in Names : IF d \in S THEN t[d] \in Enrolled(d) ELSE t[d] = None}
       /\ born = [d \in Names |-> IF d \in S THEN 1 ELSE 0]
    BY DEF Init
  <2>2. \A d : Enrolled(d) \subseteq Devices
    BY DEF Enrolled
  <2>3. QED
    BY <2>1, <2>2
<1>2. Posting = {}
  BY DEF Posting, Init, NoCalls
<1>3. Cardinality(Posting) = 0
  BY <1>2, FS_EmptySet
<1>4. form \in Forms
  BY TokensTyped DEF Init, Forms
<1>5. TypeOK
  <2>1. /\ crossed \in BOOLEAN /\ isOpen \in BOOLEAN /\ loading \in BOOLEAN
        /\ isDeleting \in BOOLEAN /\ isSaving \in BOOLEAN
    BY DEF Init
  <2>2. /\ shown = [d \in Names |-> None] /\ tab = "monitor" /\ copiedType = None
        /\ confirmDeleteId = None /\ editing = None /\ editForm = None
        /\ tokenCalls = 0 /\ copies = 0 /\ acts = 0
        /\ adds = NoCalls /\ deletes = NoCalls /\ saves = NoCalls
    BY DEF Init
  <2>3. QED
    BY <1>1, <1>4, <2>1, <2>2 DEF TypeOK, Tabs, NoCalls
<1>6. Counted
  BY <1>1, <1>3 DEF Init, Counted
<1>7. QED
  BY <1>5, <1>6

(* The bounds and the types hold together, and only together.              *)
LEMMA CountedAlways == Spec => [](TypeOK /\ Counted)
<1>1. TypeOK /\ Counted /\ [Next]_vars => TypeOK' /\ Counted'
  <2> SUFFICES ASSUME TypeOK, Counted, [Next]_vars PROVE TypeOK' /\ Counted'
    OBVIOUS
  <2>1. CASE UNCHANGED vars
    BY <2>1 DEF vars, serverVars, modalVars, deleteVars, editVars, TypeOK, Counted, Posting
  <2>2. QED
    BY <2>1, NotStoredTyped, ServerTyped, ModalTyped, PageTyped DEF Next
<1>2. QED
  BY <1>1, InitTyped, PTL DEF Spec

(* The table, the page, both forms and every request under way keep their  *)
(* types, along any interleaving of enrolling, editing and deleting; and   *)
(* a device is inserted at most once per act of the operator.              *)
THEOREM TypeCorrect == Spec => []TypeOK
  BY CountedAlways, PTL

Fits(dev) == dev.agent_type = "proxmox" <=> dev.enroll_token.secret # None

(* A device of this birth was on the page: the row of its id is of its     *)
(* type unless it is of a later birth.                                     *)
Seen(d, dev, birth) ==
  /\ birth <= born[d]
  /\ table[d] # None /\ birth = born[d] => table[d].agent_type = dev.agent_type
  /\ crossed \/ Fits(dev)

(* The edit form as handleStartEdit fills it.                              *)
FormOf(dev) ==
  LET p == Parsed(dev.enroll_token) IN
  [name |-> dev.name, ip |-> dev.ip_address, head |-> p.head, secret |-> p.secret, clean |-> TRUE]

(* What an edit that nobody typed into sends.                              *)
Harmless(b) ==
  b.clean /\ Fits(b.of) /\ b.of.enroll_token.secret \notin Padded
    => /\ b.name = b.of.name /\ b.ip = b.of.ip_address
       /\ b.token = NoToken \/ Header(b.token) = Header(b.of.enroll_token)

AddsFit ==
  /\ form.secret = NoToken \/ form.secret.secret # None
  /\ \A c \in Calls : adds[c] # None => Fits(adds[c].dev)
ShownSeen == \A d \in Names : shown[d] # None => Seen(d, shown[d].dev, shown[d].birth)
EditingSeen ==
  editing # None =>
    /\ Seen(editing.id, editing.dev, editing.birth)
    /\ crossed \/ (editing.dev.agent_type = "proxmox" <=> editForm.secret.secret # None)
    /\ editForm.clean => editForm = FormOf(editing.dev)
SavesSeen ==
  \A c \in Calls : saves[c] # None =>
    LET b == saves[c].body IN
      /\ Seen(b.id, b.of, b.birth)
      /\ crossed \/ (b.of.agent_type = "proxmox" <=> b.token.secret # None)
      /\ Harmless(b)
EditsKept == TokenFitsType /\ AddsFit /\ ShownSeen /\ EditingSeen /\ SavesSeen

(* An update never changes the type of a row; an insert is a new birth.    *)
LEMMA RowsKeepType ==
  ASSUME TypeOK, [Next]_vars, NEW d \in Names
  PROVE  /\ born'[d] \in {born[d], born[d] + 1}
         /\ table'[d] # None =>
              \/ born'[d] = born[d] + 1
              \/ /\ table[d] # None /\ born'[d] = born[d]
                 /\ table'[d].agent_type = table[d].agent_type
         /\ crossed => crossed'
<1> USE EnrolmentAssumption DEF serverVars, modalVars, deleteVars, editVars
<1>0. /\ table \in [Names -> Devices \cup {None}] /\ born \in [Names -> 0 .. MaxActs + 1]
      /\ adds \in [Calls -> [at : {"sent", "answered"}, dev : Devices, here : BOOLEAN] \cup {None}]
      /\ deletes \in [Calls -> [at : {"sent", "answered"}, id : Names, here : BOOLEAN] \cup {None}]
      /\ saves \in [Calls -> [at : {"sent", "answered"}, body : Edits, here : BOOLEAN] \cup {None}]
      /\ \A e \in Names : table[e] # None => table[e] \in Devices
  BY DEF TypeOK
<1>1. ASSUME NEW c \in Calls, Post(c) PROVE
         /\ born'[d] \in {born[d], born[d] + 1}
         /\ table'[d] # None =>
              \/ born'[d] = born[d] + 1
              \/ /\ table[d] # None /\ born'[d] = born[d]
                 /\ table'[d].agent_type = table[d].agent_type
         /\ crossed => crossed'
  <2>1. EnrollDevice(adds[c].dev) /\ crossed' = crossed /\ adds[c].dev.name \in Names
    BY <1>0, <1>1 DEF Post, Devices
  <2> DEFINE dev == adds[c].dev
  <2>2. CASE table[dev.name] = None
    BY <1>0, <2>1, <2>2 DEF EnrollDevice
  <2>3. CASE table[dev.name] # None
    <3>1. /\ table' = [table EXCEPT ![dev.name].name = dev.name,
                                    ![dev.name].ip_address = dev.ip_address]
          /\ born' = born
      BY <2>1, <2>3 DEF EnrollDevice
    <3>2. table'[d] = IF d = dev.name
                      THEN [table[d] EXCEPT !.name = dev.name, !.ip_address = dev.ip_address]
                      ELSE table[d]
      BY <1>0, <2>1, <3>1
    <3>3. table[d] # None => [table[d] EXCEPT !.name = dev.name,
                                !.ip_address = dev.ip_address].agent_type = table[d].agent_type
      BY <1>0 DEF Devices
    <3>4. QED
      BY <2>1, <2>3, <3>1, <3>2, <3>3
  <2>4. QED
    BY <2>2, <2>3
<1>2. ASSUME NEW c \in Calls, Put(c) PROVE
         /\ born' = born
         /\ table'[d] # None => /\ table[d] # None
                                /\ table'[d].agent_type = table[d].agent_type
         /\ crossed => crossed'
  <2> DEFINE b == saves[c].body
  <2>1. UpdateDevice(b.id, b.name, b.ip, b.token) /\ born' = born /\ b.id \in Names
    BY <1>0, <1>2 DEF Put, Edits
  <2>2. crossed => crossed'
    BY <1>2 DEF Put
  <2>3. CASE table[b.id] = None
    BY <2>1, <2>2, <2>3 DEF UpdateDevice
  <2>4. CASE table[b.id] # None
    <3> DEFINE t == IF b.token = NoToken THEN table[b.id].enroll_token ELSE b.token
    <3> DEFINE new == [table[b.id] EXCEPT !.name = b.name, !.ip_address = b.ip,
                                    !.enroll_token = t]
    <3>1. table[b.id] \in Devices
      BY <1>0, <2>1, <2>4
    <3>2. table' = [table EXCEPT ![b.id] = new]
      BY <1>0, <2>1, <2>4, <3>1 DEF UpdateDevice
    <3> HIDE DEF b, t
    <3>3. new.agent_type = table[b.id].agent_type
      BY <3>1 DEF Devices
    <3> HIDE DEF new
    <3>4. QED
      BY <1>0, <2>1, <2>2, <2>4, <3>2, <3>3
  <2>5. QED
    BY <2>3, <2>4
<1>3. ASSUME NEW c \in Calls, DeleteDevice(c)
      PROVE  /\ born' = born /\ crossed' = crossed
             /\ table'[d] # None => table'[d] = table[d]
  BY <1>0, <1>3 DEF DeleteDevice
<1>4. CASE UNCHANGED <<table, born, crossed>>
  BY <1>4
<1>5. CASE UNCHANGED vars
  BY <1>5 DEF vars
<1>6. ASSUME \/ Refresh \/ Open \/ FetchTokenEnds \/ Close \/ CopyTimeout \/ TypeForm
             \/ TypeEdit \/ CancelEdit \/ Remount
             \/ \E t \in Tabs : SetTab(t)
             \/ \E type \in Snippets : CopyToClipboard(type)
             \/ \E e \in Names : Confirm(e) \/ HandleStartEdit(e)
      PROVE  UNCHANGED <<table, born, crossed>>
  BY <1>6 DEF Refresh, Open, FetchTokenEnds, Close, CopyTimeout, TypeForm, TypeEdit, CancelEdit,
              Remount, SetTab, CopyToClipboard, Confirm, HandleStartEdit
<1>7. ASSUME NEW c \in Calls,
             \/ NotStored(c) \/ HandleManualAdd(c) \/ AddEnds(c) \/ AddFails(c)
             \/ DeleteEnds(c) \/ DeleteFails(c)
             \/ HandleSaveEdit(c) \/ SaveEnds(c) \/ SaveFails(c)
             \/ \E e \in Names : HandleDelete(e, c)
      PROVE  UNCHANGED <<table, born, crossed>>
  BY <1>7 DEF NotStored, HandleManualAdd, AddEnds, AddFails, DeleteEnds, DeleteFails, HandleSaveEdit,
              SaveEnds, SaveFails, HandleDelete
<1>8. QED
  BY <1>1, <1>2, <1>3, <1>4, <1>5, <1>6, <1>7 DEF Next

(* What has been crossed stays so.                                         *)
LEMMA CrossedStays ==
  ASSUME [Next]_vars
  PROVE  crossed => crossed'
<1> USE DEF serverVars, modalVars, deleteVars, editVars
<1>1. ASSUME NEW c \in Calls, Put(c) PROVE crossed => crossed'
  BY <1>1 DEF Put
<1>2. ASSUME \/ Refresh \/ Open \/ FetchTokenEnds \/ Close \/ CopyTimeout \/ TypeForm
             \/ TypeEdit \/ CancelEdit \/ Remount \/ UNCHANGED vars
             \/ \E t \in Tabs : SetTab(t)
             \/ \E type \in Snippets : CopyToClipboard(type)
             \/ \E e \in Names : Confirm(e) \/ HandleStartEdit(e)
      PROVE  UNCHANGED crossed
  BY <1>2 DEF Refresh, Open, FetchTokenEnds, Close, CopyTimeout, TypeForm, TypeEdit, CancelEdit,
              Remount, SetTab, CopyToClipboard, Confirm, HandleStartEdit, vars
<1>3. ASSUME NEW c \in Calls,
             \/ NotStored(c) \/ Post(c) \/ HandleManualAdd(c) \/ AddEnds(c) \/ AddFails(c)
             \/ DeleteDevice(c) \/ DeleteEnds(c) \/ DeleteFails(c)
             \/ HandleSaveEdit(c) \/ SaveEnds(c) \/ SaveFails(c)
             \/ \E e \in Names : HandleDelete(e, c)
      PROVE  UNCHANGED crossed
  BY <1>3 DEF NotStored, Post, HandleManualAdd, AddEnds, AddFails, DeleteDevice, DeleteEnds,
              DeleteFails, HandleSaveEdit, SaveEnds, SaveFails, HandleDelete
<1>4. QED
  BY <1>1, <1>2, <1>3 DEF Next

(* The form enrols Proxmox devices with a secret, others without.          *)
LEMMA PayloadFits ==
  ASSUME TypeOK, tab \in Types, Complete, form.secret = NoToken \/ form.secret.secret # None
  PROVE  Fits(Payload)
<1>1. form.head \in Heads /\ form.secret \in Tokens
  BY DEF TypeOK, Forms
<1>2. Composed(form.head, form.secret).secret = form.secret.secret
  BY <1>1, TokensTyped
<1>3. NoToken.secret = None
  BY DEF NoToken, Bare
<1>4. QED
  BY <1>2, <1>3 DEF Fits, Payload, Complete

(* What is under way to be enrolled, or in the form, fits its type.        *)
LEMMA AddsFitStep ==
  ASSUME TypeOK, AddsFit, [Next]_vars
  PROVE  AddsFit'
<1> USE DEF serverVars, modalVars, deleteVars, editVars
<1>0. /\ adds \in [Calls -> [at : {"sent", "answered"}, dev : Devices, here : BOOLEAN]
                           \cup {None}]
      /\ form \in Forms
  BY DEF TypeOK
<1>1. ASSUME NEW c \in Calls,
             Post(c) \/ Unstored(adds, c) \/ AddEnds(c) \/ AddFails(c), form' = form
      PROVE  AddsFit'
  <2>1. \A e \in Calls : adds'[e] # None => adds[e] # None /\ adds'[e].dev = adds[e].dev
    BY <1>1, AddsKept
  <2>2. QED
    BY <1>1, <2>1 DEF AddsFit, Fits
<1>2. ASSUME NEW c \in Calls, HandleManualAdd(c) PROVE AddsFit'
  <2>1. Fits(Payload)
    BY <1>2, PayloadFits DEF HandleManualAdd, AddsFit
  <2> DEFINE new == [at |-> "sent", dev |-> Payload, here |-> TRUE]
  <2>2. adds' = [adds EXCEPT ![c] = new] /\ form' = form
    BY <1>2 DEF HandleManualAdd
  <2>3. new.dev = Payload
    OBVIOUS
  <2> HIDE DEF new
  <2>4. \A e \in Calls : adds'[e] = IF e = c THEN new ELSE adds[e]
    BY <1>0, <2>2
  <2>5. QED
    BY <2>1, <2>2, <2>3, <2>4 DEF AddsFit, Fits
<1>3. CASE TypeForm
  <2>1. adds' = adds
    BY <1>3 DEF TypeForm
  <2>2. form'.secret = form.secret \/ form'.secret \in Texts
    <3>1. FieldOf[tab] # "secret"
      BY <1>3, EnrolmentAssumption DEF TypeForm, FieldOf
    <3>2. ASSUME NEW a \in Addresses, form' = [form EXCEPT ![FieldOf[tab]] = a]
          PROVE  form'.secret = form.secret
      BY <1>0, <3>1, <3>2 DEF Forms
    <3>3. QED
      BY <1>0, <1>3, <3>2 DEF TypeForm, Typed, Forms
  <2>3. QED
    BY <2>1, <2>2, TokensTyped DEF AddsFit, Fits
<1>4. CASE UNCHANGED <<adds, form>>
  BY <1>4 DEF AddsFit, Fits
<1>5. ASSUME \/ Refresh \/ Open \/ FetchTokenEnds \/ Close \/ CopyTimeout
             \/ TypeEdit \/ CancelEdit \/ Remount \/ UNCHANGED vars
             \/ \E t \in Tabs : SetTab(t)
             \/ \E type \in Snippets : CopyToClipboard(type)
             \/ \E e \in Names : Confirm(e) \/ HandleStartEdit(e)
      PROVE  UNCHANGED <<adds, form>>
  BY <1>5 DEF Refresh, Open, FetchTokenEnds, Close, CopyTimeout, TypeEdit, CancelEdit,
              Remount, SetTab, CopyToClipboard, Confirm, HandleStartEdit, vars
<1>6. ASSUME NEW c \in Calls,
             \/ DeleteDevice(c) \/ Put(c) \/ DeleteEnds(c) \/ DeleteFails(c)
             \/ HandleSaveEdit(c) \/ SaveEnds(c) \/ SaveFails(c)
             \/ \E e \in Names : HandleDelete(e, c)
      PROVE  UNCHANGED <<adds, form>>
  BY <1>6 DEF DeleteDevice, Put, DeleteEnds, DeleteFails, HandleSaveEdit,
              SaveEnds, SaveFails, HandleDelete
<1>7. ASSUME NEW c \in Calls, NotStored(c) \/ Post(c) \/ AddEnds(c) \/ AddFails(c)
      PROVE  AddsFit'
  <2>1. /\ form' = form
        /\ UNCHANGED adds \/ Post(c) \/ Unstored(adds, c) \/ AddEnds(c) \/ AddFails(c)
    BY <1>7 DEF NotStored, Post, AddEnds, AddFails
  <2>2. QED
    BY <1>1, <1>4, <2>1
<1>8. QED
  BY <1>2, <1>3, <1>4, <1>5, <1>6, <1>7 DEF Next

(* What the page shows was in the table.                                   *)
LEMMA ShownSeenStep ==
  ASSUME TypeOK, TokenFitsType, ShownSeen, [Next]_vars
  PROVE  ShownSeen'
<1>0. /\ shown \in [Names -> [dev : Devices, birth : 1 .. MaxActs + 1] \cup {None}]
      /\ born \in [Names -> 0 .. MaxActs + 1]
  BY DEF TypeOK
<1>1. CASE shown' = shown
  <2>1. SUFFICES ASSUME NEW d \in Names, shown[d] # None
                 PROVE  Seen(d, shown[d].dev, shown[d].birth)'
    BY <1>1 DEF ShownSeen
  <2>2. shown[d].birth \in Nat
    BY <1>0, <2>1, EnrolmentAssumption
  <2> DEFINE dev == shown[d].dev
  <2> DEFINE birth == shown[d].birth
  <2>3. Seen(d, dev, birth)
    BY <2>1 DEF ShownSeen
  <2>4. dev' = dev /\ birth' = birth
    BY <1>1
  <2>5. /\ born'[d] \in {born[d], born[d] + 1}
        /\ table'[d] # None =>
              \/ born'[d] = born[d] + 1
              \/ /\ table[d] # None /\ born'[d] = born[d]
                 /\ table'[d].agent_type = table[d].agent_type
        /\ crossed => crossed'
    BY RowsKeepType
  <2>6. born[d] \in Nat
    BY <1>0, EnrolmentAssumption
  <2> HIDE DEF dev, birth
  <2>7. QED
    BY <2>2, <2>3, <2>4, <2>5, <2>6 DEF Seen, Fits, dev, birth
<1>2. ASSUME shown' = List, UNCHANGED <<table, born, crossed>> PROVE ShownSeen'
  <2>1. SUFFICES ASSUME NEW d \in Names, shown'[d] # None
                 PROVE  Seen(d, shown[d].dev, shown[d].birth)'
    BY DEF ShownSeen
  <2>2. table[d] # None /\ shown'[d].dev = table[d] /\ shown'[d].birth = born[d]
    BY <1>2, <2>1 DEF List
  <2>3. crossed \/ Fits(table[d])
    BY <2>2 DEF TokenFitsType, Fits
  <2>4. born[d] <= born[d]
    BY <1>0, EnrolmentAssumption
  <2>5. QED
    BY <1>2, <2>2, <2>3, <2>4 DEF Seen, Fits
<1> USE DEF serverVars, modalVars, deleteVars, editVars
<1>3. CASE Refresh \/ \E c \in Calls : DeleteEnds(c) \/ SaveEnds(c)
  BY <1>1, <1>2, <1>3 DEF Refresh, DeleteEnds, SaveEnds
<1>4. CASE UNCHANGED vars
  BY <1>1, <1>4 DEF vars
<1>5. ASSUME \/ Open \/ FetchTokenEnds \/ Close \/ CopyTimeout \/ TypeForm
             \/ TypeEdit \/ CancelEdit \/ Remount
             \/ \E t \in Tabs : SetTab(t)
             \/ \E type \in Snippets : CopyToClipboard(type)
             \/ \E e \in Names : Confirm(e) \/ HandleStartEdit(e)
      PROVE  UNCHANGED shown
  BY <1>5 DEF Open, FetchTokenEnds, Close, CopyTimeout, TypeForm, TypeEdit, CancelEdit,
              Remount, SetTab, CopyToClipboard, Confirm, HandleStartEdit
<1>6. ASSUME NEW c \in Calls,
             \/ NotStored(c) \/ Post(c) \/ HandleManualAdd(c) \/ AddEnds(c) \/ AddFails(c)
             \/ DeleteDevice(c) \/ Put(c) \/ DeleteFails(c) \/ HandleSaveEdit(c) \/ SaveFails(c)
             \/ \E e \in Names : HandleDelete(e, c)
      PROVE  UNCHANGED shown
  BY <1>6 DEF NotStored, Post, HandleManualAdd, AddEnds, AddFails, DeleteDevice, Put, DeleteFails,
              HandleSaveEdit, SaveFails, HandleDelete
<1>7. QED
  BY <1>1, <1>3, <1>4, <1>5, <1>6 DEF Next

(* What is edited was on the page, and the form starts as handleStartEdit  *)
(* fills it.                                                               *)
LEMMA EditingSeenStep ==
  ASSUME TypeOK, Counted, ShownSeen, EditingSeen, [Next]_vars
  PROVE  EditingSeen'
<1> USE DEF serverVars, modalVars, deleteVars, editVars
<1>0. /\ editing \in [id : Names, dev : Devices, birth : 1 .. MaxActs + 1] \cup {None}
      /\ shown \in [Names -> [dev : Devices, birth : 1 .. MaxActs + 1] \cup {None}]
      /\ born \in [Names -> 0 .. MaxActs + 1]
  BY DEF TypeOK
<1>1. ASSUME editing' = editing, editing # None
      PROVE  Seen(editing.id, editing.dev, editing.birth)'
  <2> DEFINE d == editing.id
  <2> DEFINE dev == editing.dev
  <2> DEFINE birth == editing.birth
  <2>1. d \in Names /\ birth \in Nat
    BY <1>0, <1>1, EnrolmentAssumption
  <2>2. Seen(d, dev, birth)
    BY <1>1 DEF EditingSeen
  <2>3. d' = d /\ dev' = dev /\ birth' = birth
    BY <1>1
  <2> HIDE DEF d, dev, birth
  <2>4. /\ born'[d] \in {born[d], born[d] + 1}
        /\ table'[d] # None =>
              \/ born'[d] = born[d] + 1
              \/ /\ table[d] # None /\ born'[d] = born[d]
                 /\ table'[d].agent_type = table[d].agent_type
        /\ crossed => crossed'
    BY <2>1, RowsKeepType
  <2>5. born[d] \in Nat
    BY <1>0, <2>1, EnrolmentAssumption
  <2>6. QED
    BY <2>1, <2>2, <2>3, <2>4, <2>5 DEF Seen, Fits, d, dev, birth
<1>k. crossed => crossed'
  BY CrossedStays
<1>2. CASE UNCHANGED <<editing, editForm>>
  BY <1>1, <1>2, <1>k DEF EditingSeen, FormOf, Parsed, Bare, Cut
<1>3. CASE editing' = None
  BY <1>3 DEF EditingSeen
<1>4. ASSUME NEW d \in Names, HandleStartEdit(d) PROVE EditingSeen'
  <2> DEFINE dev == shown[d].dev
  <2>1. /\ shown[d] # None /\ dev \in Devices
        /\ editing' = [id |-> d, dev |-> dev, birth |-> shown[d].birth]
        /\ editForm' = FormOf(dev)
        /\ UNCHANGED <<table, born, crossed>>
    BY <1>0, <1>4 DEF HandleStartEdit, FormOf
  <2>2. Seen(d, dev, shown[d].birth)
    BY <2>1 DEF ShownSeen
  <2>3. editing'.id = d /\ editing'.dev = dev /\ editing'.birth = shown[d].birth
    BY <2>1
  <2>4. Seen(editing.id, editing.dev, editing.birth)'
    BY <2>1, <2>2, <2>3 DEF Seen, Fits
  <2>5. crossed \/ (dev.agent_type = "proxmox" <=> editForm'.secret.secret # None)
    <3>1. dev.enroll_token \in Tokens
      BY <2>1 DEF Devices
    <3>2. Parsed(dev.enroll_token).secret.secret # None <=> dev.enroll_token.secret # None
      BY <3>1, TokensTyped
    <3>3. crossed \/ Fits(dev)
      BY <2>2 DEF Seen
    <3>4. editForm'.secret = Parsed(dev.enroll_token).secret
      BY <2>1 DEF FormOf
    <3> HIDE DEF dev
    <3>5. QED
      BY <3>2, <3>3, <3>4 DEF Fits
  <2>6. editForm' = FormOf(editing'.dev)
    BY <2>1, <2>3
  <2>7. QED
    BY <2>1, <2>3, <2>4, <2>5, <2>6 DEF EditingSeen, FormOf, Parsed, Bare, Cut
<1>5. CASE TypeEdit
  <2>1. editing' = editing /\ editing # None
    BY <1>5 DEF TypeEdit
  <2>2. /\ editForm'.clean = FALSE
        /\ \/ editForm'.secret = editForm.secret
           \/ editing.dev.agent_type = "proxmox" /\ editForm'.secret \in Texts
    <3>2. editForm \in EditForms
      BY <2>1 DEF Counted
    <3>3. ASSUME NEW n, Retyped([editForm EXCEPT !.name = n]) \/ Retyped([editForm EXCEPT !.ip = n])
                       \/ Retyped([editForm EXCEPT !.head = n])
          PROVE  editForm'.clean = FALSE /\ editForm'.secret = editForm.secret
      BY <3>2, <3>3 DEF Retyped, EditForms
    <3>4. ASSUME NEW t \in Texts, Retyped([editForm EXCEPT !.secret = t])
          PROVE  editForm'.clean = FALSE /\ editForm'.secret \in Texts
      BY <3>2, <3>4 DEF Retyped, EditForms
    <3>5. QED
      BY <1>5, <3>3, <3>4 DEF TypeEdit
  <2>3. QED
    BY <1>1, <1>k, <2>1, <2>2, TokensTyped DEF EditingSeen
<1>6. CASE UNCHANGED vars
  BY <1>2, <1>6 DEF vars
<1>7. ASSUME \/ Refresh \/ Open \/ FetchTokenEnds \/ Close \/ CopyTimeout \/ TypeForm
             \/ \E t \in Tabs : SetTab(t)
             \/ \E type \in Snippets : CopyToClipboard(type)
             \/ \E e \in Names : Confirm(e)
      PROVE  UNCHANGED <<editing, editForm>>
  BY <1>7 DEF Refresh, Open, FetchTokenEnds, Close, CopyTimeout, TypeForm,
              SetTab, CopyToClipboard, Confirm
<1>8. ASSUME NEW c \in Calls,
             \/ NotStored(c) \/ Post(c) \/ HandleManualAdd(c) \/ AddEnds(c) \/ AddFails(c)
             \/ DeleteDevice(c) \/ Put(c) \/ DeleteEnds(c) \/ DeleteFails(c)
             \/ HandleSaveEdit(c) \/ SaveFails(c)
             \/ \E e \in Names : HandleDelete(e, c)
      PROVE  UNCHANGED <<editing, editForm>>
  BY <1>8 DEF NotStored, Post, HandleManualAdd, AddEnds, AddFails, DeleteDevice, Put, DeleteEnds, DeleteFails,
              HandleSaveEdit, SaveFails, HandleDelete
<1>9. CASE CancelEdit \/ Remount \/ \E c \in Calls : SaveEnds(c)
  BY <1>2, <1>3, <1>9 DEF CancelEdit, Remount, SaveEnds
<1>10. QED
  BY <1>2, <1>4, <1>5, <1>6, <1>7, <1>8, <1>9 DEF Next

(* Splitting a token into the fields of the form and composing it again    *)
(* gives one that authenticates alike, unless its secret has a "=".        *)
LEMMA ComposedAgain ==
  ASSUME NEW dev \in Devices, Fits(dev), dev.enroll_token.secret \notin Padded
  PROVE  LET p == Parsed(dev.enroll_token) IN
         IF dev.agent_type = "proxmox"
           THEN Header(Composed(p.head, p.secret)) = Header(dev.enroll_token)
           ELSE p.secret = NoToken
<1> DEFINE t == dev.enroll_token
<1>1. t \in Tokens
  BY DEF Devices
<1>2. CASE dev.agent_type = "proxmox"
  <2>1. t.secret \in Secrets \ Padded /\ Cut(t.secret) = t.secret
    BY <1>1, <1>2 DEF Fits, Tokens, Cut
  <2>2. Parsed(t).secret = Bare(t.secret)
    BY <2>1 DEF Parsed
  <2>3. Parsed(t).head = IF t.head # None THEN t.head ELSE DefaultHead
    BY DEF Parsed
  <2>4. Composed(Parsed(t).head, Bare(t.secret))
          = [prefix |-> FALSE, head |-> Parsed(t).head, secret |-> t.secret]
    BY DEF Composed, Bare
  <2>5. DefaultHead # None
    BY EnrolmentAssumption
  <2> HIDE DEF t
  <2>6. Header(Composed(Parsed(t).head, Bare(t.secret))) = Header(t)
    BY <2>1, <2>3, <2>4, <2>5 DEF Header
  <2>7. QED
    BY <1>2, <2>2, <2>6 DEF t
<1>3. CASE dev.agent_type # "proxmox"
  <2>1. t.secret = None /\ Cut(t.secret) = None
    BY <1>3, EnrolmentAssumption DEF Fits, Cut
  <2>2. QED
    BY <1>3, <2>1 DEF Parsed, NoToken
<1>4. QED
  BY <1>2, <1>3

(* What the edit form sends fits the device it was opened for.             *)
LEMMA EditFits ==
  ASSUME TypeOK, Counted, EditingSeen, editing # None
  PROVE  LET b == [id |-> editing.id, name |-> editForm.name, ip |-> editForm.ip,
                   token |-> FinalToken, clean |-> editForm.clean,
                   of |-> editing.dev, birth |-> editing.birth] IN
         /\ crossed \/ (b.of.agent_type = "proxmox" <=> b.token.secret # None)
         /\ Harmless(b)
<1>1. editing.dev \in Devices /\ editForm \in EditForms
  BY DEF TypeOK, Counted
<1>2. FinalToken.secret = editForm.secret.secret
  <2>1. editForm.head \in Heads /\ editForm.secret \in Tokens
    BY <1>1 DEF EditForms
  <2>2. QED
    BY <2>1, TokensTyped DEF FinalToken
<1>3. crossed \/ (editing.dev.agent_type = "proxmox" <=> FinalToken.secret # None)
  BY <1>2 DEF EditingSeen
<1>4. ASSUME editForm.clean, Fits(editing.dev), editing.dev.enroll_token.secret \notin Padded
      PROVE  /\ editForm.name = editing.dev.name /\ editForm.ip = editing.dev.ip_address
             /\ FinalToken = NoToken \/ Header(FinalToken) = Header(editing.dev.enroll_token)
  <2>1. editForm = FormOf(editing.dev)
    BY <1>4 DEF EditingSeen
  <2>2. /\ editForm.name = editing.dev.name /\ editForm.ip = editing.dev.ip_address
        /\ editForm.head = Parsed(editing.dev.enroll_token).head
        /\ editForm.secret = Parsed(editing.dev.enroll_token).secret
    BY <2>1 DEF FormOf
  <2>3. QED
    BY <1>1, <1>4, <2>2, ComposedAgain DEF FinalToken
<1>5. QED
  BY <1>3, <1>4 DEF Harmless

(* The part of SavesSeen about one edit.                                   *)
SaveSeen(b) ==
  /\ Seen(b.id, b.of, b.birth)
  /\ crossed \/ (b.of.agent_type = "proxmox" <=> b.token.secret # None)
  /\ Harmless(b)

(* What an edit was made from stays true of the rows while it is under way.*)
LEMMA SaveStays ==
  ASSUME TypeOK, [Next]_vars, NEW b \in Edits, NEW e \in Edits, SaveSeen(e), b = e
  PROVE  /\ b.birth <= born'[b.id]
         /\ table'[b.id] # None /\ b.birth = born'[b.id]
              => table'[b.id].agent_type = b.of.agent_type
         /\ crossed' \/ Fits(b.of)
<1>1. b.id \in Names /\ b.birth \in Nat
  BY EnrolmentAssumption DEF Edits
<1>2. born[b.id] \in Nat
  BY <1>1, EnrolmentAssumption DEF TypeOK
<1>3. /\ born'[b.id] \in {born[b.id], born[b.id] + 1}
      /\ table'[b.id] # None =>
            \/ born'[b.id] = born[b.id] + 1
            \/ /\ table[b.id] # None /\ born'[b.id] = born[b.id]
               /\ table'[b.id].agent_type = table[b.id].agent_type
      /\ crossed => crossed'
  BY <1>1, RowsKeepType
<1>4. /\ b.birth <= born[b.id]
      /\ table[b.id] # None /\ b.birth = born[b.id]
           => table[b.id].agent_type = b.of.agent_type
      /\ crossed \/ Fits(b.of)
  BY DEF SaveSeen, Seen
<1>5. QED
  BY <1>1, <1>2, <1>3, <1>4

(* What an edit sends fits the device it was made from.                    *)
LEMMA SavesSeenStep ==
  ASSUME TypeOK, TypeOK', Counted, EditingSeen, SavesSeen, [Next]_vars
  PROVE  SavesSeen'
<1> USE DEF serverVars, modalVars, deleteVars, editVars
<1>0. /\ saves \in [Calls -> [at : {"sent", "answered"}, body : Edits, here : BOOLEAN] \cup {None}]
      /\ saves' \in [Calls ->
                      [at : {"sent", "answered"}, body : Edits, here : BOOLEAN] \cup {None}]
  BY DEF TypeOK
<1>1. ASSUME NEW c \in Calls, saves'[c] # None, saves[c] # None, saves'[c].body = saves[c].body
      PROVE  LET b == saves'[c].body IN
              /\ b.birth <= born'[b.id]
              /\ table'[b.id] # None /\ b.birth = born'[b.id]
                   => table'[b.id].agent_type = b.of.agent_type
              /\ crossed' \/ Fits(b.of)
              /\ crossed' \/ (b.of.agent_type = "proxmox" <=> b.token.secret # None)
              /\ Harmless(b)
  <2> DEFINE b == saves[c].body
  <2>1. b \in Edits /\ SaveSeen(b)
    BY <1>0, <1>1 DEF SavesSeen, SaveSeen
  <2> HIDE DEF b
  <2>2. /\ b.birth <= born'[b.id]
        /\ table'[b.id] # None /\ b.birth = born'[b.id]
             => table'[b.id].agent_type = b.of.agent_type
        /\ crossed' \/ Fits(b.of)
    BY <2>1, SaveStays
  <2>3. crossed => crossed'
    BY CrossedStays
  <2>4. QED
    BY <1>1, <2>1, <2>2, <2>3 DEF SaveSeen, b
<1>2. ASSUME \A c \in Calls : saves'[c] # None => /\ saves[c] # None
                                                  /\ saves'[c].body = saves[c].body
      PROVE  SavesSeen'
  BY <1>1, <1>2 DEF SavesSeen, Seen, Fits, Harmless, Header, NoToken, Bare
<1>3. ASSUME NEW c \in Calls, HandleSaveEdit(c) PROVE SavesSeen'
  <2> DEFINE b == [id |-> editing.id, name |-> editForm.name, ip |-> editForm.ip,
                   token |-> FinalToken, clean |-> editForm.clean,
                   of |-> editing.dev, birth |-> editing.birth]
  <2>1. /\ saves' = [saves EXCEPT ![c] = [at |-> "sent", here |-> TRUE, body |-> b]]
        /\ UNCHANGED <<table, born, crossed>> /\ editing # None
    BY <1>3 DEF HandleSaveEdit
  <2>2. /\ crossed \/ (b.of.agent_type = "proxmox" <=> b.token.secret # None)
        /\ Harmless(b)
    BY <2>1, EditFits
  <2>3. Seen(b.id, b.of, b.birth)
    BY <2>1 DEF EditingSeen
  <2>4. saves'[c].body = b /\ \A e \in Calls : e # c => saves'[e] = saves[e]
    BY <1>0, <2>1
  <2> HIDE DEF b
  <2>5. SUFFICES ASSUME NEW e \in Calls, saves'[e] # None
        PROVE  LET x == saves'[e].body IN
              /\ x.birth <= born'[x.id]
              /\ table'[x.id] # None /\ x.birth = born'[x.id]
                   => table'[x.id].agent_type = x.of.agent_type
              /\ crossed' \/ Fits(x.of)
              /\ crossed' \/ (x.of.agent_type = "proxmox" <=> x.token.secret # None)
              /\ Harmless(x)
    BY DEF SavesSeen, Seen, Fits, Harmless, Header, NoToken, Bare
  <2>6. CASE e = c
    BY <2>1, <2>2, <2>3, <2>4, <2>6 DEF Seen
  <2>7. CASE e # c
    BY <1>1, <2>4, <2>5, <2>7
  <2>8. QED
    BY <2>6, <2>7
<1>4. ASSUME NEW c \in Calls, Put(c) \/ Unstored(saves, c) \/ SaveEnds(c) \/ SaveFails(c)
      PROVE  SavesSeen'
  BY <1>2, <1>4, SavesKept
<1>6. CASE Remount
  BY <1>0, <1>2, <1>6 DEF Remount
<1>7. CASE UNCHANGED saves
  BY <1>2, <1>7
<1>8. CASE UNCHANGED vars
  BY <1>7, <1>8 DEF vars
<1>5. ASSUME NEW c \in Calls, NotStored(c) PROVE SavesSeen'
  BY <1>4, <1>5, <1>7 DEF NotStored
<1>9. ASSUME \/ Refresh \/ Open \/ FetchTokenEnds \/ Close \/ CopyTimeout \/ TypeForm
             \/ TypeEdit \/ CancelEdit
             \/ \E t \in Tabs : SetTab(t)
             \/ \E type \in Snippets : CopyToClipboard(type)
             \/ \E e \in Names : Confirm(e) \/ HandleStartEdit(e)
      PROVE  UNCHANGED saves
  BY <1>9 DEF Refresh, Open, FetchTokenEnds, Close, CopyTimeout, TypeForm, TypeEdit, CancelEdit,
              SetTab, CopyToClipboard, Confirm, HandleStartEdit
<1>10. ASSUME NEW c \in Calls,
             \/ Post(c) \/ HandleManualAdd(c) \/ AddEnds(c) \/ AddFails(c)
             \/ DeleteDevice(c) \/ DeleteEnds(c) \/ DeleteFails(c)
             \/ \E e \in Names : HandleDelete(e, c)
      PROVE  UNCHANGED saves
  BY <1>10 DEF Post, HandleManualAdd, AddEnds, AddFails, DeleteDevice, DeleteEnds, DeleteFails,
               HandleDelete
<1>11. QED
  BY <1>3, <1>4, <1>5, <1>6, <1>7, <1>8, <1>9, <1>10 DEF Next

(* No write to the table leaves a token of the wrong type.                 *)
LEMMA TokenFitsStep ==
  ASSUME TypeOK, TokenFitsType, AddsFit, SavesSeen, [Next]_vars
  PROVE  TokenFitsType'
<1> USE DEF serverVars, modalVars, deleteVars, editVars
<1>0. /\ table \in [Names -> Devices \cup {None}]
      /\ adds \in [Calls -> [at : {"sent", "answered"}, dev : Devices, here : BOOLEAN] \cup {None}]
      /\ deletes \in [Calls -> [at : {"sent", "answered"}, id : Names, here : BOOLEAN] \cup {None}]
      /\ saves \in [Calls -> [at : {"sent", "answered"}, body : Edits, here : BOOLEAN] \cup {None}]
  BY DEF TypeOK
<1>1. ASSUME NEW c \in Calls, Post(c) PROVE TokenFitsType'
  <2> DEFINE dev == adds[c].dev
  <2>1. /\ EnrollDevice(dev) /\ crossed' = crossed /\ dev \in Devices /\ Fits(dev)
        /\ dev.name \in Names
    BY <1>0, <1>1 DEF Post, AddsFit, Devices
  <2> HIDE DEF dev
  <2>2. CASE table[dev.name] = None
    <3>1. \A d \in Names : table'[d] = IF d = dev.name THEN dev ELSE table[d]
      BY <1>0, <2>1, <2>2 DEF EnrollDevice
    <3>2. QED
      BY <2>1, <3>1 DEF TokenFitsType, Fits
  <2>3. CASE table[dev.name] # None
    <3> DEFINE new == [table[dev.name] EXCEPT !.name = dev.name, !.ip_address = dev.ip_address]
    <3>1. table' = [table EXCEPT ![dev.name] = new]
      BY <1>0, <2>1, <2>3 DEF EnrollDevice
    <3>2. /\ new.agent_type = table[dev.name].agent_type
          /\ new.enroll_token = table[dev.name].enroll_token
      BY <1>0, <2>1, <2>3 DEF Devices
    <3> HIDE DEF new
    <3>3. \A d \in Names : table'[d] = IF d = dev.name THEN new ELSE table[d]
      BY <1>0, <3>1
    <3>4. QED
      BY <2>1, <2>3, <3>2, <3>3 DEF TokenFitsType
  <2>4. QED
    BY <2>2, <2>3
<1>2. ASSUME NEW c \in Calls, Put(c) PROVE TokenFitsType'
  <2> DEFINE b == saves[c].body
  <2>1. /\ UpdateDevice(b.id, b.name, b.ip, b.token) /\ crossed' = (crossed \/ b.birth # born[b.id])
        /\ b \in Edits /\ b.id \in Names
    BY <1>0, <1>2 DEF Put, Edits
  <2>2. /\ Seen(b.id, b.of, b.birth)
        /\ crossed \/ (b.of.agent_type = "proxmox" <=> b.token.secret # None)
    BY <1>2 DEF Put, SavesSeen
  <2> HIDE DEF b
  <2>3. CASE crossed \/ b.birth # born[b.id]
    BY <2>1, <2>3 DEF TokenFitsType
  <2>4. CASE ~crossed /\ b.birth = born[b.id] /\ table[b.id] = None
    BY <2>1, <2>4 DEF UpdateDevice, TokenFitsType
  <2>5. CASE ~crossed /\ b.birth = born[b.id] /\ table[b.id] # None
    <3> DEFINE t == IF b.token = NoToken THEN table[b.id].enroll_token ELSE b.token
    <3> DEFINE new == [table[b.id] EXCEPT !.name = b.name, !.ip_address = b.ip,
                                    !.enroll_token = t]
    <3>1. table[b.id] \in Devices
      BY <1>0, <2>1, <2>5
    <3>2. table' = [table EXCEPT ![b.id] = new]
      BY <1>0, <2>1, <2>5, <3>1 DEF UpdateDevice
    <3>3. table[b.id].agent_type = b.of.agent_type
      BY <2>2, <2>5 DEF Seen
    <3>4. table[b.id].agent_type = "proxmox" <=> t.secret # None
      BY <2>1, <2>2, <2>5, <3>3 DEF TokenFitsType
    <3> HIDE DEF t
    <3>5. new.agent_type = table[b.id].agent_type /\ new.enroll_token = t
      BY <3>1 DEF Devices
    <3> HIDE DEF new
    <3>6. \A d \in Names : table'[d] = IF d = b.id THEN new ELSE table[d]
      BY <1>0, <3>2
    <3>7. QED
      BY <2>5, <3>4, <3>5, <3>6 DEF TokenFitsType
  <2>6. QED
    BY <2>3, <2>4, <2>5
<1>3. ASSUME NEW c \in Calls, DeleteDevice(c) PROVE TokenFitsType'
  BY <1>0, <1>3 DEF DeleteDevice, TokenFitsType
<1>4. CASE UNCHANGED <<table, crossed>>
  BY <1>4 DEF TokenFitsType
<1>5. CASE UNCHANGED vars
  BY <1>4, <1>5 DEF vars
<1>6. ASSUME \/ Refresh \/ Open \/ FetchTokenEnds \/ Close \/ CopyTimeout \/ TypeForm
             \/ TypeEdit \/ CancelEdit \/ Remount
             \/ \E t \in Tabs : SetTab(t)
             \/ \E type \in Snippets : CopyToClipboard(type)
             \/ \E e \in Names : Confirm(e) \/ HandleStartEdit(e)
      PROVE  UNCHANGED <<table, crossed>>
  BY <1>6 DEF Refresh, Open, FetchTokenEnds, Close, CopyTimeout, TypeForm, TypeEdit, CancelEdit,
              Remount, SetTab, CopyToClipboard, Confirm, HandleStartEdit
<1>7. ASSUME NEW c \in Calls,
             \/ NotStored(c) \/ HandleManualAdd(c) \/ AddEnds(c) \/ AddFails(c)
             \/ DeleteEnds(c) \/ DeleteFails(c)
             \/ HandleSaveEdit(c) \/ SaveEnds(c) \/ SaveFails(c)
             \/ \E e \in Names : HandleDelete(e, c)
      PROVE  UNCHANGED <<table, crossed>>
  BY <1>7 DEF NotStored, HandleManualAdd, AddEnds, AddFails, DeleteEnds, DeleteFails, HandleSaveEdit,
              SaveEnds, SaveFails, HandleDelete
<1>8. QED
  BY <1>1, <1>2, <1>3, <1>4, <1>5, <1>6, <1>7 DEF Next

(* The start.                                                              *)
LEMMA InitKept == Init => EditsKept
<1> SUFFICES ASSUME Init PROVE EditsKept
  OBVIOUS
<1>1. ASSUME NEW d \in Names, table[d] # None PROVE Fits(table[d])
  <2>1. PICK S \in SUBSET Names :
          table \in {t \in [Names -> UNION {Enrolled(e) : e \in Names} \cup {None}] :
                       \A e \in Names : IF e \in S THEN t[e] \in Enrolled(e) ELSE t[e] = None}
    BY DEF Init
  <2>2. table[d] \in Enrolled(d)
    BY <1>1, <2>1
  <2>3. QED
    BY <2>2 DEF Enrolled, Fits
<1>2. TokenFitsType
  BY <1>1 DEF TokenFitsType, Fits
<1>3. AddsFit /\ ShownSeen /\ EditingSeen /\ SavesSeen
  BY DEF Init, NoCalls, AddsFit, ShownSeen, EditingSeen, SavesSeen
<1>4. QED
  BY <1>2, <1>3 DEF EditsKept

(* The inductive invariant: the rows, the page, the form and the requests  *)
(* under way fit each other.                                               *)
LEMMA EditsKeptAlways == Spec => []EditsKept
<1>1. TypeOK /\ Counted /\ EditsKept /\ TypeOK' /\ [Next]_vars => EditsKept'
  BY TokenFitsStep, AddsFitStep, ShownSeenStep, EditingSeenStep, SavesSeenStep DEF EditsKept
<1>2. QED
  BY InitKept, CountedAlways, <1>1, PTL DEF Spec

(* A device of the table has a token exactly if it is a Proxmox one, however*)
(* enrolments, edits and deletions interleave (sqlite.go EnrollDevice,     *)
(* UpdateDevice; DevicesView.tsx handleSaveEdit).                          *)
THEOREM TokensFit == Spec => []TokenFitsType
<1>1. EditsKept => TokenFitsType
  BY DEF EditsKept
<1>2. QED
  BY EditsKeptAlways, <1>1, PTL

(* Saving an edit that nobody typed into may rewrite the token of its      *)
(* device, but the scraper authenticates with it as before, unless the     *)
(* secret has a "=" in it (DevicesView.tsx handleStartEdit, handleSaveEdit;*)
(* proxmox.go getAuthHeader).                                              *)
THEOREM UntouchedEditKeepsLogin == Spec => UntouchedEditAuthenticates
<1>1. ASSUME TypeOK, EditsKept, NEW c \in Calls, StoresUntouched(c),
             saves[c].body.of.enroll_token.secret \notin Padded
      PROVE  AuthenticatesAsBefore(saves[c].body.id)
  <2> DEFINE b == saves[c].body
  <2>1. b \in Edits
    BY <1>1 DEF TypeOK, StoresUntouched
  <2>2. b.of \in Devices /\ b.id \in Names /\ table \in [Names -> Devices \cup {None}]
    BY <1>1, <2>1 DEF Edits, TypeOK
  <2>3. Seen(b.id, b.of, b.birth) /\ Harmless(b)
    BY <1>1 DEF EditsKept, SavesSeen, StoresUntouched
  <2>4. UpdateDevice(b.id, b.name, b.ip, b.token)
    BY <1>1 DEF Put, StoresUntouched
  <2>5. table[b.id] = b.of /\ b.clean /\ ~crossed /\ b.of.enroll_token.secret \notin Padded
    BY <1>1 DEF StoresUntouched
  <2> DEFINE d == b.id
  <2>d. d = b.id
    OBVIOUS
  <2> HIDE DEF b, d
  <2>6. /\ b.name = b.of.name /\ b.ip = b.of.ip_address
        /\ b.token = NoToken \/ Header(b.token) = Header(b.of.enroll_token)
    BY <2>3, <2>5 DEF Seen, Harmless
  <2> DEFINE t == IF b.token = NoToken \/ table[d] = None THEN b.of.enroll_token ELSE b.token
  <2> DEFINE new == [b.of EXCEPT !.enroll_token = t]
  <2>7. Header(t) = Header(b.of.enroll_token)
    BY <2>6
  <2>8. table' = [table EXCEPT ![d] = new]
    <3>1. CASE table[d] = None
      <4>1. t = b.of.enroll_token /\ table' = table
        BY <2>4, <2>d, <3>1 DEF UpdateDevice
      <4>2. new = b.of
        BY <2>2, <4>1 DEF Devices
      <4> HIDE DEF new
      <4>3. QED
        BY <2>2, <2>5, <2>d, <4>1, <4>2
    <3>2. CASE table[d] # None
      <4>1. table' = [table EXCEPT ![d].name = b.name, ![d].ip_address = b.ip,
                                   ![d].enroll_token = IF b.token = NoToken THEN @ ELSE b.token]
        BY <2>4, <2>d, <3>2 DEF UpdateDevice
      <4>2. table' = [table EXCEPT ![d] = [table[d] EXCEPT !.name = b.name, !.ip_address = b.ip,
                                             !.enroll_token = t]]
        BY <2>2, <2>5, <2>d, <3>2, <4>1
      <4>3. [b.of EXCEPT !.name = b.name, !.ip_address = b.ip, !.enroll_token = t] = new
        <5> HIDE DEF t
        <5>1. QED
          BY <2>2, <2>6 DEF Devices
      <4> HIDE DEF t, new
      <4>4. QED
        BY <2>5, <2>d, <4>2, <4>3
    <3>3. QED
      BY <3>1, <3>2
  <2> HIDE DEF t
  <2>9. new.enroll_token = t
    BY <2>2 DEF Devices
  <2>10. table' = [table EXCEPT ![d].enroll_token = t] /\ table'[d].enroll_token = t
    <3>1. [table EXCEPT ![d].enroll_token = t] = [table EXCEPT ![d] = new]
      BY <2>2, <2>5, <2>d
    <3> HIDE DEF new
    <3>2. table'[d] = new
      BY <2>2, <2>8, <2>d
    <3>3. QED
      BY <2>8, <2>9, <3>1, <3>2
  <2>11. AuthenticatesAsBefore(d)
    BY <2>5, <2>7, <2>10, <2>d DEF AuthenticatesAsBefore
  <2>12. QED
    BY <2>11, <2>d DEF b
<1>2. TypeOK /\ EditsKept =>
        [\A c \in Calls :
           StoresUntouched(c) /\ saves[c].body.of.enroll_token.secret \notin Padded
             => AuthenticatesAsBefore(saves[c].body.id)]_vars
  BY <1>1
<1>3. QED
  BY <1>2, TypeCorrect, EditsKeptAlways, PTL DEF UntouchedEditAuthenticates

-----------------------------------------------------------------------------
(* Spinners and disabled buttons.                                          *)

(* The modal.                                                              *)
ModalEnds ==
  /\ loading => tokenCalls > 0
  /\ copiedType # None => copies > 0

(* The page.                                                               *)
PageEnds ==
  /\ isDeleting => \E c \in Calls : deletes[c] # None /\ deletes[c].here
  /\ isSaving => \E c \in Calls : saves[c] # None /\ saves[c].here

(* An answer or a timeout stops what is shown, and may stop it before the  *)
(* last one has come; it never leaves it without one.                      *)
LEMMA ModalEndsStep ==
  ASSUME TypeOK, ModalEnds, [Next]_vars
  PROVE  ModalEnds'
<1> USE DEF modalVars
<1>0. tokenCalls \in Nat /\ copies \in Nat
  BY EnrolmentAssumption DEF TypeOK
<1>u. UNCHANGED <<loading, tokenCalls, copiedType, copies>> => ModalEnds'
  BY DEF ModalEnds
<1>1. CASE Open
  BY <1>0, <1>1 DEF Open, ModalEnds
<1>2. CASE FetchTokenEnds
  BY <1>2 DEF FetchTokenEnds, ModalEnds
<1>3. CASE \E type \in Snippets : CopyToClipboard(type)
  BY <1>0, <1>3 DEF CopyToClipboard, ModalEnds
<1>4. CASE CopyTimeout
  BY <1>4 DEF CopyTimeout, ModalEnds
<1>5. CASE \/ Refresh \/ Close \/ TypeForm \/ TypeEdit \/ CancelEdit \/ Remount
           \/ \E t \in Tabs : SetTab(t)
           \/ \E d \in Names : Confirm(d) \/ HandleStartEdit(d)
           \/ UNCHANGED vars
  BY <1>5, <1>u DEF Refresh, Close, TypeForm, TypeEdit, CancelEdit, Remount, SetTab, Confirm,
                    HandleStartEdit, vars
<1>6. ASSUME NEW c \in Calls,
             \/ NotStored(c) \/ Post(c) \/ HandleManualAdd(c) \/ AddEnds(c) \/ AddFails(c)
             \/ DeleteDevice(c) \/ DeleteEnds(c) \/ DeleteFails(c)
             \/ Put(c) \/ HandleSaveEdit(c) \/ SaveEnds(c) \/ SaveFails(c)
             \/ \E d \in Names : HandleDelete(d, c)
      PROVE  ModalEnds'
  BY <1>6, <1>u DEF NotStored, Post, HandleManualAdd, AddEnds, AddFails, DeleteDevice, DeleteEnds,
                    DeleteFails, Put, HandleSaveEdit, SaveEnds, SaveFails, HandleDelete
<1>7. QED
  BY <1>1, <1>2, <1>3, <1>4, <1>5, <1>6 DEF Next

(* A request of this mount of the page clears the flag it set when it ends.*)
LEMMA PageEndsStep ==
  ASSUME TypeOK, Counted, PageEnds, [Next]_vars
  PROVE  PageEnds'
<1> USE DEF deleteVars, editVars
<1>0. deletes \in [Calls -> Deletes \cup {None}] /\ saves \in [Calls -> Saves \cup {None}]
  BY DEF TypeOK
<1>d. UNCHANGED <<isDeleting, deletes>>
        => (isDeleting' => \E c \in Calls : deletes'[c] # None /\ deletes'[c].here)
  BY DEF PageEnds
<1>s. UNCHANGED <<isSaving, saves>>
        => (isSaving' => \E c \in Calls : saves'[c] # None /\ saves'[c].here)
  BY DEF PageEnds
<1>1. ASSUME NEW d \in Names, NEW c \in Calls, HandleDelete(d, c) PROVE PageEnds'
  <2> DEFINE new == [at |-> "sent", id |-> d, here |-> TRUE]
  <2>1. deletes' = [deletes EXCEPT ![c] = new] /\ UNCHANGED <<isSaving, saves>>
    BY <1>1 DEF HandleDelete
  <2>2. new \in Deletes /\ new.here
    OBVIOUS
  <2> HIDE DEF new
  <2>3. deletes'[c] # None /\ deletes'[c].here
    BY <1>0, <2>1, <2>2, EnrolmentRequests
  <2>4. QED
    BY <1>s, <2>1, <2>3 DEF PageEnds
<1>2. ASSUME NEW c \in Calls, DeleteDevice(c) \/ Unstored(deletes, c), isDeleting' = isDeleting
      PROVE  isDeleting' => \E e \in Calls : deletes'[e] # None /\ deletes'[e].here
  <2>1. deletes' = [deletes EXCEPT ![c].at = "answered"]
    BY <1>2 DEF DeleteDevice, Unstored
  <2>2. \A e \in Calls : deletes[e] # None =>
          deletes'[e] \in Deletes /\ deletes'[e].here = deletes[e].here
    BY <1>0, <2>1
  <2>3. \A e \in Calls : deletes[e] # None => deletes'[e] # None /\ deletes'[e].here = deletes[e].here
    BY <2>2, EnrolmentRequests
  <2>4. QED
    BY <1>2, <2>3 DEF PageEnds
<1>3. ASSUME NEW c \in Calls, DeleteEnds(c) \/ DeleteFails(c) PROVE PageEnds'
  <2>1. /\ UNCHANGED <<isSaving, saves>> /\ deletes[c] # None
        /\ isDeleting' = IF deletes[c].here THEN FALSE ELSE isDeleting
        /\ \A e \in Calls \ {c} : deletes'[e] = deletes[e]
    BY <1>0, <1>3 DEF DeleteEnds, DeleteFails, Failed
  <2>2. QED
    BY <1>s, <2>1 DEF PageEnds
<1>4. ASSUME NEW c \in Calls, HandleSaveEdit(c) PROVE PageEnds'
  <2> DEFINE new == [at |-> "sent", here |-> TRUE, body |-> EditBody]
  <2>1. /\ saves' = [saves EXCEPT ![c] = new] /\ editing # None
        /\ UNCHANGED <<isDeleting, deletes>>
    BY <1>4 DEF HandleSaveEdit, EditBody
  <2>2. new \in Saves /\ new.here
    BY <2>1, EditBodyTyped
  <2> HIDE DEF new
  <2>3. saves'[c] # None /\ saves'[c].here
    BY <1>0, <2>1, <2>2, EnrolmentRequests
  <2>4. QED
    BY <1>d, <2>1, <2>3 DEF PageEnds
<1>5. ASSUME NEW c \in Calls, Put(c) \/ Unstored(saves, c), isSaving' = isSaving
      PROVE  isSaving' => \E e \in Calls : saves'[e] # None /\ saves'[e].here
  <2>1. saves' = [saves EXCEPT ![c].at = "answered"]
    BY <1>5 DEF Put, Unstored
  <2>2. \A e \in Calls : saves[e] # None => saves'[e] \in Saves /\ saves'[e].here = saves[e].here
    BY <1>0, <2>1
  <2>3. \A e \in Calls : saves[e] # None => saves'[e] # None /\ saves'[e].here = saves[e].here
    BY <2>2, EnrolmentRequests
  <2>4. QED
    BY <1>5, <2>3 DEF PageEnds
<1>6. ASSUME NEW c \in Calls, SaveEnds(c) \/ SaveFails(c) PROVE PageEnds'
  <2>1. /\ UNCHANGED <<isDeleting, deletes>> /\ saves[c] # None
        /\ isSaving' = IF saves[c].here THEN FALSE ELSE isSaving
        /\ \A e \in Calls \ {c} : saves'[e] = saves[e]
    BY <1>0, <1>6 DEF SaveEnds, SaveFails, Failed
  <2>2. QED
    BY <1>d, <2>1 DEF PageEnds
<1>7. CASE Remount
  BY <1>7 DEF Remount, PageEnds
<1>8. CASE \/ Refresh \/ Open \/ FetchTokenEnds \/ Close \/ CopyTimeout \/ TypeForm
           \/ TypeEdit \/ CancelEdit
           \/ \E t \in Tabs : SetTab(t)
           \/ \E type \in Snippets : CopyToClipboard(type)
           \/ \E d \in Names : Confirm(d) \/ HandleStartEdit(d)
           \/ UNCHANGED vars
  <2>1. UNCHANGED <<isDeleting, deletes, isSaving, saves>>
    BY <1>8 DEF Refresh, Open, FetchTokenEnds, Close, CopyTimeout, TypeForm, TypeEdit, CancelEdit,
                SetTab, CopyToClipboard, Confirm, HandleStartEdit, vars
  <2>2. QED
    BY <1>d, <1>s, <2>1 DEF PageEnds
<1>9. ASSUME NEW c \in Calls, Post(c) \/ HandleManualAdd(c) \/ AddEnds(c) \/ AddFails(c)
      PROVE  PageEnds'
  BY <1>9, <1>d, <1>s DEF Post, HandleManualAdd, AddEnds, AddFails, PageEnds
<1>10. ASSUME NEW c \in Calls, NotStored(c) \/ DeleteDevice(c) \/ Put(c) PROVE PageEnds'
  <2>1. /\ UNCHANGED <<isDeleting, isSaving>>
        /\ deletes' = deletes \/ DeleteDevice(c) \/ Unstored(deletes, c)
        /\ saves' = saves \/ Put(c) \/ Unstored(saves, c)
    BY <1>10 DEF NotStored, DeleteDevice, Put
  <2>2. QED
    BY <1>d, <1>s, <1>2, <1>5, <2>1 DEF PageEnds
<1>11. QED
  BY <1>1, <1>3, <1>4, <1>6, <1>7, <1>8, <1>9, <1>10 DEF Next

(* No spinner, disabled button or mark of the modal and the page outlives  *)
(* what ends it (AddDeviceModal.tsx:32-55, DevicesView.tsx:42-99).         *)
THEOREM NothingLeftBusy == Spec => []BusyEnds
<1>1. Init => ModalEnds /\ PageEnds
  BY DEF Init, ModalEnds, PageEnds
<1>2. /\ TypeOK /\ ModalEnds /\ [Next]_vars => ModalEnds'
      /\ TypeOK /\ Counted /\ PageEnds /\ [Next]_vars => PageEnds'
  BY ModalEndsStep, PageEndsStep
<1>3. ModalEnds /\ PageEnds => BusyEnds
  BY DEF ModalEnds, PageEnds, BusyEnds
<1>4. QED
  BY <1>1, <1>2, <1>3, CountedAlways, PTL DEF Spec
=============================================================================
