----------------------------- MODULE PageProofs -----------------------------
(* Proofs of the safety properties of the views that fetch for what the    *)
(* operator chose: first Settings, then Observability, whose names and     *)
(* variables are disjoint.                                                 *)
EXTENDS Settings, Observability, FiniteSetTheorems, TLAPS

(* The requests of handleSave the server has not seen, and all of them.    *)
Sending == {c \in Calls : saves[c] # None /\ saves[c].at = "sent"}
Waiting == {c \in Calls : saves[c] # None}

(* Every change of the settings and every timeout was an act of an         *)
(* operator, or will have been: the saves under way are counted with them. *)
Counted ==
  /\ IsFiniteSet(Waiting)
  /\ version + Cardinality(Sending) <= edits + 1
  /\ timers + Cardinality(Waiting) <= edits

Answered == load \notin {None, <<>>}

Fits(x) == x.model = x.provider \/ x.provider \in Unlisted

(* Until some list of models was for an earlier choice, every copy of the  *)
(* settings names a model that fits its provider.                          *)
ModelsFit ==
  ~crossed =>
    /\ Fits(server) /\ Fits(form)
    /\ Answered => Fits(load[1])
    /\ \A c \in Calls : saves[c] # None => Fits(saves[c].body)

(* x shows what the server has, as the page reads it, and no new key.      *)
Shows(x) ==
  /\ x.provider = server.provider /\ x.model = server.model /\ x.endpoint = server.endpoint
  /\ x.temp = OrDefault(server.temp) /\ x.key = None

(* What a copy was made of: a copy of the current version is what the      *)
(* server has, and nothing is newer than that.                             *)
CopiesFit ==
  /\ load # None => isLoading
  /\ isLoading => form.key = None
  /\ base <= version /\ (base = version => Shows(form))
  /\ Answered => load[2] <= version /\ (load[2] = version => load[1] = server)
  /\ \A c \in Calls : saves[c] # None =>
       /\ saves[c].body.enabled = TRUE
       /\ saves[c].body.base <= version
       /\ saves[c].body.base = version => Shows(saves[c].body)

-----------------------------------------------------------------------------
(* Counting.                                                               *)

(* Arithmetic of the two sums, for every step at once.                     *)
LEMMA Balance ==
  ASSUME NEW k \in Nat, NEW v \in Nat, NEW s \in Nat, NEW e \in Nat,
         NEW w \in Nat, NEW r \in Nat, NEW f \in Nat,
         v + s <= e + k, r <= s, (f >= e /\ w <= v) \/ (f = e + 1 /\ w <= v + 1)
  PROVE  w + r <= f + k
  OBVIOUS

(* What a step adds to the changes and the timeouts, it takes from the     *)
(* saves under way or from the acts that are left.                         *)
LEMMA CountKept ==
  ASSUME TypeOK, Counted,
         Sending' \subseteq Sending, Waiting' \subseteq Waiting,
         version' \in Nat, timers' \in Nat, edits' \in 0 .. MaxEdits,
         (edits' >= edits /\ version' <= version) \/ (edits' = edits + 1 /\ version' <= version + 1),
         (edits' >= edits /\ timers' <= timers) \/ (edits' = edits + 1 /\ timers' <= timers + 1)
  PROVE  Counted'
<1>1. IsFiniteSet(Waiting)
  BY DEF Counted
<1>c. version + Cardinality(Sending) <= edits + 1 /\ timers + Cardinality(Waiting) <= edits
  BY DEF Counted
<1>2. version \in Nat /\ timers \in Nat /\ edits \in Nat /\ edits' \in Nat
  BY SettingsAssumption DEF TypeOK
<1>3. IsFiniteSet(Sending)
  BY <1>1, FS_Subset DEF Sending, Waiting
<1>4. IsFiniteSet(Waiting') /\ IsFiniteSet(Sending')
  BY <1>1, <1>3, FS_Subset
<1>5. Cardinality(Waiting') <= Cardinality(Waiting) /\ Cardinality(Sending') <= Cardinality(Sending)
  BY <1>1, <1>3, FS_Subset
<1>6. /\ Cardinality(Waiting') \in Nat /\ Cardinality(Sending') \in Nat
      /\ Cardinality(Waiting) \in Nat /\ Cardinality(Sending) \in Nat
  BY <1>1, <1>3, <1>4, FS_CardinalityType
<1>7. version' + Cardinality(Sending') <= edits' + 1
  BY <1>2, <1>5, <1>6, <1>c, Balance
<1>9. timers' + Cardinality(Waiting') <= edits' + 0
  <2>1. timers + Cardinality(Waiting) <= edits + 0
    BY <1>2, <1>6, <1>c
  <2>2. QED
    BY <2>1, <1>2, <1>5, <1>6, Balance
<1>10. timers' + Cardinality(Waiting') <= edits'
  BY <1>2, <1>9
<1>11. QED
  BY <1>4, <1>7, <1>10 DEF Counted

(* A request of handleSave is an act; until the server has it, it may      *)
(* still change the settings, and until it ends, start a timeout.          *)
LEMMA CountMoved ==
  ASSUME NEW S, NEW T, NEW c, IsFiniteSet(S), T \subseteq S \cup {c}
  PROVE  /\ IsFiniteSet(T) /\ Cardinality(T) \in Nat /\ Cardinality(S) \in Nat
         /\ Cardinality(T) <= Cardinality(S) + 1
         /\ c \in S /\ c \notin T => Cardinality(T) + 1 <= Cardinality(S)
<1>1. /\ IsFiniteSet(S \cup {c}) /\ Cardinality(S) \in Nat
      /\ Cardinality(S \cup {c}) \in Nat
      /\ Cardinality(S \cup {c}) <= Cardinality(S) + 1
  BY FS_AddElement, FS_CardinalityType
<1>2. /\ IsFiniteSet(T) /\ Cardinality(T) \in Nat
      /\ Cardinality(T) <= Cardinality(S \cup {c})
  BY <1>1, FS_Subset, FS_CardinalityType
<1>3. ASSUME c \in S, c \notin T PROVE Cardinality(T) + 1 <= Cardinality(S)
  <2>1. T \subseteq S \ {c}
    BY <1>3
  <2>2. IsFiniteSet(S \ {c}) /\ Cardinality(S \ {c}) = Cardinality(S) - 1
    BY <1>3, FS_RemoveElement
  <2>3. Cardinality(T) <= Cardinality(S \ {c})
    BY <2>1, <2>2, FS_Subset
  <2>4. QED
    BY <1>1, <1>2, <2>2, <2>3
<1>4. Cardinality(T) <= Cardinality(S) + 1
  BY <1>1, <1>2
<1>5. QED
  BY <1>1, <1>2, <1>3, <1>4

(* Each step of the page, the server and the other operator.               *)
LEMMA CountedStep ==
  ASSUME TypeOK, Counted, [Next]_vars
  PROVE  /\ Counted' /\ version' \in Nat /\ version' >= version
         /\ timers' \in Nat /\ edits' \in 0 .. MaxEdits
<1> DEFINE Goal == /\ Counted' /\ version' \in Nat /\ version' >= version
                   /\ timers' \in Nat /\ edits' \in 0 .. MaxEdits
<1> USE DEF flags, requests, history
<1>0. /\ version \in Nat /\ timers \in Nat /\ edits \in 0 .. MaxEdits
      /\ edits \in Nat /\ MaxEdits \in Nat
  BY SettingsAssumption DEF TypeOK
<1>1. /\ IsFiniteSet(Waiting) /\ IsFiniteSet(Sending) /\ Sending \subseteq Waiting
      /\ version + Cardinality(Sending) <= edits + 1
      /\ timers + Cardinality(Waiting) <= edits
  BY FS_Subset DEF Counted, Sending, Waiting
<1>2. ASSUME Act PROVE edits' \in 0 .. MaxEdits /\ edits' = edits + 1
  BY <1>0, <1>2 DEF Act
<1>3. ASSUME UNCHANGED saves PROVE Sending' = Sending /\ Waiting' = Waiting
  BY <1>3 DEF Sending, Waiting
<1>4. ASSUME UNCHANGED <<saves, version, timers>>, UNCHANGED edits \/ Act
      PROVE  Goal
  <2>1. edits' \in 0 .. MaxEdits /\ edits' >= edits
    BY <1>0, <1>2, <1>4
  <2>2. version' = version /\ timers' = timers
    BY <1>4
  <2>3. Sending' \subseteq Sending /\ Waiting' \subseteq Waiting
    BY <1>3, <1>4
  <2>4. Counted'
    BY <1>0, <2>1, <2>2, <2>3, CountKept
  <2>5. QED
    BY <1>0, <2>1, <2>2, <2>4
<1>5. CASE \/ Get \/ FetchSettings \/ FetchSettingsFails \/ EditField \/ QueryModels
           \/ UNCHANGED vars
  <2>1. UNCHANGED <<saves, version, timers>> /\ (UNCHANGED edits \/ Act)
    BY <1>5 DEF Get, FetchSettings, FetchSettingsFails, EditField, QueryModels, vars
  <2>2. QED
    BY <1>4, <2>1
<1>6. CASE \/ \E p \in Providers : HandleProviderChange(p)
           \/ \E c \in Calls : ModelsArrive(c) \/ NoModels(c)
           \/ \E ch \in Channels : TestChatOps(ch) \/ TestEnds(ch)
  <2>1. UNCHANGED <<saves, version, timers>> /\ (UNCHANGED edits \/ Act)
    BY <1>6 DEF HandleProviderChange, ModelsArrive, NoModels, TestChatOps, TestEnds
  <2>2. QED
    BY <1>4, <2>1
<1>7. CASE SavedElsewhere
  <2>1. Act /\ version' \in {version, version + 1} /\ UNCHANGED <<saves, timers>>
    BY <1>7 DEF SavedElsewhere, Store
  <2>2. edits' \in 0 .. MaxEdits /\ edits' = edits + 1
    BY <1>2, <2>1
  <2>3. Sending' \subseteq Sending /\ Waiting' \subseteq Waiting
    BY <1>3, <2>1
  <2>4. timers' = timers /\ version' \in {version, version + 1}
    BY <2>1
  <2>5. Counted'
    BY <1>0, <2>2, <2>3, <2>4, CountKept
  <2>6. QED
    BY <1>0, <2>2, <2>4, <2>5
<1>8. CASE Timeout
  <2>1. timers > 0 /\ timers' = timers - 1 /\ version' = version /\ edits' = edits
    BY <1>8 DEF Timeout
  <2>2. Sending' \subseteq Sending /\ Waiting' \subseteq Waiting
    BY <1>3, <1>8 DEF Timeout
  <2>3. Counted'
    BY <1>0, <2>1, <2>2, CountKept
  <2>4. QED
    BY <1>0, <2>1, <2>3
<1>9. CASE Remount
  <2>1. Act /\ timers' = 0 /\ version' = version
    BY <1>9 DEF Remount
  <2>2. edits' \in 0 .. MaxEdits /\ edits' = edits + 1
    BY <1>2, <2>1
  <2>3. Sending' \subseteq Sending /\ Waiting' \subseteq Waiting
    <3>1. \A c \in Calls : saves'[c] = IF saves[c] = None THEN None
                                       ELSE [saves[c] EXCEPT !.here = FALSE]
      BY <1>9 DEF Remount
    <3>2. \A c \in Calls : saves[c] # None =>
            saves[c] \in [here : BOOLEAN, at : {"sent", "saved", "refused"}, body : Payloads]
      BY DEF TypeOK, Saves
    <3>3. \A c \in Calls : saves[c] # None => [saves[c] EXCEPT !.here = FALSE].at = saves[c].at
      BY <3>2
    <3>4. QED
      BY <3>1, <3>3 DEF Sending, Waiting
  <2>4. Counted'
    BY <1>0, <2>1, <2>2, <2>3, CountKept
  <2>5. QED
    BY <1>0, <2>1, <2>2, <2>4
<1>10. ASSUME NEW c \in Calls, HandleSave(c) PROVE Goal
  <2>1. Act /\ version' = version /\ timers' = timers
    BY <1>10 DEF HandleSave
  <2>2. edits' \in 0 .. MaxEdits /\ edits' = edits + 1
    BY <1>2, <2>1
  <2>3. Sending' \subseteq Sending \cup {c} /\ Waiting' \subseteq Waiting \cup {c}
    <3>1. \A d \in Calls \ {c} : saves'[d] = saves[d]
      BY <1>10 DEF HandleSave, TypeOK
    <3>2. QED
      BY <3>1 DEF Sending, Waiting
  <2>4. /\ IsFiniteSet(Waiting') /\ Cardinality(Waiting') <= Cardinality(Waiting) + 1
        /\ Cardinality(Waiting') \in Nat /\ Cardinality(Waiting) \in Nat
    BY <1>1, <2>3, CountMoved
  <2>5. /\ Cardinality(Sending') <= Cardinality(Sending) + 1
        /\ Cardinality(Sending') \in Nat /\ Cardinality(Sending) \in Nat
    BY <1>1, <2>3, CountMoved
  <2>6. version' + Cardinality(Sending') <= edits' + 1 /\ timers' + Cardinality(Waiting') <= edits'
    BY <1>0, <1>1, <2>1, <2>2, <2>4, <2>5
  <2>7. QED
    BY <1>0, <2>1, <2>2, <2>4, <2>6 DEF Counted
<1>11. ASSUME NEW c \in Calls, Put(c) PROVE Goal
  <2>1. /\ version' \in {version, version + 1} /\ timers' = timers /\ edits' = edits
    BY <1>11 DEF Put, Store
  <2>2. /\ saves' = [saves EXCEPT ![c].at = "saved"] /\ saves[c] # None /\ saves[c].at = "sent"
    BY <1>11 DEF Put
  <2>3. /\ saves \in [Calls -> [here : BOOLEAN, at : {"sent", "saved", "refused"},
                                body : Payloads] \cup {None}]
    BY DEF TypeOK, Saves
  <2>4. c \in Waiting /\ c \in Sending /\ c \notin Sending'
    BY <2>2, <2>3 DEF Sending, Waiting
  <2>5. Sending' \subseteq Sending \cup {c} /\ Waiting' \subseteq Waiting
    <3>1. \A d \in Calls \ {c} : saves'[d] = saves[d]
      BY <2>2, <2>3
    <3>2. QED
      BY <2>4, <3>1 DEF Sending, Waiting
  <2>6. /\ Cardinality(Sending') + 1 <= Cardinality(Sending)
        /\ Cardinality(Sending') \in Nat /\ Cardinality(Sending) \in Nat
    BY <1>1, <2>4, <2>5, CountMoved
  <2>7. /\ IsFiniteSet(Waiting') /\ Cardinality(Waiting') <= Cardinality(Waiting)
        /\ Cardinality(Waiting') \in Nat /\ Cardinality(Waiting) \in Nat
    BY <1>1, <2>5, FS_Subset, FS_CardinalityType
  <2>8. version' + Cardinality(Sending') <= edits' + 1 /\ timers' + Cardinality(Waiting') <= edits'
    BY <1>0, <1>1, <2>1, <2>6, <2>7
  <2>9. QED
    BY <1>0, <2>1, <2>7, <2>8 DEF Counted
<1>12. ASSUME NEW c \in Calls, Refuse(c) PROVE Goal
  <2>1. Act /\ version' = version /\ timers' = timers
    BY <1>12 DEF Refuse
  <2>2. edits' \in 0 .. MaxEdits /\ edits' = edits + 1
    BY <1>2, <2>1
  <2>3. /\ saves' = [saves EXCEPT ![c].at = "refused"] /\ saves[c] # None
    BY <1>12 DEF Refuse
  <2>4. Sending' \subseteq Sending /\ Waiting' \subseteq Waiting
    <3>1. \A d \in Calls \ {c} : saves'[d] = saves[d]
      BY <2>3 DEF TypeOK
    <3>2. saves'[c].at = "refused"
      BY <2>3 DEF TypeOK, Saves
    <3>3. QED
      BY <2>3, <3>1, <3>2 DEF Sending, Waiting
  <2>5. Counted'
    BY <1>0, <2>1, <2>2, <2>4, CountKept
  <2>6. QED
    BY <1>0, <2>1, <2>2, <2>5
<1>13. ASSUME NEW c \in Calls, SaveEnds(c) PROVE Goal
  <2>1. timers' \in {timers, timers + 1} /\ version' = version /\ edits' = edits
    BY <1>13 DEF SaveEnds
  <2>2. saves' = [saves EXCEPT ![c] = None] /\ saves[c] # None
    BY <1>13 DEF SaveEnds
  <2>3. /\ Waiting' \subseteq Waiting \cup {c} /\ Sending' \subseteq Sending
        /\ c \in Waiting /\ c \notin Waiting'
    <3>1. saves'[c] = None /\ \A d \in Calls \ {c} : saves'[d] = saves[d]
      BY <2>2 DEF TypeOK
    <3>2. QED
      BY <2>2, <3>1 DEF Sending, Waiting
  <2>4. /\ IsFiniteSet(Waiting') /\ Cardinality(Waiting') + 1 <= Cardinality(Waiting)
        /\ Cardinality(Waiting') \in Nat /\ Cardinality(Waiting) \in Nat
    BY <1>1, <2>3, CountMoved
  <2>5. /\ Cardinality(Sending') <= Cardinality(Sending)
        /\ Cardinality(Sending') \in Nat /\ Cardinality(Sending) \in Nat
    BY <1>1, <2>3, FS_Subset, FS_CardinalityType
  <2>6. version' + Cardinality(Sending') <= edits' + 1 /\ timers' + Cardinality(Waiting') <= edits'
    BY <1>0, <1>1, <2>1, <2>4, <2>5
  <2>7. QED
    BY <1>0, <2>1, <2>4, <2>6 DEF Counted
<1>14. QED
  BY <1>5, <1>6, <1>7, <1>8, <1>9, <1>10, <1>11, <1>12, <1>13 DEF Next

-----------------------------------------------------------------------------
(* Types.                                                                  *)

(* A sum within a bound bounds what is added.                              *)
LEMMA Below ==
  ASSUME NEW k \in Nat, NEW n \in Nat, NEW v \in Nat, NEW s \in Nat, NEW e \in 0 .. n,
         v + s <= e + k
  PROVE  v <= n + k
  OBVIOUS

(* The counters within their bounds.                                       *)
LEMMA InBounds ==
  ASSUME Counted', version' \in Nat, timers' \in Nat, edits' \in 0 .. MaxEdits
  PROVE  version' <= MaxEdits + 1 /\ timers' <= MaxEdits + 0
<1>1. IsFiniteSet(Waiting') /\ IsFiniteSet(Sending')
  BY FS_Subset DEF Counted, Sending, Waiting
<1>2. Cardinality(Waiting') \in Nat /\ Cardinality(Sending') \in Nat
  BY <1>1, FS_CardinalityType
<1>3. version' + Cardinality(Sending') <= edits' + 1 /\ timers' + Cardinality(Waiting') <= edits'
  BY DEF Counted
<1>4. MaxEdits \in Nat
  BY SettingsAssumption
<1>5. version' <= MaxEdits + 1
  BY <1>2, <1>3, <1>4, Below
<1>6. timers' <= MaxEdits + 0
  <2> DEFINE e == edits'
  <2> DEFINE w == Cardinality(Waiting')
  <2> DEFINE n == timers'
  <2>1. e \in 0 .. MaxEdits /\ w \in Nat /\ n \in Nat /\ n + w <= e
    BY <1>2, <1>3
  <2> HIDE DEF e, w, n
  <2>2. n <= MaxEdits + 0
    BY <1>4, <2>1
  <2>3. QED
    BY <2>2 DEF n
<1>7. QED
  BY <1>5, <1>6

(* What is sent, stored and shown is typed.                                *)
LEMMA DataTyped ==
  ASSUME TypeOK
  PROVE  /\ \A c \in Calls : saves[c] # None => Merged(saves[c].body) \in Configs
         /\ \A c \in Calls : queries[c] # None =>
              FirstOf(ListOf(queries[c][1], queries[c][2])) \in Providers
         /\ Payload \in Payloads
         /\ EmptyForm \in Forms
         /\ load \notin {None, <<>>} => load \in Loads
<1>1. /\ server \in Configs /\ form \in Forms /\ base \in 0 .. MaxEdits + 1
      /\ queries \in [Calls -> Queries \cup {None}]
      /\ saves \in [Calls -> Saves \cup {None}]
      /\ load \in {None, <<>>} \cup Loads
  BY DEF TypeOK, Saves, Queries, Loads
<1>2. ASSUME NEW c \in Calls, saves[c] # None PROVE Merged(saves[c].body) \in Configs
  <2>1. saves[c].body \in Payloads
    BY <1>1, <1>2 DEF Saves
  <2>2. QED
    BY <1>1, <2>1 DEF Merged, Payloads, Configs
<1>3. ASSUME NEW c \in Calls, queries[c] # None
      PROVE  FirstOf(ListOf(queries[c][1], queries[c][2])) \in Providers
  <2>1. queries[c][1] \in Providers /\ queries[c][2] \in Providers \cup {None}
    BY <1>1, <1>3 DEF Queries
  <2>2. server.endpoint \in Providers \cup {None}
    BY <1>1 DEF Configs
  <2>3. /\ ListOf(queries[c][1], queries[c][2]) \subseteq Providers
        /\ ListOf(queries[c][1], queries[c][2]) # {}
    BY <2>1, <2>2, SettingsAssumption DEF ListOf
  <2>4. QED
    BY <2>3, SettingsAssumption DEF FirstOf
<1>4. Payload \in Payloads
  BY <1>1 DEF Payload, Forms, Payloads
<1>5. EmptyForm \in Forms
  BY SettingsAssumption DEF EmptyForm, Forms, Temps
<1>6. QED
  BY <1>1, <1>2, <1>3, <1>4, <1>5

(* All but the counters.                                                   *)
Typed ==
  /\ server \in Configs /\ form \in Forms /\ base \in 0 .. MaxEdits + 1
  /\ crossed \in BOOLEAN
  /\ isLoading \in BOOLEAN /\ isSaving \in BOOLEAN /\ isFetchingModels \in BOOLEAN
  /\ testing \in Channels \cup {None} /\ status \in {None, "success", "error"}
  /\ load \in {None, <<>>} \cup Loads
  /\ queries \in [Calls -> Queries \cup {None}] /\ saves \in [Calls -> Saves \cup {None}]
  /\ tests \in SUBSET Channels

(* Each step keeps the types.                                              *)
LEMMA TypedStep ==
  ASSUME TypeOK, [Next]_vars
  PROVE  Typed'
<1> USE DEF flags, requests, history
<1>0. Typed
  BY DEF TypeOK, Typed, Saves, Queries, Loads
<1>t. 0 \in Temps /\ DefaultTemp \in Temps /\ 0 \in 0 .. MaxEdits + 1
  BY SettingsAssumption DEF Temps
<1>1. CASE Get
  <2>1. <<server, version>> \in Loads
    BY <1>0 DEF TypeOK, Loads
  <2>2. QED
    BY <1>0, <1>1, <2>1 DEF Get, Typed
<1>2. CASE SavedElsewhere
  <2>1. server' \in Configs
    BY <1>0, <1>2 DEF SavedElsewhere, Store, Typed, Configs
  <2>2. QED
    BY <1>0, <1>2, <2>1 DEF SavedElsewhere, Typed
<1>3. CASE FetchSettings
  <2>1. load[1] \in Configs /\ load[2] \in 1 .. MaxEdits + 1
    <3>1. load \in Loads
      BY <1>3, DataTyped DEF FetchSettings
    <3>2. QED
      BY <3>1 DEF Loads
  <2>2. OrDefault(load[1].temp) \in Temps
    BY <1>t, <2>1 DEF OrDefault, Configs
  <2>3. form' \in Forms
    BY <1>0, <1>3, <2>1, <2>2 DEF FetchSettings, Typed, Forms, Configs
  <2>4. base' \in 0 .. MaxEdits + 1
    <3>1. base' = load[2]
      BY <1>3 DEF FetchSettings
    <3>2. QED
      BY <2>1, <3>1, SettingsAssumption
  <2>5. QED
    BY <1>0, <1>3, <2>3, <2>4 DEF FetchSettings, Typed
<1>4. CASE FetchSettingsFails
  BY <1>0, <1>4 DEF FetchSettingsFails, Typed
<1>5. CASE EditField
  <2>1. form' \in Forms /\ base' = 0
    <3>1. Offered(form.provider) \subseteq Providers
      BY <1>0, SettingsAssumption DEF Offered, Typed, Forms
    <3>2. QED
      BY <1>0, <1>5, <3>1 DEF EditField, Edit, Typed, Forms
  <2>2. QED
    BY <1>0, <1>5, <1>t, <2>1 DEF EditField, Typed
<1>q. ASSUME NEW p \in Providers, FetchAvailableModels(p)
      PROVE  queries' \in [Calls -> Queries \cup {None}] /\ isFetchingModels' \in BOOLEAN
  <2>1. <<p, form.endpoint, form.model>> \in Queries
    BY <1>0 DEF Typed, Forms, Queries
  <2>2. QED
    BY <1>0, <1>q, <2>1 DEF FetchAvailableModels, Typed
<1>6. CASE QueryModels
  <2>1. form.provider \in Providers
    BY <1>0 DEF Typed, Forms
  <2>2. QED
    BY <1>0, <1>6, <1>q, <2>1 DEF QueryModels, Typed
<1>7. CASE Timeout
  BY <1>0, <1>7 DEF Timeout, Typed
<1>8. CASE Remount
  <2>1. saves' \in [Calls -> Saves \cup {None}]
    <3>1. \A c \in Calls : saves[c] # None => [saves[c] EXCEPT !.here = FALSE] \in Saves
      BY <1>0 DEF Typed, Saves
    <3>2. QED
      BY <1>8, <3>1 DEF Remount
  <2>2. queries' \in [Calls -> Queries \cup {None}] /\ tests' \in SUBSET Channels
    BY <1>8 DEF Remount, NoCalls
  <2>3. form' \in Forms
    BY <1>8, DataTyped DEF Remount
  <2>4. QED
    BY <1>0, <1>8, <1>t, <2>1, <2>2, <2>3 DEF Remount, Typed
<1>9. ASSUME NEW p \in Providers, HandleProviderChange(p) PROVE Typed'
  <2>1. form' \in Forms /\ base' = 0
    BY <1>0, <1>9 DEF HandleProviderChange, Edit, Typed, Forms
  <2>2. QED
    BY <1>0, <1>9, <1>t, <1>q, <2>1 DEF HandleProviderChange, Typed
<1>10. ASSUME NEW c \in Calls, ModelsArrive(c) PROVE Typed'
  <2>1. FirstOf(ListOf(queries[c][1], queries[c][2])) \in Providers
    BY <1>10, DataTyped DEF ModelsArrive
  <2>2. form' \in Forms
    BY <1>0, <1>10, <2>1 DEF ModelsArrive, Edit, Typed, Forms
  <2>3. base' \in {0, base} /\ crossed' \in BOOLEAN
    BY <1>10 DEF ModelsArrive, Edit
  <2>4. queries' \in [Calls -> Queries \cup {None}]
    BY <1>0, <1>10 DEF ModelsArrive, Typed
  <2>5. QED
    BY <1>0, <1>10, <1>t, <2>2, <2>3, <2>4 DEF ModelsArrive, Typed
<1>11. ASSUME NEW c \in Calls, NoModels(c) PROVE Typed'
  BY <1>0, <1>11 DEF NoModels, Typed
<1>12. ASSUME NEW c \in Calls, HandleSave(c) PROVE Typed'
  <2> DEFINE new == [here |-> TRUE, at |-> "sent", body |-> Payload]
  <2>1. new \in Saves
    BY DataTyped DEF Saves
  <2>2. saves' = [saves EXCEPT ![c] = new]
    BY <1>12 DEF HandleSave
  <2> HIDE DEF new
  <2>3. saves' \in [Calls -> Saves \cup {None}]
    BY <1>0, <2>1, <2>2 DEF Typed
  <2>4. QED
    BY <1>0, <1>12, <2>3 DEF HandleSave, Typed
<1>13. ASSUME NEW c \in Calls, Put(c) PROVE Typed'
  <2>1. server' \in Configs
    BY <1>13, DataTyped DEF Put, Store
  <2>2. saves' \in [Calls -> Saves \cup {None}]
    BY <1>0, <1>13 DEF Put, Typed, Saves
  <2>3. QED
    BY <1>0, <1>13, <2>1, <2>2 DEF Put, Typed
<1>14. ASSUME NEW c \in Calls, Refuse(c) PROVE Typed'
  <2>1. saves' \in [Calls -> Saves \cup {None}]
    BY <1>0, <1>14 DEF Refuse, Typed, Saves
  <2>2. QED
    BY <1>0, <1>14, <2>1 DEF Refuse, Typed
<1>15. ASSUME NEW c \in Calls, SaveEnds(c) PROVE Typed'
  <2>1. saves' \in [Calls -> Saves \cup {None}]
    BY <1>0, <1>15 DEF SaveEnds, Typed
  <2>2. saves[c].body.key \in Keys \cup {None}
    BY <1>0, <1>15 DEF SaveEnds, Typed, Saves, Payloads
  <2>3. SavedForm(saves[c].body.key) \in Forms
    BY <1>0, <2>2 DEF SavedForm, Typed, Forms
  <2>4. form' \in Forms /\ status' \in {None, "success", "error"} /\ isSaving' \in BOOLEAN
    BY <1>0, <1>15, <2>3 DEF SaveEnds, Typed
  <2>5. QED
    BY <1>0, <1>15, <2>1, <2>4 DEF SaveEnds, Typed
<1>16. ASSUME NEW ch \in Channels, TestChatOps(ch) \/ TestEnds(ch) PROVE Typed'
  BY <1>0, <1>16 DEF TestChatOps, TestEnds, Typed
<1>17. CASE UNCHANGED vars
  BY <1>0, <1>17 DEF vars, Typed
<1>18. QED
  BY <1>1, <1>2, <1>3, <1>4, <1>5, <1>6, <1>7, <1>8, <1>9, <1>10, <1>11, <1>12, <1>13, <1>14,
     <1>15, <1>16, <1>17 DEF Next

(* Types and counters together.                                            *)
LEMMA TypeStep ==
  ASSUME TypeOK, Counted, [Next]_vars
  PROVE  TypeOK' /\ Counted'
<1>1. /\ Counted' /\ version' \in Nat /\ version' >= version
      /\ timers' \in Nat /\ edits' \in 0 .. MaxEdits
  BY CountedStep
<1>2. version' <= MaxEdits + 1 /\ timers' <= MaxEdits + 0
  BY <1>1, InBounds
<1>3. version' \in 1 .. MaxEdits + 1 /\ timers' \in 0 .. MaxEdits
  <2>1. version \in Nat /\ version >= 1 /\ MaxEdits \in Nat
    BY SettingsAssumption DEF TypeOK
  <2>2. QED
    BY <1>1, <1>2, <2>1
<1>4. Typed'
  BY TypedStep
<1>5. QED
  BY <1>1, <1>3, <1>4 DEF TypeOK, Typed, Saves, Queries, Loads

-----------------------------------------------------------------------------
(* Models of their provider.                                               *)

(* Each step keeps models with their providers: a list for an earlier      *)
(* choice sets crossed, which excuses what follows from it.                *)
LEMMA ModelsStep ==
  ASSUME TypeOK, ModelsFit, [Next]_vars
  PROVE  ModelsFit'
<1> USE DEF flags, requests, history, Fits
<1>0. /\ server \in Configs /\ form \in Forms
      /\ load \in {None, <<>>} \cup Loads
      /\ saves \in [Calls -> Saves \cup {None}]
  BY DEF TypeOK, Saves, Loads
<1>1. CASE Get
  BY <1>0, <1>1 DEF Get, ModelsFit, Answered
<1>2. CASE SavedElsewhere
  <2>1. server'.model = server'.provider
    BY <1>0, <1>2 DEF SavedElsewhere, Store, Configs
  <2>2. QED
    BY <1>2, <2>1 DEF SavedElsewhere, ModelsFit, Answered
<1>3. CASE FetchSettings
  <2>1. form'.model = load[1].model /\ form'.provider = load[1].provider
    BY <1>0, <1>3 DEF FetchSettings, Forms
  <2>2. QED
    BY <1>3, <2>1 DEF FetchSettings, ModelsFit, Answered
<1>4. CASE FetchSettingsFails
  BY <1>4 DEF FetchSettingsFails, ModelsFit, Answered
<1>5. CASE EditField
  <2>1. /\ form'.provider = form.provider
        /\ form'.model \in {form.model} \cup Offered(form.provider)
    BY <1>0, <1>5 DEF EditField, Edit, Forms
  <2>2. Fits(form) => Fits(form)'
    BY <2>1 DEF Offered
  <2>3. QED
    BY <1>5, <2>2 DEF EditField, ModelsFit, Answered
<1>6. CASE QueryModels \/ Timeout \/ UNCHANGED vars
  BY <1>6 DEF QueryModels, Timeout, vars, ModelsFit, Answered
<1>7. CASE Remount
  <2>1. \A c \in Calls : saves'[c] # None => saves[c] # None /\ saves'[c].body = saves[c].body
    BY <1>0, <1>7 DEF Remount, Saves
  <2>2. form'.model = form'.provider /\ server' = server /\ crossed' = crossed /\ ~Answered'
    BY <1>7 DEF Remount, EmptyForm, Answered
  <2>3. QED
    BY <2>1, <2>2 DEF ModelsFit
<1>8. ASSUME NEW p \in Providers, HandleProviderChange(p) PROVE ModelsFit'
  <2>1. form'.model = form'.provider
    BY <1>0, <1>8 DEF HandleProviderChange, Edit, Forms
  <2>2. QED
    BY <1>8, <2>1 DEF HandleProviderChange, ModelsFit, Answered
<1>9. ASSUME NEW c \in Calls, ModelsArrive(c) PROVE ModelsFit'
  <2> DEFINE list == ListOf(queries[c][1], queries[c][2])
  <2>1. form'.provider = form.provider /\ form'.model \in {form.model, FirstOf(list)}
    BY <1>0, <1>9 DEF ModelsArrive, Edit, Forms
  <2>2. crossed' = (crossed \/ list # ListOf(form.provider, form.provider))
    BY <1>9 DEF ModelsArrive
  <2>3. UNCHANGED <<server, load, saves>>
    BY <1>9 DEF ModelsArrive
  <2> HIDE DEF list
  <2>4. ASSUME ~crossed', Fits(form) PROVE Fits(form)'
    <3>1. CASE form.provider \in Unlisted
      BY <2>1, <3>1
    <3>2. CASE form.provider \notin Unlisted
      <4>1. form.provider \in Providers
        BY <1>0 DEF Forms
      <4>2. list = {form.provider}
        BY <2>2, <2>4, <3>2, <4>1, SettingsAssumption DEF ListOf
      <4>3. FirstOf(list) = form.provider
        BY <4>2, SettingsAssumption DEF FirstOf
      <4>4. QED
        BY <2>1, <2>4, <3>2, <4>3
    <3>3. QED
      BY <3>1, <3>2
  <2>5. QED
    BY <2>2, <2>3, <2>4 DEF ModelsFit, Answered
<1>10. ASSUME NEW c \in Calls, NoModels(c) PROVE ModelsFit'
  BY <1>10 DEF NoModels, ModelsFit, Answered
<1>11. ASSUME NEW c \in Calls, HandleSave(c) PROVE ModelsFit'
  <2>1. UNCHANGED <<server, form, load, crossed>>
    BY <1>11 DEF HandleSave
  <2>2. /\ saves'[c].body.model = form.model /\ saves'[c].body.provider = form.provider
        /\ \A d \in Calls \ {c} : saves'[d] = saves[d]
    BY <1>0, <1>11 DEF HandleSave, Payload
  <2>3. QED
    BY <2>1, <2>2 DEF ModelsFit, Answered
<1>12. ASSUME NEW c \in Calls, Put(c) PROVE ModelsFit'
  <2>1. \A d \in Calls : saves'[d] # None => saves[d] # None /\ saves'[d].body = saves[d].body
    BY <1>0, <1>12 DEF Put, Saves
  <2>2. /\ server'.model = saves[c].body.model /\ server'.provider = saves[c].body.provider
        /\ saves[c] # None /\ UNCHANGED <<form, load, crossed>>
    BY <1>12 DEF Put, Store, Merged
  <2>3. QED
    BY <2>1, <2>2 DEF ModelsFit, Answered
<1>13. ASSUME NEW c \in Calls, Refuse(c) PROVE ModelsFit'
  <2>1. \A d \in Calls : saves'[d] # None => saves[d] # None /\ saves'[d].body = saves[d].body
    BY <1>0, <1>13 DEF Refuse, Saves
  <2>2. UNCHANGED <<server, form, load, crossed>>
    BY <1>13 DEF Refuse
  <2>3. QED
    BY <2>1, <2>2 DEF ModelsFit, Answered
<1>14. ASSUME NEW c \in Calls, SaveEnds(c) PROVE ModelsFit'
  <2>1. \A d \in Calls : saves'[d] # None => saves'[d] = saves[d]
    BY <1>0, <1>14 DEF SaveEnds
  <2>2. form'.model = form.model /\ form'.provider = form.provider
    BY <1>0, <1>14 DEF SaveEnds, SavedForm, Forms
  <2>3. UNCHANGED <<server, load, crossed>>
    BY <1>14 DEF SaveEnds
  <2>4. QED
    BY <2>1, <2>2, <2>3 DEF ModelsFit, Answered
<1>15. ASSUME NEW ch \in Channels, TestChatOps(ch) \/ TestEnds(ch) PROVE ModelsFit'
  BY <1>15 DEF TestChatOps, TestEnds, ModelsFit, Answered
<1>16. QED
  BY <1>1, <1>2, <1>3, <1>4, <1>5, <1>6, <1>7, <1>8, <1>9, <1>10, <1>11, <1>12, <1>13, <1>14,
     <1>15 DEF Next

-----------------------------------------------------------------------------
(* Copies of the server's settings.                                        *)

(* The settings of the server with two fields replaced, field by field.    *)
LEMMA TwoChanged ==
  ASSUME server \in Configs, NEW e, NEW t
  PROVE  [server EXCEPT !.enabled = e, !.temp = t] =
         [enabled |-> e, provider |-> server.provider, model |-> server.model,
          endpoint |-> server.endpoint, key |-> server.key, temp |-> t]
<1> DEFINE r == [server EXCEPT !.enabled = e]
<1> DEFINE S == {e}
<1>1. /\ r \in [enabled : S, provider : Providers, model : Providers,
                endpoint : Providers \cup {None}, key : Keys \cup {None}, temp : Temps]
      /\ r.enabled = e /\ r.provider = server.provider /\ r.model = server.model
      /\ r.endpoint = server.endpoint /\ r.key = server.key
  BY DEF Configs
<1>2. [server EXCEPT !.enabled = e, !.temp = t] = [r EXCEPT !.temp = t]
  BY DEF Configs
<1> HIDE DEF r, S
<1>3. [r EXCEPT !.temp = t] =
        [enabled |-> r.enabled, provider |-> r.provider, model |-> r.model,
         endpoint |-> r.endpoint, key |-> r.key, temp |-> t]
  BY <1>1
<1>4. QED
  BY <1>1, <1>2, <1>3

(* A copy of the current version is stored as it is, but enabled and with  *)
(* its zero replaced.                                                      *)
LEMMA SameMerged ==
  ASSUME TypeOK, CopiesFit, NEW c \in Calls, saves[c] # None, saves[c].body.base = version
  PROVE  Merged(saves[c].body) = [server EXCEPT !.enabled = TRUE, !.temp = OrDefault(@)]
<1>1. Shows(saves[c].body) /\ saves[c].body.enabled = TRUE
  BY DEF CopiesFit
<1>2. server \in Configs
  BY DEF TypeOK
<1>3. Merged(saves[c].body) =
        [enabled |-> TRUE, provider |-> server.provider, model |-> server.model,
         endpoint |-> server.endpoint, key |-> server.key, temp |-> OrDefault(server.temp)]
  BY <1>1 DEF Shows, Merged
<1>4. [server EXCEPT !.enabled = TRUE, !.temp = OrDefault(server.temp)] =
        [enabled |-> TRUE, provider |-> server.provider, model |-> server.model,
         endpoint |-> server.endpoint, key |-> server.key, temp |-> OrDefault(server.temp)]
  <2>1. \A e, t :
          [server EXCEPT !.enabled = e, !.temp = t] =
          [enabled |-> e, provider |-> server.provider, model |-> server.model,
           endpoint |-> server.endpoint, key |-> server.key, temp |-> t]
    BY <1>2, TwoChanged
  <2>2. QED
    BY <2>1, Zenon
<1>5. QED
  BY <1>3, <1>4

(* When the settings change, no copy is of the current version any more.   *)
LEMMA StoreKeeps ==
  ASSUME TypeOK, CopiesFit, NEW new, Store(new),
         UNCHANGED <<form, base, load, isLoading>>,
         \A c \in Calls : saves'[c] # None => saves[c] # None /\ saves'[c].body = saves[c].body
  PROVE  CopiesFit'
<1>0. /\ version \in Nat /\ base \in Nat
      /\ load \notin {None, <<>>} => load[2] \in Nat
      /\ \A c \in Calls : saves[c] # None => saves[c].body.base \in Nat
  <2>1. version \in Nat /\ base \in Nat
    BY DEF TypeOK
  <2>2. load \notin {None, <<>>} => load[2] \in Nat
    BY DEF TypeOK, Loads
  <2>3. \A c \in Calls : saves[c] # None => saves[c].body.base \in Nat
    BY DEF TypeOK, Saves, Payloads
  <2>4. QED
    BY <2>1, <2>2, <2>3
<1>1. CASE new = server
  <2>1. server' = server /\ version' = version
    BY <1>1 DEF Store
  <2>2. QED
    BY <2>1 DEF CopiesFit, Answered, Shows
<1>2. CASE new # server
  <2>1. version' = version + 1
    BY <1>2 DEF Store
  <2>2. ASSUME NEW b \in Nat, b <= version PROVE b <= version' /\ b # version'
    BY <1>0, <2>1, <2>2
  <2>3. base <= version' /\ base # version'
    BY <1>0, <2>2 DEF CopiesFit
  <2>4. Answered => load[2] <= version' /\ load[2] # version'
    BY <1>0, <2>2 DEF CopiesFit, Answered
  <2>5. \A c \in Calls : saves[c] # None =>
          saves[c].body.base <= version' /\ saves[c].body.base # version'
    BY <1>0, <2>2 DEF CopiesFit
  <2>6. QED
    BY <2>3, <2>4, <2>5 DEF CopiesFit, Answered
<1>3. QED
  BY <1>1, <1>2

(* Each step keeps the copies: an edit forgets the version, a load and a   *)
(* save copy it, a change of the settings leaves every copy behind.        *)
LEMMA CopiesStep ==
  ASSUME TypeOK, CopiesFit, [Next]_vars
  PROVE  CopiesFit'
<1> USE DEF flags, requests, history
<1>0. /\ server \in Configs /\ form \in Forms
      /\ load \in {None, <<>>} \cup Loads
      /\ saves \in [Calls -> Saves \cup {None}]
  BY DEF TypeOK, Saves, Loads
<1>v. version \in Nat /\ version # 0 /\ 0 <= version
  BY DEF TypeOK
<1>1. CASE Get
  <2>1. load # None /\ load'[1] = server /\ load'[2] = version
    BY <1>1, SettingsAssumption DEF Get
  <2>2. UNCHANGED <<server, version, form, base, saves, isLoading>>
    BY <1>1 DEF Get
  <2>3. load'[2] <= version
    BY <1>v, <2>1
  <2>4. QED
    BY <2>1, <2>2, <2>3 DEF CopiesFit, Answered, Shows
<1>2. CASE SavedElsewhere
  <2>1. PICK p \in Providers, t \in Temps :
          Store([server EXCEPT !.enabled = TRUE, !.provider = p, !.model = p,
                               !.endpoint = p, !.temp = t])
    BY <1>2 DEF SavedElsewhere
  <2>2. UNCHANGED <<form, base, load, isLoading, saves>>
    BY <1>2 DEF SavedElsewhere
  <2>3. QED
    BY <2>1, <2>2, StoreKeeps
<1>3. CASE FetchSettings
  <2>1. /\ load \in Loads /\ load[1] \in Configs /\ load[2] <= version
        /\ load[2] = version => load[1] = server
    <3>1. load \in Loads /\ Answered
      BY <1>0, <1>3 DEF FetchSettings, Answered
    <3>2. QED
      BY <3>1 DEF Loads, CopiesFit
  <2>2. form.key = None
    BY <1>3 DEF FetchSettings, CopiesFit
  <2>3. /\ form'.provider = load[1].provider /\ form'.model = load[1].model
        /\ form'.endpoint = load[1].endpoint /\ form'.temp = OrDefault(load[1].temp)
        /\ form'.key = None
    BY <1>0, <1>3, <2>2 DEF FetchSettings, Forms
  <2>4. /\ base' = load[2]
        /\ load' = None /\ isLoading' = FALSE /\ UNCHANGED <<server, version, saves>>
    BY <1>3 DEF FetchSettings
  <2>5. base' <= version
    BY <1>v, <2>1, <2>4
  <2>6. ASSUME base' = version PROVE Shows(form)'
    <3>1. load[1] = server
      BY <2>1, <2>4, <2>6
    <3>2. QED
      BY <2>3, <2>4, <3>1 DEF Shows
  <2>7. QED
    BY <2>3, <2>4, <2>5, <2>6 DEF CopiesFit, Answered, Shows
<1>4. CASE FetchSettingsFails
  BY <1>4 DEF FetchSettingsFails, CopiesFit, Answered, Shows
<1>s. ASSUME UNCHANGED <<server, version, load, isLoading, saves>>, base' = 0,
             isLoading => form'.key = None
      PROVE  CopiesFit'
  BY <1>v, <1>s DEF CopiesFit, Answered, Shows
<1>5. CASE EditField
  BY <1>5, <1>s DEF EditField, Edit, Shown
<1>6. CASE QueryModels \/ Timeout \/ UNCHANGED vars
  BY <1>6 DEF QueryModels, Timeout, vars, CopiesFit, Answered, Shows
<1>7. CASE Remount
  <2>1. \A c \in Calls : saves'[c] # None => saves[c] # None /\ saves'[c].body = saves[c].body
    BY <1>0, <1>7 DEF Remount, Saves
  <2>2. /\ form'.key = None /\ isLoading' = TRUE /\ base' = 0 /\ ~Answered'
        /\ UNCHANGED <<server, version>>
    BY <1>7 DEF Remount, EmptyForm, Answered
  <2>3. QED
    BY <1>v, <2>1, <2>2 DEF CopiesFit, Shows
<1>8. ASSUME NEW p \in Providers, HandleProviderChange(p) PROVE CopiesFit'
  BY <1>8, <1>s DEF HandleProviderChange, Edit, Shown
<1>9. ASSUME NEW c \in Calls, ModelsArrive(c) PROVE CopiesFit'
  <2>1. UNCHANGED <<form, base>> \/ (form'.key = form.key /\ base' = 0)
    BY <1>0, <1>9 DEF ModelsArrive, Edit, Forms
  <2>2. UNCHANGED <<server, version, load, isLoading, saves>>
    BY <1>9 DEF ModelsArrive
  <2>3. CASE UNCHANGED <<form, base>>
    BY <2>2, <2>3 DEF CopiesFit, Answered, Shows
  <2>4. CASE form'.key = form.key /\ base' = 0
    BY <1>s, <2>2, <2>4 DEF CopiesFit
  <2>5. QED
    BY <2>1, <2>3, <2>4
<1>10. ASSUME NEW c \in Calls, NoModels(c) PROVE CopiesFit'
  BY <1>10 DEF NoModels, CopiesFit, Answered, Shows
<1>11. ASSUME NEW c \in Calls, HandleSave(c) PROVE CopiesFit'
  <2>1. UNCHANGED <<server, version, form, base, load, isLoading>>
    BY <1>11 DEF HandleSave
  <2>2. saves'[c].body = Payload /\ \A d \in Calls \ {c} : saves'[d] = saves[d]
    BY <1>0, <1>11 DEF HandleSave
  <2>3. /\ Payload.enabled = TRUE /\ Payload.base <= version
        /\ Payload.base = version => Shows(Payload)
    BY DEF CopiesFit, Shows, Payload
  <2>4. /\ saves'[c].body.enabled = TRUE /\ saves'[c].body.base <= version
        /\ saves'[c].body.base = version => Shows(saves[c].body)'
    BY <2>1, <2>2, <2>3 DEF Shows
  <2>5. \A d \in Calls : saves'[d] # None =>
          /\ saves'[d].body.enabled = TRUE /\ saves'[d].body.base <= version
          /\ saves'[d].body.base = version => Shows(saves[d].body)'
    <3>1. SUFFICES ASSUME NEW d \in Calls, saves'[d] # None, d # c
                   PROVE  /\ saves'[d].body.enabled = TRUE /\ saves'[d].body.base <= version
                          /\ saves'[d].body.base = version => Shows(saves[d].body)'
      BY <2>4
    <3>2. saves'[d] = saves[d]
      BY <2>2, <3>1
    <3>3. QED
      BY <2>1, <3>1, <3>2 DEF CopiesFit, Shows
  <2>6. /\ load' # None => isLoading'
        /\ isLoading' => form'.key = None
        /\ base' <= version' /\ (base' = version' => Shows(form)')
        /\ Answered' => load'[2] <= version' /\ (load'[2] = version' => load'[1] = server')
    BY <2>1 DEF CopiesFit, Answered, Shows
  <2>7. QED
    BY <2>1, <2>5, <2>6 DEF CopiesFit
<1>12. ASSUME NEW c \in Calls, Put(c) PROVE CopiesFit'
  <2>1. \A d \in Calls : saves'[d] # None => saves[d] # None /\ saves'[d].body = saves[d].body
    BY <1>0, <1>12 DEF Put, Saves
  <2>2. Store(Merged(saves[c].body)) /\ UNCHANGED <<form, base, load, isLoading>>
    BY <1>12 DEF Put
  <2>3. QED
    BY <2>1, <2>2, StoreKeeps
<1>13. ASSUME NEW c \in Calls, Refuse(c) PROVE CopiesFit'
  <2>1. \A d \in Calls : saves'[d] # None => saves[d] # None /\ saves'[d].body = saves[d].body
    BY <1>0, <1>13 DEF Refuse, Saves
  <2>2. UNCHANGED <<server, version, form, base, load, isLoading>>
    BY <1>13 DEF Refuse
  <2>3. QED
    BY <2>1, <2>2 DEF CopiesFit, Answered, Shows
<1>14. ASSUME NEW c \in Calls, SaveEnds(c) PROVE CopiesFit'
  <2>1. \A d \in Calls : saves'[d] # None => saves'[d] = saves[d]
    BY <1>0, <1>14 DEF SaveEnds
  <2>2. /\ form'.provider = form.provider /\ form'.model = form.model
        /\ form'.endpoint = form.endpoint /\ form'.temp = form.temp
        /\ form'.key \in {form.key, None}
    BY <1>0, <1>14 DEF SaveEnds, SavedForm, Forms
  <2>3. UNCHANGED <<server, version, base, load, isLoading>>
    BY <1>14 DEF SaveEnds
  <2>4. QED
    BY <2>1, <2>2, <2>3 DEF CopiesFit, Answered, Shows
<1>15. ASSUME NEW ch \in Channels, TestChatOps(ch) \/ TestEnds(ch) PROVE CopiesFit'
  BY <1>15 DEF TestChatOps, TestEnds, CopiesFit, Answered, Shows
<1>16. QED
  BY <1>1, <1>2, <1>3, <1>4, <1>5, <1>6, <1>7, <1>8, <1>9, <1>10, <1>11, <1>12, <1>13, <1>14,
     <1>15 DEF Next

-----------------------------------------------------------------------------
(* Spinners and disabled buttons.                                          *)

(* Each step that sets a flag starts the request that clears it, and no    *)
(* step ends the last such request without clearing it.                    *)
LEMMA BusyStep ==
  ASSUME TypeOK, BusyEnds, [Next]_vars
  PROVE  BusyEnds'
<1> USE DEF flags, requests, history
<1>0. /\ server \in Configs /\ form \in Forms /\ version \in 1 .. MaxEdits + 1
      /\ queries \in [Calls -> Queries \cup {None}]
      /\ saves \in [Calls -> Saves \cup {None}]
      /\ tests \in SUBSET Channels /\ timers \in Nat
  BY SettingsAssumption DEF TypeOK
<1>1. CASE Get
  <2>1. load' \in Loads
    BY <1>0, <1>1 DEF Get, Loads
  <2>2. load' # None
    BY <2>1, SettingsRequests
  <2>3. QED
    BY <1>1, <2>2 DEF Get, BusyEnds
<1>2. CASE SavedElsewhere \/ EditField \/ UNCHANGED vars
  <2>1. UNCHANGED flags /\ UNCHANGED requests
    BY <1>2 DEF SavedElsewhere, EditField, vars
  <2>2. QED
    BY <2>1 DEF BusyEnds
<1>3. CASE FetchSettings \/ FetchSettingsFails
  BY <1>3 DEF FetchSettings, FetchSettingsFails, BusyEnds
<1>q. ASSUME NEW p \in Providers, FetchAvailableModels(p)
      PROVE  \E c \in Calls : queries'[c] # None
  <2>1. PICK c \in Free(queries) :
          queries' = [queries EXCEPT ![c] = <<p, form.endpoint, form.model>>]
    BY <1>q DEF FetchAvailableModels
  <2>2. c \in Calls /\ queries'[c] = <<p, form.endpoint, form.model>>
    BY <1>0, <2>1 DEF Free
  <2>3. <<p, form.endpoint, form.model>> \in Queries
    BY <1>0 DEF Queries, Forms
  <2>4. QED
    BY <2>2, <2>3, SettingsRequests
<1>4. CASE QueryModels
  <2>1. form.provider \in Providers
    BY <1>0 DEF Forms
  <2>2. QED
    BY <1>4, <1>q, <2>1 DEF QueryModels, BusyEnds
<1>5. ASSUME NEW p \in Providers, HandleProviderChange(p) PROVE BusyEnds'
  BY <1>5, <1>q DEF HandleProviderChange, BusyEnds
<1>6. CASE Timeout
  BY <1>6 DEF Timeout, BusyEnds
<1>7. CASE Remount
  BY <1>7, SettingsAssumption DEF Remount, BusyEnds
<1>8. ASSUME NEW c \in Calls, ModelsArrive(c) \/ NoModels(c) PROVE BusyEnds'
  BY <1>8 DEF ModelsArrive, NoModels, BusyEnds
<1>9. ASSUME NEW c \in Calls, HandleSave(c) PROVE BusyEnds'
  <2> DEFINE new == [here |-> TRUE, at |-> "sent", body |-> Payload]
  <2>1. Payload \in Payloads
    BY DataTyped
  <2>2. saves' = [saves EXCEPT ![c] = new]
    BY <1>9 DEF HandleSave
  <2>3. new \in Saves /\ new.here
    BY <2>1 DEF Saves
  <2> HIDE DEF new
  <2>4. saves'[c] # None /\ saves'[c].here
    BY <1>0, <2>2, <2>3, SettingsRequests
  <2>5. QED
    BY <1>9, <2>4 DEF HandleSave, BusyEnds
<1>10. ASSUME NEW c \in Calls, Put(c) \/ Refuse(c) PROVE BusyEnds'
  <2>1. PICK at \in {"saved", "refused"} : saves' = [saves EXCEPT ![c].at = at]
    BY <1>10 DEF Put, Refuse
  <2>2. \A d \in Calls : saves[d] # None =>
          saves'[d] \in Saves /\ saves'[d].here = saves[d].here
    BY <1>0, <2>1 DEF Saves
  <2>3. \A d \in Calls : saves[d] # None => saves'[d] # None /\ saves'[d].here = saves[d].here
    BY <2>2, SettingsRequests
  <2>4. QED
    BY <1>10, <2>3 DEF Put, Refuse, BusyEnds
<1>11. ASSUME NEW c \in Calls, SaveEnds(c) PROVE BusyEnds'
  <2>1. \A d \in Calls \ {c} : saves'[d] = saves[d]
    BY <1>0, <1>11 DEF SaveEnds
  <2>2. CASE saves[c].here
    <3>1. isSaving' = FALSE /\ timers' > 0
      BY <1>0, <1>11, <2>2 DEF SaveEnds
    <3>2. QED
      BY <1>11, <3>1 DEF SaveEnds, BusyEnds
  <2>3. CASE ~saves[c].here
    <3>1. UNCHANGED <<isSaving, status, timers>>
      BY <1>11, <2>3 DEF SaveEnds
    <3>2. QED
      BY <1>11, <2>1, <2>3, <3>1 DEF SaveEnds, BusyEnds
  <2>4. QED
    BY <2>2, <2>3
<1>12. ASSUME NEW ch \in Channels, TestChatOps(ch) \/ TestEnds(ch) PROVE BusyEnds'
  BY <1>12 DEF TestChatOps, TestEnds, BusyEnds
<1>13. QED
  BY <1>1, <1>2, <1>3, <1>4, <1>5, <1>6, <1>7, <1>8, <1>9, <1>10, <1>11, <1>12 DEF Next

-----------------------------------------------------------------------------
(* The theorems.                                                           *)

Inv == TypeOK /\ Counted /\ ModelsFit /\ CopiesFit /\ BusyEnds

(* The page at its first render, before its load is answered.              *)
LEMMA Started ==
  ASSUME Init
  PROVE  Inv
<1>1. /\ server \in Configs /\ server.model = server.provider /\ version = 1 /\ crossed = FALSE
      /\ form = EmptyForm /\ base = 0 /\ testing = None /\ status = None
      /\ isLoading = TRUE /\ isSaving = FALSE /\ isFetchingModels = FALSE
      /\ load = <<>> /\ queries = NoCalls /\ saves = NoCalls /\ tests = {}
      /\ timers = 0 /\ edits = 0
  BY DEF Init
<1>2. Waiting = {} /\ Sending = {}
  BY <1>1 DEF Waiting, Sending, NoCalls
<1>3. Counted
  BY <1>1, <1>2, FS_EmptySet DEF Counted
<1>4. TypeOK
  <2>1. EmptyForm \in Forms
    BY SettingsAssumption DEF EmptyForm, Forms, Temps
  <2>2. /\ version \in 1 .. MaxEdits + 1 /\ base \in 0 .. MaxEdits + 1
        /\ timers \in 0 .. MaxEdits /\ edits \in 0 .. MaxEdits
    BY <1>1, SettingsAssumption
  <2>3. QED
    BY <1>1, <2>1, <2>2 DEF TypeOK, NoCalls
<1>5. ModelsFit
  BY <1>1 DEF ModelsFit, Fits, Answered, EmptyForm, NoCalls
<1>6. CopiesFit
  BY <1>1 DEF CopiesFit, Answered, EmptyForm, NoCalls
<1>7. BusyEnds
  BY <1>1, SettingsAssumption DEF BusyEnds
<1>8. QED
  BY <1>3, <1>4, <1>5, <1>6, <1>7 DEF Inv

(* The inductive invariant always holds.                                   *)
LEMMA InvAlways == Spec => []Inv
<1>1. Inv /\ [Next]_vars => Inv'
  BY TypeStep, ModelsStep, CopiesStep, BusyStep DEF Inv
<1>2. QED
  BY <1>1, Started, PTL DEF Spec

(* Server, page, requests and counters keep their types and bounds.        *)
THEOREM TypeCorrect == Spec => []TypeOK
<1>1. Inv => TypeOK
  BY DEF Inv
<1>2. QED
  BY <1>1, InvAlways, PTL

(* No spinner, disabled button or message of the page outlives what ends   *)
(* it (SettingsView.tsx:73-253).                                           *)
THEOREM NothingLeftBusy == Spec => []BusyEnds
<1>1. Inv => BusyEnds
  BY DEF Inv
<1>2. QED
  BY <1>1, InvAlways, PTL

(* The model on the form is one of its provider as long as no list of      *)
(* something else than the choice has arrived (SettingsView.tsx:104-171),  *)
(* but for a provider the server lists a mixture for (llm.go:530-531).     *)
THEOREM ModelFitsProvider == Spec => []ModelOfProvider
<1>1. Inv => ModelOfProvider
  BY DEF Inv, ModelsFit, Fits, ModelOfProvider
<1>2. QED
  BY <1>1, InvAlways, PTL

(* Storing a form that was loaded and not edited changes two fields of the *)
(* server's settings and no other, if nobody saved in between: the LLM is  *)
(* enabled, and a zero is replaced by its default (SettingsView.tsx:84 and *)
(* 180, pkg/web/server.go: handleSettings).                                *)
THEOREM UntouchedSaveAltersTwo == Spec => UntouchedSaveKeepsRest
<1> DEFINE Stored == [server EXCEPT !.enabled = TRUE, !.temp = OrDefault(@)]
<1> DEFINE Kept ==
      \A c \in Calls :
        (saves[c] # None /\ Put(c) /\ saves[c].body.base = version) => server' = Stored
<1>1. Inv /\ [Next]_vars => [Kept]_vars
  <2>1. ASSUME Inv, NEW c \in Calls, saves[c] # None, Put(c), saves[c].body.base = version
        PROVE  server' = Stored
    <3>1. server' = Merged(saves[c].body)
      BY <2>1 DEF Put, Store
    <3>2. QED
      BY <2>1, <3>1, SameMerged DEF Inv
  <2>2. QED
    BY <2>1
<1>2. QED
  BY <1>1, InvAlways, PTL DEF Spec, UntouchedSaveKeepsRest

-----------------------------------------------------------------------------
(* Observability.                                                          *)

Logs == [tab : {"metrics", "logs"}, selected : Sources \cup {None},
         shown : Sources \cup {None}, auto : BOOLEAN, loading : BOOLEAN]
Charts == [target : Targets \cup {None}, range : Ranges, metric : {"cpu", "disk"},
           shown : Histories \cup {None}, loading : BOOLEAN]
LogCalls == [Calls -> Sources \cup {None}]
ChartCalls == [Calls -> Histories \cup {None}]
LookCalls == [Calls -> Nodes \cup {None}]
Interval == [source : Sources \cup {None}, in : 0 .. TailPeriod]
Tails == [Timers -> Interval]

(* A call starts in a free slot.                                           *)
LEMMA StartTyped ==
  ASSUME NEW S, NEW calls \in [Calls -> S \cup {None}], NEW what \in S,
         NEW new \in Start(calls, what)
  PROVE  new \in [Calls -> S \cup {None}]
  BY DEF Start

(* Views that have just been mounted.                                      *)
LEMMA ClosedTyped ==
  /\ NoCalls \in LogCalls /\ NoCalls \in ChartCalls /\ NoCalls \in LookCalls
  /\ ClosedLog \in Logs /\ ClosedChart \in Charts
  /\ Local \in Nodes /\ First \in Containers /\ Local \in Targets
  /\ \A t \in Targets : [ClosedChart EXCEPT !.target = t, !.loading = TRUE] \in Charts
  /\ \A s \in Sources \cup {None} : [ClosedLog EXCEPT !.selected = s] \in Logs
  /\ \A s \in Sources :
       [ClosedLog EXCEPT !.selected = s, !.tab = "logs", !.loading = TRUE] \in Logs
  /\ Containers \subseteq Sources
<1>1. /\ Local \in Nodes /\ First \in Containers
      /\ Local \in Targets /\ Containers \subseteq Sources
  BY ObservabilityAssumption DEF Targets, Sources
<1>2. NoCalls \in LogCalls /\ NoCalls \in ChartCalls /\ NoCalls \in LookCalls
  BY DEF NoCalls, LogCalls, ChartCalls, LookCalls
<1>3. /\ ClosedLog \in Logs
      /\ \A s \in Sources \cup {None} : [ClosedLog EXCEPT !.selected = s] \in Logs
      /\ \A s \in Sources :
           [ClosedLog EXCEPT !.selected = s, !.tab = "logs", !.loading = TRUE] \in Logs
  BY DEF ClosedLog, Logs
<1>4. /\ ClosedChart \in Charts
      /\ \A t \in Targets : [ClosedChart EXCEPT !.target = t, !.loading = TRUE] \in Charts
  BY DEF ClosedChart, Charts, Ranges
<1>5. QED
  BY <1>1, <1>2, <1>3, <1>4

(* A new chart, and none.                                                  *)
LEMMA ChartMounted ==
  /\ \A t \in Targets : MountChart(t) => chart' \in Charts /\ chartCalls' \in ChartCalls
  /\ UnmountChart => chart' \in Charts /\ chartCalls' \in ChartCalls
<1>1. ASSUME NEW t \in Targets, MountChart(t)
      PROVE  chart' \in Charts /\ chartCalls' \in ChartCalls
  <2>1. <<t, "1h">> \in Histories
    BY DEF Histories, Ranges
  <2>2. chartCalls' \in Start(NoCalls, <<t, "1h">>) /\ NoCalls \in ChartCalls
    BY <1>1, ClosedTyped DEF MountChart
  <2>3. chartCalls' \in ChartCalls
    BY <2>1, <2>2, StartTyped DEF ChartCalls
  <2>4. QED
    BY <1>1, <2>3, ClosedTyped DEF MountChart
<1>2. ASSUME UnmountChart PROVE chart' \in Charts /\ chartCalls' \in ChartCalls
  BY <1>2, ClosedTyped DEF UnmountChart
<1>3. QED
  BY <1>1, <1>2

(* The effect of the auto-tail: whatever it does, only the interval its    *)
(* clean-up knows exists, and that one polls the selected source.          *)
TailsOK == tails \in Tails /\ tail \in Timers \cup {None}
OneTail ==
  /\ \A u \in Timers : u # tail => ~Live(u)
  /\ tail # None => tails[tail].source = log.selected
TailFollows == OneTail /\ (tail # None <=> Streaming)

LEMMA NoTailTyped == NoTail \in Interval /\ NoTail.source = None
<1>1. TailPeriod \in Nat
  BY ObservabilityAssumption
<1>2. QED
  BY <1>1 DEF NoTail, Interval

(* The clean-up leaves no interval.                                        *)
LEMMA TailCleared ==
  ASSUME TailsOK, OneTail
  PROVE  ClearTail \in Tails /\ \A u \in Timers : ClearTail[u].source = None
<1>1. CASE tail = None
  BY <1>1, ObservabilityAssumption DEF ClearTail, TailsOK, OneTail, Live
<1>2. CASE tail # None
  <2>1. ClearTail = [tails EXCEPT ![tail] = NoTail] /\ tail \in Timers /\ tails \in Tails
    BY <1>2 DEF ClearTail, TailsOK
  <2>2. ClearTail \in Tails
    BY <2>1, NoTailTyped DEF Tails
  <2>3. ASSUME NEW u \in Timers PROVE ClearTail[u].source = None
    <3>1. CASE u = tail
      BY <2>1, <3>1, NoTailTyped DEF Tails
    <3>2. CASE u # tail
      BY <2>1, <3>2 DEF Tails, OneTail, Live
    <3>3. QED
      BY <3>1, <3>2
  <2>4. QED
    BY <2>2, <2>3
<1>3. QED
  BY <1>1, <1>2

(* A run of the effect.                                                    *)
LEMMA TailSet ==
  ASSUME TailsOK, OneTail, NEW next \in Logs, TailEffect(next)
  PROVE  /\ TailsOK' /\ \A u \in Timers : u # tail' => ~Live(u)'
         /\ tail' # None => tails'[tail'].source = next.selected
         /\ tail' # None <=> (Streams(next) /\ next.auto)
<1>0. /\ ClearTail \in Tails /\ \A u \in Timers : ClearTail[u].source = None
      /\ None \notin Timers /\ TailPeriod \in Nat
  BY TailCleared, ObservabilityAssumption
<1>1. CASE Streams(next) /\ next.auto
  <2>1. PICK t \in Timers :
          /\ tail' = t
          /\ tails' = [ClearTail EXCEPT ![t] = [source |-> next.selected, in |-> TailPeriod]]
    BY <1>1 DEF TailEffect
  <2>2. [source |-> next.selected, in |-> TailPeriod] \in Interval
    BY <1>0 DEF Logs, Interval
  <2>3. /\ tails' \in Tails /\ tails'[t].source = next.selected
        /\ \A u \in Timers : u # t => tails'[u].source = None
    BY <1>0, <2>1, <2>2 DEF Tails
  <2>4. QED
    BY <1>0, <1>1, <2>1, <2>3 DEF TailsOK, Live
<1>2. CASE ~(Streams(next) /\ next.auto)
  <2>1. tail' = None /\ tails' = ClearTail
    BY <1>2 DEF TailEffect
  <2>2. QED
    BY <1>0, <1>2, <2>1 DEF TailsOK, Live
<1>3. QED
  BY <1>1, <1>2

(* The property follows: the interval is the one of the clean-up.          *)
LEMMA TailMeans == TailsOK /\ TailFollows => OneTailTimer
<1> SUFFICES ASSUME TailsOK, TailFollows PROVE OneTailTimer
  OBVIOUS
<1>1. CASE Streaming
  <2>1. tail \in Timers /\ tails[tail].source = log.selected
    BY <1>1 DEF TailFollows, OneTail, TailsOK
  <2>2. QED
    BY <1>1, <2>1 DEF TailFollows, OneTail, OneTailTimer
<1>2. CASE ~Streaming
  BY <1>2, ObservabilityAssumption DEF TailFollows, OneTail, OneTailTimer
<1>3. QED
  BY <1>1, <1>2

(* A render of the log page on the screen: its state stays typed and the   *)
(* interval is as it should be.                                            *)
LEMMA RenderTyped ==
  ASSUME ViewTypeOK, TailFollows, LogOn,
         NEW next \in Logs, NEW fresh \in BOOLEAN, Render(log, next, fresh)
  PROVE  /\ log' \in Logs /\ logCalls' \in LogCalls
         /\ chart' \in Charts /\ chartCalls' \in ChartCalls
         /\ TailsOK' /\ OneTail' /\ (tail' # None <=> (Streams(log') /\ log'.auto))
<1>1. /\ logCalls \in LogCalls /\ chart \in Charts /\ chartCalls \in ChartCalls
      /\ TailsOK
  BY DEF ViewTypeOK, LogCalls, Charts, ChartCalls, TailsOK, Tails, Interval
<1>2. log' \in {next, [next EXCEPT !.loading = TRUE]}
  BY DEF Render
<1>3. /\ log' \in Logs /\ log'.selected = next.selected /\ log'.tab = next.tab
      /\ log'.auto = next.auto
  BY <1>2 DEF Logs
<1>4. logCalls' \in LogCalls
  <2>1. CASE logCalls' = logCalls
    BY <1>1, <2>1
  <2>2. CASE Streams(next) /\ logCalls' \in Start(logCalls, next.selected)
    <3>1. next.selected \in Sources
      BY <2>2 DEF Streams, Logs
    <3>2. QED
      BY <1>1, <2>2, <3>1, StartTyped DEF LogCalls
  <2>3. QED
    BY <2>1, <2>2 DEF Render
<1>5. chart' \in Charts /\ chartCalls' \in ChartCalls
  <2>1. (UNCHANGED chartVars) \/ MountChart(Local) \/ UnmountChart
    BY DEF Render
  <2>2. QED
    BY <1>1, <2>1, ClosedTyped, ChartMounted DEF chartVars
<1>6. TailsOK' /\ OneTail' /\ (tail' # None <=> (Streams(log') /\ log'.auto))
  <2>1. CASE TailEffect(next)
    <3>1. /\ TailsOK' /\ \A u \in Timers : u # tail' => ~Live(u)'
          /\ tail' # None => tails'[tail'].source = next.selected
          /\ tail' # None <=> (Streams(next) /\ next.auto)
      BY <1>1, <2>1, TailSet DEF TailFollows
    <3>2. QED
      BY <1>3, <3>1 DEF OneTail, Streams
  <2>2. CASE TailDeps(next) = TailDeps(log) /\ UNCHANGED tailVars
    <3>1. /\ log'.auto = log.auto /\ log'.selected = log.selected /\ log'.tab = log.tab
          /\ tails' = tails /\ tail' = tail
      BY <1>3, <2>2 DEF TailDeps, tailVars
    <3>2. QED
      BY <1>1, <3>1 DEF TailsOK, TailFollows, OneTail, Streaming, Streams, Live
  <2>3. QED
    BY <2>1, <2>2 DEF Render
<1>7. QED
  BY <1>3, <1>4, <1>5, <1>6

-----------------------------------------------------------------------------
(* The inductive invariant: types, view by view, and the tail timer.       *)

FrameOK ==
  /\ page \in {"dashboard", "logs", "other"} /\ logTarget \in Containers \cup {None}
  /\ known \in BOOLEAN /\ arriving \in BOOLEAN
NodeOK ==
  /\ node \in Nodes /\ inspector \in [open : BOOLEAN, live : Nodes \cup {None}]
  /\ lookCalls \in LookCalls
LogOK == log \in Logs /\ logCalls \in LogCalls
ChartOK == chart \in Charts /\ chartCalls \in ChartCalls
ClockOK == TailsOK /\ refreshIn \in 1 .. Refresh /\ choices \in 0 .. MaxChoices

(* The types, view by view.                                                *)
LEMMA Parts == ViewTypeOK => FrameOK /\ NodeOK /\ LogOK /\ ChartOK /\ ClockOK
  BY DEF ViewTypeOK, FrameOK, NodeOK, LogOK, ChartOK, ClockOK, Logs, Charts, LogCalls, ChartCalls,
         LookCalls, TailsOK, Tails, Interval

ViewInv == ViewTypeOK /\ TailFollows

(* The bound on choices.                                                   *)
LEMMA ChoiceCounted ==
  ASSUME ViewTypeOK, Choose
  PROVE  choices' \in 0 .. MaxChoices
<1>1. choices \in 0 .. MaxChoices
  BY DEF ViewTypeOK
<1>2. choices < MaxChoices /\ choices' = choices + 1
  BY DEF Choose
<1>3. MaxChoices \in Nat
  BY ObservabilityAssumption
<1>4. choices + 1 \in 0 .. MaxChoices
  BY <1>1, <1>2, <1>3
<1>5. QED
  BY <1>2, <1>4

(* Steps of the chart and the inspector: the log page does not notice.     *)
LEMMA TimerLeft ==
  ASSUME TailFollows, UNCHANGED <<page, log, tailVars>>
  PROVE  TailFollows'
  BY DEF TailFollows, OneTail, Streaming, LogOn, Streams, Live, tailVars

(* A render of the log page while it is on the screen.                     *)
LEMMA RenderKeeps ==
  ASSUME ViewInv, LogOn, NEW next \in Logs, NEW fresh \in BOOLEAN, Render(log, next, fresh),
         FrameOK', NodeOK', page' = "logs", refreshIn' = refreshIn,
         choices' \in 0 .. MaxChoices
  PROVE  ViewInv'
<1>1. refreshIn \in 1 .. Refresh
  BY Parts DEF ClockOK, ViewInv
<1>2. /\ log' \in Logs /\ logCalls' \in LogCalls
      /\ chart' \in Charts /\ chartCalls' \in ChartCalls
      /\ TailsOK' /\ OneTail' /\ (tail' # None <=> (Streams(log') /\ log'.auto))
  BY RenderTyped DEF ViewInv
<1>3. LogOK' /\ ChartOK' /\ ClockOK'
  BY <1>1, <1>2 DEF LogOK, ChartOK, ClockOK
<1>4. ViewTypeOK'
  BY <1>3 DEF ViewTypeOK, FrameOK, NodeOK, LogOK, ChartOK, ClockOK, Logs, Charts,
              LogCalls, ChartCalls, LookCalls, TailsOK, Tails, Interval
<1>5. TailFollows'
  BY <1>2 DEF TailFollows, Streaming, LogOn, Streams
<1>6. QED
  BY <1>4, <1>5 DEF ViewInv

(* Steps that leave the log page and the clocks alone.                     *)
LEMMA ElsewhereKeeps ==
  ASSUME ViewInv,
         UNCHANGED <<page, logTarget, known, logVars, clockVars>>,
         NodeOK', ChartOK', choices' \in 0 .. MaxChoices
  PROVE  ViewInv'
<1>1. FrameOK /\ LogOK /\ ClockOK /\ TailFollows
  BY Parts DEF ViewInv
<1>2. FrameOK' /\ LogOK' /\ ClockOK' /\ TailFollows'
  <2>1. UNCHANGED <<page, logTarget, known, log, tailVars, logCalls, refreshIn, arriving>>
    BY DEF logVars, clockVars
  <2>2. TailFollows'
    BY <1>1, <2>1, TimerLeft
  <2>3. FrameOK' /\ LogOK'
    BY <1>1, <2>1 DEF FrameOK, LogOK
  <2>4. ClockOK'
    BY <1>1, <2>1 DEF ClockOK, TailsOK, tailVars
  <2>5. QED
    BY <2>2, <2>3, <2>4
<1>3. ViewTypeOK'
  BY <1>2 DEF ViewTypeOK, FrameOK, NodeOK, LogOK, ChartOK, ClockOK, Logs, Charts,
              LogCalls, ChartCalls, LookCalls, TailsOK, Tails, Interval
<1>4. QED
  BY <1>2, <1>3 DEF ViewInv

(* Parts a step leaves alone.                                              *)
LEMMA NodeKept ==
  ASSUME ViewTypeOK, UNCHANGED nodeVars
  PROVE  NodeOK'
  BY Parts DEF NodeOK, nodeVars

(* A chart a step leaves alone.                                            *)
LEMMA ChartKept ==
  ASSUME ViewTypeOK, UNCHANGED chartVars
  PROVE  ChartOK'
  BY Parts DEF ChartOK, chartVars

(* Page, source asked for and refresh, left alone.                         *)
LEMMA FrameKept ==
  ASSUME ViewTypeOK, UNCHANGED <<page, logTarget, known, arriving>>
  PROVE  FrameOK'
  BY Parts DEF FrameOK

(* A step chooses or it does not.                                          *)
LEMMA ChoicesBound ==
  ASSUME ViewTypeOK, UNCHANGED choices \/ Choose
  PROVE  choices' \in 0 .. MaxChoices
  BY ChoiceCounted DEF ViewTypeOK

-----------------------------------------------------------------------------
(* The steps.                                                              *)

(* The log page, its timer and the refresh of the containers.              *)
LEMMA LogSteps ==
  ASSUME ViewInv,
         LogChoice \/ RefreshLogs \/ Tick \/ ContainersArrive
         \/ (\E t \in Timers : TailFires(t))
         \/ \E c \in Calls : LogsAnswer(c) \/ LogsFail(c)
  PROVE  ViewInv'
<1> USE DEF logVars, clockVars
<1>0. ViewTypeOK /\ TailFollows
  BY DEF ViewInv
<1>p. FrameOK /\ NodeOK /\ LogOK /\ ChartOK /\ ClockOK
  BY <1>0, Parts
<1>j. ASSUME FrameOK', NodeOK', LogOK', ChartOK', ClockOK' PROVE ViewTypeOK'
  BY <1>j DEF ViewTypeOK, FrameOK, NodeOK, LogOK, ChartOK, ClockOK, Logs, Charts,
              LogCalls, ChartCalls, LookCalls, TailsOK, Tails, Interval
<1>1. CASE LogChoice
  <2>1. /\ FrameOK' /\ NodeOK' /\ page' = "logs" /\ refreshIn' = refreshIn
        /\ choices' \in 0 .. MaxChoices
    BY <1>0, <1>1, FrameKept, NodeKept, ChoicesBound DEF LogChoice, LogOn
  <2>2. log \in Logs
    BY <1>p DEF LogOK
  <2>3. PICK next \in Logs : Render(log, next, FALSE)
    <3>1. \A t \in {"metrics", "logs"} : [log EXCEPT !.tab = t] \in Logs
      BY <2>2 DEF Logs
    <3>2. \A s \in Sources : [log EXCEPT !.selected = s] \in Logs
      BY <2>2 DEF Logs
    <3>3. [log EXCEPT !.auto = ~@] \in Logs
      BY <2>2 DEF Logs
    <3>4. QED
      BY <1>1, <3>1, <3>2, <3>3 DEF LogChoice
  <2>4. QED
    BY <1>1, <2>1, <2>3, RenderKeeps DEF LogChoice
<1>2. CASE RefreshLogs
  <2>1. log.selected \in Sources
    BY <1>2, <1>p DEF RefreshLogs, Streams, LogOK, Logs
  <2>2. logCalls' \in LogCalls
    BY <1>2, <1>p, <2>1, StartTyped DEF RefreshLogs, LogOK, LogCalls
  <2>3. /\ FrameOK' /\ NodeOK' /\ ChartOK' /\ TailFollows' /\ choices' \in 0 .. MaxChoices
    BY <1>0, <1>2, FrameKept, NodeKept, ChartKept, ChoicesBound, TimerLeft DEF RefreshLogs
  <2>4. LogOK' /\ ClockOK'
    <3>1. UNCHANGED <<log, tailVars, refreshIn>>
      BY <1>2 DEF RefreshLogs
    <3>2. QED
      BY <1>p, <2>2, <2>3, <3>1 DEF LogOK, ClockOK, TailsOK, tailVars
  <2>5. QED
    BY <1>j, <2>3, <2>4 DEF ViewInv
<1>3. CASE Tick
  <2>1. UNCHANGED <<page, logTarget, known, log, tail, logCalls, chartVars, nodeVars, choices>>
    BY <1>3 DEF Tick
  <2>2. refreshIn' \in 1 .. Refresh
    <3>1. refreshIn \in 1 .. Refresh /\ Refresh \in Nat /\ Refresh > 0
      BY <1>p, ObservabilityAssumption DEF ClockOK
    <3>2. refreshIn' = IF refreshIn = 1 THEN Refresh ELSE refreshIn - 1
      BY <1>3 DEF Tick
    <3>3. QED
      BY <3>1, <3>2
  <2>3. arriving' \in BOOLEAN
    BY <1>3 DEF Tick
  <2>4. tails' \in Tails /\ \A t \in Timers : tails'[t].source = tails[t].source
    <3>1. tails \in Tails /\ TailPeriod \in Nat
      BY <1>p, ObservabilityAssumption DEF ClockOK, TailsOK
    <3>2. tails' = [t \in Timers |-> IF Live(t) THEN [tails[t] EXCEPT !.in = @ - 1] ELSE tails[t]]
      BY <1>3 DEF Tick
    <3>3. ASSUME NEW t \in Timers
          PROVE  tails'[t] \in Interval /\ tails'[t].source = tails[t].source
      <4>1. tails[t] \in Interval
        BY <3>1 DEF Tails
      <4>2. CASE Live(t)
        <5>1. tails[t].in > 0 /\ tails'[t] = [tails[t] EXCEPT !.in = tails[t].in - 1]
          BY <1>3, <3>2, <4>2 DEF Tick
        <5>2. tails[t].in - 1 \in 0 .. TailPeriod
          BY <3>1, <4>1, <5>1 DEF Interval
        <5>3. QED
          BY <4>1, <5>1, <5>2 DEF Interval
      <4>3. CASE ~Live(t)
        BY <3>2, <4>1, <4>3
      <4>4. QED
        BY <4>2, <4>3
    <3>4. QED
      BY <3>2, <3>3 DEF Tails
  <2>5. FrameOK' /\ NodeOK' /\ ChartOK'
    BY <1>0, <1>p, <2>1, <2>3, NodeKept, ChartKept DEF FrameOK
  <2>6. LogOK' /\ ClockOK'
    BY <1>p, <2>1, <2>2, <2>4 DEF LogOK, ClockOK, TailsOK
  <2>7. TailFollows'
    <3>1. \A t \in Timers : Live(t)' <=> Live(t)
      BY <2>4 DEF Live
    <3>2. QED
      BY <1>0, <1>p, <2>1, <2>4, <3>1
         DEF TailFollows, OneTail, Streaming, LogOn, Streams, ClockOK, TailsOK
  <2>8. QED
    BY <1>j, <2>5, <2>6, <2>7 DEF ViewInv
<1>3a. ASSUME NEW t \in Timers, TailFires(t) PROVE ViewInv'
  <2>1. /\ UNCHANGED <<page, logTarget, known, log, tail, clockVars, chartVars, nodeVars, choices>>
        /\ tails' = [tails EXCEPT ![t].in = TailPeriod]
        /\ logCalls' \in Start(logCalls, tails[t].source) /\ Live(t)
    BY <1>3a DEF TailFires
  <2>2. tails \in Tails /\ tails[t] \in Interval /\ TailPeriod \in Nat
    BY <1>p, ObservabilityAssumption DEF ClockOK, TailsOK, Tails
  <2>3. tails[t].source \in Sources
    BY <2>1, <2>2 DEF Live, Interval
  <2>4. logCalls' \in LogCalls
    BY <1>p, <2>1, <2>3, StartTyped DEF LogOK, LogCalls
  <2>5. tails' \in Tails /\ \A u \in Timers : tails'[u].source = tails[u].source
    <3>1. tails' = [tails EXCEPT ![t] = [tails[t] EXCEPT !.in = TailPeriod]]
      BY <2>1
    <3>2. /\ [tails[t] EXCEPT !.in = TailPeriod] \in Interval
          /\ [tails[t] EXCEPT !.in = TailPeriod].source = tails[t].source
      BY <2>2 DEF Interval
    <3>3. QED
      BY <2>2, <3>1, <3>2 DEF Tails
  <2>6. FrameOK' /\ NodeOK' /\ ChartOK'
    BY <1>0, <1>p, <2>1, NodeKept, ChartKept, FrameKept
  <2>7. LogOK' /\ ClockOK'
    BY <1>p, <2>1, <2>4, <2>5 DEF LogOK, ClockOK, TailsOK
  <2>8. TailFollows'
    <3>1. \A u \in Timers : Live(u)' <=> Live(u)
      BY <2>5 DEF Live
    <3>2. QED
      BY <1>0, <1>p, <2>1, <2>5, <3>1
         DEF TailFollows, OneTail, Streaming, LogOn, Streams, ClockOK, TailsOK
  <2>9. QED
    BY <1>j, <2>6, <2>7, <2>8 DEF ViewInv
<1>4. CASE ContainersArrive
  <2>1. /\ known' = TRUE /\ arriving' = FALSE
        /\ UNCHANGED <<page, logTarget, refreshIn, nodeVars, choices>>
    BY <1>4 DEF ContainersArrive
  <2>2. FrameOK' /\ NodeOK' /\ choices' \in 0 .. MaxChoices
    BY <1>0, <1>p, <2>1, NodeKept, ChoicesBound DEF FrameOK
  <2>3. CASE LogOn
    <3>1. Reconciled(logTarget) \in Logs
      BY <1>p, ClosedTyped DEF Reconciled, FrameOK, LogOK, Logs
    <3>2. Render(log, Reconciled(logTarget), TRUE)
      BY <1>4, <2>3 DEF ContainersArrive
    <3>3. page' = "logs" /\ refreshIn' = refreshIn
      BY <2>1, <2>3 DEF LogOn
    <3>4. QED
      BY <2>2, <2>3, <3>1, <3>2, <3>3, RenderKeeps
  <2>4. CASE ~LogOn
    <3>1. UNCHANGED <<log, tailVars, logCalls, chartVars>>
      BY <1>4, <2>4 DEF ContainersArrive
    <3>2. LogOK' /\ ChartOK' /\ ClockOK' /\ TailFollows'
      <4>1. TailFollows' /\ ChartOK'
        BY <1>0, <2>1, <3>1, TimerLeft, ChartKept
      <4>2. LogOK'
        BY <1>p, <3>1 DEF LogOK
      <4>3. ClockOK'
        BY <1>p, <2>1, <3>1 DEF ClockOK, TailsOK, tailVars
      <4>4. QED
        BY <4>1, <4>2, <4>3
    <3>3. QED
      BY <1>j, <2>2, <3>2 DEF ViewInv
  <2>5. QED
    BY <2>3, <2>4
<1>5. ASSUME NEW c \in Calls, LogsAnswer(c) \/ LogsFail(c) PROVE ViewInv'
  <2>1. logCalls[c] \in Sources
    BY <1>5, <1>p DEF LogsAnswer, LogsFail, LogOK, LogCalls
  <2>2. /\ UNCHANGED <<page, logTarget, known, tailVars, refreshIn, arriving>>
        /\ UNCHANGED <<chartVars, nodeVars>>
        /\ logCalls' = [logCalls EXCEPT ![c] = None]
        /\ UNCHANGED choices \/ Choose
    BY <1>5 DEF LogsAnswer, LogsFail
  <2>3. /\ log' \in Logs /\ log'.tab = log.tab /\ log'.selected = log.selected
        /\ log'.auto = log.auto
    BY <1>5, <1>p, <2>1 DEF LogsAnswer, LogsFail, LogOK, Logs
  <2>4. LogOK'
    BY <1>p, <2>2, <2>3 DEF LogOK, LogCalls
  <2>5. FrameOK' /\ NodeOK' /\ ChartOK' /\ choices' \in 0 .. MaxChoices
    BY <1>0, <2>2, FrameKept, NodeKept, ChartKept, ChoicesBound
  <2>6. ClockOK'
    BY <1>p, <2>2, <2>5 DEF ClockOK, TailsOK, tailVars
  <2>7. TailFollows'
    BY <1>0, <2>2, <2>3 DEF TailFollows, OneTail, Streaming, LogOn, Streams, Live, tailVars
  <2>8. QED
    BY <1>j, <2>4, <2>5, <2>6, <2>7 DEF ViewInv
<1>6. QED
  BY <1>1, <1>2, <1>3, <1>3a, <1>4, <1>5

(* The chart.                                                              *)
LEMMA ChartSteps ==
  ASSUME ViewInv,
         ChartChoice \/ PollHistory \/ ToggleChart
         \/ \E c \in Calls : HistoryAnswer(c) \/ HistoryFails(c)
  PROVE  ViewInv'
<1>0. ViewTypeOK /\ NodeOK /\ chart \in Charts /\ chartCalls \in ChartCalls
  BY Parts DEF ViewInv, ChartOK
<1>f. ASSUME NEW next \in Charts, next.target # None, FetchHistory(next) PROVE ChartOK'
  <2>1. <<next.target, next.range>> \in Histories
    BY <1>f DEF Histories, Charts
  <2>2. chartCalls' \in ChartCalls
    BY <1>0, <1>f, <2>1, StartTyped DEF FetchHistory, ChartCalls
  <2>3. chart' \in Charts
    BY <1>f DEF FetchHistory, Charts
  <2>4. QED
    BY <2>2, <2>3 DEF ChartOK
<1>e. ASSUME UNCHANGED <<page, logTarget, known, logVars, clockVars, nodeVars>>, ChartOK',
             UNCHANGED choices \/ Choose
      PROVE  ViewInv'
  BY <1>0, <1>e, NodeKept, ChoicesBound, ElsewhereKeeps
<1>1. CASE ChartChoice
  <2>1. ChartOK'
    <3>1. CASE \E t \in Targets \ {chart.target} : FetchHistory([chart EXCEPT !.target = t])
      <4>1. PICK t \in Targets : FetchHistory([chart EXCEPT !.target = t])
        BY <3>1
      <4>2. [chart EXCEPT !.target = t] \in Charts /\ [chart EXCEPT !.target = t].target = t
        BY <1>0 DEF Charts
      <4>3. t # None
        BY ObservabilityAssumption DEF Targets
      <4>4. QED
        BY <1>f, <4>1, <4>2, <4>3
    <3>2. CASE \E r \in Ranges \ {chart.range} : FetchHistory([chart EXCEPT !.range = r])
      <4>1. PICK r \in Ranges : FetchHistory([chart EXCEPT !.range = r])
        BY <3>2
      <4>2. /\ [chart EXCEPT !.range = r] \in Charts
            /\ [chart EXCEPT !.range = r].target = chart.target
        BY <1>0 DEF Charts
      <4>3. chart.target # None
        BY <1>1 DEF ChartChoice, ChartOn
      <4>4. QED
        BY <1>f, <4>1, <4>2, <4>3
    <3>3. CASE /\ \E m \in MetricChoices \ {chart.metric} : chart' = [chart EXCEPT !.metric = m]
               /\ UNCHANGED chartCalls
      <4>1. MetricChoices \subseteq {"cpu", "disk"}
        BY DEF MetricChoices
      <4>2. QED
        BY <1>0, <3>3, <4>1 DEF ChartOK, Charts
    <3>4. QED
      BY <1>1, <3>1, <3>2, <3>3 DEF ChartChoice
  <2>2. QED
    BY <1>1, <1>e, <2>1 DEF ChartChoice
<1>2. CASE PollHistory
  <2>1. ChartOK'
    BY <1>0, <1>2, <1>f DEF PollHistory, ChartOn
  <2>2. QED
    BY <1>2, <1>e, <2>1 DEF PollHistory
<1>3. CASE ToggleChart
  <2>1. node \in Targets
    BY <1>0 DEF NodeOK, Targets
  <2>2. ChartOK'
    BY <1>3, <2>1, ChartMounted DEF ToggleChart, ChartOK
  <2>3. QED
    BY <1>3, <1>e, <2>2 DEF ToggleChart
<1>4. ASSUME NEW c \in Calls, HistoryAnswer(c) \/ HistoryFails(c) PROVE ViewInv'
  <2>1. chartCalls[c] \in Histories
    BY <1>0, <1>4 DEF HistoryAnswer, HistoryFails, ChartCalls
  <2>2. ChartOK'
    BY <1>0, <1>4, <2>1 DEF HistoryAnswer, HistoryFails, ChartOK, Charts, ChartCalls
  <2>3. QED
    BY <1>4, <1>e, <2>2 DEF HistoryAnswer, HistoryFails
<1>5. QED
  BY <1>1, <1>2, <1>3, <1>4

(* The selected node and its inspector.                                    *)
LEMMA NodeSteps ==
  ASSUME ViewInv,
         OpenInspector \/ CloseInspector \/ PollLive \/ MetricsArrive
         \/ (\E c \in Calls : LiveAnswer(c)) \/ \E n \in Nodes : SelectNode(n)
  PROVE  ViewInv'
<1> DEFINE Inspectors == [open : BOOLEAN, live : Nodes \cup {None}]
<1>0. /\ ViewTypeOK /\ node \in Nodes /\ lookCalls \in LookCalls /\ inspector \in Inspectors
      /\ Reporting \subseteq Nodes
  BY Parts, ObservabilityAssumption DEF ViewInv, NodeOK
<1>m. \A n \in Nodes : ActiveMetrics(n) \in Nodes \cup {None}
  BY DEF ActiveMetrics
<1>f. ASSUME NEW n \in Nodes, FetchLive(n) PROVE lookCalls' \in LookCalls
  BY <1>0, <1>f, StartTyped DEF FetchLive, LookCalls
<1>e. ASSUME UNCHANGED <<page, logTarget, known, logVars, clockVars, chartVars>>, NodeOK',
             UNCHANGED choices \/ Choose
      PROVE  ViewInv'
  BY <1>0, <1>e, ChartKept, ChoicesBound, ElsewhereKeeps
<1>1. CASE OpenInspector
  BY <1>0, <1>1, <1>e, <1>f DEF OpenInspector, NodeOK
<1>2. CASE CloseInspector
  BY <1>0, <1>2, <1>e DEF CloseInspector, NodeOK
<1>3. CASE PollLive
  BY <1>0, <1>3, <1>e, <1>f DEF PollLive, NodeOK
<1>4. CASE MetricsArrive
  BY <1>0, <1>4, <1>e, <1>m DEF MetricsArrive, NodeOK
<1>5. ASSUME NEW c \in Calls, LiveAnswer(c) PROVE ViewInv'
  <2>1. NodeOK'
    BY <1>0, <1>5 DEF LiveAnswer, NodeOK, LookCalls
  <2>2. QED
    BY <1>5, <1>e, <2>1 DEF LiveAnswer
<1>6. ASSUME NEW n \in Nodes, SelectNode(n) PROVE ViewInv'
  <2>1. NodeOK'
    BY <1>0, <1>6, <1>m DEF SelectNode, NodeOK
  <2>2. QED
    BY <1>6, <1>e, <2>1 DEF SelectNode
<1>7. QED
  BY <1>1, <1>2, <1>3, <1>4, <1>5, <1>6

(* The log page comes on the screen.                                       *)
LEMMA LogsMounted ==
  ASSUME ViewInv, NEW t \in Containers \cup {None}, MountLogs(t)
  PROVE  /\ LogOK' /\ ChartOK' /\ TailsOK'
         /\ OneTail' /\ (tail' # None <=> (Streams(log') /\ log'.auto))
<1>0. None \notin Containers /\ TailsOK /\ OneTail
  BY Parts, ObservabilityAssumption DEF ViewInv, ClockOK, TailFollows
<1>1. log' \in Logs /\ logCalls' \in LogCalls /\ ChartOK'
  <2>1. CASE t # None
    <3>1. t \in Sources
      BY <2>1, ClosedTyped
    <3>2. /\ log' = [ClosedLog EXCEPT !.selected = t, !.tab = "logs", !.loading = TRUE]
          /\ logCalls' \in Start(NoCalls, t) /\ UnmountChart
      BY <2>1 DEF MountLogs
    <3>3. QED
      BY <3>1, <3>2, ClosedTyped, StartTyped, ChartMounted DEF LogCalls, ChartOK
  <2>2. CASE t = None
    <3>1. /\ log' = [ClosedLog EXCEPT !.selected = IF known THEN First ELSE None]
          /\ logCalls' = NoCalls /\ MountChart(Local)
      BY <2>2 DEF MountLogs
    <3>2. (IF known THEN First ELSE None) \in Sources \cup {None}
      BY ClosedTyped
    <3>3. QED
      BY <3>1, <3>2, ClosedTyped, ChartMounted DEF ChartOK
  <2>3. QED
    BY <2>1, <2>2
<1>2. PICK next \in Logs : next = log' /\ TailEffect(next)
  BY <1>1 DEF MountLogs
<1>3. /\ TailsOK' /\ \A u \in Timers : u # tail' => ~Live(u)'
      /\ tail' # None => tails'[tail'].source = next.selected
      /\ tail' # None <=> (Streams(next) /\ next.auto)
  BY <1>0, <1>2, TailSet
<1>4. QED
  BY <1>1, <1>2, <1>3 DEF LogOK, OneTail

(* The navigation.                                                         *)
LEMMA PageSteps ==
  ASSUME ViewInv,
         (\E p \in {"dashboard", "logs", "other"} : Go(p)) \/ \E c \in Containers : OpenLogs(c)
  PROVE  ViewInv'
<1> USE DEF clockVars, logVars
<1>0. ViewTypeOK /\ TailFollows
  BY DEF ViewInv
<1>p. FrameOK /\ NodeOK /\ LogOK /\ ChartOK /\ ClockOK
  BY <1>0, Parts
<1>j. ASSUME FrameOK', NodeOK', LogOK', ChartOK', ClockOK' PROVE ViewTypeOK'
  BY <1>j DEF ViewTypeOK, FrameOK, NodeOK, LogOK, ChartOK, ClockOK, Logs, Charts,
              LogCalls, ChartCalls, LookCalls, TailsOK, Tails, Interval
<1>n. ASSUME node' = Local, inspector' \in [open : BOOLEAN, live : Nodes \cup {None}],
             lookCalls' = NoCalls
      PROVE  NodeOK'
  BY <1>n, ClosedTyped DEF NodeOK
<1>1. ASSUME NEW p \in {"dashboard", "logs", "other"}, Go(p) PROVE ViewInv'
  <2>1. /\ page' = p /\ Choose /\ node' = Local /\ lookCalls' = NoCalls
        /\ UNCHANGED <<logTarget, known, refreshIn, arriving>>
    BY <1>1 DEF Go
  <2>2. inspector' \in [open : BOOLEAN, live : Nodes \cup {None}]
    <3>1. PICK m \in Nodes \cup {None} : inspector' = [open |-> FALSE, live |-> m]
      BY <1>1, ClosedTyped DEF Go
    <3>2. QED
      BY <3>1
  <2>3. FrameOK' /\ NodeOK' /\ choices' \in 0 .. MaxChoices
    BY <1>0, <1>n, <1>p, <2>1, <2>2, ChoicesBound DEF FrameOK
  <2>4. CASE p = "logs"
    <3>1. /\ LogOK' /\ ChartOK' /\ TailsOK'
          /\ OneTail' /\ (tail' # None <=> (Streams(log') /\ log'.auto))
      BY <1>1, <1>p, <2>4, LogsMounted DEF Go, FrameOK
    <3>2. ClockOK'
      BY <1>p, <2>1, <2>3, <3>1 DEF ClockOK
    <3>3. TailFollows'
      BY <2>1, <2>4, <3>1 DEF TailFollows, Streaming, LogOn, Streams
    <3>4. QED
      BY <1>j, <2>3, <3>1, <3>2, <3>3 DEF ViewInv
  <2>5. CASE p # "logs"
    <3>1. log' = ClosedLog /\ tail' = None /\ tails' = ClearTail /\ logCalls' = NoCalls
      BY <1>1, <2>5 DEF Go, CloseLogs
    <3>2. MountChart(Local) \/ UnmountChart
      BY <1>1, <2>5 DEF Go
    <3>3. LogOK' /\ ChartOK'
      BY <3>1, <3>2, ClosedTyped, ChartMounted DEF LogOK, ChartOK
    <3>4. ClearTail \in Tails /\ \A u \in Timers : ClearTail[u].source = None
      BY <1>0, <1>p, TailCleared DEF TailFollows, ClockOK
    <3>6. ClockOK'
      BY <1>p, <2>1, <2>3, <3>1, <3>4 DEF ClockOK, TailsOK
    <3>7. TailFollows'
      BY <2>1, <2>5, <3>1, <3>4 DEF TailFollows, OneTail, Streaming, LogOn, Live
    <3>8. QED
      BY <1>j, <2>3, <3>3, <3>6, <3>7 DEF ViewInv
  <2>6. QED
    BY <2>4, <2>5
<1>2. ASSUME NEW c \in Containers, OpenLogs(c) PROVE ViewInv'
  <2>1. /\ page' = "logs" /\ logTarget' = c /\ Choose /\ node' = Local /\ lookCalls' = NoCalls
        /\ inspector' = [open |-> FALSE, live |-> None]
        /\ UNCHANGED <<known, refreshIn, arriving>>
    BY <1>2 DEF OpenLogs
  <2>2. FrameOK' /\ NodeOK' /\ choices' \in 0 .. MaxChoices
    BY <1>0, <1>n, <1>p, <2>1, ChoicesBound DEF FrameOK
  <2>3. CASE LogOn /\ c # logTarget
    <3>1. Reconciled(c) \in Logs
      BY <1>p, ClosedTyped DEF Reconciled, LogOK, Logs
    <3>2. Render(log, Reconciled(c), FALSE)
      BY <1>2, <2>3 DEF OpenLogs
    <3>3. QED
      BY <2>1, <2>2, <2>3, <3>1, <3>2, RenderKeeps
  <2>4. CASE LogOn /\ c = logTarget
    <3>1. UNCHANGED <<log, tailVars, logCalls, chartVars>> /\ page = "logs"
      BY <1>2, <2>4 DEF OpenLogs, LogOn
    <3>2. TailFollows' /\ ChartOK'
      BY <1>0, <2>1, <3>1, TimerLeft, ChartKept
    <3>3. LogOK'
      BY <1>p, <3>1 DEF LogOK
    <3>4. ClockOK'
      BY <1>p, <2>1, <2>2, <3>1 DEF ClockOK, TailsOK, tailVars
    <3>5. QED
      BY <1>j, <2>2, <3>2, <3>3, <3>4 DEF ViewInv
  <2>5. CASE ~LogOn
    <3>1. /\ LogOK' /\ ChartOK' /\ TailsOK'
          /\ OneTail' /\ (tail' # None <=> (Streams(log') /\ log'.auto))
      BY <1>2, <2>5, LogsMounted DEF OpenLogs
    <3>2. ClockOK'
      BY <1>p, <2>1, <2>2, <3>1 DEF ClockOK
    <3>3. TailFollows'
      BY <2>1, <3>1 DEF TailFollows, Streaming, LogOn, Streams
    <3>4. QED
      BY <1>j, <2>2, <3>1, <3>2, <3>3 DEF ViewInv
  <2>6. QED
    BY <2>3, <2>4, <2>5
<1>3. QED
  BY <1>1, <1>2

(* Every step.                                                             *)
LEMMA ViewsStep ==
  ASSUME ViewInv, [ViewNext]_viewVars
  PROVE  ViewInv'
<1>1. CASE UNCHANGED viewVars
  <2>1. ViewTypeOK /\ NodeOK' /\ ChartOK' /\ choices' \in 0 .. MaxChoices
    BY <1>1, NodeKept, ChartKept, ChoicesBound DEF ViewInv, viewVars
  <2>2. QED
    BY <1>1, <2>1, ElsewhereKeeps DEF viewVars
<1>2. CASE ViewNext
  BY <1>2, LogSteps, ChartSteps, NodeSteps, PageSteps DEF ViewNext
<1>3. QED
  BY <1>1, <1>2

(* The first render.                                                       *)
LEMMA ViewsStarted ==
  ASSUME ViewInit
  PROVE  ViewInv
<1>1. /\ page = "dashboard" /\ logTarget = None /\ known = FALSE
      /\ log = ClosedLog /\ logCalls = NoCalls
      /\ tails = [t \in Timers |-> NoTail] /\ tail = None
      /\ refreshIn = Refresh /\ arriving = FALSE
      /\ chart = [ClosedChart EXCEPT !.target = Local, !.loading = TRUE]
      /\ chartCalls \in Start(NoCalls, <<Local, "1h">>)
      /\ node = Local /\ inspector = [open |-> FALSE, live |-> None] /\ lookCalls = NoCalls
      /\ choices = 0
  BY DEF ViewInit
<1>2. FrameOK /\ NodeOK /\ LogOK
  BY <1>1, ClosedTyped DEF FrameOK, NodeOK, LogOK
<1>3. chart \in Charts
  BY <1>1, ClosedTyped
<1>4. chartCalls \in ChartCalls
  <2>1. <<Local, "1h">> \in Histories
    BY ClosedTyped DEF Histories, Ranges
  <2>2. QED
    BY <1>1, <2>1, ClosedTyped, StartTyped DEF ChartCalls
<1>5. ClockOK
  <2>1. TailPeriod \in Nat /\ Refresh \in Nat /\ Refresh > 0 /\ MaxChoices \in Nat
    BY ObservabilityAssumption
  <2>2. QED
    BY <1>1, <2>1, NoTailTyped DEF ClockOK, TailsOK, Tails
<1>6. ViewTypeOK
  BY <1>2, <1>3, <1>4, <1>5
     DEF ViewTypeOK, FrameOK, NodeOK, LogOK, ClockOK, Logs, Charts, LogCalls, ChartCalls, LookCalls,
         TailsOK, Tails, Interval
<1>7. TailFollows
  BY <1>1, NoTailTyped DEF TailFollows, OneTail, Streaming, LogOn, Live
<1>8. QED
  BY <1>6, <1>7 DEF ViewInv

(* The inductive invariant always holds.                                   *)
LEMMA ViewInvAlways == ViewSpec => []ViewInv
<1>1. ViewInit => ViewInv
  BY ViewsStarted
<1>2. ViewInv /\ [ViewNext]_viewVars => ViewInv'
  BY ViewsStep
<1>3. QED
  BY <1>1, <1>2, PTL DEF ViewSpec

(* The views, their requests and the clocks keep their types.              *)
THEOREM ViewsTyped == ViewSpec => []ViewTypeOK
<1>1. ViewInv => ViewTypeOK
  BY DEF ViewInv
<1>2. QED
  BY <1>1, ViewInvAlways, PTL

(* At most one interval of the auto-tail exists, exactly while the stream  *)
(* is on the screen and not paused, and it polls the selected source,      *)
(* whatever the containers, the source, the tab and the page do            *)
(* (LogsView.tsx:72-78).                                                   *)
THEOREM TailFollowed == ViewSpec => []OneTailTimer
<1>1. ViewInv => OneTailTimer
  BY Parts, TailMeans DEF ViewInv, ClockOK
<1>2. QED
  BY <1>1, ViewInvAlways, PTL

-----------------------------------------------------------------------------
(* Spinners.                                                               *)

LogEnds == log.loading => \E c \in Calls : logCalls[c] # None
ChartEnds == chart.loading => \E c \in Calls : chartCalls[c] # None

(* A request that starts is there.                                         *)
LEMMA StartRuns ==
  ASSUME NEW S, NEW calls \in [Calls -> S \cup {None}], NEW what \in S, None \notin S,
         NEW new \in Start(calls, what)
  PROVE  \E c \in Calls : new[c] # None
<1>1. PICK c \in Free(calls) : new = [calls EXCEPT ![c] = what]
  BY DEF Start
<1>2. c \in Calls /\ new[c] = what
  BY <1>1 DEF Free
<1>3. QED
  BY <1>2

(* A chart that fetches, one that has just been mounted, and none.         *)
LEMMA ChartFetches ==
  ASSUME ViewTypeOK
  PROVE  /\ \A next \in Charts : next.target # None /\ FetchHistory(next) => ChartEnds'
         /\ \A t \in Targets : MountChart(t) => ChartEnds'
         /\ UnmountChart => ChartEnds'
<1>0. chartCalls \in ChartCalls /\ NoCalls \in ChartCalls /\ None \notin Histories
  BY Parts, ClosedTyped, ViewRequests DEF ChartOK
<1>1. ASSUME NEW next \in Charts, next.target # None, FetchHistory(next) PROVE ChartEnds'
  <2>1. <<next.target, next.range>> \in Histories
    BY <1>1 DEF Histories, Charts
  <2>2. \E c \in Calls : chartCalls'[c] # None
    BY <1>0, <1>1, <2>1, StartRuns DEF FetchHistory, ChartCalls
  <2>3. QED
    BY <2>2 DEF ChartEnds
<1>2. ASSUME NEW t \in Targets, MountChart(t) PROVE ChartEnds'
  <2>1. <<t, "1h">> \in Histories
    BY DEF Histories, Ranges
  <2>2. \E c \in Calls : chartCalls'[c] # None
    BY <1>0, <1>2, <2>1, StartRuns DEF MountChart, ChartCalls
  <2>3. QED
    BY <2>2 DEF ChartEnds
<1>3. UnmountChart => ChartEnds'
  BY DEF UnmountChart, ClosedChart, ChartEnds
<1>4. QED
  BY <1>1, <1>2, <1>3

(* A fetch of the log lines.                                               *)
LEMMA LogFetches ==
  ASSUME NEW calls \in LogCalls, NEW s \in Sources, logCalls' \in Start(calls, s)
  PROVE  LogEnds'
<1>1. \E c \in Calls : logCalls'[c] # None
  BY StartRuns, ViewRequests DEF LogCalls
<1>2. QED
  BY <1>1 DEF LogEnds

(* A render of the log page.                                               *)
LEMMA RenderEnds ==
  ASSUME ViewTypeOK, LogEnds, ChartEnds,
         NEW next \in Logs, next.loading = log.loading, NEW fresh, Render(log, next, fresh)
  PROVE  LogEnds' /\ ChartEnds'
<1>0. logCalls \in LogCalls
  BY Parts DEF LogOK
<1>1. LogEnds'
  <2>1. CASE log' = next /\ logCalls' = logCalls
    BY <2>1 DEF LogEnds
  <2>2. CASE Streams(next) /\ logCalls' \in Start(logCalls, next.selected)
    <3>1. next.selected \in Sources
      BY <2>2 DEF Streams, Logs
    <3>2. QED
      BY <1>0, <2>2, <3>1, LogFetches
  <2>3. QED
    BY <2>1, <2>2 DEF Render
<1>2. ChartEnds'
  <2>1. (UNCHANGED chartVars) \/ MountChart(Local) \/ UnmountChart
    BY DEF Render
  <2>2. QED
    BY <2>1, ChartFetches, ClosedTyped DEF chartVars, ChartEnds
<1>3. QED
  BY <1>1, <1>2

(* The log page comes on the screen.                                       *)
LEMMA MountEnds ==
  ASSUME ViewTypeOK, NEW t \in Containers \cup {None}, MountLogs(t)
  PROVE  LogEnds' /\ ChartEnds'
<1>1. CASE t # None
  <2>1. t \in Sources /\ NoCalls \in LogCalls
    BY <1>1, ClosedTyped
  <2>2. logCalls' \in Start(NoCalls, t) /\ UnmountChart
    BY <1>1 DEF MountLogs
  <2>3. QED
    BY <2>1, <2>2, LogFetches, ChartFetches
<1>2. CASE t = None
  <2>1. log' = [ClosedLog EXCEPT !.selected = IF known THEN First ELSE None] /\ MountChart(Local)
    BY <1>2 DEF MountLogs
  <2>2. LogEnds'
    BY <2>1 DEF LogEnds, ClosedLog
  <2>3. QED
    BY <2>1, <2>2, ChartFetches, ClosedTyped
<1>3. QED
  BY <1>1, <1>2

(* Each step that sets a spinner turning starts the request that will stop *)
(* it, and an answer stops it.                                             *)
LEMMA SpinnersStep ==
  ASSUME ViewTypeOK, SpinnersEnd, [ViewNext]_viewVars
  PROVE  SpinnersEnd'
<1> USE DEF logVars, chartVars
<1>0. /\ LogEnds /\ ChartEnds /\ log \in Logs /\ logCalls \in LogCalls /\ chart \in Charts
      /\ node \in Targets /\ logTarget \in Containers \cup {None}
  BY Parts DEF SpinnersEnd, LogEnds, ChartEnds, LogOK, ChartOK, NodeOK, FrameOK, Targets
<1>e. LogEnds' /\ ChartEnds' => SpinnersEnd'
  BY DEF SpinnersEnd, LogEnds, ChartEnds
<1>l. UNCHANGED <<log, logCalls>> => LogEnds'
  BY <1>0 DEF LogEnds
<1>c. UNCHANGED <<chart, chartCalls>> => ChartEnds'
  BY <1>0 DEF ChartEnds
<1>1. CASE LogChoice
  <2>1. PICK next \in Logs : next.loading = log.loading /\ Render(log, next, FALSE)
    <3>1. \A t \in {"metrics", "logs"} :
            LET next == [log EXCEPT !.tab = t] IN next \in Logs /\ next.loading = log.loading
      BY <1>0 DEF Logs
    <3>2. \A s \in Sources :
            LET next == [log EXCEPT !.selected = s] IN next \in Logs /\ next.loading = log.loading
      BY <1>0 DEF Logs
    <3>3. [log EXCEPT !.auto = ~@] \in Logs /\ [log EXCEPT !.auto = ~@].loading = log.loading
      BY <1>0 DEF Logs
    <3>4. QED
      BY <1>1, <3>1, <3>2, <3>3 DEF LogChoice
  <2>2. QED
    BY <1>0, <1>e, <2>1, RenderEnds
<1>2. CASE RefreshLogs
  <2>1. log.selected \in Sources
    BY <1>0, <1>2 DEF RefreshLogs, Streams, Logs
  <2>2. QED
    BY <1>0, <1>2, <1>c, <1>e, <2>1, LogFetches DEF RefreshLogs
<1>3. CASE Tick
  BY <1>3, <1>c, <1>e, <1>l DEF Tick
<1>3a. ASSUME NEW t \in Timers, TailFires(t) PROVE SpinnersEnd'
  <2>1. tails[t].source \in Sources
    BY <1>3a DEF TailFires, Live, ViewTypeOK
  <2>2. logCalls' \in Start(logCalls, tails[t].source) /\ UNCHANGED <<chart, chartCalls>>
    BY <1>3a DEF TailFires
  <2>3. QED
    BY <1>0, <1>c, <1>e, <2>1, <2>2, LogFetches
<1>4. ASSUME NEW t \in Containers \cup {None}, NEW fresh, Render(log, Reconciled(t), fresh)
      PROVE  SpinnersEnd'
  <2>1. Reconciled(t) \in Logs /\ Reconciled(t).loading = log.loading
    BY <1>0, ClosedTyped DEF Reconciled, Logs
  <2>2. QED
    BY <1>0, <1>4, <1>e, <2>1, RenderEnds
<1>5. CASE ContainersArrive
  BY <1>0, <1>4, <1>5, <1>c, <1>e, <1>l DEF ContainersArrive
<1>6. ASSUME NEW c \in Calls, LogsAnswer(c) \/ LogsFail(c) PROVE SpinnersEnd'
  <2>1. log'.loading = FALSE /\ UNCHANGED <<chart, chartCalls>>
    BY <1>0, <1>6 DEF LogsAnswer, LogsFail, Logs
  <2>2. QED
    BY <1>c, <1>e, <2>1 DEF LogEnds
<1>7. CASE ChartChoice
  <2>1. UNCHANGED <<log, logCalls>> /\ chart.target # None
    BY <1>7 DEF ChartChoice, ChartOn
  <2>2. CASE \E t \in Targets \ {chart.target} : FetchHistory([chart EXCEPT !.target = t])
    <3>1. PICK t \in Targets : FetchHistory([chart EXCEPT !.target = t])
      BY <2>2
    <3>2. [chart EXCEPT !.target = t] \in Charts /\ [chart EXCEPT !.target = t].target = t
      BY <1>0 DEF Charts
    <3>3. t # None
      BY ObservabilityAssumption DEF Targets
    <3>4. QED
      BY <1>e, <1>l, <2>1, <3>1, <3>2, <3>3, ChartFetches
  <2>3. CASE \E r \in Ranges \ {chart.range} : FetchHistory([chart EXCEPT !.range = r])
    <3>1. PICK r \in Ranges : FetchHistory([chart EXCEPT !.range = r])
      BY <2>3
    <3>2. /\ [chart EXCEPT !.range = r] \in Charts
          /\ [chart EXCEPT !.range = r].target = chart.target
      BY <1>0 DEF Charts
    <3>3. QED
      BY <1>e, <1>l, <2>1, <3>1, <3>2, ChartFetches
  <2>4. CASE /\ \E m \in MetricChoices \ {chart.metric} : chart' = [chart EXCEPT !.metric = m]
             /\ UNCHANGED chartCalls
    <3>1. chart'.loading = chart.loading
      BY <1>0, <2>4 DEF Charts
    <3>2. QED
      BY <1>0, <1>e, <1>l, <2>1, <2>4, <3>1 DEF ChartEnds
  <2>5. QED
    BY <1>7, <2>2, <2>3, <2>4 DEF ChartChoice
<1>8. CASE PollHistory
  BY <1>0, <1>8, <1>e, <1>l, ChartFetches DEF PollHistory, ChartOn
<1>9. CASE ToggleChart
  BY <1>0, <1>9, <1>e, <1>l, ChartFetches DEF ToggleChart
<1>10. ASSUME NEW c \in Calls, HistoryAnswer(c) \/ HistoryFails(c) PROVE SpinnersEnd'
  <2>1. chart'.loading = FALSE /\ UNCHANGED <<log, logCalls>>
    BY <1>0, <1>10 DEF HistoryAnswer, HistoryFails, Charts
  <2>2. QED
    BY <1>e, <1>l, <2>1 DEF ChartEnds
<1>11. ASSUME \/ OpenInspector \/ CloseInspector \/ PollLive \/ MetricsArrive
              \/ (\E c \in Calls : LiveAnswer(c)) \/ (\E n \in Nodes : SelectNode(n))
              \/ UNCHANGED viewVars
       PROVE  SpinnersEnd'
  <2>1. UNCHANGED <<log, logCalls, chart, chartCalls>>
    BY <1>11 DEF OpenInspector, CloseInspector, PollLive, MetricsArrive, LiveAnswer, SelectNode,
                 viewVars
  <2>2. QED
    BY <1>c, <1>e, <1>l, <2>1
<1>12. ASSUME NEW p \in {"dashboard", "logs", "other"}, Go(p) PROVE SpinnersEnd'
  <2>1. CASE p = "logs"
    BY <1>0, <1>12, <1>e, <2>1, MountEnds DEF Go
  <2>2. CASE p # "logs"
    <3>1. log' = ClosedLog /\ (MountChart(Local) \/ UnmountChart)
      BY <1>12, <2>2 DEF Go, CloseLogs
    <3>2. LogEnds'
      BY <3>1 DEF LogEnds, ClosedLog
    <3>3. QED
      BY <1>e, <3>1, <3>2, ChartFetches, ClosedTyped
  <2>3. QED
    BY <2>1, <2>2
<1>13. ASSUME NEW t \in Containers, OpenLogs(t) PROVE SpinnersEnd'
  BY <1>13, <1>4, <1>c, <1>e, <1>l, MountEnds DEF OpenLogs
<1>14. QED
  BY <1>1, <1>2, <1>3, <1>3a, <1>5, <1>6, <1>7, <1>8, <1>9, <1>10, <1>11, <1>12, <1>13 DEF ViewNext

(* No spinner of the log page or the chart outlives the requests that stop *)
(* it (LogsView.tsx:48-69, TelemetryChart.tsx:52-79).                      *)
THEOREM NoSpinnerLeft == ViewSpec => []SpinnersEnd
<1>1. ViewInit => SpinnersEnd
  <2>1. SUFFICES ASSUME ViewInit PROVE SpinnersEnd
    OBVIOUS
  <2>2. log = ClosedLog /\ chartCalls \in Start(NoCalls, <<Local, "1h">>)
    BY <2>1 DEF ViewInit
  <2>3. <<Local, "1h">> \in Histories /\ NoCalls \in ChartCalls
    BY ClosedTyped DEF Histories, Ranges
  <2>4. \E c \in Calls : chartCalls[c] # None
    BY <2>2, <2>3, StartRuns, ViewRequests DEF ChartCalls
  <2>5. QED
    BY <2>2, <2>4 DEF SpinnersEnd, ClosedLog
<1>2. ViewInv /\ SpinnersEnd /\ [ViewNext]_viewVars => SpinnersEnd'
  BY SpinnersStep DEF ViewInv
<1>3. QED
  BY <1>1, <1>2, ViewInvAlways, PTL DEF ViewSpec
=============================================================================
