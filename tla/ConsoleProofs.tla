---------------------------- MODULE ConsoleProofs ----------------------------
(* Proofs of the safety properties of Console, and that it implements      *)
(* LaggingView.                                                            *)
EXTENDS Console, SequenceTheorems, TLAPS

LEMMA SlicesFacts ==
  /\ "incidents" \in Slices /\ "metrics" \in Slices
  /\ Order \in Seq(Slices) /\ Len(Order) \in Nat /\ Len(Order) > 0
  /\ DOMAIN Order = 1 .. Len(Order)
  /\ \A i \in DOMAIN Order : Order[i] \in Slices /\ Order[i] # "metrics"
<1>1. Order \in Seq({"containers", "incidents", "devices", "topology"})
  BY ConsoleAssumption
<1>2. /\ Len(Order) \in Nat /\ DOMAIN Order = 1 .. Len(Order)
      /\ Len(Order) > 0
      /\ \A i \in DOMAIN Order : Order[i] # "metrics" /\ Order[i] \in Slices
  BY <1>1, ConsoleAssumption DEF Slices
<1>3. Order \in [1 .. Len(Order) -> Slices]
  BY <1>1, <1>2, LenProperties
<1>4. Order \in Seq(Slices)
  BY <1>2, <1>3, SeqDef
<1>5. QED
  BY <1>2, <1>4, ConsoleAssumption DEF Slices

Fetch == [want : Seq(Slices), pending : SUBSET Slices,
          got : [Slices -> 0 .. Last], owner : Requests \cup {None}]
Request == [at : {"idle", "posted", "answered", "refetching", "abandoned"},
            inc : Incidents \cup {None}, here : BOOLEAN]

LEMMA CallTyped ==
  ASSUME NEW q \in Seq(Slices), NEW o \in Requests \cup {None}
  PROVE  Call(q, o) \in Fetch
<1> DEFINE P == {q[i] : i \in DOMAIN q}
<1>1. P \in SUBSET Slices
  <2>1. \A i \in DOMAIN q : q[i] \in Slices
    BY LenProperties, ElementOfSeq
  <2>2. QED
    BY <2>1
<1>2. NoAnswers \in [Slices -> 0 .. Last]
  BY ConsoleAssumption DEF NoAnswers
<1>3. [want |-> q, pending |-> P, got |-> NoAnswers, owner |-> o] \in Fetch
  <2> HIDE DEF P
  <2> QED
    BY <1>1, <1>2 DEF Fetch
<1>4. QED
  BY <1>3 DEF Call

LEMMA IdleFetchTyped == IdleFetch \in Fetch
  BY CallTyped, EmptySeq DEF IdleFetch

LEMMA IdleRequestTyped == IdleRequest \in Request
  BY DEF IdleRequest, Request

LEMMA GivenUpTyped ==
  ASSUME NEW r \in Requests, request \in [Requests -> Request], NEW q \in GivenUp(r)
  PROVE  q \in Request /\ q.at \in {"idle", "abandoned"} /\ q.here = FALSE
<1>1. q \in {IdleRequest, [at |-> "abandoned", inc |-> request[r].inc, here |-> FALSE]}
  BY DEF GivenUp
<1>2. request[r].inc \in Incidents \cup {None}
  BY DEF Request
<1>3. CASE q = IdleRequest
  BY <1>3, IdleRequestTyped DEF IdleRequest
<1>4. CASE q = [at |-> "abandoned", inc |-> request[r].inc, here |-> FALSE]
  BY <1>2, <1>4 DEF Request
<1>5. QED
  BY <1>1, <1>3, <1>4

(* The active incidents of each version are a sequence.                    *)
LEMMA AppendActive ==
  ASSUME NEW n \in Nat, NEW T, NEW f \in [1 .. n -> T], NEW x \in T
  PROVE  Append(f, x) \in [1 .. n + 1 -> T]
<1>1. f \in Seq(T) /\ Len(f) = n
  <2>1. f \in Seq(T)
    BY SeqDef
  <2>2. QED
    BY <2>1, LenProperties
<1>2. Append(f, x) \in Seq(T) /\ Len(Append(f, x)) = n + 1
  BY <1>1, AppendProperties
<1>3. QED
  BY <1>2, LenProperties

LEMMA ActiveNow == TypeOK => active[truth["incidents"]] \in SUBSET Incidents
<1> SUFFICES ASSUME TypeOK PROVE active[truth["incidents"]] \in SUBSET Incidents
  OBVIOUS
<1>1. truth["incidents"] \in 1 .. Last /\ Last \in Nat
  BY SlicesFacts, ConsoleAssumption DEF TypeOK
<1>2. truth["incidents"] \in 1 .. truth["incidents"]
  BY <1>1
<1>3. QED
  BY <1>2 DEF TypeOK

LEMMA SetActiveTyped ==
  ASSUME TypeOK, NEW S \in SUBSET Incidents, SetActive(S)
  PROVE  /\ truth' \in [Slices -> 1 .. Last]
         /\ active' \in [1 .. truth'["incidents"] -> SUBSET Incidents]
         /\ truth' \in {truth, [truth EXCEPT !["incidents"] = @ + 1]}
         /\ truth' # truth => truth["incidents"] < Last
<1> DEFINE n == truth["incidents"]
<1>0. /\ truth \in [Slices -> 1 .. Last] /\ n \in 1 .. Last /\ Last \in Nat
      /\ active \in [1 .. n -> SUBSET Incidents] /\ "incidents" \in Slices
  BY SlicesFacts, ConsoleAssumption DEF TypeOK
<1>1. CASE n < Last /\ S # active[n]
  <2>1. /\ truth' = [truth EXCEPT !["incidents"] = n + 1]
        /\ active' = Append(active, S)
    BY <1>1 DEF SetActive
  <2>2. n \in Nat /\ n + 1 \in 1 .. Last
    BY <1>0, <1>1
  <2>3. active' \in [1 .. n + 1 -> SUBSET Incidents]
    <3> HIDE DEF n
    <3> QED
      BY <1>0, <2>1, <2>2, AppendActive
  <2>4. truth' \in [Slices -> 1 .. Last] /\ truth'["incidents"] = n + 1
    BY <1>0, <2>1, <2>2
  <2>5. QED
    BY <1>1, <2>1, <2>3, <2>4
<1>2. CASE UNCHANGED serverVars
  BY <1>0, <1>2 DEF serverVars
<1>3. QED
  BY <1>1, <1>2 DEF SetActive

LEMMA EmitTyped ==
  ASSUME TypeOK, NEW e \in Events, Emit(e)
  PROVE  socket' \in Seq(Events)
  BY AppendProperties DEF TypeOK, Emit

(* A call of fetchAllData starts with a list of slices other than metrics. *)
LEMMA FetchAllDataTyped ==
  ASSUME TypeOK, NEW f \in Fetches, NEW o \in Requests \cup {None}, FetchAllData(f, o)
  PROVE  fetch' \in [Fetches -> Fetch] /\ refreshing' = TRUE
<1>1. Call(Order, o) \in Fetch
  BY SlicesFacts, CallTyped
<1>2. QED
  BY <1>1 DEF FetchAllData, TypeOK, Fetch

LEMMA FinishTyped ==
  ASSUME TypeOK, NEW f \in Fetches, Finish(f)
  PROVE  /\ fetch' \in [Fetches -> Fetch] /\ refreshing' \in BOOLEAN
         /\ acting' \in Incidents \cup {None} /\ request' \in [Requests -> Request]
<1>1. fetch \in [Fetches -> Fetch] /\ request \in [Requests -> Request]
  BY DEF TypeOK, Fetch, Request
<1>2. fetch[f].owner \in Requests \cup {None}
  BY <1>1 DEF Fetch
<1>3. fetch' \in [Fetches -> Fetch]
  BY <1>1, IdleFetchTyped DEF Finish
<1>4. refreshing' \in BOOLEAN
  BY DEF Finish, TypeOK
<1>5. CASE fetch[f].owner = None
  BY <1>1, <1>3, <1>4, <1>5 DEF Finish, TypeOK
<1>6. CASE fetch[f].owner # None
  <2>1. request' = [request EXCEPT ![fetch[f].owner] = IdleRequest]
    BY <1>6 DEF Finish
  <2>2. request' \in [Requests -> Request]
    BY <1>1, <2>1, IdleRequestTyped
  <2>3. acting' \in Incidents \cup {None}
    BY <1>6 DEF Finish, TypeOK
  <2>4. QED
    BY <1>3, <1>4, <2>2, <2>3
<1>7. QED
  BY <1>5, <1>6

(* TypeOK with the records named.                                         *)
Typed ==
  /\ truth \in [Slices -> 1 .. Last] /\ view \in [Slices -> 0 .. Last]
  /\ active \in [1 .. truth["incidents"] -> SUBSET Incidents]
  /\ refreshing \in BOOLEAN /\ live \in BOOLEAN
  /\ acting \in Incidents \cup {None} /\ touched \subseteq Incidents
  /\ left \in BOOLEAN
  /\ fetch \in [Fetches -> Fetch] /\ request \in [Requests -> Request]
  /\ socket \in Seq(Events) /\ faults \in 0 .. MaxFaults

LEMMA TypedIsTypeOK == Typed <=> TypeOK
  BY DEF Typed, TypeOK, Fetch, Request

(* Every variable of the page, of the server and of the two links keeps    *)
(* its type, whatever overlaps.                                            *)
THEOREM TypeCorrect == Spec => []TypeOK
<1>1. Init => Typed
  <2> SUFFICES ASSUME Init PROVE Typed
    OBVIOUS
  <2>1. fetch \in [Fetches -> Fetch] /\ request \in [Requests -> Request]
    BY IdleFetchTyped, IdleRequestTyped DEF Init
  <2>2. /\ truth \in [Slices -> 1 .. Last] /\ view \in [Slices -> 0 .. Last]
        /\ truth["incidents"] = 1 /\ socket \in Seq(Events) /\ faults \in 0 .. MaxFaults
    BY SlicesFacts, ConsoleAssumption DEF Init
  <2>3. 1 .. 1 = {1}
    OBVIOUS
  <2>4. QED
    BY <2>1, <2>2, <2>3 DEF Init, Typed
<1>2. Typed /\ [Next]_vars => Typed'
  <2> SUFFICES ASSUME Typed, [Next]_vars PROVE Typed'
    OBVIOUS
  <2>0. TypeOK
    BY TypedIsTypeOK
  <2> USE ConsoleAssumption DEF Typed, serverVars, pageVars, linkVars
  <2>1. ASSUME NEW s \in Slices, Observe(s) PROVE Typed'
    <3>1. truth[s] \in 1 .. Last /\ truth[s] < Last
      BY <2>1 DEF Observe
    <3>2. truth' \in [Slices -> 1 .. Last] /\ truth'["incidents"] = truth["incidents"]
      BY <2>1, <3>1, SlicesFacts DEF Observe
    <3>3. QED
      BY <2>1, <3>2 DEF Observe
  <2>2. ASSUME NEW s \in Slices, Broadcast(s) PROVE Typed'
    <3>1. [type |-> s, version |-> truth[s]] \in Events
      BY <2>2 DEF Broadcast, Events
    <3>2. socket' \in Seq(Events)
      BY <2>0, <2>2, <3>1, EmitTyped DEF Broadcast
    <3>3. QED
      BY <2>2, <3>2 DEF Broadcast
  <2>3. ASSUME NEW i \in Incidents, OpenIncident(i) PROVE Typed'
    <3>1. active[truth["incidents"]] \cup {i} \in SUBSET Incidents
      BY <2>0, ActiveNow
    <3>2. QED
      BY <2>0, <2>3, <3>1, SetActiveTyped DEF OpenIncident
  <2>4. ASSUME NEW f \in Fetches, PollAll(f) PROVE Typed'
    BY <2>0, <2>4, FetchAllDataTyped DEF PollAll
  <2>5. ASSUME NEW f \in Fetches, FetchHostMetrics(f) PROVE Typed'
    <3>1. Call(<<"metrics">>, None) \in Fetch
      <4>1. <<"metrics">> \in Seq(Slices)
        BY SlicesFacts
      <4>2. QED
        BY <4>1, CallTyped
    <3>2. QED
      BY <2>5, <3>1 DEF FetchHostMetrics
  <2>6. ASSUME NEW f \in Fetches, Apply(f) PROVE Typed'
    <3>1. fetch[f].want \in Seq(Slices) /\ fetch[f].want # <<>>
      BY <2>6 DEF Apply, Idle, Fetch
    <3>2. Head(fetch[f].want) \in Slices /\ Tail(fetch[f].want) \in Seq(Slices)
      BY <3>1, HeadTailProperties
    <3>3. fetch[f].got \in [Slices -> 0 .. Last]
      BY DEF Fetch
    <3>4. view' \in [Slices -> 0 .. Last]
      BY <2>6, <3>2, <3>3 DEF Apply, Shown
    <3>5. CASE Len(fetch[f].want) > 1
      <4>1. fetch' = [fetch EXCEPT ![f] = [fetch[f] EXCEPT !.want = Tail(fetch[f].want)]]
        BY <2>6, <3>5 DEF Apply
      <4>2. [fetch[f] EXCEPT !.want = Tail(fetch[f].want)] \in Fetch
        BY <3>2 DEF Fetch
      <4>3. fetch' \in [Fetches -> Fetch]
        BY <4>1, <4>2
      <4>4. QED
        BY <2>6, <3>4, <3>5, <4>3 DEF Apply
    <3>6. CASE Finish(f)
      BY <2>0, <2>6, <3>4, <3>6, FinishTyped DEF Apply
    <3>7. QED
      BY <2>6, <3>5, <3>6 DEF Apply
  <2>7. ASSUME NEW f \in Fetches, Reject(f) PROVE Typed'
    BY <2>0, <2>7, FinishTyped DEF Reject
  <2>7a. ASSUME NEW f \in Fetches, ParseFails(f) PROVE Typed'
    BY <2>0, <2>7a, FinishTyped DEF ParseFails
  <2>8. ASSUME NEW f \in Fetches, NEW s \in Slices, Respond(f, s) PROVE Typed'
    <3> PICK v \in {truth[s]} \cup (IF faults < MaxFaults THEN {0} ELSE {}) :
          /\ fetch' = [fetch EXCEPT ![f].pending = @ \ {s}, ![f].got[s] = v]
          /\ faults' = IF v = 0 THEN faults + 1 ELSE faults
      BY <2>8 DEF Respond
    <3>1. v \in 0 .. Last /\ faults' \in 0 .. MaxFaults
      OBVIOUS
    <3>2. [fetch[f] EXCEPT !.pending = @ \ {s}, !.got[s] = v] \in Fetch
      BY <3>1 DEF Fetch
    <3>3. fetch' = [fetch EXCEPT ![f] = [fetch[f] EXCEPT !.pending = @ \ {s}, !.got[s] = v]]
      BY DEF Fetch
    <3>4. QED
      BY <2>8, <3>1, <3>2, <3>3 DEF Respond
  <2>9. ASSUME NEW r \in Requests, Resolve(r) PROVE Typed'
    <3>1. request' \in [Requests -> Request]
      <4>1. [request[r] EXCEPT !.at = "answered"] \in Request
        BY DEF Request
      <4>2. QED
        BY <2>9, <4>1, IdleRequestTyped DEF Resolve
    <3>2. CASE SetActive(active[truth["incidents"]] \ {request[r].inc})
                 /\ Emit([type |-> "incident_resolved", version |-> 0]) /\ UNCHANGED faults
      <4>1. [type |-> "incident_resolved", version |-> 0] \in Events
        BY DEF Events
      <4>2. active[truth["incidents"]] \ {request[r].inc} \in SUBSET Incidents
        BY <2>0, ActiveNow
      <4>3. socket' \in Seq(Events)
        BY <2>0, <3>2, <4>1, EmitTyped
      <4>4. QED
        BY <2>0, <2>9, <3>1, <3>2, <4>2, <4>3, SetActiveTyped DEF Resolve
    <3>3. CASE /\ faults < MaxFaults /\ faults' = faults + 1 /\ UNCHANGED serverVars
               /\ UNCHANGED socket \/ Emit([type |-> "incident_resolved", version |-> 0])
      <4>1. [type |-> "incident_resolved", version |-> 0] \in Events
        BY DEF Events
      <4>2. socket' \in Seq(Events)
        BY <2>0, <3>3, <4>1, EmitTyped
      <4>3. QED
        BY <2>9, <3>1, <3>3, <4>2 DEF Resolve
    <3>4. QED
      BY <2>9, <3>2, <3>3 DEF Resolve
  <2>10. ASSUME NEW r \in Requests, PostFails(r) PROVE Typed'
    <3>1. PICK x \in GivenUp(r) : request' = [request EXCEPT ![r] = x]
      BY <2>10 DEF PostFails
    <3>2. x \in Request
      BY GivenUpTyped
    <3>3. QED
      BY <2>10, <3>1, <3>2 DEF PostFails
  <2>11. ASSUME NEW r \in Requests, NEW i \in Incidents, Act(r, i) PROVE Typed'
    BY <2>11 DEF Act, Request
  <2>12. ASSUME NEW r \in Requests, NEW f \in Fetches, Refetch(r, f) PROVE Typed'
    <3>1. request' \in [Requests -> Request]
      BY <2>12 DEF Refetch, Request
    <3>2. QED
      BY <2>0, <2>12, <3>1, FetchAllDataTyped DEF Refetch
  <2>13. CASE OnMessage
    <3>1. Head(socket) \in Events /\ socket' \in Seq(Events)
      BY <2>13, HeadTailProperties DEF OnMessage
    <3>2. CASE Head(socket).type = "incident_resolved"
      BY <2>0, <2>13, <3>1, <3>2, FetchAllDataTyped DEF OnMessage
    <3>3. CASE Head(socket).type # "incident_resolved"
      <4>1. Head(socket).version \in 0 .. Last
        BY <3>1, <3>3 DEF Events
      <4>2. QED
        BY <2>13, <3>1, <3>3, <4>1 DEF OnMessage
    <3>4. QED
      BY <3>2, <3>3
  <2>14. CASE SocketCloses
    BY <2>14, EmptySeq DEF SocketCloses
  <2>15. CASE Remount
    BY <2>15 DEF Remount, Request, Unseen
  <2>16. CASE UNCHANGED vars
    BY <2>16 DEF vars
  <2>17. QED
    BY <2>1, <2>2, <2>3, <2>4, <2>5, <2>6, <2>7, <2>8, <2>9, <2>10, <2>11, <2>12,
       <2>7a, <2>13, <2>14, <2>15, <2>16 DEF Next
<1>3. QED
  BY <1>1, <1>2, TypedIsTypeOK, PTL DEF Spec

-----------------------------------------------------------------------------
(* What is on its way to the screen, in a response, in an event or already *)
(* applied, is a version the server has had.                               *)
TrueEvent(e, t) ==
  e.type # "incident_resolved" => e.type \in Slices /\ e.version <= t[e.type]

Truthful ==
  /\ \A s \in Slices : view[s] <= truth[s]
  /\ \A f \in Fetches, s \in Slices : fetch[f].got[s] <= truth[s]
  /\ \A k \in 1 .. Len(socket) : TrueEvent(socket[k], truth)

TruthGrows == \A s \in Slices : truth[s] <= truth'[s]

LEMMA SetActiveGrows ==
  ASSUME TypeOK, NEW S \in SUBSET Incidents, SetActive(S)
  PROVE  TruthGrows
<1>1. truth \in [Slices -> 1 .. Last] /\ Last \in Nat /\ "incidents" \in Slices
  BY SlicesFacts, ConsoleAssumption DEF TypeOK
<1>2. truth' \in {truth, [truth EXCEPT !["incidents"] = @ + 1]}
  BY SetActiveTyped
<1>3. QED
  BY <1>1, <1>2 DEF TruthGrows

(* Older versions stay versions the server has had.                        *)
LEMMA OlderVersions ==
  ASSUME TypeOK, TypeOK', Truthful, TruthGrows
  PROVE  /\ \A s \in Slices : view[s] <= truth'[s]
         /\ \A f \in Fetches, s \in Slices : fetch[f].got[s] <= truth'[s]
<1>1. /\ truth \in [Slices -> 1 .. Last] /\ truth' \in [Slices -> 1 .. Last]
      /\ view \in [Slices -> 0 .. Last] /\ Last \in Nat
      /\ \A f \in Fetches : fetch[f].got \in [Slices -> 0 .. Last]
  BY ConsoleAssumption DEF TypeOK
<1>2. QED
  BY <1>1 DEF Truthful, TruthGrows

LEMMA OlderEvents ==
  ASSUME TypeOK, TypeOK', Truthful, TruthGrows
  PROVE  \A k \in 1 .. Len(socket) : TrueEvent(socket[k], truth')
<1>1. /\ truth \in [Slices -> 1 .. Last] /\ truth' \in [Slices -> 1 .. Last]
      /\ Last \in Nat /\ socket \in Seq(Events)
  BY ConsoleAssumption DEF TypeOK
<1>2. \A k \in 1 .. Len(socket) : socket[k] \in Events
  BY <1>1, ElementOfSeq
<1>3. QED
  BY <1>1, <1>2 DEF Truthful, TruthGrows, TrueEvent, Events

LEMMA TruthfulKept ==
  ASSUME TypeOK, TypeOK', Truthful, TruthGrows, UNCHANGED <<view, fetch, socket>>
  PROVE  Truthful'
  BY OlderVersions, OlderEvents DEF Truthful

LEMMA AppendTrue ==
  ASSUME TypeOK, NEW e, NEW t, TrueEvent(e, t), socket' = Append(socket, e),
         \A k \in 1 .. Len(socket) : TrueEvent(socket[k], t)
  PROVE  \A k \in 1 .. Len(socket') : TrueEvent(socket'[k], t)
<1>1. socket \in Seq(Events \cup {e})
  BY SeqMonotonic DEF TypeOK
<1>2. Len(socket') = Len(socket) + 1 /\ Len(socket) \in Nat
  BY <1>1, AppendProperties, LenProperties
<1>3. ASSUME NEW k \in 1 .. Len(socket') PROVE TrueEvent(socket'[k], t)
  <2>1. CASE k \in 1 .. Len(socket)
    BY <1>1, <2>1, AppendProperties
  <2>2. CASE k = Len(socket) + 1
    BY <1>1, <2>2, AppendProperties
  <2>3. QED
    BY <1>2, <1>3, <2>1, <2>2
<1>4. QED
  BY <1>3

(* A call that starts has no answer yet.                                   *)
LEMMA CallAnswers ==
  ASSUME TypeOK, Truthful, NEW f \in Fetches, NEW q, NEW o,
         fetch' = [fetch EXCEPT ![f] = Call(q, o)]
  PROVE  \A g \in Fetches, s \in Slices : fetch'[g].got[s] <= truth[s]
<1>1. truth \in [Slices -> 1 .. Last] /\ fetch'[f].got = [s \in Slices |-> 0]
  BY DEF TypeOK, Call, NoAnswers
<1>2. \A g \in Fetches : g # f => fetch'[g] = fetch[g]
  BY DEF TypeOK
<1>3. QED
  BY <1>1, <1>2 DEF Truthful

LEMMA CallTrue ==
  ASSUME TypeOK, Truthful, truth' = truth, view' = view, socket' = socket,
         NEW f \in Fetches, NEW q, NEW o, fetch' = [fetch EXCEPT ![f] = Call(q, o)]
  PROVE  Truthful'
  BY CallAnswers DEF Truthful

LEMMA TruthfulInductive ==
  ASSUME TypeOK, TypeOK', Truthful, [Next]_vars
  PROVE  Truthful'
<1> USE DEF serverVars, pageVars, linkVars
<1>0. truth \in [Slices -> 1 .. Last] /\ view \in [Slices -> 0 .. Last]
  BY DEF TypeOK
<1>1. ASSUME NEW s \in Slices, Observe(s) PROVE Truthful'
  <2>1. TruthGrows
    BY <1>0, <1>1 DEF Observe, TruthGrows
  <2>2. QED
    BY <1>1, <2>1, TruthfulKept DEF Observe
<1>2. ASSUME NEW s \in Slices, Broadcast(s) PROVE Truthful'
  <2> DEFINE e == [type |-> s, version |-> truth[s]]
  <2>1. e \in Events /\ TrueEvent(e, truth)
    BY <1>0, <1>2 DEF Broadcast, Events, TrueEvent
  <2>2. \A k \in 1 .. Len(socket') : TrueEvent(socket'[k], truth')
    <3>1. CASE socket' = socket
      BY <1>2, <3>1 DEF Broadcast, Truthful
    <3>2. CASE socket' = Append(socket, e)
      <4>1. truth' = truth
        BY <1>2 DEF Broadcast
      <4> HIDE DEF e
      <4>2. \A k \in 1 .. Len(socket) : TrueEvent(socket[k], truth')
        BY <4>1 DEF Truthful
      <4>3. QED
        BY <2>1, <3>2, <4>1, <4>2, AppendTrue
    <3>3. QED
      BY <1>2, <3>1, <3>2 DEF Broadcast, Emit
  <2>3. QED
    BY <1>2, <2>2 DEF Broadcast, Truthful
<1>3. ASSUME NEW i \in Incidents, OpenIncident(i) PROVE Truthful'
  <2>1. active[truth["incidents"]] \cup {i} \in SUBSET Incidents
    BY ActiveNow
  <2>2. TruthGrows
    BY <1>3, <2>1, SetActiveGrows DEF OpenIncident
  <2>3. QED
    BY <1>3, <2>2, TruthfulKept DEF OpenIncident
<1>4. ASSUME NEW f \in Fetches, PollAll(f) PROVE Truthful'
  BY <1>4, CallTrue DEF PollAll, FetchAllData
<1>5. ASSUME NEW f \in Fetches, FetchHostMetrics(f) PROVE Truthful'
  BY <1>5, CallTrue DEF FetchHostMetrics
<1>6. ASSUME NEW f \in Fetches, Apply(f) PROVE Truthful'
  <2> DEFINE s == Head(fetch[f].want)
  <2>1. s \in Slices
    <3>1. fetch[f].want \in Seq(Slices) /\ fetch[f].want # <<>>
      BY <1>6 DEF Apply, Idle, TypeOK
    <3>2. QED
      BY <3>1, HeadTailProperties
  <2>2. \A t \in Slices : view'[t] <= truth'[t]
    BY <1>0, <1>6, <2>1 DEF Apply, Shown, Truthful
  <2>3. \A g \in Fetches, t \in Slices : fetch'[g].got[t] <= truth'[t]
    <3>1. CASE fetch' = [fetch EXCEPT ![f].want = Tail(@)]
      BY <1>6, <3>1 DEF Apply, Truthful, TypeOK
    <3>2. CASE fetch' = [fetch EXCEPT ![f] = IdleFetch]
      <4>1. IdleFetch.got = [t \in Slices |-> 0]
        BY DEF IdleFetch, Call, NoAnswers
      <4>2. QED
        BY <1>0, <1>6, <3>2, <4>1 DEF Apply, Truthful, TypeOK
    <3>3. QED
      BY <1>6, <3>1, <3>2 DEF Apply, Finish
  <2>4. QED
    BY <1>6, <2>2, <2>3 DEF Apply, Truthful, TrueEvent
<1>7. ASSUME NEW f \in Fetches, Reject(f) PROVE Truthful'
  BY <1>7, CallTrue DEF Reject, Finish, IdleFetch
<1>7a. ASSUME NEW f \in Fetches, ParseFails(f) PROVE Truthful'
  BY <1>7a, CallTrue DEF ParseFails, Finish, IdleFetch
<1>8. ASSUME NEW f \in Fetches, NEW s \in Slices, Respond(f, s) PROVE Truthful'
  <2> PICK v \in {truth[s]} \cup (IF faults < MaxFaults THEN {0} ELSE {}) :
        fetch' = [fetch EXCEPT ![f].pending = @ \ {s}, ![f].got[s] = v]
    BY <1>8 DEF Respond
  <2>1. v <= truth[s]
    BY <1>0
  <2>2. \A g \in Fetches, t \in Slices : fetch'[g].got[t] <= truth[t]
    <3>1. fetch \in [Fetches -> Fetch]
      BY DEF TypeOK, Fetch
    <3>2. fetch'[f].got = [fetch[f].got EXCEPT ![s] = v] /\ fetch[f].got \in [Slices -> 0 .. Last]
      BY <3>1 DEF Fetch
    <3>3. \A g \in Fetches : g # f => fetch'[g] = fetch[g]
      BY <3>1
    <3>4. \A t \in Slices : fetch'[f].got[t] <= truth[t]
      <4>1. \A t \in Slices : fetch[f].got[t] <= truth[t]
        BY DEF Truthful
      <4>2. QED
        BY <2>1, <3>2, <4>1
    <3>5. \A g \in Fetches, t \in Slices : fetch[g].got[t] <= truth[t]
      BY DEF Truthful
    <3>6. QED
      BY <3>3, <3>4, <3>5
  <2>3. QED
    BY <1>8, <2>2 DEF Respond, Truthful, TrueEvent
<1>9. ASSUME NEW r \in Requests, Resolve(r) PROVE Truthful'
  <2>1. active[truth["incidents"]] \ {request[r].inc} \in SUBSET Incidents
    BY ActiveNow
  <2>2. TruthGrows
    <3>1. CASE SetActive(active[truth["incidents"]] \ {request[r].inc})
      BY <2>1, <3>1, SetActiveGrows
    <3>2. CASE truth' = truth
      BY <1>0, <3>2 DEF TruthGrows
    <3>3. QED
      BY <1>9, <3>1, <3>2 DEF Resolve
  <2> DEFINE e == [type |-> "incident_resolved", version |-> 0]
  <2>3. \A k \in 1 .. Len(socket') : TrueEvent(socket'[k], truth')
    <3>1. \A k \in 1 .. Len(socket) : TrueEvent(socket[k], truth')
      BY <2>2, OlderEvents
    <3>2. CASE socket' = socket
      BY <3>1, <3>2
    <3>3. CASE socket' = Append(socket, e)
      <4>1. TrueEvent(e, truth')
        BY DEF TrueEvent
      <4>2. QED
        BY <3>1, <3>3, <4>1, AppendTrue
    <3>4. QED
      BY <1>9, <3>2, <3>3 DEF Resolve, Emit
  <2>4. \A s \in Slices : view[s] <= truth'[s]
    BY <1>0, <2>2, OlderVersions
  <2>5. \A f \in Fetches, s \in Slices : fetch[f].got[s] <= truth'[s]
    BY <1>0, <2>2, OlderVersions
  <2>6. QED
    BY <1>9, <2>3, <2>4, <2>5 DEF Resolve, Truthful
<1>10. ASSUME NEW r \in Requests, PostFails(r) PROVE Truthful'
  BY <1>10 DEF PostFails, Truthful, TrueEvent
<1>11. ASSUME NEW r \in Requests, NEW i \in Incidents, Act(r, i) PROVE Truthful'
  BY <1>11 DEF Act, Truthful, TrueEvent
<1>12. ASSUME NEW r \in Requests, NEW f \in Fetches, Refetch(r, f) PROVE Truthful'
  BY <1>12, CallTrue DEF Refetch, FetchAllData
<1>13. CASE OnMessage
  <2> DEFINE e == Head(socket)
  <2>1. socket \in Seq(Events) /\ socket # <<>> /\ truth' = truth
    BY <1>13 DEF OnMessage, TypeOK
  <2>2. Len(socket) >= 1 /\ e = socket[1] /\ e \in Events
    BY <2>1, HeadTailProperties, ElementOfSeq, LenProperties
  <2>3. \A k \in 1 .. Len(socket') : TrueEvent(socket'[k], truth')
    <3>1. socket' = Tail(socket)
      BY <1>13 DEF OnMessage
    <3>2. /\ Len(socket') = Len(socket) - 1 /\ Len(socket) \in Nat
          /\ \A k \in 1 .. Len(socket') : socket'[k] = socket[k + 1]
      BY <2>1, <3>1
    <3>3. QED
      BY <2>1, <3>2 DEF Truthful
  <2>4. CASE e.type = "incident_resolved"
    <3>1. view' = view /\ \E f \in Fetches : FetchAllData(f, None)
      BY <1>13, <2>4 DEF OnMessage
    <3>2. PICK f \in Fetches : fetch' = [fetch EXCEPT ![f] = Call(Order, None)]
      BY <3>1 DEF FetchAllData
    <3>3. QED
      BY <2>1, <2>3, <3>1, <3>2, CallAnswers DEF Truthful
  <2>5. CASE e.type # "incident_resolved"
    <3>1. view' = [view EXCEPT ![e.type] = e.version] /\ fetch' = fetch
      BY <1>13, <2>5 DEF OnMessage
    <3>2. TrueEvent(e, truth)
      BY <2>2 DEF Truthful
    <3>3. e.type \in Slices /\ e.version <= truth[e.type]
      BY <2>5, <3>2 DEF TrueEvent
    <3>4. \A s \in Slices : view'[s] <= truth'[s]
      <4> HIDE DEF e
      <4> QED
        BY <1>0, <2>1, <3>1, <3>3 DEF Truthful
    <3>5. QED
      BY <2>1, <2>3, <3>1, <3>4 DEF Truthful
  <2>6. QED
    BY <2>4, <2>5
<1>14. CASE SocketCloses
  BY <1>14 DEF SocketCloses, Truthful
<1>15. CASE Remount
  BY <1>15 DEF Remount, Truthful, TrueEvent
<1>16. CASE UNCHANGED vars
  BY <1>16 DEF vars, Truthful, TrueEvent
<1>17. QED
  BY <1>1, <1>2, <1>3, <1>4, <1>5, <1>6, <1>7, <1>8, <1>9, <1>10, <1>11, <1>12,
     <1>7a, <1>13, <1>14, <1>15, <1>16 DEF Next

LEMMA TruthfulAlways == Spec => [](TypeOK /\ Truthful)
<1>1. Init => Truthful
  BY SlicesFacts DEF Init, Truthful, IdleFetch, Call, NoAnswers
<1>2. TypeOK /\ TypeOK' /\ Truthful /\ [Next]_vars => Truthful'
  BY TruthfulInductive
<1>3. QED
  BY <1>1, <1>2, TypeCorrect, PTL DEF Spec

(* Whatever overlaps, the screen shows versions the server has had: Console *)
(* implements LaggingView.                                                  *)
THEOREM ShowsWhatWas == Spec => LagSpec
<1>1. Init => Lag!Init
  BY DEF Init, Lag!Init
<1>2. TypeOK /\ TypeOK' /\ Truthful /\ Truthful' /\ [Next]_vars => [Lag!Next]_(Lag!lagVars)
  <2> SUFFICES ASSUME TypeOK, TypeOK', Truthful, Truthful', [Next]_vars
               PROVE  Lag!Next \/ UNCHANGED <<truth, view>>
    BY DEF Lag!lagVars
  <2> USE DEF serverVars, pageVars, linkVars
  <2>0. /\ truth \in [Slices -> 1 .. Last] /\ view \in [Slices -> 0 .. Last]
        /\ Last \in Nat
    BY ConsoleAssumption DEF TypeOK
  <2>1. ASSUME NEW s \in Slices, NEW v, view' = [view EXCEPT ![s] = v], v # 0,
               truth' = truth
        PROVE  Lag!Next
    <3>1. view' \in [Slices -> 0 .. Last] /\ view'[s] <= truth[s] /\ view'[s] = v
      BY <2>0, <2>1 DEF TypeOK, Truthful
    <3>2. v \in 1 .. truth[s]
      BY <2>0, <2>1, <3>1
    <3>3. Lag!Show(s)
      BY <2>1, <3>2 DEF Lag!Show
    <3>4. QED
      BY <3>3 DEF Lag!Next
  <2>2. ASSUME NEW S \in SUBSET Incidents, SetActive(S), view' = view
        PROVE  Lag!Next \/ UNCHANGED <<truth, view>>
    <3>1. CASE truth["incidents"] < Last /\ truth' = [truth EXCEPT !["incidents"] = @ + 1]
      BY <2>2, <3>1, SlicesFacts DEF Lag!Next, Lag!MoveOn
    <3>2. CASE truth' = truth
      BY <2>2, <3>2
    <3>3. QED
      BY <2>2, <3>1, <3>2 DEF SetActive
  <2>3. ASSUME NEW s \in Slices, Observe(s) PROVE Lag!Next
    BY <2>3 DEF Observe, Lag!Next, Lag!MoveOn
  <2>4. ASSUME NEW i \in Incidents, OpenIncident(i)
        PROVE  Lag!Next \/ UNCHANGED <<truth, view>>
    <3>1. active[truth["incidents"]] \cup {i} \in SUBSET Incidents
      BY ActiveNow
    <3>2. QED
      BY <2>2, <2>4, <3>1 DEF OpenIncident
  <2>5. ASSUME NEW f \in Fetches, Apply(f) PROVE Lag!Next \/ UNCHANGED <<truth, view>>
    <3> DEFINE s == Head(fetch[f].want)
    <3>1. s \in Slices
      <4>1. fetch[f].want \in Seq(Slices) /\ fetch[f].want # <<>>
        BY <2>5 DEF Apply, Idle, TypeOK
      <4>2. QED
        BY <4>1, HeadTailProperties
    <3>2. truth' = truth /\ view' = Shown(f, s)
      BY <2>5 DEF Apply
    <3>3. CASE fetch[f].got[s] = 0
      BY <3>2, <3>3 DEF Shown
    <3>4. CASE fetch[f].got[s] # 0
      <4>1. view' = [view EXCEPT ![s] = fetch[f].got[s]]
        BY <3>2, <3>4 DEF Shown
      <4>2. QED
        BY <2>1, <3>1, <3>2, <3>4, <4>1
    <3>5. QED
      BY <3>3, <3>4
  <2>6. ASSUME NEW r \in Requests, Resolve(r) PROVE Lag!Next \/ UNCHANGED <<truth, view>>
    <3>1. active[truth["incidents"]] \ {request[r].inc} \in SUBSET Incidents
      BY ActiveNow
    <3>2. QED
      BY <2>2, <2>6, <3>1 DEF Resolve
  <2>7. CASE OnMessage
    <3> DEFINE e == Head(socket)
    <3>1. e \in Events /\ truth' = truth /\ TrueEvent(e, truth)
      <4>1. socket \in Seq(Events) /\ socket # <<>>
        BY <2>7 DEF OnMessage, TypeOK
      <4>2. Len(socket) >= 1 /\ e = socket[1] /\ e \in Events
        BY <4>1, HeadTailProperties, ElementOfSeq, LenProperties
      <4>3. QED
        BY <2>7, <4>2 DEF OnMessage, Truthful
    <3>2. CASE e.type = "incident_resolved"
      BY <2>7, <3>1, <3>2 DEF OnMessage
    <3>3. CASE e.type # "incident_resolved"
      <4>1. e.type \in Slices /\ e.version # 0
        BY <3>1, <3>3 DEF TrueEvent, Events
      <4>2. view' = [view EXCEPT ![e.type] = e.version]
        BY <2>7, <3>3 DEF OnMessage
      <4>3. QED
        BY <2>1, <3>1, <4>1, <4>2
    <3>4. QED
      BY <3>2, <3>3
  <2>8. CASE \/ \E s \in Slices : Broadcast(s)
             \/ \E f \in Fetches : \/ PollAll(f) \/ FetchHostMetrics(f)
                                   \/ Reject(f) \/ ParseFails(f)
                                   \/ \E s \in Slices : Respond(f, s)
             \/ \E r \in Requests : \/ PostFails(r) \/ \E i \in Incidents : Act(r, i)
                                    \/ \E f \in Fetches : Refetch(r, f)
             \/ SocketCloses \/ Remount \/ UNCHANGED vars
    BY <2>8 DEF Broadcast, PollAll, FetchHostMetrics, Reject, ParseFails, Respond,
                PostFails, Act, Refetch, SocketCloses, Remount, vars
  <2>9. QED
    BY <2>3, <2>4, <2>5, <2>6, <2>7, <2>8 DEF Next
<1>3. QED
  BY <1>1, <1>2, TruthfulAlways, PTL DEF Spec, LagSpec, Lag!Spec

-----------------------------------------------------------------------------
(* A call fetches the host metrics alone, or other slices.                 *)
WantsApart ==
  \A f \in Fetches : fetch[f].want = <<"metrics">> \/ "metrics" \notin Wants(f)

LEMMA TailFacts ==
  ASSUME NEW S, NEW q \in Seq(S), Len(q) > 1
  PROVE  /\ \A x : q # <<x>>
         /\ Tail(q) # <<>> /\ 1 \in DOMAIN Tail(q)
         /\ \A k \in DOMAIN Tail(q) : k + 1 \in DOMAIN q /\ Tail(q)[k] = q[k + 1]
<1>1. ASSUME NEW x, q = <<x>> PROVE FALSE
  <2>1. Len(<<x>>) = 1
    OBVIOUS
  <2>2. QED
    BY <1>1, <2>1
<1>2. /\ Tail(q) \in Seq(S) /\ Len(Tail(q)) = Len(q) - 1 /\ Len(q) \in Nat
      /\ \A k \in 1 .. Len(Tail(q)) : Tail(q)[k] = q[k + 1]
  OBVIOUS
<1>3. DOMAIN Tail(q) = 1 .. Len(q) - 1 /\ DOMAIN q = 1 .. Len(q)
  BY <1>2, LenProperties
<1>4. Tail(q) # <<>> /\ 1 \in DOMAIN Tail(q)
  <2>1. Len(Tail(q)) # 0 /\ 1 \in 1 .. Len(q) - 1
    BY <1>2
  <2>2. Len(<<>>) = 0
    OBVIOUS
  <2>3. QED
    BY <1>3, <2>1, <2>2
<1>5. \A k \in DOMAIN Tail(q) : k + 1 \in DOMAIN q /\ Tail(q)[k] = q[k + 1]
  BY <1>2, <1>3
<1>6. QED
  BY <1>1, <1>4, <1>5

SpinnerInv == WantsApart /\ SpinnerHonest

LEMMA OrderIsMeta ==
  ASSUME NEW f \in Fetches, fetch[f].want = Order
  PROVE  IsMeta(f) /\ "metrics" \notin Wants(f)
<1>1. 1 \in DOMAIN Order /\ Order[1] # "metrics" /\ Order # <<>>
  BY SlicesFacts, ConsoleAssumption
<1>2. \A i \in DOMAIN Order : Order[i] # "metrics"
  BY SlicesFacts
<1>3. Order[1] \in Wants(f)
  BY <1>1 DEF Wants
<1>4. QED
  BY <1>1, <1>2, <1>3 DEF Wants, IsMeta, Idle

LEMMA FetchAllDataSpins ==
  ASSUME TypeOK, SpinnerInv, NEW f \in Fetches, NEW o, FetchAllData(f, o)
  PROVE  SpinnerInv'
<1>1. fetch'[f].want = Order /\ \A g \in Fetches : g # f => fetch'[g] = fetch[g]
  BY DEF FetchAllData, TypeOK, Call
<1>2. IsMeta(f)' /\ ("metrics" \notin Wants(f))'
  BY <1>1, OrderIsMeta, SlicesFacts, ConsoleAssumption DEF Wants, IsMeta, Idle
<1>3. WantsApart'
  BY <1>1, <1>2 DEF SpinnerInv, WantsApart, Wants
<1>4. QED
  BY <1>2, <1>3 DEF SpinnerInv, SpinnerHonest

LEMMA FinishSpins ==
  ASSUME TypeOK, SpinnerInv, NEW f \in Fetches, Finish(f)
  PROVE  SpinnerInv'
<1>1. fetch'[f].want = <<>> /\ \A g \in Fetches : g # f => fetch'[g] = fetch[g]
  BY DEF Finish, TypeOK, IdleFetch, Call
<1>2. WantsApart'
  BY <1>1 DEF SpinnerInv, WantsApart, Wants
<1>3. SpinnerHonest'
  <2>1. CASE IsMeta(f)
    BY <2>1 DEF Finish, SpinnerHonest
  <2>2. CASE ~IsMeta(f)
    <3>1. refreshing' = refreshing
      BY <2>2 DEF Finish
    <3>2. \A g \in Fetches : IsMeta(g) => IsMeta(g)'
      BY <1>1, <2>2 DEF IsMeta, Idle, Wants
    <3>3. QED
      BY <3>1, <3>2 DEF SpinnerInv, SpinnerHonest
  <2>3. QED
    BY <2>1, <2>2
<1>4. QED
  BY <1>2, <1>3 DEF SpinnerInv

(* The refresh spinner is on only while a fetchAllData runs.               *)
THEOREM SpinnerCorrect == Spec => []SpinnerHonest
<1>1. Init => SpinnerInv
  BY DEF Init, SpinnerInv, WantsApart, SpinnerHonest, Wants, IdleFetch, Call
<1>2. TypeOK /\ SpinnerInv /\ [Next]_vars => SpinnerInv'
  <2> SUFFICES ASSUME TypeOK, SpinnerInv, [Next]_vars PROVE SpinnerInv'
    OBVIOUS
  <2> USE DEF serverVars, pageVars, linkVars
  <2>1. ASSUME UNCHANGED <<fetch, refreshing>> PROVE SpinnerInv'
    BY <2>1 DEF SpinnerInv, WantsApart, SpinnerHonest, IsMeta, Idle, Wants
  <2>2. ASSUME NEW f \in Fetches, PollAll(f) PROVE SpinnerInv'
    BY <2>2, FetchAllDataSpins DEF PollAll
  <2>3. ASSUME NEW f \in Fetches, FetchHostMetrics(f) PROVE SpinnerInv'
    <3>1. /\ fetch'[f].want = <<"metrics">> /\ refreshing' = refreshing
          /\ \A g \in Fetches : g # f => fetch'[g] = fetch[g]
      BY <2>3 DEF FetchHostMetrics, TypeOK, Call
    <3>2. ~IsMeta(f)
      BY <2>3 DEF FetchHostMetrics, IsMeta
    <3>3. \A g \in Fetches : IsMeta(g) => IsMeta(g)'
      BY <3>1, <3>2 DEF IsMeta, Idle, Wants
    <3>4. WantsApart'
      BY <3>1 DEF SpinnerInv, WantsApart, Wants
    <3>5. QED
      BY <3>1, <3>3, <3>4 DEF SpinnerInv, SpinnerHonest
  <2>4. ASSUME NEW f \in Fetches, Apply(f) PROVE SpinnerInv'
    <3>1. CASE Finish(f)
      BY <3>1, FinishSpins
    <3>2. CASE /\ Len(fetch[f].want) > 1 /\ refreshing' = refreshing
               /\ fetch' = [fetch EXCEPT ![f].want = Tail(@)]
      <4> DEFINE w == fetch[f].want
      <4>1. w \in Seq(Slices) /\ Len(w) > 1 /\ w # <<"metrics">>
        <5>1. w \in Seq(Slices) /\ Len(w) > 1
          BY <3>2 DEF TypeOK
        <5>2. QED
          BY <5>1, TailFacts
      <4>2. /\ fetch'[f].want = Tail(w)
            /\ \A g \in Fetches : g # f => fetch'[g] = fetch[g]
        BY <3>2 DEF TypeOK
      <4>3. /\ Tail(w) # <<>> /\ 1 \in DOMAIN Tail(w)
            /\ \A k \in DOMAIN Tail(w) : k + 1 \in DOMAIN w /\ Tail(w)[k] = w[k + 1]
        BY <4>1, TailFacts
      <4>4. \A k \in DOMAIN w : w[k] # "metrics"
        <5>1. "metrics" \notin {fetch[f].want[k] : k \in DOMAIN fetch[f].want}
          BY <4>1 DEF SpinnerInv, WantsApart, Wants
        <5>2. QED
          BY <5>1
      <4>5. \A k \in DOMAIN Tail(w) : Tail(w)[k] # "metrics"
        BY <4>3, <4>4
      <4>6. IsMeta(f)' /\ ("metrics" \notin Wants(f))'
        BY <4>2, <4>3, <4>5 DEF IsMeta, Idle, Wants
      <4>7. \A g \in Fetches : IsMeta(g) => IsMeta(g)'
        BY <4>2, <4>6 DEF IsMeta, Idle, Wants
      <4>8. WantsApart'
        BY <4>2, <4>6 DEF SpinnerInv, WantsApart, Wants
      <4>9. QED
        BY <3>2, <4>7, <4>8 DEF SpinnerInv, SpinnerHonest
    <3>3. QED
      BY <2>4, <3>1, <3>2 DEF Apply
  <2>5. ASSUME NEW f \in Fetches, Reject(f) PROVE SpinnerInv'
    BY <2>5, FinishSpins DEF Reject
  <2>5a. ASSUME NEW f \in Fetches, ParseFails(f) PROVE SpinnerInv'
    BY <2>5a, FinishSpins DEF ParseFails
  <2>6. ASSUME NEW f \in Fetches, NEW s \in Slices, Respond(f, s) PROVE SpinnerInv'
    <3>1. refreshing' = refreshing
      BY <2>6 DEF Respond
    <3>2. \A g \in Fetches : fetch'[g].want = fetch[g].want
      BY <2>6 DEF Respond, TypeOK
    <3>3. QED
      BY <3>1, <3>2 DEF SpinnerInv, WantsApart, SpinnerHonest, IsMeta, Idle, Wants
  <2>7. ASSUME NEW r \in Requests, NEW f \in Fetches, Refetch(r, f) PROVE SpinnerInv'
    BY <2>7, FetchAllDataSpins DEF Refetch
  <2>8. CASE OnMessage
    <3>1. CASE \E f \in Fetches : FetchAllData(f, None)
      BY <3>1, FetchAllDataSpins
    <3>2. CASE UNCHANGED <<fetch, refreshing>>
      BY <2>1, <3>2
    <3>3. QED
      BY <2>8, <3>1, <3>2 DEF OnMessage
  <2>9. CASE \/ \E s \in Slices : Observe(s) \/ Broadcast(s)
             \/ \E i \in Incidents : OpenIncident(i)
             \/ \E r \in Requests : \/ Resolve(r) \/ PostFails(r)
                                    \/ \E i \in Incidents : Act(r, i)
             \/ SocketCloses \/ Remount \/ UNCHANGED vars
    <3>1. UNCHANGED <<fetch, refreshing>>
      BY <2>9 DEF Observe, Broadcast, OpenIncident, Resolve, PostFails, Act,
                  SocketCloses, Remount, vars
    <3>2. QED
      BY <2>1, <3>1
  <2>10. QED
    BY <2>2, <2>3, <2>4, <2>5, <2>5a, <2>6, <2>7, <2>8, <2>9 DEF Next
<1>3. QED
  BY <1>1, <1>2, TypeCorrect, PTL DEF Spec, SpinnerInv

-----------------------------------------------------------------------------
(* The requests of the incidents page: one the page has given up or that   *)
(* ended sets nothing any more, an awaited one is about a touched incident, belongs to the page that is    *)
(* shown if that never changed, and is the only one, about the acting      *)
(* incident, as long as the operator stayed and touched one incident.      *)
EndedSetsNothing == \A r \in Requests : ~Awaited(r) => ~request[r].here
RunsAboutTouched == \A r \in Requests : Awaited(r) => request[r].inc \in touched
RunsHere == ~left => \A r \in Requests : Awaited(r) => request[r].here
OneAtATime ==
  \A i \in Incidents : ~left /\ touched \subseteq {i} =>
    /\ \A r \in Requests : Awaited(r) => acting = i
    /\ \A q, r \in Requests : Awaited(q) /\ Awaited(r) => q = r

RequestInv ==
  ActingInFlight /\ EndedSetsNothing /\ RunsAboutTouched /\ RunsHere /\ OneAtATime

LEMMA RequestInvMeans == TypeOK /\ RequestInv => ActingInFlight /\ DuplicateNeedsDetour
<1> SUFFICES ASSUME TypeOK, RequestInv PROVE DuplicateNeedsDetour
  BY DEF RequestInv
<1> SUFFICES ASSUME NEW q \in Requests, NEW r \in Requests, q # r, Awaited(q), Awaited(r),
                    request[q].inc = request[r].inc, ~left,
                    ~\E i \in touched : i # request[q].inc
             PROVE  FALSE
  BY DEF DuplicateNeedsDetour, Awaited
<1>1. request[q].inc \in touched /\ touched \subseteq {request[q].inc}
  BY DEF RequestInv, RunsAboutTouched
<1>2. request[q].inc \in Incidents
  BY <1>1 DEF TypeOK
<1>3. QED
  BY <1>1, <1>2 DEF RequestInv, OneAtATime

(* A call ends or is given up: the finally block of its page has run.      *)
LEMMA RequestEnds ==
  ASSUME TypeOK, RequestInv, NEW r \in Requests,
         NEW x \in Request, x.at \in {"idle", "abandoned"}, x.here = FALSE,
         request' = [request EXCEPT ![r] = x],
         acting' = IF request[r].here THEN None ELSE acting,
         UNCHANGED <<touched, left>>
  PROVE  RequestInv'
<1>1. /\ request'[r] = x
      /\ \A q \in Requests : q # r => request'[q] = request[q]
  BY DEF TypeOK
<1>2. ~Awaited(r)' /\ \A q \in Requests : Awaited(q)' => q # r /\ Awaited(q)
  BY <1>1 DEF Awaited
<1>3. ActingInFlight'
  BY <1>1 DEF RequestInv, ActingInFlight
<1>4. EndedSetsNothing' /\ RunsAboutTouched' /\ RunsHere'
  BY <1>1, <1>2 DEF RequestInv, EndedSetsNothing, RunsAboutTouched, RunsHere, Awaited
<1>5. OneAtATime'
  <2> SUFFICES ASSUME NEW i \in Incidents, ~left, touched \subseteq {i}
               PROVE  /\ \A q \in Requests : Awaited(q)' => acting' = i
                      /\ \A p, q \in Requests : Awaited(p)' /\ Awaited(q)' => p = q
    BY DEF OneAtATime
  <2>1. CASE Awaited(r)
    <3>1. \A q \in Requests : ~Awaited(q)'
      BY <1>2, <2>1 DEF RequestInv, OneAtATime
    <3>2. QED
      BY <3>1
  <2>2. CASE ~Awaited(r)
    <3>1. acting' = acting
      BY <2>2 DEF RequestInv, EndedSetsNothing
    <3>2. QED
      BY <1>2, <3>1 DEF RequestInv, OneAtATime
  <2>3. QED
    BY <2>1, <2>2
<1>6. QED
  BY <1>3, <1>4, <1>5 DEF RequestInv

(* A running call takes its next step.                                     *)
LEMMA RequestGoesOn ==
  ASSUME TypeOK, RequestInv, NEW r \in Requests, Awaited(r),
         NEW a \in {"posted", "answered", "refetching"},
         request' = [request EXCEPT ![r].at = a], UNCHANGED <<acting, touched, left>>
  PROVE  RequestInv'
<1>1. /\ Awaited(r)' /\ request'[r].inc = request[r].inc /\ request'[r].here = request[r].here
      /\ \A q \in Requests : q # r => request'[q] = request[q]
  BY DEF TypeOK, Awaited
<1>2. \A q \in Requests : /\ Awaited(q)' <=> Awaited(q)
                          /\ request'[q].inc = request[q].inc
                          /\ request'[q].here = request[q].here
  BY <1>1 DEF Awaited
<1>3. ActingInFlight'
  BY <1>2 DEF RequestInv, ActingInFlight
<1>4. EndedSetsNothing' /\ RunsAboutTouched' /\ RunsHere'
  BY <1>1, <1>2 DEF RequestInv, EndedSetsNothing, RunsAboutTouched, RunsHere, Awaited
<1>5. OneAtATime'
  BY <1>2 DEF RequestInv, OneAtATime
<1>6. QED
  BY <1>3, <1>4, <1>5 DEF RequestInv

LEMMA FinishEnds ==
  ASSUME TypeOK, RequestInv, NEW f \in Fetches, Finish(f), UNCHANGED <<touched, left>>
  PROVE  RequestInv'
<1>1. fetch[f].owner \in Requests \cup {None}
  BY DEF TypeOK
<1>2. CASE fetch[f].owner = None
  BY <1>2 DEF Finish, RequestInv, ActingInFlight, EndedSetsNothing, RunsAboutTouched,
              RunsHere, OneAtATime, Awaited
<1>3. CASE fetch[f].owner # None
  <2>1. IdleRequest.at \in {"idle", "abandoned"} /\ IdleRequest.here = FALSE
    BY DEF IdleRequest
  <2>2. QED
    BY <1>1, <1>3, <2>1, IdleRequestTyped, RequestEnds DEF Finish
<1>4. QED
  BY <1>2, <1>3

LEMMA RequestInvAlways == Spec => [](TypeOK /\ RequestInv)
<1>1. Init => RequestInv
  BY DEF Init, RequestInv, ActingInFlight, EndedSetsNothing, RunsAboutTouched, RunsHere,
         OneAtATime, Awaited, IdleRequest
<1>2. TypeOK /\ RequestInv /\ [Next]_vars => RequestInv'
  <2> SUFFICES ASSUME TypeOK, RequestInv, [Next]_vars PROVE RequestInv'
    OBVIOUS
  <2> USE DEF serverVars, pageVars, linkVars
  <2>1. ASSUME UNCHANGED <<request, acting, touched, left>> PROVE RequestInv'
    BY <2>1 DEF RequestInv, ActingInFlight, EndedSetsNothing, RunsAboutTouched, RunsHere,
                OneAtATime, Awaited
  <2>2. ASSUME NEW r \in Requests, NEW i \in Incidents, Act(r, i) PROVE RequestInv'
    <3>1. /\ request'[r] = [at |-> "posted", inc |-> i, here |-> TRUE]
          /\ \A q \in Requests : q # r => request'[q] = request[q]
          /\ acting' = i /\ touched' = touched \cup {i} /\ left' = left
          /\ acting # i /\ ~Awaited(r)
      BY <2>2 DEF Act, ButtonsEnabled, TypeOK, Awaited
    <3>2. \A q \in Requests : Awaited(q)' => q = r \/ Awaited(q)
      BY <3>1 DEF Awaited
    <3>3. ActingInFlight'
      BY <3>1 DEF ActingInFlight
    <3>4. EndedSetsNothing' /\ RunsAboutTouched' /\ RunsHere'
      BY <3>1, <3>2 DEF RequestInv, EndedSetsNothing, RunsAboutTouched, RunsHere, Awaited
    <3>5. OneAtATime'
      <4> SUFFICES ASSUME NEW j \in Incidents, ~left, touched \cup {i} \subseteq {j}
                   PROVE  /\ \A q \in Requests : Awaited(q)' => acting' = j
                          /\ \A p, q \in Requests : Awaited(p)' /\ Awaited(q)' => p = q
        BY <3>1 DEF OneAtATime
      <4>1. i = j /\ touched \subseteq {j}
        OBVIOUS
      <4>2. \A q \in Requests : ~Awaited(q)
        BY <3>1, <4>1 DEF RequestInv, OneAtATime
      <4>3. QED
        BY <3>1, <3>2, <4>1, <4>2
    <3>6. QED
      BY <3>3, <3>4, <3>5 DEF RequestInv
  <2>3. ASSUME NEW r \in Requests, Resolve(r) PROVE RequestInv'
    <3>1. CASE request[r].at = "posted"
      <4>1. request' = [request EXCEPT ![r].at = "answered"]
        BY <2>3, <3>1 DEF Resolve
      <4>2. Awaited(r) /\ UNCHANGED <<acting, touched, left>>
        BY <2>3, <3>1 DEF Resolve, Awaited
      <4>3. QED
        BY <4>1, <4>2, RequestGoesOn
    <3>2. CASE request[r].at = "abandoned"
      <4>1. request' = [request EXCEPT ![r] = IdleRequest]
        BY <2>3, <3>2 DEF Resolve
      <4>2. ~request[r].here /\ UNCHANGED <<acting, touched, left>>
        BY <2>3, <3>2 DEF Resolve, Awaited, RequestInv, EndedSetsNothing
      <4>3. IdleRequest.at \in {"idle", "abandoned"} /\ IdleRequest.here = FALSE
        BY DEF IdleRequest
      <4>4. acting' = IF request[r].here THEN None ELSE acting
        BY <4>2
      <4>5. QED
        BY <4>1, <4>2, <4>3, <4>4, IdleRequestTyped, RequestEnds
    <3>3. QED
      BY <2>3, <3>1, <3>2 DEF Resolve
  <2>4. ASSUME NEW r \in Requests, NEW f \in Fetches, Refetch(r, f) PROVE RequestInv'
    BY <2>4, RequestGoesOn DEF Refetch, Awaited
  <2>5. ASSUME NEW r \in Requests, PostFails(r) PROVE RequestInv'
    <3>1. PICK x \in GivenUp(r) : request' = [request EXCEPT ![r] = x]
      BY <2>5 DEF PostFails
    <3>2. request \in [Requests -> Request]
      BY DEF TypeOK, Request
    <3>3. x \in Request /\ x.at \in {"idle", "abandoned"} /\ x.here = FALSE
      BY <3>2, GivenUpTyped
    <3>4. QED
      BY <2>5, <3>1, <3>3, RequestEnds DEF PostFails
  <2>6. ASSUME NEW f \in Fetches, Reject(f) PROVE RequestInv'
    BY <2>6, FinishEnds DEF Reject
  <2>6a. ASSUME NEW f \in Fetches, ParseFails(f) PROVE RequestInv'
    BY <2>6a, FinishEnds DEF ParseFails
  <2>7. ASSUME NEW f \in Fetches, Apply(f) PROVE RequestInv'
    <3>1. CASE Finish(f)
      BY <2>7, <3>1, FinishEnds DEF Apply
    <3>2. CASE UNCHANGED <<refreshing, acting, request>>
      BY <2>1, <2>7, <3>2 DEF Apply
    <3>3. QED
      BY <2>7, <3>1, <3>2 DEF Apply
  <2>8. CASE Remount
    <3>1. /\ left' = TRUE /\ acting' = None /\ touched' = touched
          /\ \A r \in Requests : /\ request'[r].at = request[r].at
                                 /\ request'[r].inc = request[r].inc
                                 /\ request'[r] = Unseen(request[r])
      BY <2>8 DEF Remount, Unseen
    <3>2. \A r \in Requests : Awaited(r)' <=> Awaited(r)
      BY <3>1 DEF Awaited
    <3>3. EndedSetsNothing'
      <4>1. \A r \in Requests : Unseen(request[r]).here = FALSE
        BY DEF Unseen
      <4>2. QED
        BY <3>1, <4>1 DEF EndedSetsNothing
    <3>4. RunsAboutTouched'
      BY <3>1, <3>2 DEF RequestInv, RunsAboutTouched
    <3>5. QED
      BY <3>1, <3>3, <3>4 DEF RequestInv, ActingInFlight, RunsHere, OneAtATime
  <2>9. CASE \/ \E s \in Slices : Observe(s) \/ Broadcast(s)
             \/ \E i \in Incidents : OpenIncident(i)
             \/ \E f \in Fetches : \/ PollAll(f) \/ FetchHostMetrics(f)
                                   \/ \E s \in Slices : Respond(f, s)
             \/ OnMessage \/ SocketCloses \/ UNCHANGED vars
    <3>1. UNCHANGED <<request, acting, touched, left>>
      BY <2>9 DEF Observe, Broadcast, OpenIncident, PollAll, FetchHostMetrics, Respond,
                  OnMessage, SocketCloses, vars
    <3>2. QED
      BY <2>1, <3>1
  <2>10. QED
    BY <2>2, <2>3, <2>4, <2>5, <2>6, <2>6a, <2>7, <2>8, <2>9 DEF Next
<1>3. QED
  BY <1>1, <1>2, TypeCorrect, PTL DEF Spec

(* The buttons of an incident are disabled only while a request about it   *)
(* runs, whatever fails and wherever the operator goes meanwhile.          *)
THEOREM ActingCorrect == Spec => []ActingInFlight
<1>1. TypeOK /\ RequestInv => ActingInFlight
  BY RequestInvMeans
<1>2. QED
  BY <1>1, RequestInvAlways, PTL

(* Without a second incident and without leaving the page, an operator     *)
(* cannot have two requests about one incident in flight.                  *)
THEOREM DuplicatesExplained == Spec => []DuplicateNeedsDetour
<1>1. TypeOK /\ RequestInv => DuplicateNeedsDetour
  BY RequestInvMeans
<1>2. QED
  BY <1>1, RequestInvAlways, PTL
==============================================================================
