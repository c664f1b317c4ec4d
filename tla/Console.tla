------------------------------- MODULE Console -------------------------------
(***************************************************************************)
(* The main component of the dashboard (web/src/App.tsx) and its incidents *)
(* page (pages/IncidentsView.tsx): two polling timers, the event socket,   *)
(* and the operator's approvals all start requests that overlap, and every *)
(* answer is written into the component's state when it arrives.           *)
(*                                                                         *)
(* Data is abstracted to version numbers: truth[s] counts the changes of   *)
(* slice s on the server, view[s] is the version on the screen.            *)
(* The slice "metrics" is the metrics of one node, as one event carries.   *)
(***************************************************************************)
EXTENDS Naturals, Sequences

CONSTANTS
  Incidents,       \* incidents the server may open
  Fetches,         \* bound: polls that can be in flight together
  Requests,        \* bound: approvals and resolutions in flight together
  Order,           \* the slices of fetchAllData in the order they are applied
  Last,            \* bound: the last version of a slice
  MaxFaults,       \* bound: failed exchanges
  MaxQueue,        \* bound: events on their way in the socket
  None

ASSUME ConsoleAssumption ==
  /\ Order \in Seq({"containers", "incidents", "devices", "topology"})
  /\ Order # <<>>
  /\ \E i \in DOMAIN Order : Order[i] = "incidents"
  /\ Last \in Nat \ {0} /\ MaxFaults \in Nat /\ MaxQueue \in Nat
  /\ None \notin Incidents /\ None \notin Requests

VARIABLES
  truth,           \* server: [slice -> current version]
  active,          \* server: the active incidents at each version of that slice
  view,            \* state of MainLayout: [slice -> version shown, 0 before the first]
  refreshing,      \* isRefreshing
  acting,          \* actingId of IncidentsView
  touched,         \* history: the incidents the operator has acted on
  left,            \* history: has the operator left the page and come back
  fetch,           \* the running calls of fetchAllData and fetchHostMetrics
  request,         \* the running calls of handleApprove and handleResolve
  socket,          \* events on their way to ws.onmessage
  live,            \* is the event socket open
  faults           \* failures so far

serverVars == <<truth, active>>
pageVars == <<view, refreshing, acting, touched, left>>
linkVars == <<socket, live, faults>>
vars == <<serverVars, pageVars, linkVars, fetch, request>>

Slices == {"metrics"} \cup {Order[i] : i \in DOMAIN Order}
Wants(f) == {fetch[f].want[i] : i \in DOMAIN fetch[f].want}
NoAnswers == [s \in Slices |-> 0]

(* A call of a fetch function: the slices still to be applied, those whose *)
(* response is outstanding, the version each response carried (0 for a     *)
(* response that was not ok), and the request that awaits the call.        *)
Call(slices, owner) ==
  [want |-> slices, pending |-> {slices[i] : i \in DOMAIN slices},
   got |-> NoAnswers, owner |-> owner]
IdleFetch == Call(<<>>, None)
IdleRequest == [at |-> "idle", inc |-> None, here |-> FALSE]
Unseen(q) == [at |-> q.at, inc |-> q.inc, here |-> FALSE]
Idle(f) == fetch[f].want = <<>>
IsMeta(f) == ~Idle(f) /\ Wants(f) # {"metrics"}

(* Only containers and metrics are pushed; "incident_created" is listened  *)
(* for but no code sends it.                                               *)
Events == [type : {"containers", "metrics"}, version : 1 .. Last]
            \cup [type : {"incident_resolved"}, version : {0}]

TypeOK ==
  /\ truth \in [Slices -> 1 .. Last] /\ view \in [Slices -> 0 .. Last]
  /\ active \in [1 .. truth["incidents"] -> SUBSET Incidents]
  /\ refreshing \in BOOLEAN /\ live \in BOOLEAN
  /\ acting \in Incidents \cup {None} /\ touched \subseteq Incidents
  /\ left \in BOOLEAN
  /\ fetch \in [Fetches -> [want : Seq(Slices), pending : SUBSET Slices,
                            got : [Slices -> 0 .. Last], owner : Requests \cup {None}]]
  /\ request \in [Requests -> [at : {"idle", "posted", "answered", "refetching",
                                    "abandoned"},
                               inc : Incidents \cup {None}, here : BOOLEAN]]
  /\ socket \in Seq(Events) /\ faults \in 0 .. MaxFaults

Init ==
  /\ truth = [s \in Slices |-> 1]
  /\ active \in [{1} -> SUBSET Incidents]
  /\ view = [s \in Slices |-> 0]
  /\ refreshing = FALSE /\ acting = None /\ touched = {} /\ left = FALSE
  /\ fetch = [f \in Fetches |-> IdleFetch]
  /\ request = [r \in Requests |-> IdleRequest]
  /\ socket = <<>> /\ live = TRUE /\ faults = 0

-----------------------------------------------------------------------------
(* The server.                                                             *)

(* A monitoring turn changes the containers, the devices or the metrics.   *)
Observe(s) ==
  /\ s # "incidents" /\ truth[s] < Last
  /\ truth' = [truth EXCEPT ![s] = @ + 1]
  /\ UNCHANGED <<active, pageVars, linkVars, fetch, request>>

SetActive(S) ==
  IF truth["incidents"] < Last /\ S # active[truth["incidents"]]
    THEN /\ truth' = [truth EXCEPT !["incidents"] = @ + 1]
         /\ active' = Append(active, S)
    ELSE UNCHANGED serverVars

OpenIncident(i) ==
  /\ truth["incidents"] < Last
  /\ i \notin active[truth["incidents"]]
  /\ SetActive(active[truth["incidents"]] \cup {i})
  /\ UNCHANGED <<pageVars, linkVars, fetch, request>>

Emit(e) ==
  socket' = IF live /\ Len(socket) < MaxQueue THEN Append(socket, e) ELSE socket

(* The loop of main broadcasts what it has stored.                         *)
Broadcast(s) ==
  /\ s \in {"containers", "metrics"} \cap Slices
  /\ live /\ Len(socket) < MaxQueue
  /\ Emit([type |-> s, version |-> truth[s]])
  /\ UNCHANGED <<serverVars, pageVars, live, faults, fetch, request>>

(* One response of a fetch, with the data of this moment or a status that  *)
(* is not ok.                                                              *)
Respond(f, s) ==
  /\ s \in fetch[f].pending
  /\ \E v \in {truth[s]} \cup (IF faults < MaxFaults THEN {0} ELSE {}) :
       /\ fetch' = [fetch EXCEPT ![f].pending = @ \ {s}, ![f].got[s] = v]
       /\ faults' = IF v = 0 THEN faults + 1 ELSE faults
  /\ UNCHANGED <<serverVars, pageVars, socket, live, request>>

(* handleApproveIncident and handleResolveIncident as the page meets them: *)
(* the incident is resolved and announced; or the write fails, whose error *)
(* is discarded, and it is announced all the same; or the answer is an     *)
(* error. The answer to a page that has given up reaches nobody.           *)
Resolve(r) ==
  /\ request[r].at \in {"posted", "abandoned"}
  /\ request' = [request EXCEPT ![r] = IF @.at = "posted" THEN [@ EXCEPT !.at = "answered"]
                                                         ELSE IdleRequest]
  /\ \/ /\ SetActive(active[truth["incidents"]] \ {request[r].inc})
        /\ truth["incidents"] < Last \/ request[r].inc \notin active[truth["incidents"]]
        /\ Emit([type |-> "incident_resolved", version |-> 0])
        /\ UNCHANGED faults
     \/ /\ faults < MaxFaults /\ faults' = faults + 1
        /\ UNCHANGED serverVars
        /\ UNCHANGED socket \/ Emit([type |-> "incident_resolved", version |-> 0])
  /\ UNCHANGED <<pageVars, live, fetch>>

-----------------------------------------------------------------------------
(* fetchAllData and fetchHostMetrics.                                      *)

(* fetchAllData up to its Promise.all.                                     *)
FetchAllData(f, owner) ==
  /\ Idle(f)
  /\ fetch' = [fetch EXCEPT ![f] = Call(Order, owner)]
  /\ refreshing' = TRUE

(* fetchHostMetrics up to its await.                                       *)
FetchHostMetrics(f) ==
  /\ Idle(f)
  /\ fetch' = [fetch EXCEPT ![f] = Call(<<"metrics">>, None)]
  /\ UNCHANGED <<serverVars, pageVars, linkVars, request>>

(* The 2-second interval, the mount, or the refresh button.                *)
PollAll(f) ==
  /\ FetchAllData(f, None)
  /\ UNCHANGED <<serverVars, view, acting, touched, left, linkVars, request>>

(* The finally block, and the handler that awaited the call returns.       *)
Finish(f) ==
  /\ fetch' = [fetch EXCEPT ![f] = IdleFetch]
  /\ refreshing' = IF IsMeta(f) THEN FALSE ELSE refreshing
  /\ IF fetch[f].owner = None
       THEN UNCHANGED <<acting, request>>
       ELSE /\ request' = [request EXCEPT ![fetch[f].owner] = IdleRequest]
            /\ acting' = IF request[fetch[f].owner].here THEN None ELSE acting

(* Mutant of Shown: the status is not looked at. *)
ShownAlways(f, s) == [view EXCEPT ![s] = fetch[f].got[s]]

(* The state after one response: one that was not ok changes nothing.      *)
Shown(f, s) ==
  IF fetch[f].got[s] = 0 THEN view ELSE [view EXCEPT ![s] = fetch[f].got[s]]

(* All responses are there: the next one is parsed and put into the state. *)
Apply(f) ==
  /\ ~Idle(f) /\ fetch[f].pending = {}
  /\ view' = Shown(f, Head(fetch[f].want))
  /\ IF Len(fetch[f].want) > 1
       THEN /\ fetch' = [fetch EXCEPT ![f].want = Tail(@)]
            /\ UNCHANGED <<refreshing, acting, request>>
       ELSE Finish(f)
  /\ UNCHANGED <<serverVars, touched, left, linkVars>>

(* Mutant of Reject: the spinner is reset after the last await, not in finally. *)
RejectKeepsSpinner(f) ==
  /\ fetch[f].pending # {} /\ faults < MaxFaults
  /\ faults' = faults + 1
  /\ fetch' = [fetch EXCEPT ![f] = IdleFetch]
  /\ UNCHANGED <<serverVars, pageVars, socket, live, request>>

(* One exchange fails: Promise.all rejects, the other responses are never  *)
(* looked at.                                                              *)
Reject(f) ==
  /\ fetch[f].pending # {} /\ faults < MaxFaults
  /\ faults' = faults + 1
  /\ Finish(f)
  /\ UNCHANGED <<serverVars, view, touched, left, socket, live>>

(* The body of the next response that was ok cannot be read or parsed: its *)
(* json() rejects. The slices before it are set, it and those after are    *)
(* not.                                                                    *)
ParseFails(f) ==
  /\ ~Idle(f) /\ fetch[f].pending = {} /\ fetch[f].got[Head(fetch[f].want)] # 0
  /\ faults < MaxFaults /\ faults' = faults + 1
  /\ Finish(f)
  /\ UNCHANGED <<serverVars, view, touched, left, socket, live>>

-----------------------------------------------------------------------------
(* The event socket.                                                       *)

OnMessage ==
  /\ socket # <<>>
  /\ socket' = Tail(socket)
  /\ LET e == Head(socket) IN
       IF e.type = "incident_resolved"
         THEN \E f \in Fetches : FetchAllData(f, None) /\ UNCHANGED view
         ELSE /\ view' = [view EXCEPT ![e.type] = e.version]
              /\ UNCHANGED <<fetch, refreshing>>
  /\ UNCHANGED <<serverVars, acting, touched, left, live, faults, request>>

(* The socket breaks; nothing opens it again.                              *)
SocketCloses ==
  /\ live /\ live' = FALSE /\ socket' = <<>>
  /\ UNCHANGED <<serverVars, pageVars, faults, fetch, request>>

-----------------------------------------------------------------------------
(* The operator on the incidents page.                                     *)

(* The incidents the page lists.                                           *)
Listed == IF view["incidents"] = 0 THEN {} ELSE active[view["incidents"]]

(* Mutant of ButtonsEnabled: no disabled attribute. *)
ButtonsAlwaysEnabled(i) == i \in Listed

(* The buttons of an incident are disabled while it is the acting one.     *)
ButtonsEnabled(i) == i \in Listed /\ acting # i

(* Mutant of Act: remembers the request instead of the incident. *)
ActByRequest(r, i) ==
  /\ request[r].at = "idle" /\ ButtonsEnabled(i)
  /\ acting' = r /\ touched' = touched \cup {i}
  /\ request' = [request EXCEPT ![r] = [at |-> "posted", inc |-> i, here |-> TRUE]]
  /\ UNCHANGED <<serverVars, view, refreshing, left, linkVars, fetch>>

(* handleApprove or handleResolve up to the await of the POST.             *)
Act(r, i) ==
  /\ request[r].at = "idle" /\ ButtonsEnabled(i)
  /\ acting' = i /\ touched' = touched \cup {i}
  /\ request' = [request EXCEPT ![r] = [at |-> "posted", inc |-> i, here |-> TRUE]]
  /\ UNCHANGED <<serverVars, view, refreshing, left, linkVars, fetch>>

(* Whatever the status of the response, the data is fetched again.         *)
Refetch(r, f) ==
  /\ request[r].at = "answered"
  /\ request' = [request EXCEPT ![r].at = "refetching"]
  /\ FetchAllData(f, r)
  /\ UNCHANGED <<serverVars, view, acting, touched, left, linkVars>>

(* What is left of a request its page gave up: nothing if the server never *)
(* got it or has answered it, otherwise the call that still runs there.    *)
GivenUp(r) ==
  IF request[r].at = "posted"
    THEN {IdleRequest, [at |-> "abandoned", inc |-> request[r].inc, here |-> FALSE]}
    ELSE {IdleRequest}

(* Mutant of PostFails: the page forgets only after a success. *)
PostFailsKeepsActing(r) ==
  /\ request[r].at \in {"posted", "answered"}
  /\ faults < MaxFaults /\ faults' = faults + 1
  /\ \E q \in GivenUp(r) : request' = [request EXCEPT ![r] = q]
  /\ UNCHANGED <<serverVars, pageVars, socket, live, fetch>>

(* The POST fails for the page: it never arrived, the connection dropped   *)
(* while the server works on it, or the answer was lost (the server writes *)
(* none after 30 s). Only the finally block of the page runs.              *)
PostFails(r) ==
  /\ request[r].at \in {"posted", "answered"}
  /\ faults < MaxFaults /\ faults' = faults + 1
  /\ \E q \in GivenUp(r) : request' = [request EXCEPT ![r] = q]
  /\ acting' = IF request[r].here THEN None ELSE acting
  /\ UNCHANGED <<serverVars, view, refreshing, touched, left, socket, live, fetch>>

(* Another tab and back: a new IncidentsView, the handlers of the old one  *)
(* run on, and the state they set is nobody's.                             *)
Remount ==
  /\ left' = TRUE /\ acting' = None
  /\ request' = [r \in Requests |-> Unseen(request[r])]
  /\ UNCHANGED <<serverVars, view, refreshing, touched, linkVars, fetch>>

-----------------------------------------------------------------------------
Next ==
  \/ \E s \in Slices : Observe(s) \/ Broadcast(s)
  \/ \E i \in Incidents : OpenIncident(i)
  \/ \E f \in Fetches : \/ PollAll(f) \/ FetchHostMetrics(f) \/ Apply(f) \/ Reject(f) \/ ParseFails(f)
                        \/ \E s \in Slices : Respond(f, s)
  \/ \E r \in Requests : \/ Resolve(r) \/ PostFails(r)
                         \/ \E i \in Incidents : Act(r, i)
                         \/ \E f \in Fetches : Refetch(r, f)
  \/ OnMessage \/ SocketCloses \/ Remount

Spec == Init /\ [][Next]_vars

-----------------------------------------------------------------------------
(* The dashboard implements a lagging view: whatever overlaps, a slice on  *)
(* the screen is one the server has had (App.tsx:59-143).                  *)
Lag == INSTANCE LaggingView
         WITH Slices <- Slices, Last <- Last, truth <- truth, view <- view
LagSpec == Lag!Spec

(* The refresh spinner never stays on without a running fetchAllData:      *)
(* neither after a lost exchange nor after a body that json() rejects, nor *)
(* because calls of it overlap (the finally of App.tsx:106).               *)
SpinnerHonest == refreshing => \E f \in Fetches : IsMeta(f)

(* The buttons of an incident never stay disabled without a running        *)
(* request about it (the finally blocks of IncidentsView.tsx:31 and :40).  *)
ActingInFlight ==
  acting # None => \E r \in Requests : request[r].here /\ request[r].inc = acting

(* The page waits for this request.                                        *)
Awaited(r) == request[r].at \notin {"idle", "abandoned"}

(* Two requests about one incident are awaited together only if the        *)
(* operator acted on another incident too (actingId has room for one) or   *)
(* left the page: otherwise the disabled buttons of IncidentsView.tsx:184  *)
(* and :193 prevent it. A request whose answer was lost is not awaited any *)
(* more, and may still run at the server when the operator tries again.    *)
DuplicateNeedsDetour ==
  \A q, r \in Requests :
    (q # r /\ Awaited(q) /\ Awaited(r) /\ request[q].inc = request[r].inc)
      => left \/ \E i \in touched : i # request[q].inc
=============================================================================
