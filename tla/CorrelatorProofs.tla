-------------------------- MODULE CorrelatorProofs --------------------------
(* Proofs of the safety properties of Correlator, for every set of         *)
(* containers, probes, hosts and names, and every dependency labels.       *)
EXTENDS Correlator, TLAPS

LEMMA TargetNameIsName == \A i \in Items : TargetName(i) \in Names
  BY CorrelatorAssumption DEF Items, TargetName

LEMMA CollectedAreItems ==
  ASSUME TypeOK, at < GraphTask, NEW s \in Collected
  PROVE  s \subseteq Items
<1>1. CASE at = 0
  BY <1>1, CorrelatorAssumption DEF Collected, Items, HostItems
<1>2. CASE at # 0
  <2>1. at \in 1 .. Len(Round)
    BY <1>2, CorrelatorAssumption DEF TypeOK, GraphTask
  <2>2. Round[at] \in SUBSET SUBSET Items
    BY <2>1, CorrelatorAssumption
  <2>3. QED
    BY <1>2, <2>2 DEF Collected
<1>3. QED
  BY <1>1, <1>2

(* The part of the type that handleFailure and its callers change.         *)
Handling ==
  /\ failingItems \subseteq Names
  /\ stage \in {"idle", "root", "impact"}
  /\ event \in Names \cup {None} /\ cursor \in Names \cup {None}
  /\ stage # "idle" => event \in failingItems /\ cursor \in Names
  /\ lastDown \subseteq Items /\ failures \in 0 .. MaxFailures
  /\ alerts \in [Items -> 0 .. 2]

LEMMA ResultKeepsType ==
  ASSUME Handling, stage = "idle", NEW i \in Items, NEW failing \in BOOLEAN,
         HandleResult(i, failing)
  PROVE  Handling'
<1>1. CASE failing
  <2>1. TargetName(i) \in Names
    BY TargetNameIsName
  <2>2. failures' \in 0 .. MaxFailures
    BY <1>1, CorrelatorAssumption DEF HandleResult, Handling
  <2>3. lastDown' \subseteq Items
    BY <1>1 DEF HandleResult, Handling
  <2>0. alerts' \in [Items -> 0 .. 2]
    BY <1>1 DEF HandleResult, Handling
  <2>4. CASE TargetName(i) \in failingItems
    BY <1>1, <2>0, <2>2, <2>3, <2>4 DEF HandleResult, HandleFailure, Handling
  <2>5. CASE TargetName(i) \notin failingItems
    BY <1>1, <2>0, <2>1, <2>2, <2>3, <2>5 DEF HandleResult, HandleFailure, Handling
  <2>6. QED
    BY <2>4, <2>5
<1>2. CASE ~failing
  BY <1>2 DEF HandleResult, Handling
<1>3. QED
  BY <1>1, <1>2

(* Every variable keeps its type, and handleFailure only runs under c.mu,  *)
(* with its target tracked.                                                *)
THEOREM TypeCorrect == Spec => []TypeOK
<1>0. /\ GraphTask \in Nat /\ 2 <= GraphTask
      /\ MaxFailures \in Nat /\ MaxRestarts \in Nat
      /\ None \notin Names /\ None \notin {"loop", "sampler"}
  BY CorrelatorAssumption DEF GraphTask
<1>1. Init => TypeOK
  <2> SUFFICES ASSUME Init PROVE TypeOK
    OBVIOUS
  <2>1. at \in 0 .. GraphTask /\ at # GraphTask
    BY <1>0 DEF Init
  <2>2. request \in [Requests -> {"idle"}] /\ snapshot \in [Requests -> {{}}]
    BY DEF Init
  <2>3. request \in [Requests -> {"idle", "empty", "read", "update", "done"}]
    BY <2>2
  <2>4. snapshot \in [Requests -> SUBSET Containers]
    BY <2>2
  <2>5. Handling /\ restarts \in 0 .. MaxRestarts /\ gread = FALSE
    <3>1. alerts \in [Items -> 0 .. 2]
      BY DEF Init
    <3>2. QED
      BY <1>0, <3>1 DEF Init, Handling
  <2>6. /\ rest = {} /\ saved = {} /\ graph = {} /\ listed = {} /\ gwait = {}
        /\ booting \in BOOLEAN /\ built \in BOOLEAN /\ latest = None
        /\ sampler = "idle" /\ holder = None /\ stage = "idle"
    BY DEF Init
  <2>7. QED
    BY <2>1, <2>3, <2>4, <2>5, <2>6 DEF TypeOK, Handling
<1>2. TypeOK /\ [Next]_vars => TypeOK'
  <2> SUFFICES ASSUME TypeOK, [Next]_vars PROVE TypeOK'
    OBVIOUS
  <2> USE <1>0 DEF TypeOK, loopVars, failVars, gVars, reqVars,
        history
  <2>1. ASSUME Restart PROVE TypeOK'
    <3>1. at' \in 0 .. GraphTask /\ at' # GraphTask
      BY <2>1 DEF Restart
    <3>2. restarts' \in 0 .. MaxRestarts
      BY <2>1 DEF Restart
    <3>3. request' \in [Requests -> {"idle", "done"}]
      BY <2>1 DEF Restart
    <3>4. alerts' \in [Items -> 0 .. 2]
      BY <2>1 DEF Restart
    <3>5. QED
      BY <2>1, <3>1, <3>2, <3>3, <3>4 DEF Restart
  <2>2. ASSUME FindRoot PROVE TypeOK'
    BY <2>2 DEF FindRoot
  <2>3. ASSUME CreateIncident PROVE TypeOK'
    <3>1. alerts' \in [Items -> 0 .. 2]
      BY <2>3 DEF CreateIncident, Alert
    <3>2. latest' # None => latest'.target \in Names /\ latest'.root \in Names
      BY <2>3 DEF CreateIncident
    <3>3. QED
      BY <2>3, <3>1, <3>2 DEF CreateIncident
  <2>4. ASSUME Collect PROVE TypeOK'
    <3>1. PICK s \in Collected :
            /\ rest' = s
            /\ saved' = (IF at = 1 THEN saved \ UNION Round[1] ELSE saved)
                          \cup (s \cap Containers)
            /\ listed' = IF booting THEN s \cap Containers ELSE {}
      BY <2>4 DEF Collect
    <3>2. s \subseteq Items
      BY <2>4, CollectedAreItems DEF Collect
    <3>3. saved' \subseteq Containers /\ listed' \subseteq Containers
      <4>1. s \cap Containers \subseteq Containers
        OBVIOUS
      <4>2. QED
        BY <3>1, <4>1
    <3>4. QED
      BY <2>4, <3>1, <3>2, <3>3 DEF Collect
  <2>5. ASSUME CollectNothing PROVE TypeOK'
    <3>1. at' \in 0 .. GraphTask /\ holder # "loop"
      BY <2>5 DEF CollectNothing, Advance
    <3>2. QED
      BY <2>5, <3>1 DEF CollectNothing
  <2>6. ASSUME LoopLock PROVE TypeOK'
    BY <2>6 DEF LoopLock
  <2>7. ASSUME NEW i \in Items, Process(i) PROVE TypeOK'
    <3>1. Handling /\ stage = "idle"
      BY <2>7 DEF Handling, Process
    <3>2. PICK failing \in BOOLEAN : HandleResult(i, failing)
      BY <2>7 DEF Process
    <3>3. Handling'
      BY <3>1, <3>2, ResultKeepsType
    <3>4. QED
      BY <2>7, <3>1, <3>3 DEF Handling, Process
  <2>8. ASSUME LoopUnlock PROVE TypeOK'
    <3>1. at' \in 0 .. GraphTask
      BY <2>8 DEF LoopUnlock, Advance
    <3>2. QED
      BY <2>8, <3>1 DEF LoopUnlock
  <2>9. ASSUME LoopWait PROVE TypeOK'
    BY <2>9 DEF LoopWait
  <2>10. ASSUME LoopUpdate PROVE TypeOK'
    <3>1. at' \in 0 .. GraphTask /\ at' # GraphTask
      BY <2>10 DEF LoopUpdate
    <3>2. graph' \subseteq Containers
      BY <2>10 DEF LoopUpdate
    <3>3. QED
      BY <2>10, <3>1, <3>2 DEF LoopUpdate
  <2>11. ASSUME Tick PROVE TypeOK'
    BY <2>11 DEF Tick
  <2>12. ASSUME Sample PROVE TypeOK'
    <3>1. Handling /\ stage = "idle" /\ gread = FALSE
      BY <2>12 DEF Handling, Sample
    <3>2. PICK i \in HostItems(LocalHost), failing \in BOOLEAN :
            HandleResult(i, failing)
      BY <2>12 DEF Sample
    <3>3. i \in Items
      BY <3>2, CorrelatorAssumption DEF HostItems, Items
    <3>4. Handling'
      BY <3>1, <3>2, <3>3, ResultKeepsType
    <3>5. QED
      BY <2>12, <3>1, <3>4 DEF Handling, Sample
  <2>13. ASSUME SamplerUnlock PROVE TypeOK'
    BY <2>13 DEF SamplerUnlock
  <2>14. ASSUME NEW r \in Requests, ExportTopology(r) PROVE TypeOK'
    BY <2>14 DEF ExportTopology
  <2>15. ASSUME NEW r \in Requests, ListContainers(r) PROVE TypeOK'
    BY <2>15 DEF ListContainers
  <2>16. ASSUME NEW r \in Requests, RequestWait(r) PROVE TypeOK'
    BY <2>16 DEF RequestWait
  <2>17. ASSUME NEW r \in Requests, RequestUpdate(r) PROVE TypeOK'
    BY <2>17 DEF RequestUpdate
  <2>18. ASSUME UNCHANGED vars PROVE TypeOK'
    BY <2>18 DEF vars
  <2>19. QED
    BY <2>1, <2>2, <2>3, <2>4, <2>5, <2>6, <2>7, <2>8, <2>9, <2>10, <2>11,
       <2>12, <2>13, <2>14, <2>15, <2>16, <2>17, <2>18
       DEF Next, Handle, LoopStep, Serve
<1>3. QED
  BY <1>1, <1>2, PTL DEF Spec

(* What a result does to one container with a name of its own.             *)
LEMMA ResultTracksAccurately ==
  ASSUME TrackedAccurately, NEW i \in Items, NEW failing \in BOOLEAN,
         HandleResult(i, failing)
  PROVE  TrackedAccurately'
<1> SUFFICES ASSUME NEW c \in Containers, Unique(c)
             PROVE  NameOf[c] \in failingItems' <=> c \in lastDown'
  BY DEF TrackedAccurately, Unique
<1>0. NameOf[c] \in failingItems <=> c \in lastDown
  BY DEF TrackedAccurately
<1>1. c \in Items /\ TargetName(c) = NameOf[c] /\ Resolved(c) = {NameOf[c]}
  BY CorrelatorAssumption DEF Items, TargetName, Resolved
<1>2. CASE i = c
  BY <1>0, <1>1, <1>2 DEF HandleResult, HandleFailure
<1>3. CASE i # c
  <2>1. TargetName(i) # NameOf[c]
    BY <1>3 DEF Unique
  <2>2. NameOf[c] \notin Resolved(i)
    <3>1. CASE i \in Containers
      <4>1. TargetName(i) = NameOf[i] /\ Resolved(i) = {NameOf[i]}
        BY <3>1, CorrelatorAssumption DEF TargetName, Resolved
      <4>2. QED
        BY <2>1, <4>1
    <3>2. CASE i \in Probes
      <4>1. Resolved(i) = {ProbeID[i]}
        BY <3>2, CorrelatorAssumption DEF Resolved
      <4>2. QED
        BY <3>2, <4>1 DEF Unique
    <3>3. CASE i \notin Containers \cup Probes
      BY <3>3 DEF Resolved
    <3>4. QED
      BY <3>1, <3>2, <3>3
  <2>3. c \in lastDown' <=> c \in lastDown
    BY <1>3 DEF HandleResult
  <2>4. NameOf[c] \in failingItems' <=> NameOf[c] \in failingItems
    BY <2>1, <2>2 DEF HandleResult, HandleFailure
  <2>5. QED
    BY <1>0, <2>3, <2>4
<1>4. QED
  BY <1>2, <1>3

(* A container whose name nothing else has is tracked exactly while its    *)
(* last result was a failure.                                              *)
THEOREM TrackingAccurate == Spec => []TrackedAccurately
<1>1. Init => TrackedAccurately
  BY DEF Init, TrackedAccurately
<1>2. TrackedAccurately /\ [Next]_vars => TrackedAccurately'
  <2> SUFFICES ASSUME TrackedAccurately, [Next]_vars PROVE TrackedAccurately'
    OBVIOUS
  <2>1. ASSUME Restart PROVE TrackedAccurately'
    BY <2>1 DEF Restart, TrackedAccurately, Unique
  <2>2. ASSUME NEW i \in Items, Process(i) PROVE TrackedAccurately'
    BY <2>2, ResultTracksAccurately DEF Process
  <2>3. ASSUME Sample PROVE TrackedAccurately'
    <3>1. HostItems(LocalHost) \subseteq Items
      BY CorrelatorAssumption DEF HostItems, Items
    <3>2. QED
      BY <2>3, <3>1, ResultTracksAccurately DEF Sample
  <2>4. ASSUME UNCHANGED <<failingItems, lastDown>> PROVE TrackedAccurately'
    BY <2>4 DEF TrackedAccurately, Unique
  <2>5. QED
    BY <2>1, <2>2, <2>3, <2>4
       DEF Next, Handle, LoopStep, Serve, FindRoot, CreateIncident, Collect,
           CollectNothing, LoopLock, LoopUnlock, LoopWait, LoopUpdate, Tick,
           SamplerUnlock, ExportTopology, ListContainers, RequestWait,
           RequestUpdate, vars, history
<1>3. QED
  BY <1>1, <1>2, PTL DEF Spec

LEMMA ResultReportedOnce ==
  ASSUME TypeOK, TrackedAccurately, ReportedOnce, stage = "idle",
         NEW i \in Items, NEW failing \in BOOLEAN, HandleResult(i, failing)
  PROVE  ReportedOnce'
<1> SUFFICES ASSUME NEW c \in Containers, Unique(c)
             PROVE  /\ BeingReported(c)' => c \in lastDown' /\ alerts'[c] = 0
                    /\ c \in lastDown' /\ ~BeingReported(c)' => alerts'[c] = 1
  BY DEF ReportedOnce, Unique, TargetName
<1>0. /\ NameOf[c] \in failingItems <=> c \in lastDown
      /\ c \in lastDown => alerts[c] = 1
      /\ alerts \in [Items -> 0 .. 2]
  BY DEF TrackedAccurately, ReportedOnce, BeingReported, TypeOK
<1>1. c \in Items /\ TargetName(c) = NameOf[c]
  BY CorrelatorAssumption DEF Items, TargetName
<1>2. CASE i = c
  BY <1>0, <1>1, <1>2 DEF HandleResult, HandleFailure, BeingReported
<1>3. CASE i # c
  <2>1. TargetName(i) # NameOf[c]
    BY <1>3 DEF Unique
  <2>2. (c \in lastDown' <=> c \in lastDown) /\ alerts'[c] = alerts[c]
    BY <1>0, <1>1, <1>3 DEF HandleResult
  <2>3. ~BeingReported(c)'
    BY <2>1 DEF HandleResult, HandleFailure, BeingReported
  <2>4. QED
    BY <1>0, <2>2, <2>3
<1>4. QED
  BY <1>2, <1>3

(* A failure of a container with a name of its own is handed to onIncident *)
(* exactly once, for any loops, restarts and failed insertions.            *)
THEOREM ReportingExact == Spec => []ReportedOnce
<1>1. Init => ReportedOnce
  BY DEF Init, ReportedOnce, BeingReported
<1>2. TypeOK /\ TrackedAccurately /\ ReportedOnce /\ [Next]_vars => ReportedOnce'
  <2> SUFFICES ASSUME TypeOK, TrackedAccurately, ReportedOnce, [Next]_vars
               PROVE  ReportedOnce'
    OBVIOUS
  <2>1. ASSUME Restart PROVE ReportedOnce'
    BY <2>1 DEF Restart, ReportedOnce, BeingReported
  <2>2. ASSUME FindRoot PROVE ReportedOnce'
    <3>1. UNCHANGED <<event, lastDown, alerts>> /\ stage # "idle" /\ stage' # "idle"
      BY <2>2 DEF FindRoot, history
    <3>2. QED
      BY <3>1 DEF ReportedOnce, BeingReported, Unique, TargetName
  <2>3. ASSUME CreateIncident PROVE ReportedOnce'
    <3> SUFFICES ASSUME NEW c \in Containers, Unique(c), c \in lastDown
                 PROVE  alerts'[c] = 1
      BY <2>3 DEF CreateIncident, ReportedOnce, BeingReported, Unique, TargetName
    <3>1. c \in Items /\ TargetName(c) = NameOf[c]
      BY CorrelatorAssumption DEF Items, TargetName
    <3>2. event = NameOf[c] => alerts[c] = 0
      BY <2>3 DEF CreateIncident, ReportedOnce, BeingReported
    <3>3. event # NameOf[c] => alerts[c] = 1
      BY DEF ReportedOnce, BeingReported
    <3>4. QED
      BY <2>3, <3>1, <3>2, <3>3 DEF CreateIncident, Alert
  <2>4. ASSUME NEW i \in Items, Process(i) PROVE ReportedOnce'
    BY <2>4, ResultReportedOnce DEF Process
  <2>5. ASSUME Sample PROVE ReportedOnce'
    <3>1. HostItems(LocalHost) \subseteq Items
      BY CorrelatorAssumption DEF HostItems, Items
    <3>2. stage = "idle"
      BY <2>5 DEF Sample, TypeOK
    <3>3. QED
      BY <2>5, <3>1, <3>2, ResultReportedOnce DEF Sample
  <2>6. ASSUME UNCHANGED <<stage, event, lastDown, alerts>> PROVE ReportedOnce'
    BY <2>6 DEF ReportedOnce, BeingReported, Unique, TargetName
  <2>7. QED
    BY <2>1, <2>2, <2>3, <2>4, <2>5, <2>6
       DEF Next, Handle, LoopStep, Serve, Collect, CollectNothing, LoopLock,
           LoopUnlock, LoopWait, LoopUpdate, Tick, SamplerUnlock,
           ExportTopology, ListContainers, RequestWait, RequestUpdate, vars,
           failVars, history
<1>3. QED
  BY <1>1, <1>2, TypeCorrect, TrackingAccurate, PTL DEF Spec

(* The strengthening for RootIsCause, while FindRootCauseCandidate walks:  *)
(* what it is at was reached from the target through failing dependencies  *)
(* of the graph that is there, and is the target itself or a step away     *)
(* from it under the read lock that keeps the graph as it is.              *)
Walk ==
  stage = "root" =>
    /\ cursor = event \/ gread
    /\ cursor \in FailingUpstream(event)

(* A failing dependency of what can be reached can be reached.             *)
LEMMA UpstreamGoesOn ==
  ASSUME NEW n, NEW m \in FailingUpstream(n), TypeOK,
         NEW d \in Dependencies(m) \cap failingItems
  PROVE  d \in FailingUpstream(n)
BY DEF FailingUpstream, TypeOK

(* The walk to the root stays connected with its target (graph.go:196).    *)
THEOREM WalkConnected == Spec => []Walk
<1>1. Init => Walk
  BY DEF Init, Walk
<1>2. TypeOK /\ Walk /\ [Next]_vars => Walk'
  <2> SUFFICES ASSUME TypeOK, Walk, [Next]_vars PROVE Walk'
    OBVIOUS
  <2>1. ASSUME Restart PROVE Walk'
    BY <2>1 DEF Restart, Walk
  <2>2. ASSUME FindRoot PROVE Walk'
    <3>1. FailingUpstream(event)' = FailingUpstream(event)
      <4>1. UNCHANGED <<graph, failingItems, event>>
        BY <2>2 DEF FindRoot, gVars
      <4>2. QED
        BY <4>1 DEF FailingUpstream, Dependencies
    <3>2. ASSUME NEW dep \in Dependencies(cursor) \cap failingItems,
                 cursor' = dep, gread' = TRUE
          PROVE  Walk'
      <4>1. dep \in FailingUpstream(event)
        BY <2>2, UpstreamGoesOn DEF FindRoot, Walk
      <4>2. QED
        BY <3>1, <3>2, <4>1 DEF Walk
    <3>3. CASE stage' = "impact"
      BY <3>3 DEF Walk
    <3>4. QED
      BY <2>2, <3>2, <3>3 DEF FindRoot
  <2>3. ASSUME CreateIncident PROVE Walk'
    BY <2>3 DEF CreateIncident, Walk
  <2>4. ASSUME NEW i \in Items, NEW failing \in BOOLEAN, stage = "idle",
               HandleResult(i, failing)
        PROVE  Walk'
    <3>1. stage' = "root" => event' = TargetName(i) /\ cursor' = event'
      BY <2>4 DEF HandleResult, HandleFailure
    <3>2. TargetName(i) \in Names
      BY TargetNameIsName
    <3>3. stage' = "root" => cursor' \in FailingUpstream(event)'
      BY <3>1, <3>2 DEF FailingUpstream
    <3>4. QED
      BY <3>1, <3>3 DEF Walk
  <2>5. ASSUME NEW i \in Items, Process(i) PROVE Walk'
    BY <2>4, <2>5 DEF Process
  <2>6. ASSUME Sample PROVE Walk'
    <3>1. HostItems(LocalHost) \subseteq Items
      BY CorrelatorAssumption DEF HostItems, Items
    <3>2. stage = "idle"
      BY <2>6 DEF Sample, TypeOK
    <3>3. QED
      BY <2>4, <2>6, <3>1, <3>2 DEF Sample
  <2>7. ASSUME UNCHANGED <<failingItems, failVars, graph>> PROVE Walk'
    <3>1. UNCHANGED <<stage, event, cursor, gread, graph, failingItems>>
      BY <2>7 DEF failVars
    <3>2. FailingUpstream(event)' = FailingUpstream(event)
      BY <3>1 DEF FailingUpstream, Dependencies
    <3>3. QED
      BY <3>1, <3>2 DEF Walk
  <2>8. ASSUME UNCHANGED failVars, ~gread PROVE Walk'
    <3>1. UNCHANGED <<stage, event, cursor, gread>>
      BY <2>8 DEF failVars
    <3>2. stage = "root" => cursor = event /\ cursor \in Names
      BY <2>8 DEF Walk, TypeOK
    <3>3. stage = "root" => cursor \in FailingUpstream(event)'
      BY <3>1, <3>2 DEF FailingUpstream
    <3>4. QED
      BY <3>1, <3>2, <3>3 DEF Walk
  <2>9. QED
    BY <2>1, <2>2, <2>3, <2>5, <2>6, <2>7, <2>8
       DEF Next, Handle, LoopStep, Serve, Collect, CollectNothing, LoopLock,
           LoopUnlock, LoopWait, LoopUpdate, Tick, SamplerUnlock,
           ExportTopology, ListContainers, RequestWait, RequestUpdate, vars,
           gVars
<1>3. QED
  BY <1>1, <1>2, TypeCorrect, PTL DEF Spec

(* The root candidate of an incident is reached from its target through    *)
(* failing dependencies of one graph, and nothing it depends on is failing.*)
THEOREM RootCorrect == Spec => RootIsCause
<1> DEFINE Found ==
      stage = "root" /\ stage' = "impact" =>
        /\ cursor' \in FailingUpstream(event)
        /\ Dependencies(cursor') \cap failingItems = {}
<1>1. TypeOK /\ Walk /\ [Next]_vars => [Found]_vars
  <2> SUFFICES ASSUME TypeOK, Walk, Next, stage = "root", stage' = "impact"
               PROVE  /\ cursor' \in FailingUpstream(event)
                      /\ Dependencies(cursor') \cap failingItems = {}
    OBVIOUS
  <2>1. ASSUME FindRoot
        PROVE  /\ cursor' \in FailingUpstream(event)
               /\ Dependencies(cursor') \cap failingItems = {}
    BY <2>1 DEF FindRoot, Walk
  <2>2. ~Sample
    BY DEF Sample, TypeOK
  <2>3. QED
    BY <2>1, <2>2
       DEF Next, Restart, Handle, LoopStep, Serve, CreateIncident, Collect,
           CollectNothing, Process, LoopLock, LoopUnlock, LoopWait, LoopUpdate,
           Tick, SamplerUnlock, ExportTopology, ListContainers, RequestWait,
           RequestUpdate, failVars
<1>2. QED
  BY <1>1, TypeCorrect, WalkConnected, PTL DEF Spec, RootIsCause
=============================================================================
