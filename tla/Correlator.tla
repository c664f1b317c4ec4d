----------------------------- MODULE Correlator -----------------------------
(***************************************************************************)
(* pkg/correlator/correlator.go and pkg/topology/graph.go under the        *)
(* goroutines that call them: the 2-second ingestion loop and the 1 Hz     *)
(* sampler of cmd/ophanim/main.go, and handleTopology of the web server.   *)
(*                                                                         *)
(* c.mu serialises the failures that are being handled, so a handleFailure *)
(* call is one set of variables (holder, stage, event, cursor, gread).     *)
(* g.mu is Go's RWMutex: a writer that waits keeps new readers out.        *)
(***************************************************************************)
EXTENDS Naturals, Sequences, FiniteSets

CONSTANTS
  Containers, Probes, Hosts,
  Names,        \* names and ids, one namespace in failingItems and the graph
  NameOf,       \* ContainerStatus.Name
  DependsOn,    \* the names in a container's depends_on labels
  ProbeID,      \* SyntheticProbeResult.TargetID
  ProbeName,    \* SyntheticProbeResult.TargetName
  StorageOf,    \* m.Hostname + " Root Storage"
  MemoryOf,     \* m.Hostname + " Memory"
  LocalHost,    \* the host the sampler reads
  Round,        \* the collectors of one turn of the 2-second loop, in order,
                \* the local Docker first: the sets of items each may return
  Requests,     \* GET /api/topology requests, each served once
  MaxFailures,  \* bound: items that turn to failing
  MaxRestarts,  \* bound: restarts of the process
  None

(* What a result is about: a container (failing if it exited with an error *)
(* or is unhealthy), a probe, a resource of a host (over its threshold).   *)
HostItems(h) == {h} \X {"disk", "memory"}
Items == Containers \cup Probes \cup (Hosts \X {"disk", "memory"})

ASSUME CorrelatorAssumption ==
  /\ NameOf \in [Containers -> Names] /\ DependsOn \in [Containers -> SUBSET Names]
  /\ ProbeID \in [Probes -> Names] /\ ProbeName \in [Probes -> Names]
  /\ StorageOf \in [Hosts -> Names] /\ MemoryOf \in [Hosts -> Names]
  /\ LocalHost \in Hosts
  /\ Round \in Seq(SUBSET SUBSET Items) /\ Round # <<>>
  /\ Round[1] \subseteq SUBSET Containers
  /\ MaxFailures \in Nat /\ MaxRestarts \in Nat
  /\ IsFiniteSet(Names) /\ None \notin Names
  /\ Containers \cap Probes = {} /\ None \notin {"loop", "sampler"}
  /\ (Containers \cup Probes) \cap (Hosts \X {"disk", "memory"}) = {}

VARIABLES
  failures,     \* how often an item turned to failing
  restarts,     \* how many restarts
  booting,      \* main is in its initial collection, before any goroutine
  at,           \* the task of Round the loop is at: 0 is the host on boot,
                \* the last is the update of the graph
  rest,         \* items of the task whose results are to be processed
  saved,        \* table containers
  listed,       \* the containers the initial collection lists for the graph
  sampler,      \* the 1 Hz goroutine: waiting for its tick, or for c.mu
  holder,       \* who holds c.mu
  failingItems, \* its keys
  stage,        \* where handleFailure is
  event,        \* its ev.TargetName
  cursor,       \* failedTarget of the innermost FindRootCauseCandidate
  gread,        \* FindRootCauseCandidate holds g.mu for reading
  gwait,        \* who waits for g.mu to write: requests, or the loop
  graph,        \* the containers in the graph
  built,        \* the graph has nodes
  request,      \* program counter of a request
  snapshot,     \* the containers a request has read
  latest,       \* the row of table incidents inserted last: target, root
                \* candidate, impacted targets (nothing here reads the table)
  lastDown,     \* history: items whose last result was a failure
  alerts        \* history: how often onIncident was called for an item's name
                \* since it last turned to failing (2 stands for more)

loopVars == <<booting, at, rest, saved, listed>>
failVars == <<stage, event, cursor, gread>>
gVars    == <<gwait, graph, built>>
reqVars  == <<request, snapshot>>
history  == <<failures, lastDown, alerts>>
vars == <<restarts, loopVars, sampler, holder, failingItems, failVars, gVars,
          reqVars, latest, history>>

GraphTask == Len(Round) + 1

TypeOK ==
  /\ lastDown \subseteq Items /\ alerts \in [Items -> 0 .. 2]
  /\ failures \in 0 .. MaxFailures /\ restarts \in 0 .. MaxRestarts
  /\ booting \in BOOLEAN /\ built \in BOOLEAN /\ gread \in BOOLEAN
  /\ at \in 0 .. GraphTask /\ rest \subseteq Items
  /\ at = GraphTask => rest = {} /\ holder # "loop"
  /\ saved \subseteq Containers /\ graph \subseteq Containers
  /\ listed \subseteq Containers
  /\ sampler \in {"idle", "due"}
  /\ holder \in {None, "loop", "sampler"}
  /\ failingItems \subseteq Names
  /\ stage \in {"idle", "root", "impact"}
  /\ event \in Names \cup {None} /\ cursor \in Names \cup {None}
  /\ gwait \subseteq Requests \cup {"loop"}
  /\ request \in [Requests -> {"idle", "empty", "read", "update", "done"}]
  /\ snapshot \in [Requests -> SUBSET Containers]
  /\ latest # None => latest.target \in Names /\ latest.root \in Names
  /\ stage # "idle" => holder # None /\ event \in failingItems /\ cursor \in Names
  /\ gread => stage = "root"

Init ==
  /\ failures = 0 /\ restarts = 0
  /\ lastDown = {} /\ alerts = [i \in Items |-> 0]
  /\ booting = TRUE /\ at = 0 /\ rest = {} /\ saved = {} /\ listed = {}
  /\ sampler = "idle" /\ holder = None /\ failingItems = {}
  /\ stage = "idle" /\ event = None /\ cursor = None /\ gread = FALSE
  /\ gwait = {} /\ graph = {} /\ built = FALSE
  /\ request = [r \in Requests |-> "idle"]
  /\ snapshot = [r \in Requests |-> {}]
  /\ latest = None

-----------------------------------------------------------------------------
(* The process dies and starts again: only the tables survive.             *)
Restart ==
  /\ restarts < MaxRestarts
  /\ restarts' = restarts + 1
  /\ booting' = TRUE /\ at' = 0 /\ rest' = {} /\ listed' = {}
  /\ sampler' = "idle" /\ holder' = None /\ failingItems' = {}
  /\ stage' = "idle" /\ event' = None /\ cursor' = None /\ gread' = FALSE
  /\ gwait' = {} /\ graph' = {} /\ built' = FALSE
  /\ request' = [r \in Requests |->
                   IF request[r] = "idle" THEN "idle" ELSE "done"]
  /\ lastDown' = {} /\ alerts' = [i \in Items |-> 0]
  /\ UNCHANGED <<saved, snapshot, latest, failures>>

-----------------------------------------------------------------------------
(* graph.go.                                                               *)

(* g.dependencies[name] and g.dependents[name]; containers of one name     *)
(* share an entry.                                                         *)
Dependencies(name) == UNION {DependsOn[c] : c \in {d \in graph : NameOf[d] = name}}
Dependents(name) == {NameOf[c] : c \in {d \in graph : name \in DependsOn[d]}}

(* FindDownstreamDependents: a breadth-first search from a name, as many   *)
(* levels of it as there are names.                                        *)
FindDownstreamDependents(name) ==
  LET level[k \in Nat] ==
        IF k = 0 THEN Dependents(name)
        ELSE level[k - 1] \cup UNION {Dependents(m) : m \in level[k - 1]}
  IN  level[Cardinality(Names)]

CanRLock == gwait = {}

(* One call of FindRootCauseCandidate: it takes g.mu for reading, and      *)
(* calls itself for a failing dependency while it holds it, or returns,    *)
(* and with it every call around it.  Which of several failing             *)
(* dependencies comes first in the list is left open.                      *)
FindRoot ==
  /\ stage = "root" /\ CanRLock
  /\ \/ \E dep \in Dependencies(cursor) \cap failingItems :
          cursor' = dep /\ gread' = TRUE /\ UNCHANGED stage
     \/ /\ Dependencies(cursor) \cap failingItems = {}
        /\ stage' = "impact" /\ gread' = FALSE /\ UNCHANGED cursor
  /\ UNCHANGED <<restarts, loopVars, sampler, holder, failingItems, event, gVars,
                 reqVars, latest, history>>

TargetName(i) == CASE i \in Containers -> NameOf[i]
                   [] i \in Probes -> ProbeName[i]
                   [] i \in Hosts \X {"disk"} -> StorageOf[i[1]]
                   [] i \in Hosts \X {"memory"} -> MemoryOf[i[1]]

(* onIncident is started for a name.                                       *)
Alert(name) ==
  alerts' = [i \in Items |-> IF TargetName(i) # name THEN alerts[i]
                             ELSE IF alerts[i] = 0 THEN 1 ELSE 2]

(* Mutant of CreateIncident: a failure with a failing dependency is left   *)
(* to the incident of that dependency.                                     *)
CreateRootIncident ==
  /\ stage = "impact" /\ CanRLock
  /\ IF cursor # event THEN UNCHANGED <<latest, alerts>>
     ELSE /\ latest' = [target |-> event, root |-> cursor,
                        impacted |-> {event} \cup FindDownstreamDependents(cursor)]
          /\ Alert(event)
  /\ stage' = "idle" /\ event' = None /\ cursor' = None
  /\ UNCHANGED <<restarts, loopVars, sampler, holder, failingItems, gread, gVars,
                 reqVars, failures, lastDown>>

(* The rest of handleFailure: the impacted targets, the incident row, with *)
(* the error of its insertion discarded, and the start of onIncident.      *)
CreateIncident ==
  /\ stage = "impact" /\ CanRLock
  /\ \/ latest' = [target |-> event, root |-> cursor,
                   impacted |-> {event} \cup FindDownstreamDependents(cursor)]
     \/ UNCHANGED latest
  /\ Alert(event)
  /\ stage' = "idle" /\ event' = None /\ cursor' = None
  /\ UNCHANGED <<restarts, loopVars, sampler, holder, failingItems, gread, gVars,
                 reqVars, failures, lastDown>>

-----------------------------------------------------------------------------
(* correlator.go, with c.mu held.                                          *)

(* handleFailure up to its early return for a target that is tracked.      *)
HandleFailure(name) ==
  IF name \in failingItems
  THEN UNCHANGED <<failingItems, stage, event, cursor>>
  ELSE /\ failingItems' = failingItems \cup {name}
       /\ stage' = "root" /\ event' = name /\ cursor' = name

(* Mutant of Resolved: failures are tracked by name, resolved by id.       *)
ResolvedAsProbe(i) == IF i \in Probes THEN {ProbeID[i]} ELSE {}

(* What is resolved: a container by its name, a probe by its id, and       *)
(* nothing for a host.                                                     *)
Resolved(i) == CASE i \in Containers -> {NameOf[i]}
                 [] i \in Probes -> {ProbeID[i]}
                 [] OTHER -> {}

(* What follows a result of item i.                                        *)
HandleResult(i, failing) ==
  IF failing
  THEN /\ i \in lastDown \/ failures < MaxFailures
       /\ HandleFailure(TargetName(i))
       /\ lastDown' = lastDown \cup {i}
       /\ failures' = IF i \in lastDown THEN failures ELSE failures + 1
       /\ alerts' = IF i \in lastDown THEN alerts ELSE [alerts EXCEPT ![i] = 0]
  ELSE /\ failingItems' = failingItems \ Resolved(i)
       /\ lastDown' = lastDown \ {i} /\ alerts' = [alerts EXCEPT ![i] = 0]
       /\ UNCHANGED <<stage, event, cursor, failures>>

-----------------------------------------------------------------------------
(* The 2-second loop of main, and the initial collection before it.        *)

(* What is collected.  Of a host one resource is looked at (the memory if  *)
(* the disk is below its threshold).  A collector may fail.                *)
Collected ==
  IF at = 0 THEN {{}} \cup {{i} : i \in HostItems(LocalHost)} ELSE Round[at]

(* The containers are saved; those of the local Docker that it does not    *)
(* list any more are pruned.                                               *)
Collect ==
  /\ at < GraphTask /\ rest = {} /\ holder # "loop"
  /\ \E s \in Collected \ {{}} :
       /\ rest' = s
       /\ saved' = (IF at = 1 THEN saved \ UNION Round[1] ELSE saved)
                     \cup (s \cap Containers)
       /\ listed' = IF booting THEN s \cap Containers ELSE {}
  /\ UNCHANGED <<restarts, booting, at, sampler, holder, failingItems, failVars,
                 gVars, reqVars, latest, history>>

(* On boot, the graph is updated once containers were listed.              *)
Advance ==
  at' = IF booting /\ at = 1 THEN GraphTask ELSE at + 1

(* On boot, without a list of containers there is no update of the graph.  *)
CollectNothing ==
  /\ at < GraphTask /\ rest = {} /\ holder # "loop"
  /\ {} \in Collected
  /\ \/ Advance /\ UNCHANGED booting
     \/ booting /\ at = 1 /\ at' = 1 /\ booting' = FALSE
  /\ listed' = {}
  /\ UNCHANGED <<restarts, rest, saved, sampler, holder, failingItems, failVars,
                 gVars, reqVars, latest, history>>

LoopLock ==
  /\ rest # {} /\ holder = None
  /\ holder' = "loop"
  /\ UNCHANGED <<restarts, loopVars, sampler, failingItems, failVars, gVars,
                 reqVars, latest, history>>

(* The loop of ProcessContainers, ProcessProbeResult, ProcessHostMetrics.  *)
(* What was collected is settled here, where it is first looked at.        *)
Process(i) ==
  /\ holder = "loop" /\ stage = "idle" /\ i \in rest
  /\ rest' = rest \ {i}
  /\ \E failing \in BOOLEAN : HandleResult(i, failing)
  /\ UNCHANGED <<restarts, booting, at, saved, listed, sampler, holder, gread,
                 gVars, reqVars, latest>>

(* Mutant of LoopUnlock: the lock is only released if nothing is tracked.  *)
LoopUnlockIfQuiet ==
  /\ holder = "loop" /\ stage = "idle" /\ rest = {} /\ failingItems = {}
  /\ holder' = None
  /\ Advance
  /\ UNCHANGED <<restarts, booting, rest, saved, listed, sampler, failingItems,
                 failVars, gVars, reqVars, latest, history>>

LoopUnlock ==
  /\ holder = "loop" /\ stage = "idle" /\ rest = {}
  /\ holder' = None
  /\ Advance
  /\ UNCHANGED <<restarts, booting, rest, saved, listed, sampler, failingItems,
                 failVars, gVars, reqVars, latest, history>>

(* UpdateFromTelemetry calls g.mu.Lock ...                                 *)
LoopWait ==
  /\ at = GraphTask /\ "loop" \notin gwait
  /\ gwait' = gwait \cup {"loop"}
  /\ UNCHANGED <<restarts, loopVars, sampler, holder, failingItems, failVars,
                 graph, built, reqVars, latest, history>>

(* ... and gets it.  main has enrolled a device, so there are nodes.       *)
LoopUpdate ==
  /\ "loop" \in gwait /\ ~gread
  /\ gwait' = gwait \ {"loop"}
  /\ graph' = (IF booting THEN listed ELSE saved) /\ built' = TRUE
  /\ at' = 1 /\ booting' = FALSE /\ listed' = {}
  /\ UNCHANGED <<restarts, rest, saved, sampler, holder, failingItems, failVars,
                 reqVars, latest, history>>

-----------------------------------------------------------------------------
(* The 1 Hz sampler: hostCol.Collect, and ProcessHostMetrics gets c.mu.    *)

Tick ==
  /\ sampler = "idle" /\ ~booting /\ holder # "sampler"
  /\ sampler' = "due"
  /\ UNCHANGED <<restarts, loopVars, holder, failingItems, failVars, gVars,
                 reqVars, latest, history>>

Sample ==
  /\ sampler = "due" /\ holder = None
  /\ holder' = "sampler"
  /\ \E i \in HostItems(LocalHost), failing \in BOOLEAN : HandleResult(i, failing)
  /\ UNCHANGED <<restarts, loopVars, sampler, gread, gVars, reqVars, latest>>

(* Mutant of SamplerUnlock: the handling goes on without the lock.         *)
SamplerUnlockEarly ==
  /\ holder = "sampler"
  /\ holder' = None /\ sampler' = "idle"
  /\ UNCHANGED <<restarts, loopVars, failingItems, failVars, gVars, reqVars,
                 latest, history>>

SamplerUnlock ==
  /\ holder = "sampler" /\ stage = "idle"
  /\ holder' = None /\ sampler' = "idle"
  /\ UNCHANGED <<restarts, loopVars, failingItems, failVars, gVars, reqVars,
                 latest, history>>

-----------------------------------------------------------------------------
(* handleTopology.                                                         *)

ExportTopology(r) ==
  /\ request[r] = "idle" /\ ~booting /\ CanRLock
  /\ request' = [request EXCEPT ![r] = IF built THEN "done" ELSE "empty"]
  /\ UNCHANGED <<restarts, loopVars, sampler, holder, failingItems, failVars,
                 gVars, snapshot, latest, history>>

ListContainers(r) ==
  /\ request[r] = "empty"
  /\ request' = [request EXCEPT ![r] = "read"]
  /\ snapshot' = [snapshot EXCEPT ![r] = saved]
  /\ UNCHANGED <<restarts, loopVars, sampler, holder, failingItems, failVars,
                 gVars, latest, history>>

RequestWait(r) ==
  /\ request[r] = "read"
  /\ request' = [request EXCEPT ![r] = "update"]
  /\ gwait' = gwait \cup {r}
  /\ UNCHANGED <<restarts, loopVars, sampler, holder, failingItems, failVars,
                 graph, built, snapshot, latest, history>>

(* Mutant of RequestUpdate: the graph is replaced under a search.          *)
RequestUpdateAnyTime(r) ==
  /\ request[r] = "update" /\ r \in gwait
  /\ request' = [request EXCEPT ![r] = "done"]
  /\ gwait' = gwait \ {r}
  /\ graph' = snapshot[r] /\ built' = TRUE
  /\ UNCHANGED <<restarts, loopVars, sampler, holder, failingItems, failVars,
                 snapshot, latest, history>>

(* handleTopology's UpdateFromTelemetry gets g.mu, with the rows it read.  *)
RequestUpdate(r) ==
  /\ request[r] = "update" /\ r \in gwait /\ ~gread
  /\ request' = [request EXCEPT ![r] = "done"]
  /\ gwait' = gwait \ {r}
  /\ graph' = snapshot[r] /\ built' = TRUE
  /\ UNCHANGED <<restarts, loopVars, sampler, holder, failingItems, failVars,
                 snapshot, latest, history>>

-----------------------------------------------------------------------------
Handle == FindRoot \/ CreateIncident

LoopStep ==
  \/ Collect \/ CollectNothing \/ (\E i \in Items : Process(i)) \/ LoopUnlock
  \/ LoopWait \/ LoopUpdate

Serve(r) == ListContainers(r) \/ RequestWait(r) \/ RequestUpdate(r)

Next ==
  \/ Restart
  \/ Handle \/ LoopStep \/ LoopLock
  \/ Tick \/ Sample \/ SamplerUnlock
  \/ \E r \in Requests : ExportTopology(r) \/ Serve(r)

Spec == Init /\ [][Next]_vars

(* The Go scheduler runs what can run, the tickers tick, and a sync.Mutex  *)
(* does not starve a waiter (c.mu and g.mu are strongly fair).             *)
Fairness ==
  /\ WF_vars(LoopStep) /\ SF_vars(LoopLock)
  /\ WF_vars(Tick) /\ SF_vars(Sample) /\ WF_vars(SamplerUnlock)
  /\ SF_vars(Handle)
  /\ \A r \in Requests : WF_vars(Serve(r))

FairSpec == Spec /\ Fairness

-----------------------------------------------------------------------------
(* Properties.                                                             *)

(* Names under which only one thing is collected, a container.             *)
Unique(c) ==
  /\ \A i \in Items \ {c} : TargetName(i) # NameOf[c]
  /\ \A p \in Probes : ProbeID[p] # NameOf[c]

(* A container with a name of its own is in failingItems exactly while its *)
(* last result was a failure.                                              *)
TrackedAccurately ==
  \A c \in Containers :
    Unique(c) => (NameOf[c] \in failingItems <=> c \in lastDown)

(* The name of container c is being handled as a failure.                  *)
BeingReported(c) == stage # "idle" /\ event = NameOf[c]

(* A failure of a container with a name of its own is handed to onIncident *)
(* exactly once while it lasts, and once more when it comes back: no poll  *)
(* reports it again, none swallows it, whichever loop sees it, whether its *)
(* row can be inserted or not, and after a restart anew.                   *)
ReportedOnce ==
  \A c \in Containers :
    Unique(c) =>
      /\ BeingReported(c) => c \in lastDown /\ alerts[c] = 0
      /\ c \in lastDown /\ ~BeingReported(c) => alerts[c] = 1

(* What can be reached from a name through failing dependencies of the     *)
(* graph: the names in every set that is closed under them.                *)
FailingUpstream(name) ==
  {n \in Names : \A s \in SUBSET Names :
     /\ name \in s
     /\ \A m \in s : Dependencies(m) \cap failingItems \subseteq s
     => n \in s}

(* The root candidate found for a failing target is reached from it        *)
(* through failing dependencies of one graph, the one that is there when   *)
(* the search ends, although the loops and the web server replace the      *)
(* graph while it runs and failures are handled from two goroutines; and   *)
(* nothing the candidate depends on is failing.                            *)
RootIsCause ==
  [][stage = "root" /\ stage' = "impact" =>
       /\ cursor' \in FailingUpstream(event)
       /\ Dependencies(cursor') \cap failingItems = {}]_vars

(* g.mu is read-locked by FindRootCauseCandidate, a writer waits for it,   *)
(* and the recursive call waits for the writer.                            *)
Deadlocked == gread /\ gwait # {}

(* Whatever the loops, the restarts and the requests do, only the          *)
(* recursive read lock can stop the sampler, the 2-second loop or a        *)
(* request: no other wait for c.mu or g.mu is for ever.                    *)
OnlyTheLockStops ==
  []~Deadlocked =>
    /\ sampler = "due" ~> sampler = "idle"
    /\ []<>(at = GraphTask)
    /\ \A r \in Requests : request[r] # "idle" ~> request[r] = "done"

(* main.go:183 "True 1Hz In-Memory Sampling": the sampler keeps sampling.  *)
SamplerRuns == sampler = "due" ~> sampler = "idle"

(* README.md:32 "grouping 10 downstream 502s into a single Incident        *)
(* Thread": what fails because of something else gets no incident of its   *)
(* own.                                                                    *)
Grouped == [][latest' # latest => latest'.target = latest'.root]_vars

(* correlator.go:31 "active failing targets": each key of failingItems is  *)
(* a target whose last result was a failure.                               *)
ActiveFailing ==
  \A name \in failingItems : \E i \in lastDown : TargetName(i) = name
=============================================================================
