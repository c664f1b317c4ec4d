---------------------------- MODULE Remediation ----------------------------
(***************************************************************************)
(* The life of an incident row: pkg/remediation/executor.go with the code  *)
(* that calls it (the web and ChatOps approvals, the manual resolution)    *)
(* and the RCA goroutine of pkg/agent/rca.go, which all read the row, go   *)
(* away for seconds, and write the whole row back (UpdateIncident).        *)
(* Every error of a write is discarded, so a write that fails leaves its   *)
(* table alone and its caller goes on.                                     *)
(*                                                                         *)
(* An Op is one request of an operator: a click on approve, or a manual    *)
(* resolution.  It runs once, so the number of Ops bounds a run.           *)
(***************************************************************************)
EXTENDS Naturals, FiniteSets

CONSTANTS
  Incidents,
  Ops,
  Containers,      \* ActionRequest.TargetID
  TargetID,        \* the container each incident's ProposedAction names
  RemoteIncidents, \* incidents whose action goes through hub.DispatchAction
  AutoIncidents,   \* incidents whose action has AutoExecute set, which the
                   \* executor honours and only remediation_test.go sets
  MaxPerHour,      \* config.AutoHealMaxPerHour, 2 when not set
  None

(* A row: its status, who resolved it (ResolvedAt and ResolutionNotes) and *)
(* whether it holds a diagnosis (RootCauseSummary).                        *)
Row == [status : {"absent", "OPEN", "RESOLVED"}, by : Ops \cup {None},
        diagnosed : BOOLEAN]
Created == [status |-> "OPEN", by |-> None, diagnosed |-> FALSE]

(* A handler's copy of an incident.                                        *)
Copy == [incident : Incidents, row : Row]

ASSUME RemediationAssumption ==
  /\ TargetID \in [Incidents -> Containers]
  /\ RemoteIncidents \subseteq Incidents /\ AutoIncidents \subseteq Incidents
  /\ MaxPerHour \in Nat \ {0}
  /\ None \notin Incidents \cup Ops \cup Copy

VARIABLES
  row,      \* table incidents
  audit,    \* table audit_logs
  unrecorded, \* history: requests whose audit row a failed write or a crash lost
  rca,      \* the RCA goroutine of an incident
  mu,       \* who holds Executor.mu
  recent,   \* executions per container within the last hour (actionCounts)
  op,       \* program counter of a request
  kind,     \* what the request is
  copy,     \* its *types.Incident, as read, with the incident's id
  outcome   \* what became of the action it executed

memVars == <<rca, mu, recent, op, kind, copy, outcome>>
vars == <<row, audit, unrecorded, memVars>>

(* "ok": the container was restarted; "failed": the edge agent answered    *)
(* that it could not; "error": no answer, or the local daemon refused.     *)
Outcomes == {"none", "ok", "failed", "error", "limited"}

TypeOK ==
  /\ row \in [Incidents -> Row]
  /\ audit \subseteq [op : Ops, incident : Incidents, success : BOOLEAN]
  /\ unrecorded \subseteq Ops
  /\ rca \in [Incidents -> {"idle", "running", "done"}]
  /\ mu \in Ops \cup {None}
  /\ recent \in [Containers -> Nat]
  /\ op \in [Ops -> {"idle", "read", "executing", "effected", "audited", "done"}]
  /\ kind \in [Ops -> {"none", "approve", "resolve"}]
  /\ copy \in [Ops -> Copy \cup {None}]
  /\ outcome \in [Ops -> Outcomes]
  /\ \A p \in Ops : copy[p] = None <=> op[p] \in {"idle", "done"}

Init ==
  /\ row = [i \in Incidents |->
              [status |-> "absent", by |-> None, diagnosed |-> FALSE]]
  /\ audit = {}
  /\ unrecorded = {}
  /\ rca = [i \in Incidents |-> "idle"]
  /\ mu = None
  /\ recent = [t \in Containers |-> 0]
  /\ op = [p \in Ops |-> "idle"]
  /\ kind = [p \in Ops |-> "none"]
  /\ copy = [p \in Ops |-> None]
  /\ outcome = [p \in Ops |-> "none"]

IncidentOf(p) == copy[p].incident
ContainerOf(p) == TargetID[IncidentOf(p)]

-----------------------------------------------------------------------------
(* The correlator inserts the row, or fails to, and in either case starts  *)
(* the incident handler, which starts the RCA goroutine with the incident  *)
(* it was given.                                                           *)
CreateIncident(i) ==
  /\ row[i].status = "absent" /\ rca[i] = "idle"
  /\ row' = [row EXCEPT ![i] = Created] \/ UNCHANGED row
  /\ rca' = [rca EXCEPT ![i] = "running"]
  /\ UNCHANGED <<audit, unrecorded, mu, recent, op, kind, copy, outcome>>

(* The LLM fails or its answer is no JSON, and AnalyzeIncident returns     *)
(* early; or its write fails, or finds no row.                             *)
AnalyzeFallback(i) ==
  /\ rca[i] = "running"
  /\ rca' = [rca EXCEPT ![i] = "done"]
  /\ UNCHANGED <<row, audit, unrecorded, mu, recent, op, kind, copy, outcome>>

(* AnalyzeIncident adds the diagnosis to the incident it was given when it *)
(* was created, and writes that incident back.                             *)
AnalyzeIncident(i) ==
  /\ rca[i] = "running" /\ row[i].status # "absent"
  /\ row' = [row EXCEPT ![i] = [Created EXCEPT !.diagnosed = TRUE]]
  /\ rca' = [rca EXCEPT ![i] = "done"]
  /\ UNCHANGED <<audit, unrecorded, mu, recent, op, kind, copy, outcome>>

(* GetIncident, at the start of approveHandler, handleApproveIncident and  *)
(* handleResolveIncident.  None of them looks at the status.               *)
GetIncident(p, i, k) ==
  /\ op[p] = "idle" /\ row[i].status # "absent"
  /\ op' = [op EXCEPT ![p] = "read"]
  /\ kind' = [kind EXCEPT ![p] = k]
  /\ copy' = [copy EXCEPT ![p] = [incident |-> i, row |-> row[i]]]
  /\ UNCHANGED <<row, audit, unrecorded, rca, mu, recent, outcome>>

(* Mutant of UpdateIncident: without an effect of the action the status is *)
(* left as the handler read it.                                            *)
UpdateReadStatus(p) ==
  /\ row' = [row EXCEPT ![IncidentOf(p)] =
               [copy[p].row EXCEPT !.status = IF outcome[p] = "error" THEN @
                                              ELSE "RESOLVED",
                                   !.by = p]]
  /\ op' = [op EXCEPT ![p] = "done"]
  /\ copy' = [copy EXCEPT ![p] = None]

(* UpdateIncident with the copy, its status RESOLVED and ResolvedAt set;   *)
(* a failed write leaves the row as it is.                                 *)
UpdateIncident(p) ==
  /\ \/ row' = [row EXCEPT ![IncidentOf(p)] =
                  [copy[p].row EXCEPT !.status = "RESOLVED", !.by = p]]
     \/ UNCHANGED row
  /\ op' = [op EXCEPT ![p] = "done"]
  /\ copy' = [copy EXCEPT ![p] = None]

ResolveManually(p) ==
  /\ op[p] = "read" /\ kind[p] = "resolve"
  /\ UpdateIncident(p)
  /\ UNCHANGED <<audit, unrecorded, rca, mu, recent, kind, outcome>>

-----------------------------------------------------------------------------
(* ExecuteAction, under Executor.mu from its first line to its last.       *)

(* The row in the audit log, unless the write fails.                       *)
Record(p, success) ==
  \/ /\ audit' = audit \cup
          {[op |-> p, incident |-> IncidentOf(p), success |-> success]}
     /\ UNCHANGED unrecorded
  \/ /\ unrecorded' = unrecorded \cup {p}
     /\ UNCHANGED audit

(* The rate limit of a container, which only AutoExecute actions respect.  *)
Limited(p) ==
  /\ recent[ContainerOf(p)] >= MaxPerHour
  /\ IncidentOf(p) \in AutoIncidents

(* Mutant of RejectOverLimit: the rejection is audited but returned with a *)
(* nil error, like every other failure.                                    *)
RejectWithNilError(p) ==
  /\ op[p] = "read" /\ kind[p] = "approve" /\ mu = None
  /\ Limited(p)
  /\ Record(p, FALSE)
  /\ outcome' = [outcome EXCEPT ![p] = "limited"]
  /\ op' = [op EXCEPT ![p] = "audited"]
  /\ UNCHANGED <<row, rca, mu, recent, kind, copy>>

(* Over the limit: recorded as a failure, and an error for the caller, who *)
(* leaves the row alone.                                                   *)
RejectOverLimit(p) ==
  /\ op[p] = "read" /\ kind[p] = "approve" /\ mu = None
  /\ Limited(p)
  /\ Record(p, FALSE)
  /\ outcome' = [outcome EXCEPT ![p] = "limited"]
  /\ op' = [op EXCEPT ![p] = "done"]
  /\ copy' = [copy EXCEPT ![p] = None]
  /\ UNCHANGED <<row, rca, mu, recent, kind>>

(* Within the limit: count the execution, and act.                         *)
BeginAction(p) ==
  /\ op[p] = "read" /\ kind[p] = "approve" /\ mu = None
  /\ ~Limited(p)
  /\ mu' = p
  /\ recent' = [recent EXCEPT ![ContainerOf(p)] = @ + 1]
  /\ op' = [op EXCEPT ![p] = "executing"]
  /\ UNCHANGED <<row, audit, unrecorded, rca, kind, copy, outcome>>

(* DispatchAction returns, or the local Docker daemon does.                *)
DispatchAction(p) ==
  /\ op[p] = "executing"
  /\ \E o \in {"ok", "error"} \cup
         (IF IncidentOf(p) \in RemoteIncidents THEN {"failed"} ELSE {}) :
       outcome' = [outcome EXCEPT ![p] = o]
  /\ op' = [op EXCEPT ![p] = "effected"]
  /\ UNCHANGED <<row, audit, unrecorded, rca, mu, recent, kind, copy>>

(* Mutant of DispatchPanics: the unlock is not deferred.                   *)
PanicKeepsLock(p) ==
  /\ op[p] = "executing" /\ IncidentOf(p) \in RemoteIncidents
  /\ op' = [op EXCEPT ![p] = "done"]
  /\ copy' = [copy EXCEPT ![p] = None]
  /\ UNCHANGED <<row, audit, unrecorded, rca, mu, recent, kind, outcome>>

(* DispatchAction panics: it sent on a closed channel.  The deferred       *)
(* unlock runs and net/http recovers a web handler (a ChatOps handler      *)
(* takes the process down, see Crash); no audit row, no update.            *)
DispatchPanics(p) ==
  /\ op[p] = "executing" /\ IncidentOf(p) \in RemoteIncidents
  /\ mu' = None
  /\ op' = [op EXCEPT ![p] = "done"]
  /\ copy' = [copy EXCEPT ![p] = None]
  /\ UNCHANGED <<row, audit, unrecorded, rca, recent, kind, outcome>>

(* resp.Success becomes execErr == nil, whatever the agent answered; the   *)
(* response is audited, and returned with a nil error.                     *)
RecordAuditLog(p) ==
  /\ op[p] = "effected"
  /\ Record(p, outcome[p] # "error")
  /\ mu' = None
  /\ op' = [op EXCEPT ![p] = "audited"]
  /\ UNCHANGED <<row, rca, recent, kind, copy, outcome>>

(* The approval handler saw a nil error and closes the incident.           *)
ResolveApproved(p) ==
  /\ op[p] = "audited"
  /\ UpdateIncident(p)
  /\ UNCHANGED <<audit, unrecorded, rca, mu, recent, kind, outcome>>

-----------------------------------------------------------------------------
(* Mutant of HourPasses: more timestamps are dropped than there are.       *)
HourPassesUnguarded(t) ==
  /\ recent' = [recent EXCEPT ![t] = @ - 1]
  /\ UNCHANGED <<row, audit, unrecorded, rca, mu, op, kind, copy, outcome>>

(* The oldest counted execution of a container gets an hour old.           *)
HourPasses(t) ==
  /\ recent[t] > 0
  /\ recent' = [recent EXCEPT ![t] = @ - 1]
  /\ UNCHANGED <<row, audit, unrecorded, rca, mu, op, kind, copy, outcome>>

(* The hub process dies and restarts: the tables survive, nothing else.    *)
Crash ==
  /\ unrecorded' = unrecorded \cup
                     {p \in Ops : op[p] \in {"executing", "effected"}}
  /\ rca' = [i \in Incidents |-> IF rca[i] = "running" THEN "done" ELSE rca[i]]
  /\ mu' = None
  /\ recent' = [t \in Containers |-> 0]
  /\ op' = [p \in Ops |-> IF op[p] = "idle" THEN "idle" ELSE "done"]
  /\ copy' = [p \in Ops |-> None]
  /\ UNCHANGED <<row, audit, kind, outcome>>

Execute(p) ==
  \/ RejectOverLimit(p) \/ BeginAction(p) \/ DispatchAction(p)
  \/ DispatchPanics(p) \/ RecordAuditLog(p)

Finish(p) == ResolveManually(p) \/ ResolveApproved(p)

Next ==
  \/ \E i \in Incidents :
       CreateIncident(i) \/ AnalyzeFallback(i) \/ AnalyzeIncident(i)
  \/ \E p \in Ops, i \in Incidents, k \in {"approve", "resolve"} :
       GetIncident(p, i, k)
  \/ \E p \in Ops : Execute(p) \/ Finish(p)
  \/ \E t \in Containers : HourPasses(t)
  \/ Crash

Spec == Init /\ [][Next]_vars

(* Go's mutex does not starve a waiter, so taking Executor.mu is strongly  *)
(* fair; everything a handler does after that is weakly fair.              *)
Fairness == \A p \in Ops : SF_vars(Execute(p)) /\ WF_vars(Finish(p))
FairSpec == Spec /\ Fairness

-----------------------------------------------------------------------------
(* Properties.                                                             *)

(* Executor.mu is held by exactly the request that is between the rate     *)
(* check and the audit row, so no two actions run at a time, whoever       *)
(* panics or crashes in between.                                           *)
MutexHeld ==
  \A p \in Ops : mu = p <=> op[p] \in {"executing", "effected"}

HasAuditRow(p, i) == \E a \in audit : a.op = p /\ a.incident = i

(* An incident closed by an approval is one whose action this approval     *)
(* went to execute: no crash, rejection or panic and no other request's    *)
(* write closes a row in its name.  And it has the audit row of that       *)
(* execution, for that incident, unless the write of the audit row failed. *)
ApprovedAudited ==
  \A i \in Incidents :
    LET p == row[i].by IN
      p # None /\ kind[p] = "approve" =>
        /\ outcome[p] \in {"ok", "failed", "error"}
        /\ p \in unrecorded \/ HasAuditRow(p, i)

(* Whatever copies the handlers hold, a closed incident is opened again    *)
(* only by the one write of its own RCA goroutine, so at most once.        *)
ReopenedOnlyByRCA ==
  [][\A i \in Incidents :
       row[i].status = "RESOLVED" /\ row'[i].status # "RESOLVED" =>
         rca[i] = "running" /\ rca'[i] = "done"]_vars

(* Every request ends, although all approvals share one mutex that is held *)
(* across the remote call.                                                 *)
RequestsEnd == \A p \in Ops : op[p] = "read" ~> op[p] = "done"

(* executor.go:16 "post-fix verification": an incident closed by an        *)
(* approval is one whose action succeeded.                                 *)
ResolvedMeansFixed ==
  \A i \in Incidents :
    LET p == row[i].by IN
      p # None /\ kind[p] = "approve" => outcome[p] = "ok"

(* executor.go:36 "with rate-limiting and audit logging": an action that   *)
(* was executed has its audit row.                                         *)
ActionsAudited ==
  \A p \in Ops :
    op[p] = "done" /\ outcome[p] \in {"ok", "failed", "error"} =>
      \E i \in Incidents : HasAuditRow(p, i)

(* README.md:40 "per-container rate limiters (max 2 restarts/hr)".         *)
RestartsLimited == \A t \in Containers : recent[t] <= MaxPerHour

(* sqlite.go:862 "all unclosed incidents": an incident that was closed is  *)
(* not on that list again.                                                 *)
StaysClosed ==
  [][\A i \in Incidents :
       row[i].status = "RESOLVED" => row'[i].status = "RESOLVED"]_vars
============================================================================
