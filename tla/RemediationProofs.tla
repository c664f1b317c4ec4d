------------------------- MODULE RemediationProofs -------------------------
(* Proofs of the safety properties of Remediation.                         *)
EXTENDS Remediation, TLAPS

LEMMA CreatedIsRow == Created \in Row
  BY DEF Created, Row

LEMMA ResolvedIsRow ==
  ASSUME NEW r \in Row, NEW p \in Ops
  PROVE  [r EXCEPT !.status = "RESOLVED", !.by = p] \in Row
  BY DEF Row

(* A request on its way has a well-formed copy of an incident in hand.     *)
LEMMA CopyInHand ==
  ASSUME TypeOK, NEW p \in Ops, op[p] \notin {"idle", "done"}
  PROVE  copy[p] \in Copy /\ IncidentOf(p) \in Incidents /\ copy[p].row \in Row
  BY DEF TypeOK, Copy, IncidentOf

(* Every variable of Remediation keeps its type: the rows, the audit log,  *)
(* the counters of executions and the copies the handlers carry around.    *)
THEOREM TypeCorrect == Spec => []TypeOK
<1>1. Init => TypeOK
  BY RemediationAssumption DEF Init, TypeOK, Row, Outcomes
<1>2. TypeOK /\ [Next]_vars => TypeOK'
  <2> SUFFICES ASSUME TypeOK, [Next]_vars PROVE TypeOK'
    OBVIOUS
  <2> USE RemediationAssumption DEF TypeOK, Outcomes
  <2>1. ASSUME NEW i \in Incidents, CreateIncident(i) PROVE TypeOK'
    BY <2>1, CreatedIsRow DEF CreateIncident
  <2>2. ASSUME NEW i \in Incidents, AnalyzeFallback(i) PROVE TypeOK'
    BY <2>2 DEF AnalyzeFallback
  <2>3. ASSUME NEW i \in Incidents, AnalyzeIncident(i) PROVE TypeOK'
    <3>1. [Created EXCEPT !.diagnosed = TRUE] \in Row
      BY DEF Created, Row
    <3>2. QED
      BY <2>3, <3>1 DEF AnalyzeIncident
  <2>4. ASSUME NEW p \in Ops, NEW i \in Incidents,
               NEW k \in {"approve", "resolve"}, GetIncident(p, i, k)
        PROVE  TypeOK'
    <3>1. [incident |-> i, row |-> row[i]] \in Copy
      BY DEF Copy
    <3>2. [incident |-> i, row |-> row[i]] # None
      BY <3>1
    <3>3. QED
      BY <2>4, <3>1, <3>2 DEF GetIncident
  <2>5. ASSUME NEW p \in Ops, op[p] \notin {"idle", "done"}, UpdateIncident(p),
               UNCHANGED <<audit, unrecorded, rca, mu, recent, kind, outcome>>
        PROVE  TypeOK'
    <3>1. [copy[p].row EXCEPT !.status = "RESOLVED", !.by = p] \in Row
      BY <2>5, CopyInHand, ResolvedIsRow
    <3>2. row' \in [Incidents -> Row]
      BY <2>5, <3>1, CopyInHand DEF UpdateIncident
    <3>3. QED
      BY <2>5, <3>2 DEF UpdateIncident
  <2>6. ASSUME NEW p \in Ops, Execute(p) PROVE TypeOK'
    <3>0. ASSUME op[p] \notin {"idle", "done"},
                 NEW success \in BOOLEAN, Record(p, success)
          PROVE  /\ audit' \subseteq [op : Ops, incident : Incidents,
                                      success : BOOLEAN]
                 /\ unrecorded' \subseteq Ops
      <4>1. [op |-> p, incident |-> IncidentOf(p), success |-> success]
              \in [op : Ops, incident : Incidents, success : BOOLEAN]
        BY <3>0, CopyInHand
      <4>2. QED
        BY <3>0, <4>1 DEF Record
    <3>1. CASE RejectOverLimit(p)
      BY <3>0, <3>1 DEF RejectOverLimit
    <3>2. CASE BeginAction(p)
      <4>1. ContainerOf(p) \in Containers
        BY <3>2, CopyInHand DEF BeginAction, ContainerOf
      <4>2. QED
        BY <3>2, <4>1 DEF BeginAction
    <3>3. CASE DispatchAction(p)
      BY <3>3 DEF DispatchAction
    <3>4. CASE DispatchPanics(p)
      BY <3>4 DEF DispatchPanics
    <3>5. CASE RecordAuditLog(p)
      BY <3>0, <3>5 DEF RecordAuditLog
    <3>6. QED
      BY <2>6, <3>1, <3>2, <3>3, <3>4, <3>5 DEF Execute
  <2>7. ASSUME NEW t \in Containers, HourPasses(t) PROVE TypeOK'
    BY <2>7 DEF HourPasses
  <2>8. CASE Crash
    BY <2>8 DEF Crash
  <2>9. CASE UNCHANGED vars
    BY <2>9 DEF vars, memVars
  <2>10. QED
    BY <2>1, <2>2, <2>3, <2>4, <2>5, <2>6, <2>7, <2>8, <2>9
    DEF Next, Finish, ResolveManually, ResolveApproved
<1>3. QED
  BY <1>1, <1>2, PTL DEF Spec

-----------------------------------------------------------------------------
(* Executor.mu is held by exactly the request between the rate check and   *)
(* the audit row.                                                          *)
THEOREM MutualExclusion == Spec => []MutexHeld
<1>1. Init => MutexHeld
  BY RemediationAssumption DEF Init, MutexHeld
<1>2. TypeOK /\ MutexHeld /\ [Next]_vars => MutexHeld'
  <2> SUFFICES ASSUME TypeOK, MutexHeld, [Next]_vars PROVE MutexHeld'
    OBVIOUS
  <2> USE RemediationAssumption DEF TypeOK, MutexHeld
  <2>1. ASSUME NEW i \in Incidents,
               CreateIncident(i) \/ AnalyzeFallback(i) \/ AnalyzeIncident(i)
        PROVE  MutexHeld'
    BY <2>1 DEF CreateIncident, AnalyzeFallback, AnalyzeIncident
  <2>2. ASSUME NEW p \in Ops, NEW i \in Incidents,
               NEW k \in {"approve", "resolve"}, GetIncident(p, i, k)
        PROVE  MutexHeld'
    BY <2>2 DEF GetIncident
  <2>3. ASSUME NEW p \in Ops, Execute(p) PROVE MutexHeld'
    <3>1. CASE RejectOverLimit(p)
      BY <3>1 DEF RejectOverLimit
    <3>2. CASE BeginAction(p)
      BY <3>2 DEF BeginAction
    <3>3. CASE DispatchAction(p)
      BY <3>3 DEF DispatchAction
    <3>4. CASE DispatchPanics(p)
      BY <3>4 DEF DispatchPanics
    <3>5. CASE RecordAuditLog(p)
      BY <3>5 DEF RecordAuditLog
    <3>6. QED
      BY <2>3, <3>1, <3>2, <3>3, <3>4, <3>5 DEF Execute
  <2>4. ASSUME NEW p \in Ops, Finish(p) PROVE MutexHeld'
    BY <2>4 DEF Finish, ResolveManually, ResolveApproved, UpdateIncident
  <2>5. ASSUME NEW t \in Containers, HourPasses(t) PROVE MutexHeld'
    BY <2>5 DEF HourPasses
  <2>6. CASE Crash
    BY <2>6 DEF Crash
  <2>7. CASE UNCHANGED vars
    BY <2>7 DEF vars, memVars
  <2>8. QED
    BY <2>1, <2>2, <2>3, <2>4, <2>5, <2>6, <2>7 DEF Next
<1>3. QED
  BY <1>1, <1>2, TypeCorrect, PTL DEF Spec

-----------------------------------------------------------------------------
(* The strengthening of ApprovedAudited: a write by p in a row, or in a    *)
(* copy of a row that some handler will write back, is backed by what p    *)
(* did, and p has ended, so that neither kind[p] nor outcome[p] will       *)
(* change; a request about to close its incident went to act on it.        *)
Acted(p) == outcome[p] \in {"ok", "failed", "error"}
Audited(p, i) == Acted(p) /\ (p \in unrecorded \/ HasAuditRow(p, i))

Backed(r, i) ==
  r.by # None => /\ op[r.by] = "done"
                 /\ kind[r.by] = "approve" => Audited(r.by, i)

AuditInv ==
  /\ \A i \in Incidents : Backed(row[i], i)
  /\ \A p \in Ops : copy[p] # None => Backed(copy[p].row, IncidentOf(p))
  /\ \A p \in Ops :
       /\ op[p] = "audited" => kind[p] = "approve" /\ Audited(p, IncidentOf(p))
       /\ op[p] \in {"executing", "effected"} => kind[p] = "approve"
       /\ op[p] = "effected" => Acted(p)

(* What every step preserves: the audit log grows, and so does what is not *)
(* recorded in it; a request that has ended keeps its kind and outcome.    *)
EndedKept ==
  /\ audit \subseteq audit' /\ unrecorded \subseteq unrecorded'
  /\ \A p \in Ops : op[p] = "done" =>
       op'[p] = "done" /\ kind'[p] = kind[p] /\ outcome'[p] = outcome[p]

LEMMA EndedStaysEnded ==
  ASSUME TypeOK, [Next]_vars
  PROVE  EndedKept
<1> USE DEF TypeOK, EndedKept
<1>1. ASSUME NEW i \in Incidents,
             CreateIncident(i) \/ AnalyzeFallback(i) \/ AnalyzeIncident(i)
      PROVE  EndedKept
  BY <1>1 DEF CreateIncident, AnalyzeFallback, AnalyzeIncident
<1>2. ASSUME NEW p \in Ops, NEW i \in Incidents,
             NEW k \in {"approve", "resolve"}, GetIncident(p, i, k)
      PROVE  EndedKept
  BY <1>2 DEF GetIncident
<1>3. ASSUME NEW p \in Ops, Execute(p) PROVE EndedKept
  BY <1>3 DEF Execute, RejectOverLimit, BeginAction, DispatchAction,
              DispatchPanics, RecordAuditLog, Record
<1>4. ASSUME NEW p \in Ops, Finish(p) PROVE EndedKept
  BY <1>4 DEF Finish, ResolveManually, ResolveApproved, UpdateIncident
<1>5. CASE Crash
  BY <1>5 DEF Crash
<1>6. CASE UNCHANGED vars \/ \E t \in Containers : HourPasses(t)
  BY <1>6 DEF vars, memVars, HourPasses
<1>7. QED
  BY <1>1, <1>2, <1>3, <1>4, <1>5, <1>6 DEF Next

LEMMA AuditStep == TypeOK /\ AuditInv /\ [Next]_vars => AuditInv'
<1> SUFFICES ASSUME TypeOK, AuditInv, [Next]_vars PROVE AuditInv'
  OBVIOUS
<1> USE RemediationAssumption DEF TypeOK
<1>0. EndedKept
  BY EndedStaysEnded
<1>1. ASSUME NEW i \in Incidents,
             CreateIncident(i) \/ AnalyzeFallback(i) \/ AnalyzeIncident(i)
      PROVE  AuditInv'
  <2>1. \A j \in Incidents : row'[j] = row[j] \/ row'[j].by = None
    BY <1>1 DEF CreateIncident, AnalyzeFallback, AnalyzeIncident, Created
  <2>2. UNCHANGED <<audit, unrecorded, op, kind, copy, outcome>>
    BY <1>1 DEF CreateIncident, AnalyzeFallback, AnalyzeIncident
  <2>3. QED
    BY <2>1, <2>2 DEF AuditInv, Backed, Audited, Acted, HasAuditRow, IncidentOf
<1>2. ASSUME NEW p \in Ops, NEW i \in Incidents,
             NEW k \in {"approve", "resolve"}, GetIncident(p, i, k)
      PROVE  AuditInv'
  <2>1. UNCHANGED <<row, audit, unrecorded, outcome>>
    BY <1>2 DEF GetIncident
  <2>2. \A j \in Incidents : Backed(row[j], j)'
    BY <1>0, <1>2
    DEF AuditInv, Backed, Audited, Acted, HasAuditRow, EndedKept, GetIncident,
        Row
  <2>3. \A q \in Ops : copy'[q] # None => Backed(copy[q].row, IncidentOf(q))'
    BY <1>0, <1>2
    DEF AuditInv, Backed, Audited, Acted, HasAuditRow, EndedKept, GetIncident,
        Row, IncidentOf, Copy
  <2>4. QED
    BY <1>2, <2>2, <2>3
    DEF AuditInv, GetIncident, Audited, Acted, HasAuditRow, IncidentOf
<1>3. ASSUME NEW p \in Ops, Execute(p) PROVE AuditInv'
  <2>1. /\ UNCHANGED row
        /\ \A q \in Ops : copy'[q] = copy[q] \/ copy'[q] = None
    BY <1>3 DEF Execute, RejectOverLimit, BeginAction, DispatchAction,
                DispatchPanics, RecordAuditLog
  <2>2. \A j \in Incidents : Backed(row[j], j)'
    BY <1>0, <2>1
    DEF AuditInv, Backed, Audited, Acted, HasAuditRow, EndedKept, Row
  <2>3. \A q \in Ops : copy'[q] # None => Backed(copy[q].row, IncidentOf(q))'
    BY <1>0, <2>1
    DEF AuditInv, Backed, Audited, Acted, HasAuditRow, EndedKept, Row,
        IncidentOf, Copy
  <2>4. \A q \in Ops :
          /\ op'[q] = "audited" => kind'[q] = "approve" /\ Audited(q, IncidentOf(q))'
          /\ op'[q] \in {"executing", "effected"} => kind'[q] = "approve"
          /\ op'[q] = "effected" => Acted(q)'
    <3>1. CASE RejectOverLimit(p)
      BY <1>0, <3>1 DEF RejectOverLimit, AuditInv, Audited, Acted, HasAuditRow,
                         IncidentOf, EndedKept
    <3>2. CASE BeginAction(p)
      BY <3>2 DEF BeginAction, AuditInv, Audited, Acted, HasAuditRow,
                     IncidentOf
    <3>3. CASE DispatchAction(p)
      BY <3>3 DEF DispatchAction, AuditInv, Audited, Acted, HasAuditRow,
                     IncidentOf
    <3>4. CASE DispatchPanics(p)
      BY <3>4 DEF DispatchPanics, AuditInv, Audited, Acted, HasAuditRow,
                     IncidentOf
    <3>5. CASE RecordAuditLog(p)
      <4>1. PICK i \in Incidents : i = IncidentOf(p) /\ i = IncidentOf(p)'
        BY <3>5, CopyInHand DEF RecordAuditLog, IncidentOf
      <4>2. Audited(p, i)'
        <5>1. CASE unrecorded' = unrecorded \cup {p}
          BY <3>5, <5>1 DEF RecordAuditLog, Audited, Acted, AuditInv
        <5>2. CASE audit' = audit \cup
                     {[op |-> p, incident |-> IncidentOf(p),
                       success |-> outcome[p] # "error"]}
          <6> DEFINE e == [op |-> p, incident |-> IncidentOf(p),
                           success |-> outcome[p] # "error"]
          <6>1. e \in audit' /\ e.op = p /\ e.incident = i
            BY <4>1, <5>2
          <6>2. HasAuditRow(p, i)'
            BY <6>1 DEF HasAuditRow
          <6>3. QED
            BY <3>5, <6>2 DEF RecordAuditLog, Audited, Acted, AuditInv
        <5>3. QED
          BY <3>5, <5>1, <5>2 DEF RecordAuditLog, Record
      <4>3. \A q \in Ops : q # p => op'[q] = op[q] /\ UNCHANGED <<kind, copy, outcome>>
        BY <3>5 DEF RecordAuditLog
      <4>4. \A q \in Ops : Audited(q, IncidentOf(q)) => Audited(q, IncidentOf(q))'
        BY <1>0, <3>5
        DEF RecordAuditLog, Audited, Acted, HasAuditRow, IncidentOf, EndedKept
      <4>5. QED
        BY <3>5, <4>1, <4>2, <4>3, <4>4 DEF AuditInv, Acted, RecordAuditLog
    <3>6. QED
      BY <1>3, <3>1, <3>2, <3>3, <3>4, <3>5 DEF Execute
  <2>5. QED
    BY <2>2, <2>3, <2>4 DEF AuditInv
<1>4. ASSUME NEW p \in Ops, Finish(p) PROVE AuditInv'
  <2>1. /\ op[p] \notin {"idle", "done"} /\ UpdateIncident(p)
        /\ UNCHANGED <<audit, unrecorded, kind, outcome>>
        /\ kind[p] = "resolve" \/ op[p] = "audited"
    BY <1>4 DEF Finish, ResolveManually, ResolveApproved
  <2>2. \A j \in Incidents : Backed(row[j], j)'
    <3>0. PICK i \in Incidents : i = IncidentOf(p)
      BY <2>1, CopyInHand
    <3>1. kind[p] = "approve" => Audited(p, i)
      BY <2>1, <3>0 DEF AuditInv
    <3>2. ASSUME NEW j \in Incidents, row'[j] = row[j] PROVE Backed(row[j], j)'
      BY <1>0, <2>1, <3>2
      DEF AuditInv, Backed, Audited, Acted, HasAuditRow, EndedKept, Row
    <3>3. CASE row' # row
      <4>1. /\ row'[i].by = p /\ op'[p] = "done"
            /\ \A j \in Incidents \ {i} : row'[j] = row[j]
        <5> DEFINE w == [copy[p].row EXCEPT !.status = "RESOLVED", !.by = p]
        <5>1. copy[p].row \in Row
          BY <2>1, CopyInHand
        <5>2. w.by = p
          BY <5>1 DEF Row
        <5>3. row' = [row EXCEPT ![i] = w] /\ op' = [op EXCEPT ![p] = "done"]
          BY <2>1, <3>0, <3>3 DEF UpdateIncident
        <5>4. QED
          BY <5>2, <5>3
      <4>2. Backed(row[i], i)'
        BY <2>1, <3>1, <4>1 DEF Backed, Audited, Acted, HasAuditRow
      <4>3. QED
        BY <3>2, <4>1, <4>2
    <3>4. QED
      BY <3>2, <3>3
  <2>3. \A q \in Ops : copy'[q] # None => Backed(copy[q].row, IncidentOf(q))'
    BY <1>0, <2>1
    DEF AuditInv, Backed, Audited, Acted, HasAuditRow, EndedKept, Row,
        IncidentOf, Copy, UpdateIncident
  <2>4. QED
    BY <2>1, <2>2, <2>3
    DEF AuditInv, UpdateIncident, Audited, Acted, HasAuditRow, IncidentOf
<1>5. CASE Crash
  BY <1>0, <1>5
  DEF Crash, AuditInv, Backed, Audited, Acted, HasAuditRow, EndedKept, Row
<1>6. CASE UNCHANGED vars \/ \E t \in Containers : HourPasses(t)
  BY <1>6
  DEF vars, memVars, HourPasses, AuditInv, Backed, Audited, Acted,
      HasAuditRow, IncidentOf
<1>7. QED
  BY <1>1, <1>2, <1>3, <1>4, <1>5, <1>6 DEF Next

(* An incident closed by an approval is one whose action that approval     *)
(* went to execute, with its audit row unless the write of that failed.    *)
THEOREM ApprovalsAudited == Spec => []ApprovedAudited
<1>1. Init => AuditInv
  BY DEF Init, AuditInv, Backed
<1>2. TypeOK /\ AuditInv => ApprovedAudited
  BY DEF TypeOK, AuditInv, Backed, Audited, Acted, ApprovedAudited, Row
<1>3. QED
  BY <1>1, <1>2, AuditStep, TypeCorrect, PTL DEF Spec

-----------------------------------------------------------------------------
(* A closed incident is opened again only by the one write of its own RCA  *)
(* goroutine, whatever copies the handlers hold.                           *)
THEOREM OnlyRCAReopens == Spec => ReopenedOnlyByRCA
<1>1. TypeOK /\ [Next]_vars =>
        [\A i \in Incidents :
           row[i].status = "RESOLVED" /\ row'[i].status # "RESOLVED" =>
             rca[i] = "running" /\ rca'[i] = "done"]_vars
  <2> SUFFICES ASSUME TypeOK, [Next]_vars, NEW i \in Incidents,
                      row[i].status = "RESOLVED", row'[i].status # "RESOLVED"
               PROVE  rca[i] = "running" /\ rca'[i] = "done"
    OBVIOUS
  <2>0. row \in [Incidents -> Row] /\ rca \in [Incidents -> {"idle", "running", "done"}]
    BY DEF TypeOK
  <2>1. ASSUME NEW j \in Incidents,
               CreateIncident(j) \/ AnalyzeFallback(j) \/ AnalyzeIncident(j)
        PROVE  rca[i] = "running" /\ rca'[i] = "done"
    BY <2>0, <2>1 DEF CreateIncident, AnalyzeFallback, AnalyzeIncident
  <2>2. ASSUME NEW p \in Ops, Finish(p) PROVE FALSE
    <3>1. op[p] \notin {"idle", "done"} /\ UpdateIncident(p)
      BY <2>2 DEF Finish, ResolveManually, ResolveApproved
    <3>2. PICK j \in Incidents : j = IncidentOf(p)
      BY <3>1, CopyInHand
    <3>3. copy[p].row \in Row
      BY <3>1, CopyInHand
    <3>4. CASE row' = [row EXCEPT ![j] =
                         [copy[p].row EXCEPT !.status = "RESOLVED", !.by = p]]
      <4>1. row'[i] = row[i] \/ row'[i].status = "RESOLVED"
        BY <2>0, <3>3, <3>4 DEF Row
      <4>2. QED
        BY <4>1
    <3>5. QED
      BY <3>1, <3>2, <3>4 DEF UpdateIncident
  <2>3. ASSUME UNCHANGED row PROVE FALSE
    BY <2>3
  <2>4. QED
    BY <2>1, <2>2, <2>3
    DEF Next, GetIncident, Execute, RejectOverLimit, BeginAction,
        DispatchAction, DispatchPanics, RecordAuditLog, HourPasses, Crash,
        vars
<1>2. QED
  BY <1>1, TypeCorrect, PTL DEF Spec, ReopenedOnlyByRCA
============================================================================
