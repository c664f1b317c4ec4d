----------------------------- MODULE RemoteAction -----------------------------
(***************************************************************************)
(* What DispatchAction promises its caller about the command it sends to   *)
(* another machine, with the network and the goroutines in between left    *)
(* out.  A command is carried out at most once per call.  A call that is   *)
(* refused has not been carried out and never will be; a call that gives   *)
(* up promises neither: its command may be carried out later.  An answer   *)
(* is the report of a command with the action id of the call, which is not *)
(* promised to be this call's own.                                         *)
(***************************************************************************)
CONSTANTS Calls, ActionIDs, None

VARIABLES
  req,             \* [call -> the action it asks for]
  executed,        \* the reports of the commands carried out
  result           \* [call -> what it returned]

remoteVars == <<req, executed, result>>

Failure(t) == [type |-> t]
Refusals == {Failure(t) : t \in {"not connected", "panic"}}
Report(k) == [type |-> "action_response", call |-> k, act |-> req[k]]
CarriedOut(k) == \E r \in executed : r.call = k
Open(k) == req[k] # None /\ result[k] = None

Init ==
  /\ req = [k \in Calls |-> None]
  /\ executed = {}
  /\ result = [k \in Calls |-> None]

(* A call asks for an action, and may learn at once that nobody is there.  *)
Ask(k, a) ==
  /\ req[k] = None
  /\ req' = [req EXCEPT ![k] = a]
  /\ result' \in {result, [result EXCEPT ![k] = Failure("not connected")]}
  /\ UNCHANGED executed

Refuse(k) ==
  /\ Open(k) /\ ~CarriedOut(k)
  /\ result' = [result EXCEPT ![k] = Failure("panic")]
  /\ UNCHANGED <<req, executed>>

(* The other machine carries the command out, whether or not the call is   *)
(* still waiting for it.                                                   *)
CarryOut(k) ==
  /\ req[k] # None /\ result[k] \notin Refusals /\ ~CarriedOut(k)
  /\ executed' = executed \cup {Report(k)}
  /\ UNCHANGED <<req, result>>

Answer(k) ==
  /\ Open(k)
  /\ \E r \in executed :
       r.act = req[k] /\ result' = [result EXCEPT ![k] = r]
  /\ UNCHANGED <<req, executed>>

GiveUp(k) ==
  /\ Open(k)
  /\ result' = [result EXCEPT ![k] = Failure("timeout")]
  /\ UNCHANGED <<req, executed>>

Next ==
  \E k \in Calls :
    \/ \E a \in ActionIDs : Ask(k, a)
    \/ Refuse(k) \/ CarryOut(k) \/ Answer(k) \/ GiveUp(k)

Spec == Init /\ [][Next]_remoteVars
=============================================================================
