------------------------------ MODULE Requests ------------------------------
(* The requests of one kind a page has running: each is a slot that holds  *)
(* what was asked for, or None when no request runs in it.                 *)
CONSTANTS
  Calls,           \* bound: requests of one kind in flight
  None

NoCalls == [c \in Calls |-> None]
Free(calls) == {c \in Calls : calls[c] = None}

(* What "calls" may become when a request starts, in any free slot.        *)
Start(calls, what) == {[calls EXCEPT ![c] = what] : c \in Free(calls)}
=============================================================================
