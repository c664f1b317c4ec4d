----------------------------- MODULE LaggingView -----------------------------
(***************************************************************************)
(* What a polling view promises: for every slice of the server's data it   *)
(* shows nothing yet or something that was once true, never an invention   *)
(* and never a mixture of two moments.  It does not promise to move        *)
(* forward: an old answer may replace a newer one.                         *)
(***************************************************************************)
EXTENDS Naturals

CONSTANTS
  Slices,          \* the parts of the server's data that are shown
  Last             \* bound: the last version of a slice

VARIABLES
  truth,           \* [slice -> number of its current version]
  view             \* [slice -> number of the version shown, 0 for none]

lagVars == <<truth, view>>

Init ==
  /\ truth = [s \in Slices |-> 1]
  /\ view = [s \in Slices |-> 0]

(* The server's data of one slice changes.                                 *)
MoveOn(s) ==
  /\ truth[s] < Last
  /\ truth' = [truth EXCEPT ![s] = @ + 1]
  /\ UNCHANGED view

(* The view shows some version the slice has had.                          *)
Show(s) ==
  /\ \E v \in 1 .. truth[s] : view' = [view EXCEPT ![s] = v]
  /\ UNCHANGED truth

Next == \E s \in Slices : MoveOn(s) \/ Show(s)

Spec == Init /\ [][Next]_lagVars
=============================================================================
