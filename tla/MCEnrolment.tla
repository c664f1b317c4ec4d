----------------------------- MODULE MCEnrolment -----------------------------
(* A plain secret; in the wide configurations also one with a "=" in it,   *)
(* of which the plain one is what is left, and a whole token to paste.     *)
EXTENDS Enrolment, TLC

CONSTANTS s1, s2, h2

MCPlain == <<>>
MCStem == s2 :> s1
MCPasted == {[prefix |-> TRUE, head |-> h2, secret |-> s1]}
=============================================================================
