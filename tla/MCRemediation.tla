--------------------------- MODULE MCRemediation ---------------------------
(* Two incidents: a remote one an operator must approve, and a local one   *)
(* with AutoExecute set, as pkg/remediation/remediation_test.go makes it.  *)
EXTENDS Remediation, TLC

CONSTANTS i1, i2, t1, t2

TwoTargets == (i1 :> t1) @@ (i2 :> t2)
============================================================================
