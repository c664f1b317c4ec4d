------------------------------ MODULE MCSettings ------------------------------
(* A provider with a fixed list, a self-hosted one, and one for which the  *)
(* server lists the models of both.                                        *)
EXTENDS Settings, TLC
=============================================================================
