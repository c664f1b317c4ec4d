--------------------------- MODULE MCObservability ---------------------------
(* Two containers; two nodes with metrics, the local one and nas, and one  *)
(* without, cam.                                                           *)
EXTENDS Observability, TLC
=============================================================================
