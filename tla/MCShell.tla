------------------------------- MODULE MCShell --------------------------------
(* Two pages, widths in units far larger than a pixel.                     *)
EXTENDS Shell
===============================================================================
