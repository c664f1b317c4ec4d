------------------------------ MODULE MCConsole ------------------------------
(* Metrics are polled and pushed, incidents only polled; in the wide       *)
(* instance fetchAllData has containers to apply before the incidents.     *)
EXTENDS Console, TLC

MCWideOrder == <<"containers", "incidents">>
MCShortOrder == <<"incidents">>

(* Calls and incidents are interchangeable.                                *)
MCSymmetry ==
  Permutations(Incidents) \cup Permutations(Fetches) \cup Permutations(Requests)
=============================================================================
