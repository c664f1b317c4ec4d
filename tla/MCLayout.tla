------------------------------- MODULE MCLayout -------------------------------
(* Two built-in presets, one of them without the table.                    *)
EXTENDS Layout, TLC

MCPresets == <<Preset("cluster_overview", FALSE, {"container_table"}),
               Preset("network_traffic", FALSE, {"network_bus"})>>

(* Browser tabs and new ids are interchangeable.                           *)
MCSymmetry == Permutations(Tabs) \cup Permutations(Customs)
=============================================================================
