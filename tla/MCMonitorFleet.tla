--------------------------- MODULE MCMonitorFleet ---------------------------
(* Small instances of MonitorFleet for TLC.                                *)
EXTENDS MonitorFleet, TLC

Symmetry == Permutations(Slots) \cup Permutations(Requests)
=============================================================================
