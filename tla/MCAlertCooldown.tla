--------------------------- MODULE MCAlertCooldown ---------------------------
(* Small instances of AlertCooldown for TLC.                               *)
EXTENDS AlertCooldown, TLC
=============================================================================
