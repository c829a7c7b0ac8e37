--------------------------- MODULE MCSessionTokens ---------------------------
(* Small instances of SessionTokens for TLC.                               *)
EXTENDS SessionTokens, TLC

Symmetry == Permutations(Requests) \cup Permutations(Users) \cup Permutations(Browsers)
=============================================================================
