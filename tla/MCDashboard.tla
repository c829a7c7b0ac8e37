----------------------------- MODULE MCDashboard -----------------------------
EXTENDS Dashboard, TLC

CONSTANTS ann, bob, p1

\* Ann's project; Bob has none.
MCOwner == (p1 :> ann)

RequestSymmetry == Permutations(Requests)
=============================================================================
