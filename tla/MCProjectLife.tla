---------------------------- MODULE MCProjectLife ----------------------------
EXTENDS ProjectLife, TLC

\* Who owns a project makes no difference, nor do the names of issues.
LifeSymmetry == Permutations(Requests) \cup Permutations(Fingerprints)
=============================================================================
