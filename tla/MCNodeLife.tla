----------------------------- MODULE MCNodeLife -----------------------------
EXTENDS NodeLife, TLC

Symmetry == Permutations(Pids)
=============================================================================
