------------------------------- MODULE MCPool -------------------------------
EXTENDS Pool, TLC

Symmetry == Permutations(Threads) \cup Permutations(Objects)
=============================================================================
