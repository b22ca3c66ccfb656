------------------------------ MODULE MCSynch ------------------------------
EXTENDS Synch, TLC
Symmetry == Permutations(Threads) \cup Permutations(CVs)
=============================================================================
