------------------------------ MODULE MCExecv ------------------------------
EXTENDS Execv, TLC

Symmetry == Permutations(Procs) \cup Permutations(AddrSpaces)
=============================================================================
