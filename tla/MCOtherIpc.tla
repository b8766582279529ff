----------------------------- MODULE MCOtherIpc -----------------------------
EXTENDS OtherIpc, TLC

CONSTANTS a1, a2

Listed == <<a1, a2>>

Symmetry == Permutations(Fd) \cup Permutations(Gid)
=============================================================================
