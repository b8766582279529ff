------------------------------ MODULE MCDispatch ------------------------------
EXTENDS Dispatch, TLC

Symmetry == Permutations(Client)
=============================================================================
