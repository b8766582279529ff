--------------------------- MODULE MCConnectionMgr ---------------------------
(* Four descriptors and four gids for three slots: every refusal, reuse of  *)
(* a slot by another connection and reuse of descriptors and gids occur.    *)
EXTENDS ConnectionMgr, TLC

Symmetry == Permutations(Fd) \cup Permutations(Gid)
=============================================================================
