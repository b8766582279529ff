----------------------------- MODULE MCWorkerLoop -----------------------------
(* Clients and descriptors are interchangeable.                            *)
EXTENDS WorkerLoop, TLC

Symmetry == Permutations(Gid) \cup Permutations(Fd)
=============================================================================
