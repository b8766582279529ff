------------------------------- MODULE MCTunnel -------------------------------
EXTENDS Tunnel, TLC

CONSTANTS p1, p2

MCsize == (p1 :> 2) @@ (p2 :> 3)
=============================================================================
