--------------------------- MODULE MCTunnelRouter ---------------------------
(* Model values for TunnelRouter: real gids, whose low 9 bits name workers *)
(* 0 and 1; 514 names a worker that does not exist.                        *)
EXTENDS TunnelRouter

TwoOnOneWorker == {512, 513, 1025}
AloneOnItsWorker == {512}

(* Three connected clients and one message; or one client that comes, one  *)
(* connected on the other worker, and two messages.                        *)
Starts == {[connected |-> TwoOnOneWorker, refused |-> {}, named |-> TwoOnOneWorker \cup {514},
            messages |-> 1],
           [connected |-> {513}, refused |-> {1025}, named |-> {512, 513, 514}, messages |-> 2]}
=============================================================================
