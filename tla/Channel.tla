-------------------------------- MODULE Channel --------------------------------
(***************************************************************************)
(* What one direction of a tunnel promises its two threads: every package  *)
(* forwarded is processed once, in the order of the tunnel_forward calls.  *)
(***************************************************************************)
EXTENDS Sequences

CONSTANTS Package, None

VARIABLES queue,        \* packages forwarded and not yet processed
          latest        \* the package processed last

Init == queue = <<>> /\ latest = None

Forward(p) == queue' = Append(queue, p) /\ UNCHANGED latest

Process == /\ queue # <<>>
           /\ latest' = Head(queue)
           /\ queue' = Tail(queue)

Next == Process \/ \E p \in Package : Forward(p)

Spec == Init /\ [][Next]_<<queue, latest>>

FairSpec == Spec /\ WF_<<queue, latest>>(Process)
=============================================================================
