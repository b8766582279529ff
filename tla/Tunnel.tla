-------------------------------- MODULE Tunnel --------------------------------
(***************************************************************************)
(* One direction of a tunnel: a thread appends packages to the send_buffer *)
(* of its end and flushes it into the socket pair (tunnel_forward,         *)
(* try_send_flush_tunnel), the thread at the other end reads bytes into    *)
(* its recv_buffer and processes every complete package (on_tunnel_event). *)
(* The main thread, the workers and the other thread have the same code:   *)
(* the definitions follow the main thread as the sender and a worker as    *)
(* the receiver.                                                           *)
(*                                                                         *)
(* Bytes are units: the first unit of a package is its length header, the  *)
(* others its body.  send() and recv() move any number of units, and stop  *)
(* with EAGAIN or EINTR.                                                   *)
(***************************************************************************)
EXTENDS Integers, Sequences

CONSTANTS Package, None,
          size,                 \* package -> its length in units
          socket_capacity,      \* units the socket pair holds
          buffer_size,          \* units one read event takes at most
          max_send_buffer       \* bound: units in send_buffer when forwarding

ASSUME SizeAssumption == size \in [Package -> Nat \ {0}]
ASSUME CapacityAssumption == /\ socket_capacity \in Nat \ {0}
                             /\ buffer_size \in Nat \ {0}
                             /\ max_send_buffer \in Nat

VARIABLES send_buffer, socket, recv_buffer,
          write_registered,     \* the epoller waits for RWE, not just RE
          sender,               \* "loop" or inside try_send_flush_tunnel
          receiver,             \* "loop", "recv" or "parse" in on_tunnel_event
          buffer_len,           \* units the current read event has taken
          latest                \* the package on_tunnel_process had last

senderVars == <<send_buffer, write_registered, sender>>
receiverVars == <<recv_buffer, receiver, buffer_len, latest>>
vars == <<senderVars, socket, receiverVars>>

Unit == [pkg : Package, at : Nat]

pack_package(p) == [i \in 1 .. size[p] |-> [pkg |-> p, at |-> i]]

First(n, s) == SubSeq(s, 1, n)
Rest(n, s) == SubSeq(s, n + 1, Len(s))

-----------------------------------------------------------------------------
(* sender *)

(* tunnel_forward with flush: the package is appended and flushed.         *)
tunnel_forward(p) ==
    /\ sender = "loop" /\ Len(send_buffer) <= max_send_buffer
    /\ send_buffer' = send_buffer \o pack_package(p)
    /\ sender' = "flush"
    /\ UNCHANGED <<write_registered, socket, receiverVars>>

(* tunnel_forward without flush: left to the next write event.             *)
tunnel_forward_later(p) ==
    /\ sender = "loop" /\ Len(send_buffer) <= max_send_buffer
    /\ send_buffer' = send_buffer \o pack_package(p)
    /\ write_registered' = TRUE
    /\ UNCHANGED <<sender, socket, receiverVars>>

write_event_keeps_interest ==               \* mutant
    /\ sender = "loop" /\ write_registered /\ Len(socket) < socket_capacity
    /\ sender' = IF send_buffer = <<>> THEN "loop" ELSE "flush"
    /\ UNCHANGED <<write_registered, send_buffer, socket, receiverVars>>

(* The socket is writable: flush, or drop the interest in writing.         *)
write_event ==
    /\ sender = "loop" /\ write_registered /\ Len(socket) < socket_capacity
    /\ IF send_buffer = <<>>
       THEN write_registered' = FALSE /\ sender' = "loop"
       ELSE write_registered' = write_registered /\ sender' = "flush"
    /\ UNCHANGED <<send_buffer, socket, receiverVars>>

send(n) ==
    /\ sender = "flush" /\ n <= Len(send_buffer) /\ Len(socket) + n <= socket_capacity
    /\ socket' = socket \o First(n, send_buffer)
    /\ send_buffer' = Rest(n, send_buffer)
    /\ UNCHANGED <<write_registered, sender, receiverVars>>

(* EAGAIN or EINTR.                                                        *)
send_again ==
    /\ sender = "flush" /\ send_buffer # <<>>
    /\ write_registered' = TRUE
    /\ sender' = "loop"
    /\ UNCHANGED <<send_buffer, socket, receiverVars>>

flushed ==
    /\ sender = "flush" /\ send_buffer = <<>>
    /\ sender' = "loop"
    /\ UNCHANGED <<send_buffer, write_registered, socket, receiverVars>>

-----------------------------------------------------------------------------
(* receiver *)

read_event ==
    /\ receiver = "loop" /\ socket # <<>>
    /\ receiver' = "recv" /\ buffer_len' = 0
    /\ UNCHANGED <<senderVars, socket, recv_buffer, latest>>

recv(n) ==
    /\ receiver = "recv" /\ n <= Len(socket) /\ buffer_len + n <= buffer_size
    /\ recv_buffer' = recv_buffer \o First(n, socket)
    /\ socket' = Rest(n, socket)
    /\ buffer_len' = buffer_len + n
    /\ UNCHANGED <<senderVars, receiver, latest>>

(* EAGAIN, EINTR or the scratch buffer is full.                            *)
recv_end ==
    /\ receiver = "recv"
    /\ receiver' = "parse" /\ buffer_len' = 0
    /\ UNCHANGED <<senderVars, socket, recv_buffer, latest>>

(* The header is there and the body it announces as well.                  *)
HasPackage == recv_buffer # <<>> /\ size[Head(recv_buffer).pkg] <= Len(recv_buffer)

parse_moves_body_only ==                    \* mutant
    /\ receiver = "parse" /\ HasPackage
    /\ latest' = Head(recv_buffer).pkg
    /\ recv_buffer' = Rest(size[Head(recv_buffer).pkg] - 1, recv_buffer)
    /\ UNCHANGED <<senderVars, socket, receiver, buffer_len>>

parse_once ==                               \* mutant
    /\ receiver = "parse" /\ HasPackage
    /\ latest' = Head(recv_buffer).pkg
    /\ recv_buffer' = Rest(size[Head(recv_buffer).pkg], recv_buffer)
    /\ receiver' = "loop"
    /\ UNCHANGED <<senderVars, socket, buffer_len>>

(* on_tunnel_process and move_read_ptr_n.                                  *)
parse ==
    /\ receiver = "parse" /\ HasPackage
    /\ latest' = Head(recv_buffer).pkg
    /\ recv_buffer' = Rest(size[Head(recv_buffer).pkg], recv_buffer)
    /\ UNCHANGED <<senderVars, socket, receiver, buffer_len>>

parse_end ==
    /\ receiver = "parse" /\ ~HasPackage
    /\ receiver' = "loop"
    /\ UNCHANGED <<senderVars, socket, recv_buffer, buffer_len, latest>>

-----------------------------------------------------------------------------

Init == /\ send_buffer = <<>> /\ socket = <<>> /\ recv_buffer = <<>>
        /\ write_registered = FALSE
        /\ sender = "loop" /\ receiver = "loop" /\ buffer_len = 0 /\ latest = None

Amount == 1 .. socket_capacity              \* what one send or recv may move

Forward == \E p \in Package : tunnel_forward(p) \/ tunnel_forward_later(p)
Send == \E n \in Amount : send(n)
Sender == write_event \/ Send \/ send_again \/ flushed
Recv == \E n \in Amount : recv(n)
Receiver == read_event \/ Recv \/ recv_end \/ parse \/ parse_end

Next == Forward \/ Sender \/ Receiver

Spec == Init /\ [][Next]_vars

(* Both threads run; a flush or a read is not interrupted by EINTR every   *)
(* time.                                                                   *)
FairSpec == /\ Spec
            /\ WF_vars(Sender) /\ WF_vars(Receiver)
            /\ SF_vars(Send) /\ SF_vars(Recv)

-----------------------------------------------------------------------------
(* properties *)

(* Types.                                                                  *)
TypeOK == /\ send_buffer \in Seq(Unit) /\ socket \in Seq(Unit) /\ recv_buffer \in Seq(Unit)
          /\ Len(socket) <= socket_capacity
          /\ write_registered \in BOOLEAN
          /\ sender \in {"loop", "flush"}
          /\ receiver \in {"loop", "recv", "parse"}
          /\ buffer_len \in 0 .. buffer_size
          /\ latest \in Package \cup {None}

(* Between two events of the sender, unsent bytes have a write event to    *)
(* come: nothing else would ever flush them.                               *)
NoStall == sender = "loop" /\ send_buffer # <<>> => write_registered

(* The parse loop looks for the header where a package begins, however the *)
(* packages were split on their way.                                       *)
Framing == recv_buffer # <<>> => Head(recv_buffer).at = 1

(* The epoller does not keep reporting a writable tunnel with nothing to   *)
(* write.                                                                  *)
NoSpin == []<>(write_registered => send_buffer # <<>>)

stream == recv_buffer \o socket \o send_buffer

Ends(u) == u.at = size[u.pkg]

(* The packages whose last unit is in s, in order.                         *)
Packages(s) ==
    LET first[k \in 0 .. Len(s)] ==
            IF k = 0 THEN <<>>
            ELSE IF Ends(s[k]) THEN Append(first[k - 1], s[k].pkg) ELSE first[k - 1]
    IN  first[Len(s)]

C == INSTANCE Channel WITH queue <- Packages(stream)

(* The tunnel is a channel that loses, duplicates and reorders nothing and *)
(* delivers everything.                                                    *)
ImplementsChannel == C!FairSpec
=============================================================================
