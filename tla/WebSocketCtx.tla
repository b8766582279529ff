---------------------------- MODULE WebSocketCtx ----------------------------
(***************************************************************************)
(* websocket_ctx (src/connection/websocket_ctx.cpp): one client of a       *)
(* worker that serves WebSocket, through the TLS handshake, the HTTP       *)
(* upgrade and the frames, with the kernel's socket and the peer around    *)
(* it.  conn is the connection, its context and its socket in one record.  *)
(* in is the kernel's receive queue: a sequence of segments, each one TLS  *)
(* record when use_ssl.  pending is what OpenSSL has decrypted and         *)
(* SSL_read has not returned yet: epoll knows nothing of it.  out counts   *)
(* the bytes in the kernel's send queue, wire is all that was sent.        *)
(*                                                                         *)
(* The upgrade request is two tokens, written as negative bytes; the       *)
(* second says how the request ends.  The peer sends frames only once it   *)
(* has been answered 101, as RFC 6455 asks of it.                          *)
(***************************************************************************)
EXTENDS WebSocketApp, SequencesExt

CONSTANTS
    Frame,          \* Frame[k]: what the k-th frame of a client may be, each a record
                    \* [fin, opcode, mask, payload, claimed]
    Package,        \* what the server may send: records [broadcast, data]
    recv_bytes,     \* bytes one on_event receives (10240)
    socket_bytes,   \* bytes the kernel's send queue holds
    max_transfers   \* bound: frames received and packages sent

VARIABLES use_ssl, conn, peer, timer

vars == <<use_ssl, conn, peer, timer>>

(* The tokens of the upgrade request, and the answer to it.                *)
REQUEST_LINE == -1
UPGRADE == -2
NO_UPGRADE == -3
BAD_KEY_OR_VERSION == -4
MALFORMED == -5
SWITCHING_PROTOCOLS == -6

First(s, n) == SubSeq(s, 1, n)
Drop(s, n) == SubSeq(s, n + 1, Len(s))
Least(a, b) == IF a < b THEN a ELSE b

(***************************************************************************)
(* Sending.                                                                *)
(***************************************************************************)
try_send_flush_clears(c) ==                 \* mutant
    LET n == Least(Len(c.send_buffer), socket_bytes - c.out)
        sent == [c EXCEPT !.wire = @ \o First(c.send_buffer, n), !.send_buffer = <<>>, !.out = @ + n]
    IN  IF c.send_buffer = <<>> THEN {event_mod(c, RE)}
        ELSE {sent} \cup (IF peer.closed THEN {Closing(c)} ELSE {})

try_send_flush(c) ==
    LET n == Least(Len(c.send_buffer), socket_bytes - c.out)
        sent == [c EXCEPT !.wire = @ \o First(c.send_buffer, n),
                          !.send_buffer = Drop(c.send_buffer, n),
                          !.out = @ + n]
    IN  IF c.send_buffer = <<>> THEN {event_mod(c, RE)}
        ELSE {IF sent.send_buffer = <<>> THEN sent ELSE event_mod(sent, RWE)}
             \cup (IF peer.closed THEN {Closing(c)} ELSE {})

send_data(c, data) ==
    IF c.is_close \/ ~c.is_ready THEN {c}
    ELSE try_send_flush([c EXCEPT !.send_buffer = @ \o data])

send_sync_package(c, opcode, data) ==
    IF Overfull(c) THEN {Closing(c)} ELSE send_data(c, FrameOf(opcode, data))

(***************************************************************************)
(* A receive loop calls recv until recv_bytes are read or nothing is left. *)
(* It reads Readable and leaves Received; of the last segment it touches,  *)
(* what it does not read stays with OpenSSL, or in the kernel.             *)
(***************************************************************************)
Arrived(c) ==
    IF c.in = <<>> THEN c.pending
    ELSE IF use_ssl THEN c.pending \o FlattenSeq(c.in) ELSE c.in[1]

Readable(c) == LET all == Arrived(c) IN First(all, Least(Len(all), recv_bytes))

Received(c) ==
    LET all == Arrived(c)
        n == Len(Readable(c))
        Through(k) == Len(all) - Len(FlattenSeq(Drop(c.in, k)))
        last == CHOOSE k \in 0..Len(c.in) :
                    Through(k) >= n /\ \A j \in 0..(k - 1) : Through(j) < n
        unread == IF n = Len(all) THEN <<>> ELSE SubSeq(all, n + 1, Through(last))
        rest == IF n = Len(all) THEN <<>> ELSE Drop(c.in, last)
    IN  IF use_ssl THEN [c EXCEPT !.in = rest, !.pending = unread]
        ELSE [c EXCEPT !.in = IF unread = <<>> THEN <<>> ELSE <<unread>>]

(* A peer that closed makes the next recv return 0.                        *)
RecvReturnsZero(c) == peer.closed /\ Len(Readable(c)) < recv_bytes

(***************************************************************************)
(* The upgrade.  on_message_complete sets http_processed.                  *)
(***************************************************************************)
ParseToken(c, token) ==
    CASE token = REQUEST_LINE -> c
      [] token = UPGRADE -> [c EXCEPT !.http_processed = TRUE, !.is_upgrade = TRUE, !.key_ok = TRUE]
      [] token = NO_UPGRADE -> [c EXCEPT !.http_processed = TRUE]
      [] token = BAD_KEY_OR_VERSION -> [c EXCEPT !.http_processed = TRUE, !.is_upgrade = TRUE]
      [] token = MALFORMED -> [c EXCEPT !.refused = TRUE]

(* The receive loop of the upgrade.                                        *)
ReceiveUpgrade(c) ==
    LET parsed == FoldLeft(ParseToken, Received(c), Readable(c))
    IN  [parsed EXCEPT !.refused = @ \/ RecvReturnsZero(c)]

(* mark_app_layer_notified, mark_delete_timeout_timer and                  *)
(* on_new_connection, which may throw.                                     *)
Announced(c) == [c EXCEPT !.app_layer_notified = TRUE]
AnnounceFailed(c) == Closing(Announced(c))

Switched(c) ==
    [c EXCEPT !.send_buffer = Append(@, SWITCHING_PROTOCOLS),
              !.is_connected = TRUE, !.is_ready = TRUE]

(***************************************************************************)
(* The connected part of on_event.                                         *)
(***************************************************************************)
ReceiveFrames_overwrites(c, event) ==       \* mutant
    IF "READ" \notin event THEN {c}
    ELSE IF RecvReturnsZero(c) THEN {[Received(c) EXCEPT !.refused = TRUE]}
    ELSE {[Received(c) EXCEPT !.recv_buffer = Readable(c)]}

ReceiveFrames(c, event) ==
    IF "READ" \notin event THEN {c}
    ELSE IF RecvReturnsZero(c) THEN {[Received(c) EXCEPT !.refused = TRUE]}
    ELSE {[Received(c) EXCEPT !.recv_buffer = @ \o Readable(c)]}

Flush(c, event) == IF "WRITE" \in event THEN try_send_flush(c) ELSE {c}

Process(c) == IF c.recv_buffer = <<>> THEN {c} ELSE on_process_connection(c)

Connected(c, event) ==
    UNION {IF x.refused THEN {Closing([x EXCEPT !.refused = FALSE])}
           ELSE UNION {IF y.threw THEN {Closing([y EXCEPT !.threw = FALSE])} ELSE Flush(y, event)
                       : y \in Process(x)}
           : x \in ReceiveFrames(c, event)}

Handshake(c, event) ==
    IF c.refused THEN {Closing([c EXCEPT !.refused = FALSE])}
    ELSE IF ~c.http_processed THEN {event_mod(c, RE)}
    ELSE IF ~c.is_upgrade \/ ~c.key_ok THEN {Closing(c)}
    ELSE UNION {{AnnounceFailed(x)} \cup
                UNION {Connected(y, event) : y \in {Announced(x)}}
                : x \in UNION {try_send_flush(y) : y \in {Switched(c)}}}

Exchange(c, event) ==
    IF c.is_connected THEN Connected(c, event)
    ELSE IF c.http_processed THEN {Closing(c)}
    ELSE UNION {Handshake(x, event)
                : x \in {IF "READ" \in event THEN ReceiveUpgrade(c) ELSE c}}

(* ssl_accepted is true from the start on a server without TLS.             *)
Handshaking(c) == ~c.ssl_accepted

close_client_fd(c) ==
    [c EXCEPT !.open = FALSE, !.is_close = FALSE, !.interest = {}, !.in = <<>>, !.pending = <<>>,
              !.out = 0, !.send_buffer = <<>>, !.recv_buffer = <<>>, !.frame_payload_data = <<>>]

on_event(c, event) ==
    IF "ERR" \in event \/ c.is_close THEN {close_client_fd(c)}
    ELSE IF Handshaking(c)
    THEN {event_mod(c, RWE), event_mod(c, RE), Closing(c)}
         \cup UNION {Exchange(x, event) : x \in {[c EXCEPT !.ssl_accepted = TRUE]}}
    ELSE Exchange(c, event)

(***************************************************************************)
(* The connection as worker::on_new_client_fd and on_create leave it.      *)
(***************************************************************************)
on_create ==
    [open |-> TRUE, is_close |-> FALSE, is_ready |-> FALSE, interest |-> RWE,
     ssl_accepted |-> ~use_ssl, app_layer_notified |-> FALSE,
     http_processed |-> FALSE, is_upgrade |-> FALSE, key_ok |-> FALSE, is_connected |-> FALSE,
     refused |-> FALSE, threw |-> FALSE,
     in |-> <<>>, pending |-> <<>>, out |-> 0, recv_buffer |-> <<>>, frame_payload_data |-> <<>>,
     send_buffer |-> <<>>, wire |-> <<>>, forwarded |-> <<>>]

Init ==
    /\ use_ssl \in BOOLEAN
    /\ conn = on_create
    /\ peer = [todo |-> <<>>, asked |-> FALSE, closed |-> FALSE, frames |-> 0,
               fragment |-> <<>>, messages |-> <<>>, packages |-> <<>>]
    /\ timer = TRUE

Ready ==
    conn.interest \cap
        ((IF conn.in # <<>> \/ peer.closed THEN {"READ"} ELSE {})
         \cup (IF conn.out < socket_bytes THEN {"WRITE"} ELSE {})
         \cup (IF peer.closed THEN {"ERR"} ELSE {}))

Deliver(event) ==
    /\ conn' \in on_event(conn, event)
    /\ timer' = (timer /\ ~conn'.app_layer_notified /\ conn'.open)
    /\ UNCHANGED <<use_ssl, peer>>

OnEvent ==
    /\ conn.open /\ ~Handshaking(conn)
    /\ \E event \in SUBSET Ready \ {{}} : Deliver(event)

OnHandshakeEvent ==
    /\ conn.open /\ Handshaking(conn)
    /\ \E event \in SUBSET (conn.interest \cap (Ready \cup {"READ"})) \ {{}} : Deliver(event)

(* The timer of worker::on_new_client_fd.                                  *)
OnTimeout ==
    /\ timer
    /\ timer' = FALSE
    /\ conn' = IF conn.open /\ ~conn.app_layer_notified THEN close_client_fd(conn) ELSE conn
    /\ UNCHANGED <<use_ssl, peer>>

(* on_client_forward_message: a package for the client goes into a binary  *)
(* frame, the text of a broadcast, once parsed, into a text frame.         *)
SendPackage(package) ==
    LET opcode == IF package.broadcast THEN TEXT_FRAME ELSE BINARY_FRAME
        unparsed == package.broadcast /\ package.data \in Unparsable
    IN  /\ conn.open /\ conn.is_ready
        /\ peer.frames + Len(peer.packages) < max_transfers
        /\ conn' \in IF unparsed THEN {conn} ELSE send_sync_package(conn, opcode, package.data)
        /\ peer' = [peer EXCEPT !.packages =
                        IF unparsed \/ conn.is_close \/ Overfull(conn) THEN @
                        ELSE Append(@, <<opcode, package.data>>)]
        /\ UNCHANGED <<use_ssl, timer>>

(* on_worker_tunnel: the Lua VM closes the client.                         *)
CloseByLuaVM ==
    /\ conn.open /\ conn.is_ready
    /\ conn' = Closing(conn)
    /\ UNCHANGED <<use_ssl, peer, timer>>

(***************************************************************************)
(* The peer.                                                               *)
(***************************************************************************)
Established == conn.open /\ ~peer.closed /\ ~Handshaking(conn) /\ peer.todo = <<>>

AskUpgrade(end) ==
    /\ Established /\ ~peer.asked
    /\ peer' = [peer EXCEPT !.asked = TRUE, !.todo = <<REQUEST_LINE, end>>]
    /\ UNCHANGED <<use_ssl, conn, timer>>

(* claimed is the length in the header; the payload it announces need not  *)
(* follow.                                                                 *)
WireFormat(frame) ==
    LET key == <<1, 0>>
        length == LengthBytes(frame.claimed)
    IN  <<(IF frame.fin THEN 16 ELSE 0) + frame.opcode>>
        \o <<length[1] + (IF frame.mask THEN 4 ELSE 0)>> \o Tail(length)
        \o (IF frame.mask THEN key \o Masked(frame.payload, key) ELSE frame.payload)

StartFrame(frame) ==
    /\ Established /\ conn.wire # <<>>
    /\ LET whole == peer.fragment \o frame.payload
           honest == frame.claimed = Len(frame.payload)
           complete == honest /\ frame.fin
       IN  peer' = [peer EXCEPT !.todo = WireFormat(frame),
                                !.frames = IF honest THEN @ + 1 ELSE max_transfers,
                                !.fragment = IF complete THEN <<>> ELSE whole,
                                !.messages = IF complete THEN Append(@, whole) ELSE @]
    /\ UNCHANGED <<use_ssl, conn, timer>>

(* Without TLS the kernel joins what arrives.  With TLS a client writes a  *)
(* frame as one record: this bounds the records, since the bytes of a      *)
(* frame are already cut everywhere without.                               *)
Cuts(todo) == IF use_ssl THEN {Len(todo)} ELSE 1..Len(todo)

SendSegment(n) ==
    /\ conn.open /\ ~peer.closed /\ ~Handshaking(conn)
    /\ peer' = [peer EXCEPT !.todo = Drop(@, n)]
    /\ LET segments == Append(conn.in, First(peer.todo, n))
       IN  conn' = [conn EXCEPT !.in = IF use_ssl THEN segments ELSE <<FlattenSeq(segments)>>]
    /\ UNCHANGED <<use_ssl, timer>>

ReadSocket ==
    /\ conn.open /\ ~peer.closed /\ conn.out > 0
    /\ conn' = [conn EXCEPT !.out = 0]
    /\ UNCHANGED <<use_ssl, peer, timer>>

ClosePeer ==
    /\ conn.open /\ ~peer.closed
    /\ peer' = [peer EXCEPT !.closed = TRUE]
    /\ UNCHANGED <<use_ssl, conn, timer>>

Next ==
    \/ OnEvent
    \/ OnHandshakeEvent
    \/ OnTimeout
    \/ \E package \in Package : SendPackage(package)
    \/ CloseByLuaVM
    \/ \E end \in {UPGRADE, NO_UPGRADE, BAD_KEY_OR_VERSION, MALFORMED} : AskUpgrade(end)
    \/ peer.frames + Len(peer.packages) < max_transfers
       /\ \E frame \in Frame[peer.frames + 1] : StartFrame(frame)
    \/ peer.todo # <<>> /\ \E n \in Cuts(peer.todo) : SendSegment(n)
    \/ ReadSocket
    \/ ClosePeer

(***************************************************************************)
(* Properties.                                                             *)
(***************************************************************************)
(* However the bytes of the frames are split between the events, masked,   *)
(* fragmented, and with whatever width of length, the messages that reach  *)
(* the Lua VM are the messages the client sent, in order and unchanged,    *)
(* except for those ParseFromArray refuses; and on a connection that is    *)
(* not to be closed nothing that has arrived is held back, but for the     *)
(* rest of a TLS record that OpenSSL still holds after recv_bytes: on_event *)
(* never asks for it (SSL_pending), so it waits for the next segment.      *)
Reassembled ==
    LET valid == SelectSeq(peer.messages, LAMBDA m : m \notin Unparsable)
    IN  /\ IsPrefix(conn.forwarded, valid)
        /\ /\ conn.open /\ conn.is_connected /\ ~conn.is_close
           /\ conn.in = <<>> /\ conn.pending = <<>> /\ peer.todo = <<>>
           => conn.forwarded = valid

RECURSIVE Decoded(_)
Decoded(bytes) ==
    IF ~(HasHeader(bytes) /\ HasPayload(bytes)) THEN <<>>
    ELSE <<<<Opcode(bytes), Payload(bytes)>>>>
         \o Decoded(Drop(bytes, HeaderBytes(bytes) + PayloadLength(bytes)))

(* What send_sync_package frames, a reader of frames gets back: the answer *)
(* to the upgrade comes first, then the packages and the broadcasts in     *)
(* order, each with its kind of frame, across every width of the length    *)
(* and however the socket takes them.                                      *)
PackagesFramed ==
    conn.open /\ conn.is_connected
    => LET bytes == conn.wire \o conn.send_buffer
       IN  /\ bytes[1] = SWITCHING_PROTOCOLS
           /\ Decoded(Tail(bytes)) = peer.packages

(* Something the worker still owes the client.  A connection that is to be *)
(* closed is not counted: try_send_flush may take WRITE out of its         *)
(* interest (websocket_ctx.cpp:602), and then it waits for the peer.       *)
Unserved ==
    conn.open /\ (~conn.app_layer_notified \/ conn.send_buffer # <<>> \/ conn.in # <<>>)
=============================================================================
