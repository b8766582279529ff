------------------------------- MODULE HttpCtx -------------------------------
(***************************************************************************)
(* http_ctx (src/connection/http_ctx.cpp): one client of a worker that     *)
(* serves HTTP or HTTPS, from on_create to on_close, with the kernel's     *)
(* socket and the peer around it.                                          *)
(*                                                                         *)
(* conn is the connection, its context and its socket in one record.  in   *)
(* is the kernel's receive queue: a sequence of segments, each a sequence  *)
(* of tokens; a segment is one TLS record when use_ssl.  pending is what   *)
(* OpenSSL has decrypted and SSL_read has not returned yet: epoll knows    *)
(* nothing of it.  out counts the units in the kernel's send queue.        *)
(*                                                                         *)
(* A request is the sequence of its tokens: the head, then one token per   *)
(* piece of the body that the parser sees.  req, method, header_keep_alive *)
(* are what the parser has collected; they are appended to, and cleared    *)
(* only by on_create.  wire, owed and fault record the current response:   *)
(* what was sent, what the request is owed, which fault it met.            *)
(***************************************************************************)
EXTENDS HttpApp, SequencesExt

CONSTANTS
    Request,        \* Request[k]: what the k-th request of a connection may be
    FileSystem,     \* the records [file, dir] of sizes
    recv_units,     \* units one on_event receives (10240 bytes)
    socket_units    \* units the kernel's send queue holds

VARIABLES use_ssl, fs, conn, peer, timer

vars == <<use_ssl, fs, conn, peer, timer>>

RE == {"READ", "ERR"}
RWE == {"READ", "WRITE", "ERR"}

NoCallback == [kind |-> "none", head |-> FALSE, partial |-> FALSE]

NoRequest == [target |-> "none"]

event_mod(c, events) == [c EXCEPT !.interest = events]

(* mark_app_layer_notified, mark_delete_timeout_timer, on_new_connection.  *)
Notified(c) == [c EXCEPT !.app_layer_notified = TRUE]

on_create(c, keep_alive) ==
    LET fresh == [c EXCEPT !.app_layer_notified = FALSE,
                           !.req = NoRequest, !.method = "", !.header_keep_alive = FALSE,
                           !.in_message = FALSE,
                           !.write_end_callback = NoCallback, !.destory_callback = FALSE,
                           !.ptr = NULL,
                           !.recv_end = FALSE, !.process_end = FALSE, !.response_end = FALSE,
                           !.everything_end = FALSE, !.keep_alive = keep_alive,
                           !.recv_body_size = 0]
    IN  IF ~use_ssl \/ keep_alive THEN Notified(fresh) ELSE fresh

(* connection::on_alloc, when the connection is reused.                    *)
on_alloc(c) == [c EXCEPT !.is_close = FALSE, !.send_buffer = <<>>]

RunsDestory(c) ==
    IF c.destory_callback THEN [destory_callback(c) EXCEPT !.destory_callback = FALSE] ELSE c

(* close_client_fd: on_close, socket::close, the poller and the table.     *)
close_client_fd(c) ==
    [RunsDestory(c) EXCEPT !.open = FALSE, !.is_close = FALSE, !.interest = {},
                           !.send_buffer = <<>>, !.in = <<>>, !.pending = <<>>, !.out = 0]

(***************************************************************************)
(* The parser's callbacks on one token.                                    *)
(***************************************************************************)
Completes(c, token) == [c EXCEPT !.in_message = ~token.last, !.recv_end = @ \/ token.last]

ParseHead(c, token) ==
    LET first == c.method = ""
    IN  Completes([c EXCEPT !.req = IF first THEN token.req ELSE @,
                            !.method = IF first THEN token.req.method ELSE "joined",
                            !.header_keep_alive = @ \/ token.req.keep_alive],
                  token)

ParseError(c) == [c EXCEPT !.everything_end = TRUE]

(* After a complete message the parser goes on to the next one, or refuses *)
(* it when the message did not keep the connection.                        *)
Parse(c, token) ==
    IF c.everything_end THEN {c}
    ELSE IF token.part = "head" /\ ~c.in_message
    THEN {ParseHead(c, token)}
         \cup (IF c.recv_end /\ ~c.header_keep_alive THEN {ParseError(c)} ELSE {})
    ELSE IF token.part = "body" /\ c.in_message
    THEN LET counted == BodyPiece(c, token.len)
         IN  {IF counted.everything_end THEN counted ELSE Completes(counted, token)}
    ELSE {ParseError(c)}

llhttp_execute(c, tokens) ==
    FoldLeft(LAMBDA S, token : UNION {Parse(x, token) : x \in S}, {c}, tokens)

(***************************************************************************)
(* The receive loop: calls of recv until recv_units are read, nothing is   *)
(* left, the parser refuses, or the peer has closed.                       *)
(***************************************************************************)
(* One call of recv: what is left of the segment stays with OpenSSL, or in *)
(* the kernel.                                                             *)
Receive(c, segment, room) ==
    LET taken == SubSeq(segment, 1, Smaller(room, Len(segment)))
        rest == SubSeq(segment, Len(taken) + 1, Len(segment))
    IN  {IF use_ssl THEN [x EXCEPT !.pending = rest]
         ELSE [x EXCEPT !.in = IF rest = <<>> THEN <<>> ELSE <<rest>>]
         : x \in llhttp_execute(c, taken)}

RECURSIVE ReceiveLoop(_, _)
ReceiveLoop(c, room) ==
    LET stops == c.everything_end \/ room = 0
        segment == IF c.pending # <<>> THEN c.pending
                   ELSE IF c.in = <<>> THEN <<>>
                   ELSE IF use_ssl THEN c.in[1] ELSE FlattenSeq(c.in)
        kernel == IF c.pending = <<>> /\ c.in # <<>> THEN [c EXCEPT !.in = Tail(@)] ELSE c
    IN  IF stops THEN {c}
        ELSE IF segment = <<>> THEN {IF peer.closed THEN ParseError(c) ELSE c}
        ELSE UNION {ReceiveLoop(x, room - Smaller(room, Len(segment)))
                    : x \in Receive(kernel, segment, room)}

Reading(c, event) ==
    IF ~c.recv_end /\ ~c.everything_end /\ "READ" \in event
    THEN ReceiveLoop(c, recv_units)
    ELSE {c}

(***************************************************************************)
(* process_connection installs the callbacks; process_callback runs.       *)
(***************************************************************************)
Owing(c) == [c EXCEPT !.owed = Owed(c, fs), !.wire = <<>>]

Processing(c) ==
    IF ~c.everything_end /\ c.recv_end /\ ~c.process_end
    THEN LET bound == [c EXCEPT !.process_end = TRUE, !.destory_callback = TRUE, !.fault = "none"]
         IN  {Owing(x) : x \in process_callback(bound, fs)}
    ELSE {c}

(***************************************************************************)
(* The send loop, and the callback for more once the buffer has drained.   *)
(***************************************************************************)
SendLoop(c) ==
    LET n == Smaller(Len(c.send_buffer), socket_units - c.out)
        sent == [c EXCEPT !.wire = @ \o SubSeq(c.send_buffer, 1, n),
                          !.send_buffer = SubSeq(c.send_buffer, n + 1, Len(c.send_buffer)),
                          !.out = @ + n]
    IN  {sent} \cup IF peer.closed /\ c.send_buffer # <<>>
                    THEN {[c EXCEPT !.response_end = TRUE, !.everything_end = TRUE,
                                    !.fault = "send"]}
                    ELSE {}

Drained(c) ==
    IF c.send_buffer = <<>> /\ ~c.response_end
    THEN IF c.write_end_callback = NoCallback THEN {ParseError(c)}
         ELSE write_end_callback(c, fs)
    ELSE {c}

Writing(c, event) ==
    IF ~c.everything_end /\ c.process_end
    THEN UNION {Drained(x) : x \in IF "WRITE" \in event THEN SendLoop(c) ELSE {c}}
    ELSE {c}

(***************************************************************************)
(* The end of on_event: a finished request releases its resources; a kept  *)
(* connection starts again, any other asks to be closed.                   *)
(***************************************************************************)
Finished_unsent(c) ==                       \* mutant
    IF c.response_end THEN [c EXCEPT !.everything_end = TRUE] ELSE c

Finished(c) ==
    IF c.send_buffer = <<>> /\ c.response_end THEN [c EXCEPT !.everything_end = TRUE] ELSE c

KeepAlive_leaks(c) ==                       \* mutant
    IF ~c.everything_end THEN c
    ELSE IF c.keep_alive THEN on_create(on_alloc(c), TRUE)
    ELSE RunsDestory(c)

KeepAlive(c) ==
    IF ~c.everything_end THEN c
    ELSE IF c.keep_alive THEN on_create(on_alloc(RunsDestory(c)), TRUE)
    ELSE RunsDestory(c)

Continues_reading(c) ==                     \* mutant
    IF ~c.everything_end THEN event_mod(c, RE)
    ELSE event_mod([c EXCEPT !.is_close = TRUE], RWE)

Continues(c) ==
    IF ~c.everything_end /\ ~c.recv_end THEN event_mod(c, RE)
    ELSE IF ~c.everything_end THEN event_mod(c, RWE)
    ELSE event_mod([c EXCEPT !.is_close = TRUE], RWE)

Serve(c, event) ==
    LET read == Reading(c, event)
        processed == UNION {Processing(x) : x \in read}
        written == UNION {Writing(x, event) : x \in processed}
        finished == {Finished(x) : x \in written}
    IN  {Continues(x) : x \in {KeepAlive(y) : y \in finished}}

Handshaking(c) == use_ssl /\ ~c.ssl_accepted

Accepted(c) == Notified([c EXCEPT !.ssl_accepted = TRUE])

on_event(c, event) ==
    IF "ERR" \in event \/ c.is_close THEN {close_client_fd(c)}
    ELSE IF Handshaking(c)
    THEN {event_mod(c, RWE), event_mod(c, RE), event_mod([c EXCEPT !.is_close = TRUE], RWE)}
         \cup UNION {Serve(x, event) : x \in {Accepted(c)}}
    ELSE Serve(c, event)

(***************************************************************************)
(* The connection as worker::on_new_client_fd leaves it.                   *)
(***************************************************************************)
Allocated ==
    [open |-> TRUE, is_close |-> FALSE, interest |-> RWE, ssl_accepted |-> FALSE,
     app_layer_notified |-> FALSE, in |-> <<>>, pending |-> <<>>, out |-> 0,
     req |-> NoRequest, method |-> "", header_keep_alive |-> FALSE, in_message |-> FALSE,
     recv_end |-> FALSE, process_end |-> FALSE, response_end |-> FALSE,
     everything_end |-> FALSE, keep_alive |-> FALSE, recv_body_size |-> 0,
     write_end_callback |-> NoCallback, destory_callback |-> FALSE, ptr |-> NULL,
     send_buffer |-> <<>>, wire |-> <<>>, owed |-> <<>>, fault |-> "none",
     heap |-> [resource \in {"response", "file", "deflate", "listing"} |-> 0]]

Init ==
    /\ use_ssl \in BOOLEAN
    /\ fs \in FileSystem
    /\ conn = on_create(Allocated, FALSE)
    /\ peer = [todo |-> <<>>, sent |-> 0, closed |-> FALSE]
    /\ timer = TRUE

(***************************************************************************)
(* The worker's loop delivers an event: some of what is ready.             *)
(***************************************************************************)
Ready ==
    conn.interest \cap
        ((IF conn.in # <<>> \/ peer.closed THEN {"READ"} ELSE {})
         \cup (IF conn.out < socket_units THEN {"WRITE"} ELSE {})
         \cup (IF peer.closed THEN {"ERR"} ELSE {}))

Deliver(event) ==
    /\ conn' \in on_event(conn, event)
    /\ timer' = (timer /\ ~conn'.app_layer_notified /\ conn'.open)
    /\ UNCHANGED <<use_ssl, fs, peer>>

OnEvent ==
    /\ conn.open /\ ~Handshaking(conn)
    /\ \E event \in SUBSET Ready \ {{}} : Deliver(event)

(* While TLS is negotiated the peer's handshake messages make it readable. *)
OnHandshakeEvent ==
    /\ conn.open /\ Handshaking(conn)
    /\ \E event \in SUBSET (conn.interest \cap (Ready \cup {"READ"})) \ {{}} : Deliver(event)

(* The timer of worker::on_new_client_fd closes a client that has not been *)
(* announced to the application in time.                                   *)
OnTimeout ==
    /\ timer
    /\ timer' = FALSE
    /\ conn' = IF conn.open /\ ~conn.app_layer_notified THEN close_client_fd(conn) ELSE conn
    /\ UNCHANGED <<use_ssl, fs, peer>>

(***************************************************************************)
(* The peer.                                                               *)
(***************************************************************************)
Tokens(req) ==
    LET n == Len(req.body)
        part == IF req.method = "malformed" THEN "malformed" ELSE "head"
    IN  <<[part |-> part, req |-> req, len |-> 0, last |-> n = 0]>>
        \o [i \in 1..n |-> [part |-> "body", req |-> req, len |-> req.body[i], last |-> i = n]]

Established == conn.open /\ ~peer.closed /\ ~Handshaking(conn)

StartRequest(req) ==
    /\ Established
    /\ peer.todo = <<>>
    /\ peer' = [peer EXCEPT !.todo = Tokens(req), !.sent = @ + 1]
    /\ UNCHANGED <<use_ssl, fs, conn, timer>>

(* One segment: as many of the tokens as the peer puts into it.            *)
SendSegment(n) ==
    /\ Established
    /\ peer' = [peer EXCEPT !.todo = SubSeq(@, n + 1, Len(@))]
    /\ conn' = [conn EXCEPT !.in = Append(@, SubSeq(peer.todo, 1, n))]
    /\ UNCHANGED <<use_ssl, fs, timer>>

ReadResponse ==
    /\ conn.open /\ ~peer.closed /\ conn.out > 0
    /\ conn' = [conn EXCEPT !.out = 0]
    /\ UNCHANGED <<use_ssl, fs, peer, timer>>

ClosePeer ==
    /\ conn.open /\ ~peer.closed
    /\ peer' = [peer EXCEPT !.closed = TRUE]
    /\ UNCHANGED <<use_ssl, fs, conn, timer>>

Next ==
    \/ OnEvent
    \/ OnHandshakeEvent
    \/ OnTimeout
    \/ peer.sent < Len(Request) /\ \E req \in Request[peer.sent + 1] : StartRequest(req)
    \/ \E n \in 1..Len(peer.todo) : SendSegment(n)
    \/ ReadResponse
    \/ ClosePeer

(***************************************************************************)
(* Properties.                                                             *)
(***************************************************************************)
(* Faults that cut a response short: http_ctx learns of them only by       *)
(* everything_end or response_end.                                         *)
Aborts == {"throw", "deflate", "fread", "send"}

(* The listing of a directory is one block at most: of a longer one every  *)
(* block repeats the first (http_app.cpp:902).                             *)
ListingFits == \A i \in DOMAIN conn.owed : conn.owed[i][1] = "listing" => conn.owed[i][2] <= block_size

(* What http_ctx has sent and queued for a request is a prefix of what the *)
(* request is owed, whatever the sizes of the file, of the range and of    *)
(* the socket's buffer, and with nothing of the response before it; and    *)
(* when the context has let go of the request, to be reused or closed, the *)
(* whole response has been handed to the socket.                           *)
ResponseExact ==
    conn.open /\ conn.fault \notin Aborts /\ ListingFits
    => /\ conn.process_end => IsPrefix(conn.wire \o conn.send_buffer, conn.owed)
       /\ (conn.is_close \/ ~conn.process_end) => conn.wire = conn.owed

(* The response object, its file, its deflate state and its listing are    *)
(* released once and only once, at every way out of a request: the end of  *)
(* the response, a fault, a keep-alive reuse, the close of the peer and    *)
(* the handshake timer.                                                    *)
ReleasedOnce ==
    /\ conn.heap["response"] = (IF conn.ptr = NULL THEN 0 ELSE 1)
    /\ conn.heap["file"] = (IF conn.ptr # NULL /\ conn.ptr.type = "FD" /\ conn.ptr.open
                            THEN 1 ELSE 0)
    /\ conn.heap["listing"] = (IF conn.ptr # NULL /\ conn.ptr.type = "DIR" /\ conn.ptr.open
                               THEN 1 ELSE 0)
    /\ conn.heap["deflate"] = (IF conn.ptr # NULL /\ conn.ptr.gzip_initialized THEN 1 ELSE 0)
    /\ ~conn.open \/ ~conn.process_end => conn.ptr = NULL

(* Something the worker still owes the client.                             *)
Unserved ==
    conn.open /\ (~conn.app_layer_notified \/ conn.is_close \/ conn.process_end \/ conn.in # <<>>)
=============================================================================
