------------------------------ MODULE StreamCtx ------------------------------
(***************************************************************************)
(* stream_ctx (src/connection/stream_ctx.cpp): what the context of a       *)
(* stream client does to its connection in one call.  The peer, OpenSSL    *)
(* and the application decide between the outcomes of a call, so a call is *)
(* the set of the connection states it may leave behind.                   *)
(*                                                                         *)
(* send_buffer says whether bytes wait in the send buffer.  interest is    *)
(* the last argument of event_mod.                                         *)
(***************************************************************************)

RE == {"READ", "ERR"}
RWE == {"READ", "WRITE", "ERR"}

event_mod(conn, events) == [conn EXCEPT !.interest = events]

(* set_is_close(true) and event_mod(RWE): the next event closes.           *)
Closing(conn) == [conn EXCEPT !.is_close = TRUE, !.interest = RWE]

(* mark_app_layer_notified before on_new_connection, which may throw.      *)
Notified(conn) == [conn EXCEPT !.is_ready = TRUE, !.app_layer_notified = TRUE]

on_create(conn, use_ssl) ==
    LET fresh == [conn EXCEPT !.app_layer_notified = FALSE]
    IN  IF use_ssl THEN {fresh} ELSE {Notified(fresh), Closing(Notified(fresh))}

(* Nothing to send; all sent; EAGAIN or EINTR; any other error.            *)
try_send_flush(conn) ==
    IF ~conn.send_buffer THEN {event_mod(conn, RE)}
    ELSE {[conn EXCEPT !.send_buffer = FALSE], event_mod(conn, RWE), Closing(conn)}

send_data(conn) ==
    IF conn.is_close \/ ~conn.is_ready THEN {conn}
    ELSE LET filled == [conn EXCEPT !.send_buffer = TRUE]
         IN  try_send_flush(filled) \cup {event_mod(filled, RWE)}

(* on_event takes the way out through close_client_fd.                     *)
Closes(conn, event) == "ERR" \in event \/ conn.is_close

Handshaking(conn, use_ssl) == use_ssl /\ ~conn.ssl_accepted

Accepted(conn) == Notified([conn EXCEPT !.ssl_accepted = TRUE])

(* on_process_connection may ask for the close and return, or throw; what  *)
(* was read is handled before the send buffer is flushed.                  *)
Transfer(conn, event) ==
    {Closing(conn)} \cup
    UNION {IF "WRITE" \in event THEN try_send_flush(c) ELSE {c} : c \in {conn, Closing(conn)}}

(* The handshake is not over (SSL_accept wants to write, or to read, or    *)
(* failed), or it is and on_new_connection threw or returned.              *)
on_event(conn, event, use_ssl) ==
    IF Handshaking(conn, use_ssl)
    THEN {event_mod(conn, RWE), event_mod(conn, RE), Closing(conn), Closing(Accepted(conn))}
         \cup Transfer(Accepted(conn), event)
    ELSE Transfer(conn, event)
=============================================================================
