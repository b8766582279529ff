------------------------------ MODULE ClientCtx ------------------------------
(***************************************************************************)
(* The context of one client of a worker, for the two task types that      *)
(* speak HTTP: worker::on_new_client_fd creates an http_ctx or a           *)
(* websocket_ctx by the type in the configuration, and every event of the  *)
(* client then goes to that context.                                       *)
(***************************************************************************)
EXTENDS Integers, Sequences

CONSTANTS
    max_body_size, block_size, Faults, Request, FileSystem, recv_units, socket_units,
    max_buffer, Unparsable, Frame, Package, recv_bytes, socket_bytes, max_transfers

VARIABLES type, use_ssl, fs, conn, peer, timer

vars == <<type, use_ssl, fs, conn, peer, timer>>

Http == INSTANCE HttpCtx
WebSocket == INSTANCE WebSocketCtx

IsHttp == type = "HTTP_TASK"
IsWebSocket == type = "WEBSOCKET_TASK"

Init ==
    \/ type = "HTTP_TASK" /\ Http!Init
    \/ type = "WEBSOCKET_TASK" /\ WebSocket!Init /\ fs = [file |-> 0, dir |-> 0]

HttpNext == IsHttp /\ Http!Next /\ UNCHANGED type

WebSocketNext == IsWebSocket /\ WebSocket!Next /\ UNCHANGED <<type, fs>>

Next == HttpNext \/ WebSocketNext

(***************************************************************************)
(* The worker's loop comes back to a client whose descriptor is ready, the *)
(* timers run at every tick, and the peer goes on reading.                 *)
(***************************************************************************)
OnEvent ==
    \/ IsHttp /\ Http!OnEvent /\ UNCHANGED type
    \/ IsWebSocket /\ WebSocket!OnEvent /\ UNCHANGED <<type, fs>>

OnTimeout ==
    \/ IsHttp /\ Http!OnTimeout /\ UNCHANGED type
    \/ IsWebSocket /\ WebSocket!OnTimeout /\ UNCHANGED <<type, fs>>

PeerReads ==
    \/ IsHttp /\ Http!ReadResponse /\ UNCHANGED type
    \/ IsWebSocket /\ WebSocket!ReadSocket /\ UNCHANGED <<type, fs>>

Fairness == WF_vars(OnEvent) /\ WF_vars(OnTimeout) /\ WF_vars(PeerReads)

Spec == Init /\ [][Next]_vars /\ Fairness

(***************************************************************************)
(* Properties; their statements are in the modules of the contexts.        *)
(***************************************************************************)
(* What http_ctx sends for a request is exactly the response it is owed.   *)
ResponseExact == IsHttp => Http!ResponseExact

(* http_app's response object and what it holds are released exactly once. *)
ReleasedOnce == IsHttp => Http!ReleasedOnce

(* The messages websocket_app hands to the Lua VM are those of the client. *)
Reassembled == IsWebSocket => WebSocket!Reassembled

(* What send_sync_package frames is what a reader of frames gets back.     *)
PackagesFramed == IsWebSocket => WebSocket!PackagesFramed

Unserved == IF IsHttp THEN Http!Unserved ELSE WebSocket!Unserved

(* The interest that http_ctx and websocket_ctx leave in the poller always *)
(* brings them back: a client gets through its handshakes or is closed,    *)
(* what the kernel has received is read, what waits to be sent is sent, an *)
(* HTTP request that is being answered is answered to the end and an HTTP  *)
(* connection to be closed is closed, as long as the peer takes what it is *)
(* sent.                                                                   *)
Served == Unserved ~> ~Unserved
=============================================================================
