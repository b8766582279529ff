------------------------------ MODULE OtherIpc ------------------------------
(***************************************************************************)
(* The other thread's connections to peer processes.  It dials every app   *)
(* of ipc.json and accepts connections of peers; both kinds share one      *)
(* connection pool.  A peer authenticates a connection by naming its app   *)
(* id; messages from and to an app go only through the connection that is  *)
(* registered for it.                                                      *)
(*                                                                         *)
(* The handlers of the thread run one after the other, so each is one      *)
(* step.  What they do inside is written as a set of possible results:     *)
(* Dial, Accept and Receive map a state of the tables to the states the    *)
(* code can leave, depending on the kernel and the peer.                   *)
(***************************************************************************)
EXTENDS Naturals, Sequences, Functions, FiniteSets

CONSTANTS
    App,        \* app ids of the other processes
    ipc_json,   \* the order in which ipc.json lists them
    Fd, Gid,    \* descriptors and gids
    capacity,   \* slots of the pool left by the tunnel's connection
    accept_per_tick,
    None

(* Descriptors and gids are not scarcer than slots: a socket that the      *)
(* kernel refuses is a dial that fails.                                    *)
ASSUME IpcAssumption ==
    /\ ipc_json \in Seq(App) /\ Range(ipc_json) = App
    /\ capacity \in Nat \ {0} /\ accept_per_tick \in Nat \ {0}
    /\ IsFiniteSet(Fd) /\ capacity <= Cardinality(Fd)
    /\ IsFiniteSet(Gid) /\ capacity <= Cardinality(Gid)
    /\ None \notin App \cup Fd \cup Gid

VARIABLES
    ipc,      \* the tables of the thread, a record of:
              \*   pool                     [Fd -> Gid or None]
              \*   is_close                 connections marked for closing
              \*   appid2gid, gid2appid     this2remote: the dialled apps
              \*   remote2this              the accepted connections
              \*   auth_appid2gid, auth_gid2appid   authenticated_ipc_pair
    batch,    \* events of the last wait not handled yet: <<fd, gid>> pairs,
              \* gid being the connection the event was reported for
    to_stop,
    claimed,       \* history: [Gid -> app ids the peer has named on it]
    connect_failed \* history: some app was in failing

vars == <<ipc, batch, to_stop, claimed, connect_failed>>

(* The listening socket's event.                                           *)
ListenEvent == <<None, None>>

Live(s) == {g \in Gid : \E fd \in Fd : s.pool[fd] = g}
Free(s) == {fd \in Fd : s.pool[fd] = None}

(* A pool slot for a new descriptor, under a gid that no connection has.   *)
Slots(s) == IF Cardinality(Live(s)) >= capacity THEN {}
            ELSE Free(s) \X (Gid \ Live(s))

-----------------------------------------------------------------------------
(* ipc_client_to_connect, for one app of the list: dialled already,        *)
(* connect failed, no slot in the pool, or registered as this2remote.      *)
Dial(s, app) ==
    IF s.appid2gid[app] # None THEN {s}
    ELSE {[s EXCEPT !.pool[x[1]] = x[2],
                    !.appid2gid[app] = x[2],
                    !.gid2appid[x[2]] = app] : x \in Slots(s)}

(* One iteration of its loop, from any state in S.  For the apps in        *)
(* failing, connect() or a later step fails: they are passed over until    *)
(* the next call.                                                          *)
DialOrSkip(S, app, failing) ==
    UNION {IF app \in failing \/ Dial(t, app) = {} THEN {t} ELSE Dial(t, app) : t \in S}

(* tried[n]: the states after the first n apps of the list.                *)
ipc_client_to_connect(s, failing) ==
    LET tried[n \in 0 .. Len(ipc_json)] ==
            IF n = 0 THEN {s} ELSE DialOrSkip(tried[n - 1], ipc_json[n], failing)
    IN  tried[Len(ipc_json)]

(* on_new_ipc_client_fd for the descriptors of one listen event: some get  *)
(* a connection, each under a gid of its own, as long as the pool has a    *)
(* slot; the others are closed at once, because it is full or a later step *)
(* fails.                                                                  *)
Accept(s) ==
    {[s EXCEPT !.pool = [fd \in Fd |-> IF fd \in DOMAIN made THEN made[fd] ELSE @[fd]],
               !.remote2this = @ \cup Range(made)] :
        made \in {made \in UNION {Injection(fds, Gid \ Live(s)) : fds \in SUBSET Free(s)} :
                     /\ Cardinality(DOMAIN made) <= accept_per_tick
                     /\ Cardinality(Live(s)) + Cardinality(DOMAIN made) <= capacity}}

(* Forgets the gid and not the app id.                                     *)
on_close_connection_one_way(s, g) ==
    [s EXCEPT !.auth_gid2appid[g] = None]

(* other_app::on_close_connection forgets the authenticated pair.          *)
on_close_connection(s, g) ==
    LET app == s.auth_gid2appid[g]
    IN  IF app = None THEN s
        ELSE [s EXCEPT !.auth_gid2appid[g] = None, !.auth_appid2gid[app] = None]

(* close_ipc_client_fd: release the slot, forget the direction, and dial   *)
(* again if this side had dialled.                                         *)
Release(s, fd) ==
    LET g == s.pool[fd]
        app == s.gid2appid[g]
    IN  [s EXCEPT !.pool[fd] = None,
                  !.is_close = @ \ {g},
                  !.appid2gid = IF app = None THEN @ ELSE [@ EXCEPT ![app] = None],
                  !.gid2appid[g] = None,
                  !.remote2this = @ \ {g}]

(* Dials while the closed connection still holds its slot.                 *)
close_ipc_client_fd_late(s, fd, failing) ==
    LET g == s.pool[fd]
        app == s.gid2appid[g]
        forgotten == [s EXCEPT !.appid2gid[app] = None, !.gid2appid[g] = None]
    IN  IF app = None THEN {Release(s, fd)}
        ELSE {[t EXCEPT !.pool[fd] = None, !.is_close = @ \ {g}] :
                  t \in ipc_client_to_connect(forgotten, failing)}

(* Keeps the accepted connection's gid.                                    *)
close_ipc_client_fd_keeps_gid(s, fd, failing) ==
    LET t == [Release(s, fd) EXCEPT !.remote2this = s.remote2this]
    IN  IF s.gid2appid[s.pool[fd]] = None THEN {t}
        ELSE ipc_client_to_connect(t, failing)

close_ipc_client_fd(s, fd, failing) ==
    IF s.gid2appid[s.pool[fd]] = None THEN {Release(s, fd)}
    ELSE ipc_client_to_connect(Release(s, fd), failing)

(* Drops an accepted connection at once when the app comes by another one. *)
Handshake_drops_accepted(s, g, app) ==
    LET old == s.auth_appid2gid[app]
        t == IF old \in s.remote2this \ {g}
             THEN Release(on_close_connection(s, old),
                          CHOOSE fd \in Fd : s.pool[fd] = old)
             ELSE s
    IN  IF t.auth_appid2gid[app] = None /\ t.auth_gid2appid[g] = None
        THEN [t EXCEPT !.auth_appid2gid[app] = g, !.auth_gid2appid[g] = app]
        ELSE t

(* on_recv_package for the handshake: the first connection that names an   *)
(* app, and has named no other, is registered for it.                      *)
Handshake(s, g, app) ==
    IF s.auth_appid2gid[app] = None /\ s.auth_gid2appid[g] = None
    THEN [s EXCEPT !.auth_appid2gid[app] = g, !.auth_gid2appid[g] = app]
    ELSE s

Marked(s, g) == [s EXCEPT !.is_close = @ \cup {g}]

-----------------------------------------------------------------------------
Tables == [pool |-> [fd \in Fd |-> None], is_close |-> {},
           appid2gid |-> [a \in App |-> None], gid2appid |-> [g \in Gid |-> None],
           remote2this |-> {},
           auth_appid2gid |-> [a \in App |-> None],
           auth_gid2appid |-> [g \in Gid |-> None]]

(* The thread dials every app before its loop starts.                      *)
Init ==
    /\ \E failing \in SUBSET App :
          /\ ipc \in ipc_client_to_connect(Tables, failing)
          /\ connect_failed = (failing # {})
    /\ batch = {}
    /\ to_stop = FALSE
    /\ claimed = [g \in Gid |-> {}]

(* A connection that is new in ipc' has named no app yet.                  *)
Claims(c) == claimed' = [g \in Gid |-> IF g \in Live(ipc') \cap Live(ipc) THEN c[g] ELSE {}]

(* epoller.wait: any of the registered descriptors, each at most once.     *)
wait ==
    /\ batch = {} /\ ~to_stop
    /\ batch' \in SUBSET ({<<fd, ipc.pool[fd]>> : fd \in Fd \ Free(ipc)} \cup {ListenEvent})
    /\ batch' # {}
    /\ UNCHANGED <<ipc, to_stop, claimed, connect_failed>>

on_ipc_listen_event ==
    /\ ListenEvent \in batch
    /\ batch' = batch \ {ListenEvent}
    /\ ipc' \in Accept(ipc)
    /\ Claims(claimed)
    /\ UNCHANGED <<to_stop, connect_failed>>

(* The loop of operator() takes an event.  One of a descriptor that is in  *)
(* no table stops the thread.                                              *)
Take(fd, g) ==
    /\ <<fd, g>> \in batch /\ fd # None
    /\ to_stop' = (ipc.pool[fd] = None)
    /\ batch' = IF to_stop' THEN {} ELSE batch \ {<<fd, g>>}

(* ipc_stream_ctx::on_event closes the connection: it was marked before,   *)
(* or the event is an error.                                               *)
on_event_close(fd, g) ==
    /\ Take(fd, g)
    /\ \E failing \in SUBSET App :
          /\ ipc' \in IF to_stop' THEN {ipc}
                      ELSE close_ipc_client_fd(
                               on_close_connection(ipc, ipc.pool[fd]), fd, failing)
          /\ connect_failed' = (connect_failed \/ failing # {})
    /\ claimed' = [g2 \in Gid |-> IF g2 \in Live(ipc') /\ g2 # ipc.pool[fd]
                                  THEN claimed[g2] ELSE {}]

(* ipc_stream_ctx::on_event reads and writes: the peer has closed or a     *)
(* send failed, a package names an app, or other data comes, which changes *)
(* no table.  A failing send marks the connection after the package was    *)
(* processed.                                                              *)
on_event(fd, g) ==
    /\ Take(fd, g)
    /\ ~to_stop' /\ ipc.pool[fd] \notin ipc.is_close
    /\ LET c == ipc.pool[fd]
       IN  \/ /\ ipc' \in {ipc, Marked(ipc, c)}
              /\ UNCHANGED claimed
           \/ \E app \in App :
                 /\ ipc' \in {Handshake(ipc, c, app), Marked(Handshake(ipc, c, app), c)}
                 /\ claimed' = [claimed EXCEPT ![c] = @ \cup {app}]
    /\ UNCHANGED connect_failed

(* other_lua_send_ipc_package, from a tick or a tunnel package, to the     *)
(* connection registered for the app; the send may fail.                   *)
other_lua_send_ipc_package(app) ==
    /\ ipc.auth_appid2gid[app] \in Live(ipc)
    /\ ipc' = Marked(ipc, ipc.auth_appid2gid[app])
    /\ UNCHANGED <<batch, to_stop, claimed, connect_failed>>

Next ==
    \/ wait
    \/ on_ipc_listen_event
    \/ \E e \in batch : \/ on_event_close(e[1], e[2])
                        \/ on_event(e[1], e[2])
    \/ \E app \in App : other_lua_send_ipc_package(app)

Spec == Init /\ [][Next]_vars

-----------------------------------------------------------------------------
Inverse2(f, h) ==
    /\ \A a \in App : f[a] # None => h[f[a]] = a
    /\ \A g \in Gid : h[g] # None => f[h[g]] = g

(* Every connection of the pool is either dialled, for one app and as its  *)
(* only connection, or accepted: the maps that is_this2remote and          *)
(* is_remote2this read describe the pool, whatever closes and reconnects.  *)
DirectionsExact ==
    /\ Inverse2(ipc.appid2gid, ipc.gid2appid)
    /\ Live(ipc) = {g \in Gid : ipc.gid2appid[g] # None} \cup ipc.remote2this
    /\ \A g \in ipc.remote2this : ipc.gid2appid[g] = None

(* An authenticated pair always names a connection of the pool, whose peer *)
(* has named that app on this very connection: a message is never sent to, *)
(* or taken as coming from, the user of a reused slot or gid.              *)
PairsLive ==
    /\ Inverse2(ipc.auth_appid2gid, ipc.auth_gid2appid)
    /\ \A g \in Gid : ipc.auth_gid2appid[g] # None =>
          g \in Live(ipc) /\ ipc.auth_gid2appid[g] \in claimed[g]

(* A waiting event still belongs to the connection it was reported for:    *)
(* reconnecting inside a handler, with descriptors being reused, never     *)
(* redirects one and never makes the thread stop at an unknown descriptor. *)
BatchFresh ==
    /\ ~to_stop
    /\ \A e \in batch \ {ListenEvent} : ipc.pool[e[1]] = e[2]

(* As long as no dialling has failed, every app is dialled, when           *)
(* max_ipc_conn_num has room for them all: peers that fill the pool cannot *)
(* keep a lost connection from being dialled again, because                *)
(* close_ipc_client_fd frees a slot first.                                 *)
AlwaysDialled ==
    ~connect_failed => \A app \in App : ipc.appid2gid[app] # None
=============================================================================
