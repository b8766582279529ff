----------------------------- MODULE WorkerLoop -----------------------------
(***************************************************************************)
(* One worker thread and the descriptors it handles: the event loop        *)
(* (worker::operator()), the hand-over of a client (on_new_client_fd), the *)
(* close (close_client_fd), the handshake timers and the event poller with *)
(* its cache of registrations.                                             *)
(*                                                                         *)
(* A descriptor is a number: the kernel reuses it as soon as it is closed, *)
(* while the worker may still hold an event, a timer or a cached           *)
(* registration for it.  file maps each descriptor to the client it        *)
(* denotes, as the kernel does.  The main thread and the other workers     *)
(* appear as the steps that accept a client, hand it to this worker or to  *)
(* another one, and close those of the others.                             *)
(*                                                                         *)
(* timers[gid].left counts the seconds from the worker's last tick to the  *)
(* expiry.  gids are unique and never used again.                          *)
(***************************************************************************)
EXTENDS StreamCtx, Integers, FiniteSets

CONSTANTS Fd, Gid, None,
          tunnel_fd,     \* the worker's end of its tunnel
          timeout,       \* seconds a client has until the application knows it
          Pollers,       \* what the server may be built with
          Capacities,    \* slots for clients its pool may be configured with
          Failures       \* steps of on_new_client_fd that may fail

ASSUME TimeoutAssumption == timeout \in Nat \ {0} /\ Capacities \subseteq Nat
ASSUME FdAssumption == tunnel_fd \notin Fd /\ Pollers \subseteq {"epoll", "kqueue"}
ASSUME FiniteAssumption == IsFiniteSet(Fd)
ASSUME FailureAssumption == Failures \subseteq {"new_ctx", "add", "ssl"}

VARIABLES poller, use_ssl, capacity,
          fresh,                   \* gids not handed out yet
          file,                    \* kernel: descriptor -> client or None
          epoll,                   \* kernel: descriptor -> interest or None
          elsewhere,               \* clients of other workers
          tunnel,                  \* clients on their way to this worker
          worker_connection_num,
          pc, batch, inbox,        \* loop position, events left, clients read
          pool,                    \* descriptor -> connection or None
          fd_curr_reg_event,       \* the poller's cache
          timers, closed_fd, timeout_fd_copy,
          app                      \* gid -> what the application was told

setup == <<poller, use_ssl, capacity>>
mainVars == <<fresh, elsewhere, tunnel>>
vars == <<setup, file, epoll, mainVars, worker_connection_num, pc, batch, inbox,
          pool, fd_curr_reg_event, timers, closed_fd, timeout_fd_copy, app>>

Live == {fd \in Fd : pool[fd] # None}

LiveGid == {pool[fd].gid : fd \in Live}

(* What the pool keeps of a connection.                                    *)
Conn == [gid : Gid, is_close : BOOLEAN, is_ready : BOOLEAN, app_layer_notified : BOOLEAN,
         ssl_accepted : BOOLEAN, send_buffer : BOOLEAN, interest : {RE, RWE}]

Timer == [fd : Fd, left : Int]

ASSUME NoneAssumption == None \notin Gid \cup Conn \cup Timer \cup {RE, RWE}

NewConn(gid) == [gid |-> gid, is_close |-> FALSE, is_ready |-> FALSE, app_layer_notified |-> FALSE,
                 ssl_accepted |-> FALSE, send_buffer |-> FALSE, interest |-> RWE]

Forget(f, S) == [x \in DOMAIN f |-> IF x \in S THEN None ELSE f[x]]

-----------------------------------------------------------------------------
(* the other threads *)

accept(fd, gid) == /\ file[fd] = None /\ gid \in fresh
                   /\ file' = [file EXCEPT ![fd] = gid]
                   /\ fresh' = fresh \ {gid}

on_listen_event(fd, gid) ==
    /\ accept(fd, gid)
    /\ tunnel' = tunnel \cup {<<fd, gid>>}
    /\ worker_connection_num' = worker_connection_num + 1
    /\ UNCHANGED <<setup, epoll, elsewhere, pc, batch, inbox, pool, fd_curr_reg_event,
                   timers, closed_fd, timeout_fd_copy, app>>

dispatch_elsewhere(fd, gid) ==
    /\ accept(fd, gid)
    /\ elsewhere' = elsewhere \cup {<<fd, gid>>}
    /\ UNCHANGED <<setup, epoll, tunnel, worker_connection_num, pc, batch, inbox, pool,
                   fd_curr_reg_event, timers, closed_fd, timeout_fd_copy, app>>

close_elsewhere(fd, gid) ==
    /\ <<fd, gid>> \in elsewhere
    /\ elsewhere' = elsewhere \ {<<fd, gid>>}
    /\ file' = [file EXCEPT ![fd] = None]
    /\ UNCHANGED <<setup, epoll, fresh, tunnel, worker_connection_num, pc, batch, inbox,
                   pool, fd_curr_reg_event, timers, closed_fd, timeout_fd_copy, app>>

-----------------------------------------------------------------------------
(* closing *)

close_client_fds_keep_timer(S, t) ==        \* mutant
    /\ timers' = t
    /\ fd_curr_reg_event' = Forget(fd_curr_reg_event, S \cap Live)
    /\ epoll' = Forget(epoll, S)
    /\ pool' = Forget(pool, S)
    /\ file' = Forget(file, S)
    /\ worker_connection_num' = worker_connection_num - Cardinality(S)

close_client_fds_keep_registration(S, t) == \* mutant
    /\ timers' = Forget(t, {pool[fd].gid : fd \in S \cap Live})
    /\ epoll' = Forget(epoll, S)
    /\ pool' = Forget(pool, S)
    /\ file' = Forget(file, S)
    /\ worker_connection_num' = worker_connection_num - Cardinality(S)
    /\ UNCHANGED fd_curr_reg_event

(* close_client_fd for each descriptor of S, with the timers t.  A live    *)
(* connection loses its timer and its registration before its socket is    *)
(* closed; a descriptor without one is closed as it is.  The kernel stops  *)
(* watching a closed descriptor.                                           *)
close_client_fds(S, t) ==
    /\ timers' = Forget(t, {pool[fd].gid : fd \in S \cap Live})
    /\ fd_curr_reg_event' = Forget(fd_curr_reg_event, S \cap Live)
    /\ epoll' = Forget(epoll, S)
    /\ pool' = Forget(pool, S)
    /\ file' = Forget(file, S)
    /\ worker_connection_num' = worker_connection_num - Cardinality(S)

close_client_fd(fd) == /\ close_client_fds({fd}, timers)
                       /\ closed_fd' = closed_fd \cup {fd}

-----------------------------------------------------------------------------
(* the loop *)

Code(events) == SUBSET events \ {{}}

(* What one wait may report for a descriptor: epoll, a single event with   *)
(* every condition that holds; kqueue, one event per filter, each of which *)
(* may also report an error.                                               *)
Reports(fd) ==
    IF epoll[fd] = None THEN {{}}
    ELSE IF poller = "kqueue" THEN {R \in SUBSET {c \in Code(epoll[fd]) : c # {"ERR"} /\ ~({"READ", "WRITE"} \subseteq c)} :
                            \A c, d \in R : c # d => c \cap d \subseteq {"ERR"}}
    ELSE {{}} \cup {{c} : c \in Code(epoll[fd])}

(* gid, the client the kernel reports the event for, is not in the event:  *)
(* it is what the event's descriptor denotes at the time of the wait.      *)
Event(fd, code) == [fd |-> fd, code |-> code, gid |-> file[fd]]

TunnelEvent == [fd |-> tunnel_fd, code |-> RE, gid |-> None]

(* Everything one wait may report for the clients.                         *)
Reported ==
    LET per_fd == {r \in [Fd -> UNION {Reports(fd) : fd \in Fd}] : \A fd \in Fd : r[fd] \in Reports(fd)}
    IN  {UNION {{Event(fd, code) : code \in r[fd]} : fd \in Fd} : r \in per_fd}

Expired(seconds) == {gid \in Gid : timers[gid] # None /\ timers[gid].left <= seconds}

Aged(seconds) == [gid \in Gid |-> IF timers[gid] = None \/ gid \in Expired(seconds) THEN None
                                  ELSE [timers[gid] EXCEPT !.left = @ - seconds]]

(* m_timeout_fd after check_and_handle: the descriptor the timer captured, *)
(* if the connection is still there and unknown to the application.        *)
TimedOut(seconds) ==
    {timers[gid].fd : gid \in {g \in Expired(seconds) :
        \E fd \in Live : pool[fd].gid = g /\ ~pool[fd].app_layer_notified}}

(* wait returns; the timers are checked when the second has changed.       *)
wait(seconds) ==
    /\ pc = "wait" /\ pc' = "events"
    /\ close_client_fds(TimedOut(seconds), Aged(seconds))
    /\ closed_fd' = TimedOut(seconds)
    /\ timeout_fd_copy' = TimedOut(seconds)
    /\ \E report \in Reported, tunnel_report \in SUBSET {TunnelEvent} :
          batch' = tunnel_report \cup report
    /\ UNCHANGED <<setup, mainVars, inbox, app>>

loop_end == /\ pc = "events" /\ batch = {}
            /\ pc' = "wait"
            /\ UNCHANGED <<setup, file, epoll, mainVars, worker_connection_num, batch, inbox,
                           pool, fd_curr_reg_event, timers, closed_fd, timeout_fd_copy, app>>

-----------------------------------------------------------------------------
(* events of clients *)

(* epoller.mod, which the cache may keep from reaching the kernel.         *)
mod(fd, events) ==
    IF fd_curr_reg_event[fd] # events /\ epoll[fd] # None
    THEN /\ fd_curr_reg_event' = [fd_curr_reg_event EXCEPT ![fd] = events]
         /\ epoll' = [epoll EXCEPT ![fd] = events]
    ELSE UNCHANGED <<fd_curr_reg_event, epoll>>

Update_restarts_timer(fd, conn) ==          \* mutant
    /\ pool' = [pool EXCEPT ![fd] = conn]
    /\ mod(fd, conn.interest)
    /\ IF conn.app_layer_notified
       THEN timers' = Forget(timers, {conn.gid})
       ELSE timers' = [timers EXCEPT ![conn.gid].left = timeout]
    /\ app' = IF conn.app_layer_notified THEN [app EXCEPT ![conn.gid] = "new"] ELSE app

(* A call of the context leaves conn behind.  When it has told the         *)
(* application about the connection, it has deleted the timer.             *)
Update(fd, conn) ==
    /\ pool' = [pool EXCEPT ![fd] = conn]
    /\ mod(fd, conn.interest)
    /\ IF conn.app_layer_notified /\ ~pool[fd].app_layer_notified
       THEN /\ timers' = Forget(timers, {conn.gid})
            /\ app' = [app EXCEPT ![conn.gid] = "new"]
       ELSE UNCHANGED <<timers, app>>

Take(e) == /\ pc = "events" /\ e \in batch
           /\ batch' = batch \ {e}
           /\ UNCHANGED <<setup, mainVars, pc, inbox, timeout_fd_copy>>

(* The timers have closed the descriptor before the events are handled.    *)
skip_timed_out(e) ==
    /\ Take(e)
    /\ e.fd \in timeout_fd_copy
    /\ UNCHANGED <<file, epoll, worker_connection_num, pool, fd_curr_reg_event, timers, closed_fd, app>>

Handled_ignores_timeouts(fd) == fd \in Fd   \* mutant

Handled(fd) == fd \in Fd /\ fd \notin timeout_fd_copy

no_connection_counts(e) ==                  \* mutant
    /\ Take(e)
    /\ Handled(e.fd) /\ pool[e.fd] = None
    /\ close_client_fd(e.fd)
    /\ UNCHANGED app

(* on_client_event finds no connection.                                    *)
no_connection(e) ==
    /\ Take(e)
    /\ Handled(e.fd) /\ pool[e.fd] = None
    /\ IF e.fd \in closed_fd
       THEN UNCHANGED <<file, epoll, worker_connection_num, pool, fd_curr_reg_event, timers, closed_fd>>
       ELSE close_client_fd(e.fd)
    /\ UNCHANGED app

on_event_close_silently(e) ==               \* mutant
    /\ Take(e)
    /\ Handled(e.fd) /\ pool[e.fd] # None /\ Closes(pool[e.fd], e.code)
    /\ app' = IF pool[e.fd].is_close THEN [app EXCEPT ![pool[e.fd].gid] = "closed"] ELSE app
    /\ close_client_fd(e.fd)

on_event_close(e) ==
    /\ Take(e)
    /\ Handled(e.fd) /\ pool[e.fd] # None /\ Closes(pool[e.fd], e.code)
    /\ app' = IF pool[e.fd].is_ready THEN [app EXCEPT ![pool[e.fd].gid] = "closed"] ELSE app
    /\ close_client_fd(e.fd)

on_client_event(e) ==
    /\ Take(e)
    /\ Handled(e.fd) /\ pool[e.fd] # None /\ ~Closes(pool[e.fd], e.code)
    /\ \E conn \in on_event(pool[e.fd], e.code, use_ssl) : Update(e.fd, conn)
    /\ UNCHANGED <<file, worker_connection_num, closed_fd>>

-----------------------------------------------------------------------------
(* events of the tunnel *)

on_tunnel_event(e) ==
    /\ pc = "events" /\ e \in batch /\ e.fd = tunnel_fd
    /\ batch' = batch \ {e}
    /\ inbox' = tunnel /\ tunnel' = {}
    /\ pc' = "tunnel"
    /\ UNCHANGED <<setup, file, epoll, fresh, elsewhere, worker_connection_num, pool,
                   fd_curr_reg_event, timers, closed_fd, timeout_fd_copy, app>>

alloc_fails(fd, gid) == fd \in Live \/ gid \in LiveGid \/ Cardinality(Live) >= capacity

Receive(fd, gid) == /\ pc = "tunnel" /\ <<fd, gid>> \in inbox
                    /\ inbox' = inbox \ {<<fd, gid>>}
                    /\ UNCHANGED <<setup, mainVars, pc, batch, timeout_fd_copy>>

on_new_client_fd_refused_leaks(fd, gid) ==  \* mutant
    /\ Receive(fd, gid)
    /\ alloc_fails(fd, gid)
    /\ worker_connection_num' = worker_connection_num - 1
    /\ closed_fd' = closed_fd \cup {fd}
    /\ UNCHANGED <<file, epoll, pool, fd_curr_reg_event, timers, app>>

on_new_client_fd_refused(fd, gid) ==
    /\ Receive(fd, gid)
    /\ alloc_fails(fd, gid)
    /\ close_client_fd(fd)
    /\ UNCHANGED app

(* The connection is allocated and released again.  Until set_fd, which    *)
(* comes after the context is made, the release closes no descriptor.      *)
on_new_client_fd_fails(fd, gid, failure) ==
    /\ Receive(fd, gid)
    /\ ~alloc_fails(fd, gid) /\ (failure = "ssl" => use_ssl)
    /\ worker_connection_num' = worker_connection_num - 1
    /\ closed_fd' = closed_fd \cup {fd}
    /\ fd_curr_reg_event' = Forget(fd_curr_reg_event, {fd})
    /\ epoll' = Forget(epoll, {fd})
    /\ file' = IF failure = "new_ctx" THEN file ELSE [file EXCEPT ![fd] = None]
    /\ UNCHANGED <<pool, timers, app>>

(* epoller.add reaches the kernel unless the cache knows the descriptor.   *)
on_new_client_fd(fd, gid) ==
    /\ Receive(fd, gid)
    /\ ~alloc_fails(fd, gid)
    /\ epoll' = IF fd_curr_reg_event[fd] = RWE THEN epoll ELSE [epoll EXCEPT ![fd] = RWE]
    /\ fd_curr_reg_event' = [fd_curr_reg_event EXCEPT ![fd] = RWE]
    /\ \E conn \in on_create(NewConn(gid), use_ssl) :
          /\ pool' = [pool EXCEPT ![fd] = conn]
          /\ IF conn.app_layer_notified
             THEN timers' = timers /\ app' = [app EXCEPT ![gid] = "new"]
             ELSE timers' = [timers EXCEPT ![gid] = [fd |-> fd, left |-> timeout]] /\ app' = app
    /\ UNCHANGED <<file, worker_connection_num, closed_fd>>

(* The Lua VM closes a connection, or sends to one (a send buffer that has *)
(* grown too large closes it instead).  Without the connection, nothing.   *)
on_worker_tunnel(fd) ==
    /\ pc = "tunnel" /\ fd \in Live
    /\ \E conn \in {Closing(pool[fd])} \cup send_data(pool[fd]) : Update(fd, conn)
    /\ UNCHANGED <<setup, file, mainVars, worker_connection_num, pc, batch, inbox,
                   closed_fd, timeout_fd_copy>>

on_tunnel_event_end ==
    /\ pc = "tunnel" /\ inbox = {}
    /\ pc' = "events"
    /\ UNCHANGED <<setup, file, epoll, mainVars, worker_connection_num, batch, inbox,
                   pool, fd_curr_reg_event, timers, closed_fd, timeout_fd_copy, app>>

-----------------------------------------------------------------------------

Init == /\ poller \in Pollers /\ use_ssl \in BOOLEAN /\ capacity \in Capacities
        /\ fresh = Gid /\ elsewhere = {} /\ tunnel = {}
        /\ file = [fd \in Fd |-> None] /\ epoll = [fd \in Fd |-> None]
        /\ fd_curr_reg_event = [fd \in Fd |-> None] /\ pool = [fd \in Fd |-> None]
        /\ worker_connection_num = 0
        /\ pc = "wait" /\ batch = {} /\ inbox = {} /\ closed_fd = {} /\ timeout_fd_copy = {}
        /\ timers = [gid \in Gid |-> None] /\ app = [gid \in Gid |-> "none"]

Others == \E fd \in Fd, gid \in Gid : \/ on_listen_event(fd, gid)
                                      \/ dispatch_elsewhere(fd, gid)
                                      \/ close_elsewhere(fd, gid)

HandleEvent == \E e \in batch : \/ skip_timed_out(e) \/ no_connection(e)
                                \/ on_event_close(e) \/ on_client_event(e)
                                \/ on_tunnel_event(e)

TakeOver == \E fd \in Fd, gid \in Gid :
                \/ on_new_client_fd_refused(fd, gid)
                \/ \E failure \in Failures : on_new_client_fd_fails(fd, gid, failure)
                \/ on_new_client_fd(fd, gid)

Next == \/ Others
        \/ \E seconds \in 0 .. timeout : wait(seconds)
        \/ HandleEvent
        \/ TakeOver
        \/ \E fd \in Fd : on_worker_tunnel(fd)
        \/ on_tunnel_event_end
        \/ loop_end

Spec == Init /\ [][Next]_vars

(* The worker thread runs, and time passes: wait returns after at most     *)
(* epoll_wait_time, so again and again in another second than before.      *)
Proceed == HandleEvent \/ TakeOver \/ on_tunnel_event_end \/ loop_end

FairSpec == Spec /\ WF_vars(Proceed) /\ SF_vars(wait(1))

-----------------------------------------------------------------------------
(* properties *)

(* Who believes to own which descriptor.                                   *)
Owned == {<<fd, pool[fd].gid>> : fd \in Live} \cup tunnel \cup inbox \cup elsewhere

(* Every open descriptor has an owner, and every owner's descriptor is     *)
(* open and still denotes its client: close_client_fd neither leaks a      *)
(* descriptor nor closes one the kernel has given to someone else.         *)
DescriptorsExact == Owned = {<<fd, file[fd]>> : fd \in {f \in Fd : file[f] # None}}

(* close_client_fd counts every client handed to the worker down once.     *)
CountExact == worker_connection_num = Cardinality(Live) + Cardinality(tunnel \cup inbox)

(* An event the loop will hand to a connection was reported for that       *)
(* connection, not for an earlier one with the same descriptor: what       *)
(* worker.cpp says m_closed_fd is for, with either poller.                 *)
ClosedEventsDropped == \A e \in batch : Handled(e.fd) /\ pool[e.fd] # None => pool[e.fd].gid = e.gid

(* With epoll, which reports a descriptor once per wait, timeout_fd_copy   *)
(* keeps every event from a connection it was not reported for.            *)
EventsToOwner == poller = "epoll" => ClosedEventsDropped

(* The kernel watches what the context of a connection last asked for, and *)
(* no descriptor of anyone else: the poller's cache survives no reuse, and *)
(* bytes a connection could not send have a write event to come.           *)
PollerExact == \A fd \in Fd :
    LET asked == IF fd \in Live THEN pool[fd].interest ELSE None
    IN  /\ epoll[fd] = asked /\ fd_curr_reg_event[fd] = asked
        /\ fd \in Live /\ pool[fd].send_buffer /\ ~pool[fd].is_close => "WRITE" \in asked

(* A handshake timer runs for exactly the connections the application does *)
(* not know yet, and names the descriptor of its own connection.           *)
TimersExact == \A gid \in Gid :
    IF \E fd \in Live : pool[fd].gid = gid /\ ~pool[fd].app_layer_notified
    THEN timers[gid] # None /\ timers[gid].fd \in Live /\ pool[timers[gid].fd].gid = gid
    ELSE timers[gid] = None

(* on_close_connection follows on_new_connection before the connection     *)
(* goes: the application never keeps a client that is gone.                *)
AppExact == \A gid \in Gid :
    app[gid] = "new" <=> \E fd \in Live : pool[fd].gid = gid /\ pool[fd].app_layer_notified

Waiting(gid) == \E fd \in Live : pool[fd].gid = gid /\ ~pool[fd].app_layer_notified

(* A client that never completes the handshake is closed by its timer.  A  *)
(* gid waits once, so that nobody waits for ever when, again and again,    *)
(* none of the finitely many does.                                         *)
HandshakeEnds == []<>(\A gid \in Gid : ~Waiting(gid))
=============================================================================
