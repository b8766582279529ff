------------------------- MODULE WorkerLoopProofs ---------------------------
(***************************************************************************)
(* The safety properties of WorkerLoop, for any number of descriptors,     *)
(* clients and slots, both pollers, with and without TLS.  First the       *)
(* inductive invariant, that the calls of a context leave a sound          *)
(* connection behind, and the steps that close no descriptor of this       *)
(* worker.                                                                 *)
(***************************************************************************)
EXTENDS WorkerLoop, FiniteSetTheorems, TLAPS

TypeOK ==
    /\ poller \in Pollers /\ use_ssl \in BOOLEAN /\ capacity \in Capacities
    /\ fresh \subseteq Gid
    /\ elsewhere \subseteq Fd \X Gid /\ tunnel \subseteq Fd \X Gid /\ inbox \subseteq Fd \X Gid
    /\ file \in [Fd -> Gid \cup {None}]
    /\ epoll \in [Fd -> {RE, RWE, None}] /\ fd_curr_reg_event \in [Fd -> {RE, RWE, None}]
    /\ pool \in [Fd -> Conn \cup {None}]
    /\ worker_connection_num \in Int
    /\ pc \in {"wait", "events", "tunnel"}
    /\ \A e \in batch : e.fd \in Fd \cup {tunnel_fd}
    /\ timers \in [Gid -> Timer \cup {None}]
    /\ closed_fd \subseteq Fd /\ timeout_fd_copy \subseteq Fd
    /\ app \in [Gid -> {"none", "new", "closed"}]

(* What a context keeps true of its connection: the application knows it   *)
(* once it is ready, only then does it send, and with TLS it is ready when *)
(* the handshake is done; bytes left to send have a write event to come.   *)
Sound(conn, ssl) ==
    /\ conn.is_ready = conn.app_layer_notified
    /\ conn.send_buffer => conn.is_ready
    /\ ssl => conn.ssl_accepted = conn.is_ready
    /\ conn.send_buffer /\ ~conn.is_close => conn.interest = RWE

ConnsSound == \A fd \in Live : Sound(pool[fd], use_ssl)

(* A client on its way is in one place, and no two descriptors denote the  *)
(* same client.                                                            *)
OneOwner ==
    /\ tunnel \cap inbox = {} /\ elsewhere \cap (tunnel \cup inbox) = {}
    /\ \A fd \in Live : <<fd, pool[fd].gid>> \notin tunnel \cup inbox \cup elsewhere
    /\ \A f, g \in Fd : file[f] # None /\ file[f] = file[g] => f = g
    /\ \A fd \in Fd : file[fd] \notin fresh

(* DescriptorsExact, owner by owner.                                       *)
OwnersOpen ==
    /\ \A fd \in Live : file[fd] = pool[fd].gid
    /\ \A p \in tunnel \cup inbox \cup elsewhere : file[p[1]] = p[2]

OpenOwned ==
    \A fd \in Fd : file[fd] # None =>
        fd \in Live \/ <<fd, file[fd]>> \in tunnel \cup inbox \cup elsewhere

(* An event that waits is of a connection, or of one closed in this round, *)
(* and clients that were read are taken over before the next event.        *)
BatchKnown ==
    /\ \A e \in batch : e.fd \in Fd => e.fd \in Live \cup closed_fd
    /\ pc = "wait" => batch = {}
    /\ pc # "tunnel" => inbox = {}

(* With epoll a descriptor has one event at most, and until it is handled  *)
(* nobody but the timers closes the connection.                            *)
EpollBatch ==
    poller = "epoll" =>
        /\ \A e, f \in batch : e.fd \in Fd /\ e.fd = f.fd => e = f
        /\ \A e \in batch : Handled(e.fd) => e.fd \in Live /\ pool[e.fd].gid = e.gid

Watched == \A fd \in Fd :
    LET asked == IF fd \in Live THEN pool[fd].interest ELSE None
    IN  epoll[fd] = asked /\ fd_curr_reg_event[fd] = asked

IInv == /\ TypeOK /\ ConnsSound /\ OneOwner /\ OwnersOpen /\ OpenOwned
        /\ BatchKnown /\ EpollBatch /\ Watched /\ TimersExact /\ AppExact
        /\ CountExact

-----------------------------------------------------------------------------
(* StreamCtx: every call of a context leaves a sound connection behind.    *)

(* What a call of the context may make of a connection.                    *)
Successor(conn, next, ssl) ==
    /\ next \in Conn /\ Sound(next, ssl) /\ next.gid = conn.gid
    /\ conn.app_layer_notified => next.app_layer_notified

LEMMA ClosingSound ==
    ASSUME NEW conn \in Conn, NEW ssl \in BOOLEAN, Sound(conn, ssl)
    PROVE  Successor(conn, Closing(conn), ssl)
BY Zenon DEF Conn, Sound, Successor, Closing

(* Asking for RWE is always sound, asking for RE with nothing to send.     *)
LEMMA ModSound ==
    ASSUME NEW conn \in Conn, NEW ssl \in BOOLEAN, Sound(conn, ssl)
    PROVE  /\ Successor(conn, event_mod(conn, RWE), ssl)
           /\ ~conn.send_buffer => Successor(conn, event_mod(conn, RE), ssl)
BY Zenon DEF Conn, Sound, Successor, event_mod

LEMMA FlushSound ==
    ASSUME NEW conn \in Conn, NEW ssl \in BOOLEAN, Sound(conn, ssl),
           NEW next \in try_send_flush(conn)
    PROVE  Successor(conn, next, ssl)
<1>1. Successor(conn, [conn EXCEPT !.send_buffer = FALSE], ssl)
  BY Zenon DEF Conn, Sound, Successor
<1>2. QED
  BY <1>1, ClosingSound, ModSound, Zenon DEF try_send_flush

LEMMA SendSound ==
    ASSUME NEW conn \in Conn, NEW ssl \in BOOLEAN, Sound(conn, ssl),
           NEW next \in send_data(conn)
    PROVE  Successor(conn, next, ssl)
<1>1. CASE conn.is_close \/ ~conn.is_ready
  BY <1>1, Zenon DEF send_data, Successor
<1>2. CASE ~(conn.is_close \/ ~conn.is_ready)
  <2> DEFINE filled == [conn EXCEPT !.send_buffer = TRUE]
  <2>1. /\ filled \in Conn /\ filled.send_buffer /\ filled.gid = conn.gid
        /\ filled.app_layer_notified = conn.app_layer_notified
    BY Zenon DEF Conn
  <2>2. Successor(conn, event_mod(filled, RWE), ssl)
    BY <1>2, Zenon DEF Conn, Sound, Successor, event_mod
  <2>3. Successor(conn, [filled EXCEPT !.send_buffer = FALSE], ssl)
    BY <1>2, Zenon DEF Conn, Sound, Successor
  <2>4. Successor(conn, Closing(filled), ssl)
    BY <1>2, Zenon DEF Conn, Sound, Successor, Closing
  <2>5. next \in {[filled EXCEPT !.send_buffer = FALSE], event_mod(filled, RWE), Closing(filled)}
    BY <1>2, <2>1, Zenon DEF send_data, try_send_flush
  <2>6. QED
    BY <2>2, <2>3, <2>4, <2>5, Zenon
<1>3. QED
  BY <1>1, <1>2, Zenon

LEMMA TransferSound ==
    ASSUME NEW conn \in Conn, NEW ssl \in BOOLEAN, Sound(conn, ssl), NEW event,
           NEW next \in Transfer(conn, event)
    PROVE  Successor(conn, next, ssl)
<1>1. Successor(conn, conn, ssl) /\ Successor(conn, Closing(conn), ssl)
  BY ClosingSound, Zenon DEF Successor
<1>2. CASE next = Closing(conn)
  BY <1>1, <1>2, Zenon
<1>3. ASSUME NEW c \in {conn, Closing(conn)},
             next \in IF "WRITE" \in event THEN try_send_flush(c) ELSE {c}
      PROVE  Successor(conn, next, ssl)
  <2>1. c \in Conn /\ Sound(c, ssl) /\ Successor(conn, c, ssl)
    BY <1>1, Zenon DEF Successor
  <2>2. Successor(c, next, ssl)
    BY <1>3, <2>1, FlushSound, Zenon DEF Successor
  <2>3. QED
    BY <2>1, <2>2, Zenon DEF Successor
<1>4. QED
  BY <1>2, <1>3, Zenon DEF Transfer

LEMMA EventSound ==
    ASSUME NEW conn \in Conn, NEW ssl \in BOOLEAN, Sound(conn, ssl), NEW event,
           NEW next \in on_event(conn, event, ssl)
    PROVE  Successor(conn, next, ssl)
<1>1. CASE Handshaking(conn, ssl)
  <2>1. ~conn.send_buffer /\ ~conn.app_layer_notified
    BY <1>1, Zenon DEF Handshaking, Sound, Conn
  <2>2. /\ Accepted(conn) \in Conn /\ Sound(Accepted(conn), ssl)
        /\ Successor(conn, Accepted(conn), ssl)
    BY <2>1, Zenon DEF Accepted, Notified, Conn, Sound, Successor
  <2>3. Successor(conn, Closing(Accepted(conn)), ssl)
    BY <2>2, ClosingSound, Zenon DEF Successor
  <2>4. ASSUME next \in Transfer(Accepted(conn), event)
        PROVE  Successor(conn, next, ssl)
    BY <2>2, <2>4, TransferSound, Zenon DEF Successor
  <2>5. QED
    BY <1>1, <2>1, <2>3, <2>4, ModSound, ClosingSound, Zenon DEF on_event
<1>2. CASE ~Handshaking(conn, ssl)
  BY <1>2, TransferSound, Zenon DEF on_event
<1>3. QED
  BY <1>1, <1>2, Zenon

LEMMA CreateSound ==
    ASSUME NEW gid \in Gid, NEW ssl \in BOOLEAN, NEW next \in on_create(NewConn(gid), ssl)
    PROVE  next \in Conn /\ Sound(next, ssl) /\ next.gid = gid /\ next.interest = RWE
BY Zenon DEF on_create, NewConn, Notified, Closing, Conn, Sound

-----------------------------------------------------------------------------
(* Facts about single states.                                              *)

LEMMA Distinct ==
    /\ \A c \in Conn : c # None
    /\ \A t \in Timer : t # None
    /\ \A g \in Gid : g # None
    /\ RE # None /\ RWE # None
BY NoneAssumption, Zenon

LEMMA LiveFacts ==
    ASSUME TypeOK
    PROVE  /\ Live \subseteq Fd /\ IsFiniteSet(Live)
           /\ \A fd \in Live : pool[fd] \in Conn /\ pool[fd].gid \in Gid
           /\ \A fd \in Fd : fd \notin Live => pool[fd] = None
<1>1. Live \subseteq Fd
  BY Zenon DEF Live
<1>2. IsFiniteSet(Live)
  BY <1>1, FS_Subset, FiniteAssumption, Zenon
<1>3. \A fd \in Live : pool[fd] \in Conn
  BY Zenon DEF TypeOK, Live
<1>4. \A c \in Conn : c.gid \in Gid
  BY Zenon DEF Conn
<1>5. QED
  BY <1>1, <1>2, <1>3, <1>4, Zenon DEF Live

LEMMA GidsUnique ==
    ASSUME TypeOK, OneOwner, OwnersOpen
    PROVE  \A f, g \in Live : pool[f].gid = pool[g].gid => f = g
BY LiveFacts, Distinct DEF OneOwner, OwnersOpen

(* A client in transit holds a descriptor of its own.                      *)
LEMMA TransitFacts ==
    ASSUME TypeOK, OneOwner, OwnersOpen
    PROVE  /\ IsFiniteSet(tunnel \cup inbox)
           /\ \A p \in tunnel \cup inbox \cup elsewhere :
                 p[1] \in Fd /\ p[2] \in Gid /\ p = <<p[1], p[2]>> /\ p[1] \notin Live
           /\ \A p, q \in tunnel \cup inbox \cup elsewhere : p[1] = q[1] => p = q
<1>1. \A p \in tunnel \cup inbox \cup elsewhere :
         p[1] \in Fd /\ p[2] \in Gid /\ p = <<p[1], p[2]>>
  BY DEF TypeOK
<1>2. \A p, q \in tunnel \cup inbox \cup elsewhere : p[1] = q[1] => p = q
  BY <1>1 DEF OwnersOpen
<1>3. \A p \in tunnel \cup inbox \cup elsewhere : p[1] \notin Live
  BY <1>1 DEF OwnersOpen, OneOwner
<1>4. [p \in tunnel \cup inbox |-> p[1]] \in Injection(tunnel \cup inbox, Fd)
  BY <1>1, <1>2, Zenon DEF Injection, IsInjective
<1>5. IsFiniteSet(tunnel \cup inbox)
  BY <1>4, FS_Injection, FiniteAssumption, Zenon
<1>6. QED
  BY <1>1, <1>2, <1>3, <1>5, Zenon

-----------------------------------------------------------------------------
(* The other threads.                                                      *)

(* What depends only on the worker's own tables.                           *)
OwnTables == /\ ConnsSound /\ BatchKnown /\ EpollBatch
             /\ Watched /\ TimersExact /\ AppExact

LEMMA OwnTablesKept ==
    ASSUME OwnTables,
           UNCHANGED <<setup, epoll, inbox, pc, batch, pool, fd_curr_reg_event,
                       timers, closed_fd, timeout_fd_copy, app>>
    PROVE  OwnTables'
BY Zenon DEF OwnTables, ConnsSound, BatchKnown, EpollBatch, Handled, Watched, TimersExact, AppExact,
       Live, setup

LEMMA AcceptStep ==
    ASSUME IInv, NEW fd \in Fd, NEW gid \in Gid,
           on_listen_event(fd, gid) \/ dispatch_elsewhere(fd, gid)
    PROVE  IInv'
<1> USE DEF IInv
<1>1. /\ accept(fd, gid) /\ Live' = Live
      /\ UNCHANGED <<setup, epoll, inbox, pc, batch, pool, fd_curr_reg_event,
                     timers, closed_fd, timeout_fd_copy, app>>
      /\ \/ /\ tunnel' = tunnel \cup {<<fd, gid>>} /\ elsewhere' = elsewhere
            /\ worker_connection_num' = worker_connection_num + 1
         \/ /\ tunnel' = tunnel /\ elsewhere' = elsewhere \cup {<<fd, gid>>}
            /\ UNCHANGED worker_connection_num
  BY Zenon DEF on_listen_event, dispatch_elsewhere, Live
<1>2. /\ file[fd] = None /\ gid \in fresh
      /\ file' = [file EXCEPT ![fd] = gid] /\ fresh' = fresh \ {gid}
  BY <1>1, Zenon DEF accept
<1>3. TypeOK'
  BY <1>1, <1>2 DEF TypeOK, setup
<1>4. fd \notin Live /\ \A p \in tunnel \cup inbox \cup elsewhere : p[1] # fd
  BY <1>2, LiveFacts, TransitFacts, Distinct, Zenon DEF OwnersOpen
<1>5. OwnTables'
  BY <1>1, OwnTablesKept, Zenon DEF OwnTables
<1>6. OwnersOpen'
  <2>1. \A g \in Live' : file'[g] = pool'[g].gid
    BY <1>1, <1>2, <1>4, LiveFacts, Zenon DEF TypeOK, OwnersOpen
  <2>2. \A p \in tunnel \cup inbox \cup elsewhere : file'[p[1]] = p[2]
    BY <1>2, <1>4, TransitFacts, Zenon DEF TypeOK, OwnersOpen
  <2>3. file'[fd] = gid
    BY <1>2, Zenon DEF TypeOK
  <2>4. QED
    BY <1>1, <2>1, <2>2, <2>3 DEF OwnersOpen
<1>7. OpenOwned'
  BY <1>1, <1>2, Zenon DEF TypeOK, OpenOwned
<1>8. OneOwner'
  <2>1. \A f, g \in Fd : file'[f] # None /\ file'[f] = file'[g] => f = g
    BY <1>2, Distinct DEF TypeOK, OneOwner
  <2>2. \A f \in Fd : file'[f] \notin fresh'
    BY <1>2, Zenon DEF TypeOK, OneOwner
  <2>3. <<fd, gid>> \notin tunnel \cup inbox \cup elsewhere
    BY <1>4, Zenon
  <2>4. \A f \in Live : <<f, pool[f].gid>> # <<fd, gid>>
    BY <1>4, Zenon
  <2>5. QED
    BY <1>1, <2>1, <2>2, <2>3, <2>4 DEF OneOwner
<1>9. CountExact'
  <2>1. <<fd, gid>> \notin tunnel \cup inbox
    BY <1>4
  <2>2. Cardinality((tunnel \cup inbox) \cup {<<fd, gid>>}) = Cardinality(tunnel \cup inbox) + 1
    BY <2>1, TransitFacts, FS_AddElement, Zenon
  <2>3. Cardinality(Live) \in Nat /\ Cardinality(tunnel \cup inbox) \in Nat
    BY LiveFacts, TransitFacts, FS_CardinalityType, Zenon
  <2>4. worker_connection_num = Cardinality(Live) + Cardinality(tunnel \cup inbox)
    BY Zenon DEF CountExact
  <2>5. CASE on_listen_event(fd, gid)
    <3>1. tunnel' \cup inbox' = (tunnel \cup inbox) \cup {<<fd, gid>>}
      BY <2>5, Zenon DEF on_listen_event
    <3>2. Cardinality(tunnel' \cup inbox') = Cardinality(tunnel \cup inbox) + 1
      BY <2>2, <3>1, Zenon
    <3>3. worker_connection_num' = worker_connection_num + 1
      BY <2>5, Zenon DEF on_listen_event
    <3>4. worker_connection_num' = Cardinality(Live') + Cardinality(tunnel' \cup inbox')
      BY <1>1, <2>3, <2>4, <3>2, <3>3
    <3>5. QED
      BY <3>4, Zenon DEF CountExact
  <2>6. CASE dispatch_elsewhere(fd, gid)
    BY <1>1, <2>4, <2>6, Zenon DEF dispatch_elsewhere, CountExact
  <2>7. QED
    BY <2>5, <2>6, Zenon
<1>10. QED
  BY <1>3, <1>5, <1>6, <1>7, <1>8, <1>9, Zenon DEF OwnTables

LEMMA CloseElsewhereStep ==
    ASSUME IInv, NEW fd \in Fd, NEW gid \in Gid, close_elsewhere(fd, gid)
    PROVE  IInv'
<1> USE DEF IInv
<1>1. /\ <<fd, gid>> \in elsewhere /\ elsewhere' = elsewhere \ {<<fd, gid>>}
      /\ file' = [file EXCEPT ![fd] = None] /\ Live' = Live
      /\ UNCHANGED <<setup, epoll, fresh, tunnel, inbox, worker_connection_num, pc, batch, pool,
                     fd_curr_reg_event, timers, closed_fd, timeout_fd_copy, app>>
  BY Zenon DEF close_elsewhere, Live
<1>2. TypeOK'
  BY <1>1, Zenon DEF TypeOK, setup
<1>3. fd \notin Live /\ \A p \in tunnel \cup inbox \cup elsewhere' : p[1] # fd
  BY <1>1, TransitFacts, Zenon DEF OneOwner
<1>4. OwnTables'
  BY <1>1, OwnTablesKept, Zenon DEF OwnTables
<1>5. OwnersOpen'
  <2>1. \A g \in Live' : file'[g] = pool'[g].gid
    BY <1>1, <1>3, LiveFacts, SMTT(30) DEF TypeOK, OwnersOpen
  <2>2. \A p \in tunnel \cup inbox \cup elsewhere' : file'[p[1]] = p[2]
    BY <1>1, <1>3, TransitFacts, Zenon DEF TypeOK, OwnersOpen
  <2>3. QED
    BY <1>1, <2>1, <2>2, Zenon DEF OwnersOpen
<1>6. OpenOwned'
  <2>1. \A f \in Fd : file'[f] = IF f = fd THEN None ELSE file[f]
    BY <1>1, Zenon DEF TypeOK
  <2>2. \A f \in Fd : file'[f] # None => file'[f] = file[f] /\ <<f, file[f]>> # <<fd, gid>>
    BY <2>1, SMTT(30)
  <2>3. QED
    BY <1>1, <2>2 DEF OpenOwned
<1>7. OneOwner'
  <2>1. \A f \in Fd : file'[f] = IF f = fd THEN None ELSE file[f]
    BY <1>1, Zenon DEF TypeOK
  <2>2. None \notin fresh
    BY Distinct, Zenon DEF TypeOK
  <2>3. QED
    BY <1>1, <2>1, <2>2 DEF OneOwner
<1>8. CountExact'
  BY <1>1, Zenon DEF CountExact
<1>9. QED
  BY <1>2, <1>4, <1>5, <1>6, <1>7, <1>8, Zenon DEF OwnTables

-----------------------------------------------------------------------------
(* Calls of a context.                                                     *)

LEMMA UpdateStep ==
    ASSUME IInv, NEW fd \in Live, NEW conn, Successor(pool[fd], conn, use_ssl), Update(fd, conn),
           UNCHANGED <<setup, file, mainVars, worker_connection_num, pc, inbox,
                       closed_fd, timeout_fd_copy>>,
           batch' \subseteq batch
    PROVE  IInv'
<1> USE DEF IInv
<1>1. /\ conn \in Conn /\ conn # None /\ conn.gid = pool[fd].gid /\ conn.interest \in {RE, RWE}
      /\ conn.gid \in Gid
  BY Distinct, Zenon DEF Successor, Conn
<1>2. pool' = [pool EXCEPT ![fd] = conn] /\ fd \in Fd
  BY LiveFacts, Zenon DEF Update
<1>3. /\ pool' \in [Fd -> Conn \cup {None}] /\ Live' = Live
      /\ \A g \in Fd : g # fd => pool'[g] = pool[g]
      /\ pool'[fd] = conn
  BY <1>1, <1>2, Zenon DEF TypeOK, Live
<1>4. \A g \in Live : pool'[g].gid = pool[g].gid
  BY <1>1, <1>3, LiveFacts, Zenon
<1>5. /\ epoll' = [epoll EXCEPT ![fd] = conn.interest]
      /\ fd_curr_reg_event' = [fd_curr_reg_event EXCEPT ![fd] = conn.interest]
  <2>1. epoll[fd] = pool[fd].interest /\ fd_curr_reg_event[fd] = pool[fd].interest
    BY <1>2, Zenon DEF Watched
  <2>2. pool[fd].interest # None
    BY LiveFacts, Distinct, Zenon DEF Conn
  <2>3. mod(fd, conn.interest)
    BY Zenon DEF Update
  <2>4. CASE fd_curr_reg_event[fd] # conn.interest
    BY <2>1, <2>2, <2>3, <2>4, Zenon DEF mod
  <2>5. CASE fd_curr_reg_event[fd] = conn.interest
    BY <2>1, <2>3, <2>5, Zenon DEF mod, TypeOK
  <2>6. QED
    BY <2>4, <2>5, Zenon
<1>6. /\ timers' = IF conn.app_layer_notified /\ ~pool[fd].app_layer_notified
                   THEN [timers EXCEPT ![conn.gid] = None] ELSE timers
      /\ app' = IF conn.app_layer_notified /\ ~pool[fd].app_layer_notified
                THEN [app EXCEPT ![conn.gid] = "new"] ELSE app
  BY Zenon DEF Update, Forget, TypeOK
<1>7. TypeOK'
  <2>1. /\ epoll' \in [Fd -> {RE, RWE, None}] /\ fd_curr_reg_event' \in [Fd -> {RE, RWE, None}]
    BY <1>1, <1>5, Zenon DEF TypeOK
  <2>2. timers' \in [Gid -> Timer \cup {None}] /\ app' \in [Gid -> {"none", "new", "closed"}]
    BY <1>6, Zenon DEF TypeOK
  <2>3. QED
    BY <1>3, <2>1, <2>2, Zenon DEF TypeOK, setup, mainVars
<1>8. ConnsSound'
  <2>1. use_ssl' = use_ssl
    BY Zenon DEF setup
  <2>2. \A g \in Live : Sound(pool'[g], use_ssl)
    BY <1>3, LiveFacts, Zenon DEF ConnsSound, Successor
  <2>3. QED
    BY <1>3, <2>1, <2>2, Zenon DEF ConnsSound
<1>9. OneOwner' /\ OwnersOpen' /\ OpenOwned'
  BY <1>3, <1>4, Zenon DEF OneOwner, OwnersOpen, OpenOwned, mainVars
<1>10. BatchKnown' /\ EpollBatch'
  BY <1>3, <1>4, Zenon DEF BatchKnown, EpollBatch, Handled, setup
<1>11. Watched'
  BY <1>2, <1>3, <1>5, Zenon DEF Watched, TypeOK
<1>12. TimersExact'
  <2> SUFFICES ASSUME NEW gid \in Gid
               PROVE  IF \E g \in Live : pool'[g].gid = gid /\ ~pool'[g].app_layer_notified
                      THEN /\ timers'[gid] # None /\ timers'[gid].fd \in Live
                           /\ pool'[timers'[gid].fd].gid = gid
                      ELSE timers'[gid] = None
    BY <1>3, Zenon DEF TimersExact
  <2>1. CASE gid # conn.gid
    <3>1. \A g \in Live : pool[g].gid = gid => pool'[g] = pool[g]
      BY <1>1, <1>3, <2>1, LiveFacts, Zenon
    <3>2. timers'[gid] = timers[gid]
      BY <1>6, <2>1, Zenon DEF TypeOK
    <3>3. QED
      BY <1>4, <3>1, <3>2 DEF TimersExact
  <2>2. CASE gid = conn.gid
    <3>1. \A g \in Live : pool[g].gid = gid => g = fd
      BY <1>1, <2>2, GidsUnique, Zenon
    <3>2. (\E g \in Live : pool[g].gid = gid /\ ~pool[g].app_layer_notified)
          <=> ~pool[fd].app_layer_notified
      BY <1>1, <2>2, <3>1, Zenon
    <3>3. (\E g \in Live : pool'[g].gid = gid /\ ~pool'[g].app_layer_notified)
          <=> ~conn.app_layer_notified
      BY <1>1, <1>3, <1>4, <2>2, <3>1, SMTT(30)
    <3>4. pool[fd].app_layer_notified => conn.app_layer_notified
      BY Zenon DEF Successor
    <3>5. CASE ~conn.app_layer_notified
      <4>1. timers'[gid] = timers[gid]
        BY <1>6, <3>5, Zenon
      <4>2. /\ timers[gid] # None /\ timers[gid].fd \in Live
            /\ pool[timers[gid].fd].gid = gid
        BY <3>2, <3>4, <3>5, SMTT(30) DEF TimersExact
      <4>3. QED
        BY <1>4, <3>3, <3>5, <4>1, <4>2, Zenon
    <3>6. CASE conn.app_layer_notified /\ ~pool[fd].app_layer_notified
      BY <1>6, <2>2, <3>3, <3>6, Zenon DEF TypeOK
    <3>7. CASE conn.app_layer_notified /\ pool[fd].app_layer_notified
      <4>1. timers[gid] = None
        BY <3>2, <3>7, Zenon DEF TimersExact
      <4>2. QED
        BY <1>6, <3>3, <3>7, <4>1, Zenon
    <3>8. QED
      BY <3>5, <3>6, <3>7, Zenon
  <2>3. QED
    BY <2>1, <2>2, Zenon
<1>13. AppExact'
  <2> SUFFICES ASSUME NEW gid \in Gid
               PROVE  app'[gid] = "new" <=>
                        \E g \in Live : pool'[g].gid = gid /\ pool'[g].app_layer_notified
    BY <1>3, Zenon DEF AppExact
  <2>1. CASE gid # conn.gid
    <3>1. \A g \in Live : pool[g].gid = gid => pool'[g] = pool[g]
      BY <1>1, <1>3, <2>1, LiveFacts, SMTT(30)
    <3>2. app'[gid] = app[gid]
      BY <1>6, <2>1, SMTT(30) DEF TypeOK
    <3>3. QED
      BY <1>4, <3>1, <3>2 DEF AppExact
  <2>2. CASE gid = conn.gid
    <3>1. \A g \in Live : pool[g].gid = gid => g = fd
      BY <1>1, <2>2, GidsUnique, Zenon
    <3>2. app[gid] = "new" <=> pool[fd].app_layer_notified
      BY <1>1, <2>2, <3>1, Zenon DEF AppExact
    <3>3. (\E g \in Live : pool'[g].gid = gid /\ pool'[g].app_layer_notified)
          <=> conn.app_layer_notified
      BY <1>1, <1>3, <1>4, <2>2, <3>1, SMTT(30)
    <3>4. pool[fd].app_layer_notified => conn.app_layer_notified
      BY Zenon DEF Successor
    <3>5. QED
      BY <1>6, <2>2, <3>2, <3>3, <3>4, Zenon DEF TypeOK
  <2>3. QED
    BY <2>1, <2>2, Zenon
<1>14. CountExact'
  BY <1>3, SMTT(30) DEF CountExact, mainVars
<1>15. QED
  BY <1>7, <1>8, <1>9, <1>10, <1>11, <1>12, <1>13, <1>14, Zenon

LEMMA ClientEventStep ==
    ASSUME IInv, NEW e \in batch, on_client_event(e)
    PROVE  IInv'
<1>1. e.fd \in Live
  BY Zenon DEF on_client_event, Handled, Live
<1>2. PICK conn \in on_event(pool[e.fd], e.code, use_ssl) : Update(e.fd, conn)
  BY Zenon DEF on_client_event
<1>3. Successor(pool[e.fd], conn, use_ssl)
  BY <1>1, <1>2, LiveFacts, EventSound, Zenon DEF IInv, ConnsSound, TypeOK
<1>4. QED
  BY <1>1, <1>2, <1>3, UpdateStep, Zenon DEF on_client_event, Take

LEMMA WorkerTunnelStep ==
    ASSUME IInv, NEW fd \in Fd, on_worker_tunnel(fd)
    PROVE  IInv'
<1>1. PICK conn \in {Closing(pool[fd])} \cup send_data(pool[fd]) : Update(fd, conn)
  BY Zenon DEF on_worker_tunnel
<1>2. Successor(pool[fd], conn, use_ssl)
  BY <1>1, LiveFacts, SendSound, ClosingSound, Zenon DEF IInv, ConnsSound, TypeOK, on_worker_tunnel
<1>3. QED
  BY <1>1, <1>2, UpdateStep, Zenon DEF on_worker_tunnel

-----------------------------------------------------------------------------
(* Every step of the worker that closes a descriptor, or ends a part of    *)
(* the loop, preserves the invariant.                                      *)

(* close_client_fd for connections, or for clients just read from the      *)
(* tunnel: nobody else owns what it closes.                                *)
LEMMA CloseStep ==
    ASSUME IInv, NEW S \in SUBSET Fd, NEW t, t \in [Gid -> Timer \cup {None}],
           close_client_fds(S, t), UNCHANGED <<setup, mainVars>>,
           inbox' = {p \in inbox : p[1] \notin S},
           \A p \in tunnel \cup elsewhere : p[1] \notin S
    PROVE  /\ Live' = Live \ S
           /\ \A fd \in Live \ S : pool'[fd] = pool[fd]
           /\ timers' = [gid \in Gid |-> IF \E fd \in S \cap Live : pool[fd].gid = gid
                                         THEN None ELSE t[gid]]
           /\ file' \in [Fd -> Gid \cup {None}]
           /\ epoll' \in [Fd -> {RE, RWE, None}] /\ fd_curr_reg_event' \in [Fd -> {RE, RWE, None}]
           /\ pool' \in [Fd -> Conn \cup {None}] /\ timers' \in [Gid -> Timer \cup {None}]
           /\ ConnsSound' /\ OneOwner' /\ OwnersOpen' /\ OpenOwned' /\ Watched'
<1> USE DEF IInv
<1>1. /\ file' = [fd \in Fd |-> IF fd \in S THEN None ELSE file[fd]]
      /\ epoll' = [fd \in Fd |-> IF fd \in S THEN None ELSE epoll[fd]]
      /\ pool' = [fd \in Fd |-> IF fd \in S THEN None ELSE pool[fd]]
      /\ fd_curr_reg_event' = [fd \in Fd |-> IF fd \in S \cap Live THEN None
                                              ELSE fd_curr_reg_event[fd]]
  BY Zenon DEF close_client_fds, Forget, TypeOK
<1>2. timers' = [gid \in Gid |-> IF \E fd \in S \cap Live : pool[fd].gid = gid
                                 THEN None ELSE t[gid]]
  BY Zenon DEF close_client_fds, Forget
<1>3. Live' = Live \ S /\ \A fd \in Live \ S : pool'[fd] = pool[fd]
  BY <1>1, Zenon DEF Live
<1>4. timers' \in [Gid -> Timer \cup {None}]
  BY <1>2, Zenon
<1>5. /\ file' \in [Fd -> Gid \cup {None}] /\ pool' \in [Fd -> Conn \cup {None}]
      /\ epoll' \in [Fd -> {RE, RWE, None}] /\ fd_curr_reg_event' \in [Fd -> {RE, RWE, None}]
  BY <1>1, Zenon DEF TypeOK
<1>6. ConnsSound'
  <2>1. use_ssl' = use_ssl
    BY Zenon DEF setup
  <2>2. QED
    BY <1>3, <2>1, Zenon DEF ConnsSound
<1>7. tunnel' = tunnel /\ elsewhere' = elsewhere /\ fresh' = fresh
  BY Zenon DEF mainVars
<1>8. OneOwner'
  <2>1. \A f, g \in Fd : file'[f] # None /\ file'[f] = file'[g] => f = g
    BY <1>1, Zenon DEF OneOwner
  <2>2. \A f \in Fd : file'[f] \notin fresh'
    BY <1>1, <1>7, Distinct, Zenon DEF OneOwner, TypeOK
  <2>3. QED
    BY <1>3, <1>7, <2>1, <2>2, Zenon DEF OneOwner
<1>9. OwnersOpen'
  <2>1. \A fd \in Live' : file'[fd] = pool'[fd].gid
    BY <1>1, <1>3, LiveFacts, Zenon DEF OwnersOpen
  <2>2. \A p \in tunnel \cup inbox' \cup elsewhere : file'[p[1]] = p[2]
    BY <1>1, TransitFacts, Zenon DEF OwnersOpen
  <2>3. QED
    BY <1>7, <2>1, <2>2, Zenon DEF OwnersOpen
<1>10. OpenOwned'
  BY <1>1, <1>3, <1>7, TransitFacts, Zenon DEF OpenOwned
<1>11. Watched'
  BY <1>1, <1>3, Zenon DEF Watched
<1>12. QED
  BY <1>2, <1>3, <1>4, <1>5, <1>6, <1>8, <1>9, <1>10, <1>11, Zenon

LEMMA EventCloseStep ==
    ASSUME IInv, NEW e \in batch, on_event_close(e)
    PROVE  IInv'
<1> USE DEF IInv
<1> DEFINE fd == e.fd
<1>1. /\ fd \in Fd /\ fd \in Live /\ fd \notin timeout_fd_copy
      /\ close_client_fds({fd}, timers) /\ closed_fd' = closed_fd \cup {fd}
      /\ batch' = batch \ {e} /\ pc = "events"
      /\ UNCHANGED <<setup, mainVars, pc, inbox, timeout_fd_copy>>
  BY Zenon DEF on_event_close, Take, Handled, Live, close_client_fd
<1>2. inbox' = {p \in inbox : p[1] \notin {fd}} /\ \A p \in tunnel \cup elsewhere : p[1] \notin {fd}
  BY <1>1, TransitFacts, Zenon
<1>3. /\ Live' = Live \ {fd}
      /\ \A g \in Live \ {fd} : pool'[g] = pool[g]
      /\ timers' = [gid \in Gid |-> IF \E g \in {fd} \cap Live : pool[g].gid = gid
                                    THEN None ELSE timers[gid]]
      /\ file' \in [Fd -> Gid \cup {None}]
      /\ epoll' \in [Fd -> {RE, RWE, None}] /\ fd_curr_reg_event' \in [Fd -> {RE, RWE, None}]
      /\ pool' \in [Fd -> Conn \cup {None}] /\ timers' \in [Gid -> Timer \cup {None}]
      /\ ConnsSound' /\ OneOwner' /\ OwnersOpen' /\ OpenOwned' /\ Watched'
  BY <1>1, <1>2, CloseStep, Zenon DEF TypeOK
<1>4. /\ worker_connection_num' = worker_connection_num - 1
      /\ pool[fd].gid \in Gid /\ pool[fd].is_ready = pool[fd].app_layer_notified
      /\ app' = IF pool[fd].is_ready THEN [app EXCEPT ![pool[fd].gid] = "closed"] ELSE app
  BY <1>1, LiveFacts, FS_Singleton, Zenon DEF on_event_close, close_client_fds, ConnsSound, Sound
<1>5. TypeOK'
  <2>1. app' \in [Gid -> {"none", "new", "closed"}] /\ worker_connection_num' \in Int
    BY <1>4 DEF TypeOK
  <2>2. QED
    BY <1>1, <1>3, <2>1, Zenon DEF TypeOK, setup, mainVars
<1>6. BatchKnown'
  BY <1>1, <1>3, Zenon DEF BatchKnown
<1>7. EpollBatch'
  <2>1. poller = "epoll" => \A f \in batch' : f.fd # fd
    BY <1>1, Zenon DEF EpollBatch
  <2>2. QED
    BY <1>1, <1>3, <2>1, Zenon DEF EpollBatch, Handled, setup
<1>8. TimersExact'
  <2> SUFFICES ASSUME NEW gid \in Gid
               PROVE  IF \E g \in Live' : pool'[g].gid = gid /\ ~pool'[g].app_layer_notified
                      THEN /\ timers'[gid] # None /\ timers'[gid].fd \in Live'
                           /\ pool'[timers'[gid].fd].gid = gid
                      ELSE timers'[gid] = None
    BY Zenon DEF TimersExact
  <2>1. CASE gid = pool[fd].gid
    <3>1. \A g \in Live : pool[g].gid = gid => g = fd
      BY <1>1, <2>1, GidsUnique, Zenon
    <3>2. ~ \E g \in Live' : pool'[g].gid = gid
      BY <1>3, <3>1, Zenon
    <3>3. timers'[gid] = None
      BY <1>1, <1>3, <2>1, Zenon
    <3>4. QED
      BY <3>2, <3>3, Zenon
  <2>2. CASE gid # pool[fd].gid
    <3>1. timers'[gid] = timers[gid]
      BY <1>3, <2>2, Zenon
    <3>2. \A g \in Live : pool[g].gid = gid => g \in Live' /\ pool'[g] = pool[g]
      BY <1>3, <2>2, Zenon
    <3>3. \A g \in Live' : g \in Live /\ pool'[g] = pool[g]
      BY <1>3, Zenon
    <3>4. QED
      BY <3>1, <3>2, <3>3 DEF TimersExact
  <2>3. QED
    BY <2>1, <2>2, Zenon
<1>9. AppExact'
  <2> SUFFICES ASSUME NEW gid \in Gid
               PROVE  app'[gid] = "new" <=>
                        \E g \in Live' : pool'[g].gid = gid /\ pool'[g].app_layer_notified
    BY Zenon DEF AppExact
  <2>1. CASE gid = pool[fd].gid
    <3>1. \A g \in Live : pool[g].gid = gid => g = fd
      BY <1>1, <2>1, GidsUnique, SMTT(30)
    <3>2. app'[gid] # "new"
      BY <1>1, <1>4, <2>1, <3>1 DEF AppExact, TypeOK
    <3>3. QED
      BY <1>3, <3>1, <3>2, Zenon
  <2>2. CASE gid # pool[fd].gid
    BY <1>1, <1>3, <1>4, <2>2 DEF AppExact, TypeOK
  <2>3. QED
    BY <2>1, <2>2, Zenon
<1>10. CountExact'
  <2>1. Cardinality(Live \ {fd}) = Cardinality(Live) - 1
    BY <1>1, LiveFacts, FS_RemoveElement, Zenon
  <2>2. Cardinality(Live) \in Nat /\ Cardinality(tunnel \cup inbox) \in Nat
    BY LiveFacts, TransitFacts, FS_CardinalityType, Zenon
  <2>3. Cardinality(Live') = Cardinality(Live) - 1
    BY <1>3, <2>1, Zenon
  <2>4. Cardinality(tunnel' \cup inbox') = Cardinality(tunnel \cup inbox)
    BY <1>1, Zenon DEF mainVars
  <2>5. worker_connection_num = Cardinality(Live) + Cardinality(tunnel \cup inbox)
    BY Zenon DEF CountExact
  <2>6. worker_connection_num' = Cardinality(Live') + Cardinality(tunnel' \cup inbox')
    BY <1>4, <2>2, <2>3, <2>4, <2>5
  <2>7. QED
    BY <2>6, Zenon DEF CountExact
<1>11. QED
  BY <1>3, <1>5, <1>6, <1>7, <1>8, <1>9, <1>10, Zenon

-----------------------------------------------------------------------------
(* Steps of the loop that leave the tables alone.                          *)

LEMMA LoopStep ==
    ASSUME IInv,
           \/ \E e \in batch : skip_timed_out(e) \/ no_connection(e) \/ on_tunnel_event(e)
           \/ on_tunnel_event_end \/ loop_end
    PROVE  IInv'
<1> USE DEF IInv
<1>1. ASSUME NEW e \in batch, no_connection(e)
      PROVE  UNCHANGED <<file, epoll, worker_connection_num, pool, fd_curr_reg_event, timers,
                         closed_fd>>
  <2>1. e.fd \in Fd /\ e.fd \notin Live
    BY <1>1, Zenon DEF no_connection, Handled, Live
  <2>2. e.fd \in closed_fd
    BY <1>1, <2>1, Zenon DEF BatchKnown
  <2>3. QED
    BY <1>1, <2>2, Zenon DEF no_connection
<1>2. /\ UNCHANGED <<setup, file, epoll, fresh, elsewhere, worker_connection_num, pool,
                     fd_curr_reg_event, timers, closed_fd, timeout_fd_copy, app>>
      /\ batch' \subseteq batch
      /\ pc' \in {"wait", "events", "tunnel"}
      /\ pc' = "wait" => batch' = {}
      /\ pc' # "tunnel" => inbox' = {}
      /\ \/ inbox' = inbox /\ tunnel' = tunnel
         \/ inbox = {} /\ inbox' = tunnel /\ tunnel' = {}
  <2>1. CASE \E e \in batch : skip_timed_out(e) \/ no_connection(e)
    <3>1. PICK e \in batch : skip_timed_out(e) \/ no_connection(e)
      BY <2>1, SMTT(30)
    <3>2. /\ Take(e) /\ UNCHANGED app
          /\ UNCHANGED <<file, epoll, worker_connection_num, pool, fd_curr_reg_event, timers,
                         closed_fd>>
      BY <1>1, <3>1, Zenon DEF skip_timed_out, no_connection
    <3>3. /\ pc = "events" /\ batch' \subseteq batch
          /\ UNCHANGED <<setup, fresh, elsewhere, tunnel, pc, inbox, timeout_fd_copy>>
      BY <3>2, Zenon DEF Take, mainVars
    <3>4. inbox = {}
      BY <3>3, Zenon DEF BatchKnown
    <3>5. QED
      BY <3>2, <3>3, <3>4, Zenon
  <2>2. CASE \E e \in batch : on_tunnel_event(e)
    <3>1. PICK e \in batch : on_tunnel_event(e)
      BY <2>2, Zenon
    <3>2. pc = "events" /\ inbox = {}
      BY <3>1, Zenon DEF on_tunnel_event, BatchKnown
    <3>3. QED
      BY <3>1, <3>2, Zenon DEF on_tunnel_event
  <2>3. CASE on_tunnel_event_end \/ loop_end
    <3>1. /\ UNCHANGED <<setup, file, epoll, fresh, elsewhere, tunnel, worker_connection_num, batch,
                         inbox, pool, fd_curr_reg_event, timers, closed_fd, timeout_fd_copy, app>>
          /\ \/ pc = "tunnel" /\ inbox = {} /\ pc' = "events"
             \/ pc = "events" /\ batch = {} /\ pc' = "wait"
      BY <2>3, Zenon DEF on_tunnel_event_end, loop_end, mainVars
    <3>2. inbox = {}
      BY <3>1, Zenon DEF BatchKnown
    <3>3. QED
      BY <3>1, <3>2, Zenon
  <2>4. QED
    BY <2>1, <2>2, <2>3, Zenon
<1>3. Live' = Live /\ tunnel' \cup inbox' = tunnel \cup inbox
  BY <1>2, Zenon DEF Live
<1>4. TypeOK'
  BY <1>2, Zenon DEF TypeOK, setup
<1>5. ConnsSound' /\ Watched' /\ TimersExact' /\ AppExact'
  BY <1>2, <1>3, Zenon DEF ConnsSound, Watched, TimersExact, AppExact, setup
<1>6. OneOwner' /\ OwnersOpen' /\ OpenOwned'
  BY <1>2, <1>3, Zenon DEF OneOwner, OwnersOpen, OpenOwned
<1>7. BatchKnown' /\ EpollBatch'
  BY <1>2, <1>3, Zenon DEF BatchKnown, EpollBatch, Handled, setup
<1>8. CountExact'
  BY <1>2, <1>3, Zenon DEF CountExact
<1>9. QED
  BY <1>4, <1>5, <1>6, <1>7, <1>8, Zenon

-----------------------------------------------------------------------------
(* Taking a client over.                                                   *)

(* on_new_client_fd gives up: the descriptor is closed and counted down.   *)
LEMMA GiveUpStep ==
    ASSUME IInv, NEW fd \in Fd, NEW gid \in Gid, Receive(fd, gid),
           close_client_fds({fd}, timers), closed_fd' = closed_fd \cup {fd}, UNCHANGED app
    PROVE  IInv'
<1> USE DEF IInv
<1>1. /\ <<fd, gid>> \in inbox /\ inbox' = inbox \ {<<fd, gid>>} /\ pc = "tunnel"
      /\ UNCHANGED <<setup, mainVars, pc, batch, timeout_fd_copy>>
  BY Zenon DEF Receive
<1>2. /\ fd \notin Live /\ inbox' = {p \in inbox : p[1] \notin {fd}}
      /\ \A p \in tunnel \cup elsewhere : p[1] \notin {fd}
  <2>1. fd \notin Live
    BY <1>1, TransitFacts, Zenon
  <2>2. \A p \in tunnel \cup inbox \cup elsewhere : p[1] = fd => p = <<fd, gid>>
    BY <1>1, TransitFacts, Zenon
  <2>3. <<fd, gid>> \notin tunnel \cup elsewhere
    BY <1>1, Zenon DEF OneOwner
  <2>4. QED
    BY <1>1, <2>1, <2>2, <2>3
<1>3. timers \in [Gid -> Timer \cup {None}]
  BY Zenon DEF TypeOK
<1>4. /\ Live' = Live \ {fd}
      /\ \A g \in Live \ {fd} : pool'[g] = pool[g]
      /\ timers' = [x \in Gid |-> IF \E g \in {fd} \cap Live : pool[g].gid = x
                                  THEN None ELSE timers[x]]
      /\ file' \in [Fd -> Gid \cup {None}]
      /\ epoll' \in [Fd -> {RE, RWE, None}] /\ fd_curr_reg_event' \in [Fd -> {RE, RWE, None}]
      /\ pool' \in [Fd -> Conn \cup {None}] /\ timers' \in [Gid -> Timer \cup {None}]
      /\ ConnsSound' /\ OneOwner' /\ OwnersOpen' /\ OpenOwned' /\ Watched'
  BY <1>1, <1>2, <1>3, CloseStep, Zenon
<1>5. Live' = Live /\ (\A g \in Live : pool'[g] = pool[g]) /\ timers' = timers
  <2>1. Live \ {fd} = Live /\ {fd} \cap Live = {}
    BY <1>2, Zenon
  <2>2. timers' = [x \in Gid |-> timers[x]]
    BY <1>4, <2>1, Zenon
  <2>3. timers' = timers
    BY <1>3, <2>2, Zenon
  <2>4. QED
    BY <1>4, <2>1, <2>3, Zenon
<1>6. worker_connection_num' = worker_connection_num - 1
  BY FS_Singleton, Zenon DEF close_client_fds
<1>7. TypeOK'
  BY <1>1, <1>4, <1>6, SMTT(30) DEF TypeOK, setup, mainVars
<1>8. BatchKnown' /\ EpollBatch'
  BY <1>1, <1>5, Zenon DEF BatchKnown, EpollBatch, Handled, setup
<1>9. TimersExact' /\ AppExact'
  BY <1>5 DEF TimersExact, AppExact
<1>10. CountExact'
  <2>1. Cardinality((tunnel \cup inbox) \ {<<fd, gid>>}) = Cardinality(tunnel \cup inbox) - 1
    BY <1>1, TransitFacts, FS_RemoveElement, Zenon
  <2>2. Cardinality(Live) \in Nat /\ Cardinality(tunnel \cup inbox) \in Nat
    BY LiveFacts, TransitFacts, FS_CardinalityType, Zenon
  <2>3. tunnel' \cup inbox' = (tunnel \cup inbox) \ {<<fd, gid>>}
    BY <1>1, Zenon DEF OneOwner, mainVars
  <2>4. Cardinality(tunnel' \cup inbox') = Cardinality(tunnel \cup inbox) - 1
    BY <2>1, <2>3, Zenon
  <2>5. worker_connection_num = Cardinality(Live) + Cardinality(tunnel \cup inbox)
    BY Zenon DEF CountExact
  <2>6. worker_connection_num' = Cardinality(Live') + Cardinality(tunnel' \cup inbox')
    BY <1>5, <1>6, <2>2, <2>4, <2>5
  <2>7. QED
    BY <2>6, Zenon DEF CountExact
<1>11. QED
  BY <1>4, <1>7, <1>8, <1>9, <1>10, Zenon

LEMMA RefusedStep ==
    ASSUME IInv, NEW fd \in Fd, NEW gid \in Gid, on_new_client_fd_refused(fd, gid)
    PROVE  IInv'
BY GiveUpStep, Zenon DEF on_new_client_fd_refused, close_client_fd

(* Failures after set_fd do what close_client_fd would do.                 *)
LEMMA FailsStep ==
    ASSUME IInv, NEW fd \in Fd, NEW gid \in Gid, NEW failure, failure # "new_ctx",
           on_new_client_fd_fails(fd, gid, failure)
    PROVE  IInv'
<1>1. Receive(fd, gid) /\ <<fd, gid>> \in inbox
  BY Zenon DEF on_new_client_fd_fails, Receive
<1>2. fd \notin Live /\ pool[fd] = None
  BY <1>1, TransitFacts, LiveFacts, Zenon DEF IInv
<1>3. close_client_fds({fd}, timers)
  <2>1. timers' = Forget(timers, {pool[g].gid : g \in {fd} \cap Live})
    BY <1>2, Zenon DEF on_new_client_fd_fails, Forget, IInv, TypeOK
  <2>2. pool' = Forget(pool, {fd})
    BY <1>2, SMTT(30) DEF on_new_client_fd_fails, Forget, IInv, TypeOK
  <2>3. fd_curr_reg_event' = Forget(fd_curr_reg_event, {fd} \cap Live)
    BY <1>2, Zenon DEF on_new_client_fd_fails, Forget, IInv, TypeOK, Watched
  <2>4. epoll' = Forget(epoll, {fd}) /\ file' = Forget(file, {fd})
    BY Zenon DEF on_new_client_fd_fails, Forget, IInv, TypeOK
  <2>5. worker_connection_num' = worker_connection_num - Cardinality({fd})
    BY FS_Singleton, Zenon DEF on_new_client_fd_fails
  <2>6. QED
    BY <2>1, <2>2, <2>3, <2>4, <2>5, SMTT(30) DEF close_client_fds
<1>4. QED
  BY <1>1, <1>3, GiveUpStep, Zenon DEF on_new_client_fd_fails

-----------------------------------------------------------------------------
(* Taking over a client and waiting preserve the invariant, so every step  *)
(* does.                                                                   *)

LEMMA NewClientStep ==
    ASSUME IInv, NEW fd \in Fd, NEW gid \in Gid, on_new_client_fd(fd, gid)
    PROVE  IInv'
<1> USE DEF IInv
<1>1. /\ <<fd, gid>> \in inbox /\ inbox' = inbox \ {<<fd, gid>>} /\ pc = "tunnel"
      /\ UNCHANGED <<setup, mainVars, pc, batch, timeout_fd_copy>>
      /\ UNCHANGED <<file, worker_connection_num, closed_fd>>
  BY Zenon DEF on_new_client_fd, Receive
<1>2. /\ fd \notin Live /\ pool[fd] = None /\ file[fd] = gid
      /\ \A p \in tunnel \cup inbox \cup elsewhere : p[1] = fd => p = <<fd, gid>>
      /\ <<fd, gid>> \notin tunnel \cup elsewhere
  <2>1. fd \notin Live /\ \A p \in tunnel \cup inbox \cup elsewhere : p[1] = fd => p = <<fd, gid>>
    BY <1>1, TransitFacts, Zenon
  <2>2. file[fd] = gid
    BY <1>1 DEF OwnersOpen
  <2>3. QED
    BY <1>1, <2>1, <2>2, LiveFacts, Zenon DEF OneOwner
<1>3. \A g \in Live : pool[g].gid # gid
  BY Zenon DEF on_new_client_fd, alloc_fails, LiveGid
<1>4. PICK conn \in on_create(NewConn(gid), use_ssl) :
         /\ pool' = [pool EXCEPT ![fd] = conn]
         /\ IF conn.app_layer_notified
            THEN timers' = timers /\ app' = [app EXCEPT ![gid] = "new"]
            ELSE timers' = [timers EXCEPT ![gid] = [fd |-> fd, left |-> timeout]] /\ app' = app
  BY Zenon DEF on_new_client_fd
<1>5. /\ conn \in Conn /\ conn # None /\ Sound(conn, use_ssl) /\ conn.gid = gid
      /\ conn.interest = RWE
  BY CreateSound, Distinct DEF TypeOK
<1>6. /\ pool' \in [Fd -> Conn \cup {None}] /\ Live' = Live \cup {fd}
      /\ \A g \in Live : pool'[g] = pool[g]
      /\ pool'[fd] = conn
  BY <1>2, <1>4, <1>5 DEF TypeOK, Live
<1>7. /\ epoll' = [epoll EXCEPT ![fd] = RWE]
      /\ fd_curr_reg_event' = [fd_curr_reg_event EXCEPT ![fd] = RWE]
  <2>1. fd_curr_reg_event[fd] = None
    BY <1>2, Zenon DEF Watched
  <2>2. QED
    BY <2>1, Distinct, Zenon DEF on_new_client_fd
<1>8. [fd |-> fd, left |-> timeout] \in Timer /\ [fd |-> fd, left |-> timeout] # None
  BY TimeoutAssumption, Distinct DEF Timer
<1>9. TypeOK'
  <2>1. timers' \in [Gid -> Timer \cup {None}] /\ app' \in [Gid -> {"none", "new", "closed"}]
    BY <1>4, <1>8, Zenon DEF TypeOK
  <2>2. epoll' \in [Fd -> {RE, RWE, None}] /\ fd_curr_reg_event' \in [Fd -> {RE, RWE, None}]
    BY <1>7, Zenon DEF TypeOK
  <2>3. QED
    BY <1>1, <1>6, <2>1, <2>2, Zenon DEF TypeOK, setup, mainVars
<1>10. ConnsSound'
  <2>1. use_ssl' = use_ssl
    BY <1>1, Zenon DEF setup
  <2>2. QED
    BY <1>5, <1>6, <2>1, Zenon DEF ConnsSound
<1>11. OwnersOpen' /\ OpenOwned'
  BY <1>1, <1>2, <1>5, <1>6, Zenon DEF OwnersOpen, OpenOwned, mainVars
<1>12. OneOwner'
  BY <1>1, <1>2, <1>5, <1>6, Zenon DEF OneOwner, mainVars
<1>13. BatchKnown' /\ EpollBatch'
  BY <1>1, <1>6, Zenon DEF BatchKnown, EpollBatch, Handled, setup
<1>14. Watched'
  BY <1>2, <1>5, <1>6, <1>7, Zenon DEF Watched, TypeOK
<1>15. \A g \in Gid : /\ g # gid => timers'[g] = timers[g] /\ app'[g] = app[g]
                      /\ ~conn.app_layer_notified => /\ timers'[gid] = [fd |-> fd, left |-> timeout]
                                                     /\ app'[gid] = app[gid]
                      /\ conn.app_layer_notified => timers'[gid] = timers[gid] /\ app'[gid] = "new"
  BY <1>4, Zenon DEF TypeOK
<1>16. \A g \in Live' : pool'[g].gid = gid => g = fd
  BY <1>3, <1>6, Zenon
<1>17. TimersExact'
  <2> SUFFICES ASSUME NEW g \in Gid
               PROVE  IF \E f \in Live' : pool'[f].gid = g /\ ~pool'[f].app_layer_notified
                      THEN /\ timers'[g] # None /\ timers'[g].fd \in Live'
                           /\ pool'[timers'[g].fd].gid = g
                      ELSE timers'[g] = None
    BY Zenon DEF TimersExact
  <2>1. CASE g # gid
    BY <1>5, <1>6, <1>15, <2>1 DEF TimersExact
  <2>2. CASE g = gid
    <3>1. timers[gid] = None
      BY <1>3, Zenon DEF TimersExact
    <3>2. (\E f \in Live' : pool'[f].gid = gid /\ ~pool'[f].app_layer_notified)
          <=> ~conn.app_layer_notified
      BY <1>5, <1>6, <1>16, Zenon
    <3>3. CASE conn.app_layer_notified
      BY <1>15, <2>2, <3>1, <3>2, <3>3, Zenon
    <3>4. CASE ~conn.app_layer_notified
      <4>1. timers'[gid] # None /\ timers'[gid].fd = fd
        BY <1>8, <1>15, <3>4
      <4>2. QED
        BY <1>5, <1>6, <2>2, <3>2, <3>4, <4>1, Zenon
    <3>5. QED
      BY <3>3, <3>4, Zenon
  <2>3. QED
    BY <2>1, <2>2, Zenon
<1>18. AppExact'
  <2> SUFFICES ASSUME NEW g \in Gid
               PROVE  app'[g] = "new" <=>
                        \E f \in Live' : pool'[f].gid = g /\ pool'[f].app_layer_notified
    BY Zenon DEF AppExact
  <2>1. CASE g # gid
    BY <1>5, <1>6, <1>15, <2>1 DEF AppExact
  <2>2. CASE g = gid
    <3>1. app[gid] # "new"
      BY <1>3, Zenon DEF AppExact
    <3>2. (\E f \in Live' : pool'[f].gid = gid /\ pool'[f].app_layer_notified)
          <=> conn.app_layer_notified
      BY <1>5, <1>6, <1>16, Zenon
    <3>3. QED
      BY <1>15, <2>2, <3>1, <3>2, Zenon
  <2>3. QED
    BY <2>1, <2>2, Zenon
<1>19. CountExact'
  <2>1. Cardinality((tunnel \cup inbox) \ {<<fd, gid>>}) = Cardinality(tunnel \cup inbox) - 1
    BY <1>1, TransitFacts, FS_RemoveElement, Zenon
  <2>2. Cardinality(Live) \in Nat /\ Cardinality(tunnel \cup inbox) \in Nat
    BY LiveFacts, TransitFacts, FS_CardinalityType, Zenon
  <2>3. tunnel' \cup inbox' = (tunnel \cup inbox) \ {<<fd, gid>>}
    BY <1>1, <1>2, Zenon DEF mainVars
  <2>4. Cardinality(tunnel' \cup inbox') = Cardinality(tunnel \cup inbox) - 1
    BY <2>1, <2>3, Zenon
  <2>5. Cardinality(Live \cup {fd}) = Cardinality(Live) + 1
    BY <1>2, LiveFacts, FS_AddElement, Zenon
  <2>6. Cardinality(Live') = Cardinality(Live) + 1
    BY <1>6, <2>5, Zenon
  <2>7. worker_connection_num = Cardinality(Live) + Cardinality(tunnel \cup inbox)
    BY Zenon DEF CountExact
  <2>8. worker_connection_num' = Cardinality(Live') + Cardinality(tunnel' \cup inbox')
    BY <1>1, <2>2, <2>4, <2>6, <2>7
  <2>9. QED
    BY <2>8, Zenon DEF CountExact
<1>20. QED
  BY <1>9, <1>10, <1>11, <1>12, <1>13, <1>14, <1>17, <1>18, <1>19, Zenon

-----------------------------------------------------------------------------
(* Waiting, and the time-outs.                                             *)

(* The kernel reports descriptors it watches, for the clients they denote; *)
(* epoll reports each once.                                                *)
LEMMA ReportedFacts ==
    ASSUME NEW report \in Reported
    PROVE  /\ \A e \in report : e.fd \in Fd /\ epoll[e.fd] # None /\ e.gid = file[e.fd]
           /\ poller = "epoll" => \A e, f \in report : e.fd = f.fd => e = f
<1>1. PICK r \in [Fd -> UNION {Reports(fd) : fd \in Fd}] :
         /\ \A fd \in Fd : r[fd] \in Reports(fd)
         /\ report = UNION {{Event(fd, code) : code \in r[fd]} : fd \in Fd}
  BY Zenon DEF Reported
<1>2. \A e \in report : \E fd \in Fd : \E code \in r[fd] : e = Event(fd, code)
  BY <1>1, Zenon
<1>3. \A fd \in Fd : r[fd] # {} => epoll[fd] # None
  BY <1>1, Zenon DEF Reports
<1>4. poller = "epoll" => \A fd \in Fd : \A c, d \in r[fd] : c = d
  BY <1>1, Zenon DEF Reports
<1>5. \A fd, code : /\ Event(fd, code).fd = fd /\ Event(fd, code).gid = file[fd]
  BY Zenon DEF Event
<1>6. QED
  BY <1>2, <1>3, <1>4, <1>5

(* m_timeout_fd are the connections whose own time is up.                  *)
LEMMA TimedOutFacts ==
    ASSUME IInv, NEW seconds \in 0 .. timeout
    PROVE  /\ Aged(seconds) \in [Gid -> Timer \cup {None}]
           /\ \A gid \in Gid : timers[gid] = None => Aged(seconds)[gid] = None
           /\ \A gid \in Gid : timers[gid] # None /\ gid \notin Expired(seconds) =>
                 Aged(seconds)[gid] # None /\ Aged(seconds)[gid].fd = timers[gid].fd
           /\ \A fd : fd \in TimedOut(seconds) <=>
                 fd \in Live /\ ~pool[fd].app_layer_notified /\ pool[fd].gid \in Expired(seconds)
<1> USE DEF IInv
<1>1. \A t \in Timer : /\ [t EXCEPT !.left = @ - seconds] \in Timer
                       /\ [t EXCEPT !.left = @ - seconds].fd = t.fd
  BY DEF Timer
<1>2. \A gid \in Gid : timers[gid] # None => timers[gid] \in Timer
  BY Zenon DEF TypeOK
<1>3. \A gid \in Gid : Aged(seconds)[gid] =
         IF timers[gid] = None \/ gid \in Expired(seconds) THEN None
         ELSE [timers[gid] EXCEPT !.left = @ - seconds]
  BY Zenon DEF Aged
<1>4. Aged(seconds) \in [Gid -> Timer \cup {None}]
  BY <1>1, <1>2, Zenon DEF Aged
<1>5. \A gid \in Gid : timers[gid] # None /\ gid \notin Expired(seconds) =>
         Aged(seconds)[gid] # None /\ Aged(seconds)[gid].fd = timers[gid].fd
  BY <1>1, <1>2, <1>3, Distinct, Zenon
<1>6. ASSUME NEW fd \in TimedOut(seconds)
      PROVE  fd \in Live /\ ~pool[fd].app_layer_notified /\ pool[fd].gid \in Expired(seconds)
  <2>1. PICK gid \in Expired(seconds) :
           /\ fd = timers[gid].fd
           /\ \E f \in Live : pool[f].gid = gid /\ ~pool[f].app_layer_notified
    BY <1>6, Zenon DEF TimedOut
  <2>2. gid \in Gid
    BY Zenon DEF Expired
  <2>3. fd \in Live /\ pool[fd].gid = gid
    BY <2>1, <2>2, Zenon DEF TimersExact
  <2>4. QED
    BY <2>1, <2>3, GidsUnique, Zenon
<1>7. ASSUME NEW fd \in Live, ~pool[fd].app_layer_notified, pool[fd].gid \in Expired(seconds)
      PROVE  fd \in TimedOut(seconds)
  <2>1. pool[fd].gid \in Gid
    BY <1>7, LiveFacts, Zenon
  <2>2. timers[pool[fd].gid].fd \in Live /\ pool[timers[pool[fd].gid].fd].gid = pool[fd].gid
    BY <1>7, <2>1, Zenon DEF TimersExact
  <2>3. timers[pool[fd].gid].fd = fd
    BY <1>7, <2>2, GidsUnique, Zenon
  <2>4. QED
    BY <1>7, <2>3, Zenon DEF TimedOut
<1>8. QED
  BY <1>3, <1>4, <1>5, <1>6, <1>7, Zenon

LEMMA WaitStep ==
    ASSUME IInv, NEW seconds \in 0 .. timeout, wait(seconds)
    PROVE  IInv'
<1> USE DEF IInv
<1> DEFINE S == TimedOut(seconds)
           t == Aged(seconds)
<1>1. /\ pc = "wait" /\ pc' = "events" /\ closed_fd' = S /\ timeout_fd_copy' = S
      /\ close_client_fds(S, t)
      /\ UNCHANGED <<setup, mainVars, inbox, app>>
  BY Zenon DEF wait
<1>2. PICK report \in Reported : batch' \subseteq report \cup {TunnelEvent}
  BY Zenon DEF wait
<1>3. \A fd : fd \in S <=>
         fd \in Live /\ ~pool[fd].app_layer_notified /\ pool[fd].gid \in Expired(seconds)
  BY TimedOutFacts, Zenon
<1>4. S \subseteq Live /\ S \in SUBSET Fd
  BY <1>3, LiveFacts, Zenon
<1>5. inbox = {} /\ \A p \in tunnel \cup elsewhere : p[1] \notin S
  BY <1>1, <1>4, TransitFacts, Zenon DEF BatchKnown
<1>6. t \in [Gid -> Timer \cup {None}] /\ inbox' = {p \in inbox : p[1] \notin S}
  BY <1>1, <1>5, TimedOutFacts, Zenon
<1> HIDE DEF S, t
<1>7. /\ Live' = Live \ S
      /\ \A g \in Live \ S : pool'[g] = pool[g]
      /\ timers' = [gid \in Gid |-> IF \E g \in S \cap Live : pool[g].gid = gid
                                    THEN None ELSE t[gid]]
      /\ file' \in [Fd -> Gid \cup {None}]
      /\ epoll' \in [Fd -> {RE, RWE, None}] /\ fd_curr_reg_event' \in [Fd -> {RE, RWE, None}]
      /\ pool' \in [Fd -> Conn \cup {None}] /\ timers' \in [Gid -> Timer \cup {None}]
      /\ ConnsSound' /\ OneOwner' /\ OwnersOpen' /\ OpenOwned' /\ Watched'
  BY <1>1, <1>4, <1>5, <1>6, CloseStep, Zenon
<1>8. \A e \in batch' : \/ e \in report /\ e.fd \in Live /\ e.gid = pool[e.fd].gid
                        \/ e.fd = tunnel_fd /\ e.fd \notin Fd
  <2>1. \A e \in report : e.fd \in Live
    BY ReportedFacts, Zenon DEF Watched
  <2>2. \A e \in report : e.gid = pool[e.fd].gid
    BY <2>1, ReportedFacts, Zenon DEF OwnersOpen
  <2>3. TunnelEvent.fd = tunnel_fd
    BY Zenon DEF TunnelEvent
  <2>4. QED
    BY <1>2, <2>1, <2>2, <2>3, FdAssumption, Zenon
<1>9. IsFiniteSet(S) /\ Cardinality(S) \in Nat
  BY <1>4, LiveFacts, FS_Subset, FS_CardinalityType, Zenon
<1>10. worker_connection_num' = worker_connection_num - Cardinality(S)
  BY <1>1, SMTT(30) DEF close_client_fds
<1>11. TypeOK'
  <2>1. \A e \in batch' : e.fd \in Fd \cup {tunnel_fd}
    BY <1>8, LiveFacts, Zenon
  <2>2. worker_connection_num' \in Int
    BY <1>9, <1>10, SMTT(30) DEF TypeOK
  <2>3. QED
    BY <1>1, <1>4, <1>7, <2>1, <2>2, Zenon DEF TypeOK, setup, mainVars
<1>12. BatchKnown'
  BY <1>1, <1>5, <1>7, <1>8, SMTT(30) DEF BatchKnown
<1>13. EpollBatch'
  <2>1. poller' = poller
    BY <1>1, Zenon DEF setup
  <2>2. poller = "epoll" => \A e, f \in batch' : e.fd \in Fd /\ e.fd = f.fd => e = f
    BY <1>8, ReportedFacts, SMTT(30)
  <2>3. \A e \in batch' : e.fd \in Fd /\ e.fd \notin S => e.fd \in Live' /\ pool'[e.fd].gid = e.gid
    BY <1>7, <1>8, Zenon
  <2>4. QED
    BY <1>1, <2>1, <2>2, <2>3, Zenon DEF EpollBatch, Handled
<1>14. TimersExact'
  <2> SUFFICES ASSUME NEW gid \in Gid
               PROVE  IF \E g \in Live' : pool'[g].gid = gid /\ ~pool'[g].app_layer_notified
                      THEN /\ timers'[gid] # None /\ timers'[gid].fd \in Live'
                           /\ pool'[timers'[gid].fd].gid = gid
                      ELSE timers'[gid] = None
    BY Zenon DEF TimersExact
  <2>1. CASE \E g \in Live' : pool'[g].gid = gid /\ ~pool'[g].app_layer_notified
    <3>1. PICK g \in Live \ S : pool[g].gid = gid /\ ~pool[g].app_layer_notified
      BY <1>7, <2>1, Zenon
    <3>2. gid \notin Expired(seconds)
      BY <1>3, <3>1, Zenon
    <3>3. timers[gid] # None /\ timers[gid].fd = g
      BY <3>1, GidsUnique, Zenon DEF TimersExact
    <3>4. t[gid] # None /\ t[gid].fd = g
      BY <3>2, <3>3, TimedOutFacts, SMTT(30) DEF t
    <3>5. timers'[gid] = t[gid]
      BY <1>7, <3>1, GidsUnique, Zenon
    <3>6. QED
      BY <1>7, <2>1, <3>1, <3>4, <3>5, Zenon
  <2>2. CASE ~ \E g \in Live' : pool'[g].gid = gid /\ ~pool'[g].app_layer_notified
    <3>1. CASE \E g \in Live : pool[g].gid = gid /\ ~pool[g].app_layer_notified
      <4>1. \E g \in S \cap Live : pool[g].gid = gid
        BY <1>7, <2>2, <3>1, Zenon
      <4>2. QED
        BY <1>7, <2>2, <4>1, Zenon
    <3>2. CASE ~ \E g \in Live : pool[g].gid = gid /\ ~pool[g].app_layer_notified
      <4>1. timers[gid] = None
        BY <3>2, Zenon DEF TimersExact
      <4>2. t[gid] = None
        BY <4>1, TimedOutFacts, SMTT(30) DEF t
      <4>3. QED
        BY <1>7, <2>2, <4>2, Zenon
    <3>3. QED
      BY <3>1, <3>2, Zenon
  <2>3. QED
    BY <2>1, <2>2, Zenon
<1>15. AppExact'
  BY <1>1, <1>3, <1>7 DEF AppExact
<1>16. CountExact'
  <2>1. Cardinality(Live \ S) = Cardinality(Live) - Cardinality(Live \cap S)
    BY LiveFacts, FS_Difference, Zenon
  <2>2. Live \cap S = S
    BY <1>4, Zenon
  <2>3. Cardinality(Live') = Cardinality(Live) - Cardinality(S)
    BY <1>7, <2>1, <2>2, Zenon
  <2>4. Cardinality(Live) \in Nat /\ Cardinality(tunnel \cup inbox) \in Nat
    BY LiveFacts, TransitFacts, FS_CardinalityType, Zenon
  <2>5. Cardinality(tunnel' \cup inbox') = Cardinality(tunnel \cup inbox)
    BY <1>1, Zenon DEF mainVars
  <2>6. worker_connection_num = Cardinality(Live) + Cardinality(tunnel \cup inbox)
    BY Zenon DEF CountExact
  <2>7. worker_connection_num' = Cardinality(Live') + Cardinality(tunnel' \cup inbox')
    BY <1>9, <1>10, <2>3, <2>4, <2>5, <2>6
  <2>8. QED
    BY <2>7, Zenon DEF CountExact
<1>17. QED
  BY <1>7, <1>11, <1>12, <1>13, <1>14, <1>15, <1>16, Zenon

-----------------------------------------------------------------------------
(* The inductive invariant and what follows from it.                       *)

LEMMA InitIInv == Init => IInv
<1> SUFFICES ASSUME Init
             PROVE  IInv
  BY Zenon
<1>1. Live = {} /\ tunnel \cup inbox = {}
  BY Zenon DEF Init, Live
<1>2. Cardinality(Live) = 0 /\ Cardinality(tunnel \cup inbox) = 0
  BY <1>1, FS_EmptySet, Zenon
<1>3. CountExact
  BY <1>2 DEF Init, CountExact
<1>4. TypeOK
  BY DEF Init, TypeOK
<1>5. OneOwner
  BY <1>1, Distinct, Zenon DEF Init, OneOwner
<1>6. OwnersOpen /\ OpenOwned /\ ConnsSound /\ BatchKnown /\ EpollBatch
  BY <1>1, Zenon DEF Init, OwnersOpen, OpenOwned, ConnsSound, BatchKnown, EpollBatch
<1>7. Watched
  BY <1>1, Zenon DEF Init, Watched
<1>8. TimersExact /\ AppExact
  BY <1>1, Zenon DEF Init, TimersExact, AppExact
<1>9. QED
  BY <1>3, <1>4, <1>5, <1>6, <1>7, <1>8, Zenon DEF IInv

LEMMA NextIInv ==
    ASSUME "new_ctx" \notin Failures, IInv, [Next]_vars
    PROVE  IInv'
<1>1. CASE Others
  BY <1>1, AcceptStep, CloseElsewhereStep, Zenon DEF Others
<1>2. CASE \E seconds \in 0 .. timeout : wait(seconds)
  BY <1>2, WaitStep, Zenon
<1>3. CASE HandleEvent
  BY <1>3, LoopStep, EventCloseStep, ClientEventStep, Zenon DEF HandleEvent
<1>4. CASE TakeOver
  <2>1. PICK fd \in Fd, gid \in Gid :
           \/ on_new_client_fd_refused(fd, gid)
           \/ \E failure \in Failures : on_new_client_fd_fails(fd, gid, failure)
           \/ on_new_client_fd(fd, gid)
    BY <1>4, Zenon DEF TakeOver
  <2>2. ASSUME NEW failure \in Failures, on_new_client_fd_fails(fd, gid, failure)
        PROVE  IInv'
    BY <2>2, FailsStep, Zenon
  <2>3. QED
    BY <2>1, <2>2, RefusedStep, NewClientStep, Zenon
<1>5. CASE \E fd \in Fd : on_worker_tunnel(fd)
  BY <1>5, WorkerTunnelStep, Zenon
<1>6. CASE on_tunnel_event_end \/ loop_end
  BY <1>6, LoopStep, Zenon
<1>7. CASE UNCHANGED vars
  <2>1. /\ UNCHANGED <<setup, epoll, inbox, pc, batch, pool, fd_curr_reg_event,
                       timers, closed_fd, timeout_fd_copy, app>>
        /\ UNCHANGED <<fresh, elsewhere, tunnel, file, worker_connection_num>>
    BY <1>7, Zenon DEF vars, mainVars
  <2>2. OwnTables'
    BY <2>1, OwnTablesKept, Zenon DEF IInv, OwnTables
  <2>3. Live' = Live /\ CountExact'
    BY <2>1, Zenon DEF IInv, CountExact, Live
  <2>4. TypeOK'
    BY <2>1, SMTT(30) DEF IInv, TypeOK, setup
  <2>5. OneOwner' /\ OwnersOpen' /\ OpenOwned'
    BY <2>1, <2>3, Zenon DEF IInv, OneOwner, OwnersOpen, OpenOwned
  <2>6. QED
    BY <2>2, <2>3, <2>4, <2>5, Zenon DEF IInv, OwnTables
<1>8. QED
  BY <1>1, <1>2, <1>3, <1>4, <1>5, <1>6, <1>7, Zenon DEF Next

LEMMA IInvDescriptors ==
    ASSUME IInv
    PROVE  DescriptorsExact
<1> USE DEF IInv
<1> DEFINE Open == {<<fd, file[fd]>> : fd \in {f \in Fd : file[f] # None}}
<1>1. \A fd \in Live : <<fd, pool[fd].gid>> \in Open
  BY LiveFacts, Distinct DEF OwnersOpen
<1>2. \A p \in tunnel \cup inbox \cup elsewhere : p \in Open
  BY TransitFacts, Distinct DEF OwnersOpen
<1>3. Owned \subseteq Open
  BY <1>1, <1>2, Zenon DEF Owned
<1>4. \A fd \in Fd : file[fd] # None => <<fd, file[fd]>> \in Owned
  BY Zenon DEF OpenOwned, OwnersOpen, Owned
<1>5. Open \subseteq Owned
  BY <1>4, Zenon
<1>6. QED
  BY <1>3, <1>5, Zenon DEF DescriptorsExact

LEMMA IInvPoller ==
    ASSUME IInv
    PROVE  PollerExact
<1>1. "WRITE" \in RWE
  BY Zenon DEF RWE
<1>2. QED
  BY <1>1, Zenon DEF IInv, Watched, ConnsSound, Sound, PollerExact

LEMMA IInvEvents ==
    ASSUME IInv
    PROVE  EventsToOwner
BY Zenon DEF IInv, EpollBatch, EventsToOwner, ClosedEventsDropped

(* Every reachable state satisfies the inductive invariant, whatever the   *)
(* worker, the main thread and the other workers interleave and whatever   *)
(* the kernel reports and reuses.  Making the context (the new of          *)
(* on_new_client_fd) is assumed to succeed, here and below: the release    *)
(* that follows its failure closes no descriptor.                          *)
THEOREM Invariance ==
    ASSUME "new_ctx" \notin Failures
    PROVE  Spec => []IInv
<1>1. IInv /\ [Next]_vars => IInv'
  BY NextIInv, Zenon
<1>2. QED
  BY InitIInv, <1>1, PTL DEF Spec

(* close_client_fd leaks no descriptor and closes none of another client.  *)
THEOREM DescriptorSafety ==
    ASSUME "new_ctx" \notin Failures
    PROVE  Spec => []DescriptorsExact
BY Invariance, IInvDescriptors, PTL

(* Every client is counted up and down once: worker_connection_num is the  *)
(* number of clients the worker has and is yet to take.                    *)
THEOREM CountSafety ==
    ASSUME "new_ctx" \notin Failures
    PROVE  Spec => []CountExact
<1>1. IInv => CountExact
  BY Zenon DEF IInv
<1>2. QED
  BY Invariance, <1>1, PTL

(* The poller's cache and the kernel hold what a context last asked for,   *)
(* and with bytes left to send that is a write event.                      *)
THEOREM PollerSafety ==
    ASSUME "new_ctx" \notin Failures
    PROVE  Spec => []PollerExact
BY Invariance, IInvPoller, PTL

(* A handshake timer runs until the application knows the connection, and  *)
(* outlives neither that moment nor the connection.                        *)
THEOREM TimerSafety ==
    ASSUME "new_ctx" \notin Failures
    PROVE  Spec => []TimersExact
<1>1. IInv => TimersExact
  BY Zenon DEF IInv
<1>2. QED
  BY Invariance, <1>1, PTL

(* The application knows exactly the connections it was told of and not    *)
(* told to forget: on_close_connection misses none of them.                *)
THEOREM AppSafety ==
    ASSUME "new_ctx" \notin Failures
    PROVE  Spec => []AppExact
<1>1. IInv => AppExact
  BY Zenon DEF IInv
<1>2. QED
  BY Invariance, <1>1, PTL

(* With epoll an event reaches no connection but its own, although timers  *)
(* close connections before their events are handled (timeout_fd_copy in   *)
(* worker::operator()).                                                    *)
THEOREM EventSafety ==
    ASSUME "new_ctx" \notin Failures
    PROVE  Spec => []EventsToOwner
BY Invariance, IInvEvents, PTL
=============================================================================
