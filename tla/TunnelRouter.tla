---------------------------- MODULE TunnelRouter ----------------------------
(***************************************************************************)
(* The main thread as forwarding centre: the workers and the other thread  *)
(* talk to each other, and client connections of different workers talk to *)
(* each other and to the Lua VM of the other thread, only through packages *)
(* that main copies from one tunnel to others.                             *)
(*                                                                         *)
(* A tunnel direction is a FIFO queue of whole packages: what module       *)
(* Tunnel shows of the byte streams.  up[t] runs from thread t to main,    *)
(* down[t] from main to t.  A gid is the number main generated, whose low  *)
(* 9 bits name the worker that owns the connection.                        *)
(***************************************************************************)
EXTENDS Gid, Sequences, Functions

CONSTANTS
    worker_cnt,  \* number of workers
    Gid,         \* the gids main hands out
    Start,       \* where it starts: the clients already connected, and known to
                 \* the Lua VM, and those the pool refused; and the bounds: the
                 \* gids, some of no client, that an app names as targets, and
                 \* the messages clients and the Lua VM send together
    Speaker      \* bound: the clients that send messages

Worker == 0 .. worker_cnt - 1
other_id == -1
main_id == -2
Thread == Worker \cup {other_id}

is_tunnel_id(id) == id \in Worker \cup {other_id, main_id}

ASSUME RouterAssumption ==
    /\ worker_cnt \in 1 .. 512
    /\ Gid \subseteq Nat
    /\ Start \subseteq [connected : SUBSET Gid, refused : SUBSET Gid,
                   named : SUBSET Nat, messages : Nat]
    /\ Speaker \subseteq Gid
    /\ \A g \in Gid : hash_gid_2_worker_tunnel_id(g) \in Worker

VARIABLES
    start,     \* the member of Start
    up,        \* [Thread -> Seq of packages], written by the thread
    down,      \* [Thread -> Seq of packages], written by main
    client,    \* [Gid -> the stage of the connection at its worker]
    sent,      \* history: every message sent, its index is its identity
    received,  \* history: [Gid -> messages put in the client's send buffer]
    seen       \* history: [Gid -> what the Lua VM was told about the client]

vars == <<start, up, down, client, sent, received, seen>>

(* What the Lua VM is told of a client besides the client's messages; the  *)
(* last stands for a package that it is not told of.                       *)
NewEvent == 0
CloseEvent == -1
Nothing == -2

(* The packages inside a tunnel package.                                   *)
NewClient(g) == [cmd |-> "MAIN2WORKER_NEW_CLIENT", gid |-> g]
ClientForward(m, gids) ==
    [cmd |-> "CLIENT_FORWARD_MESSAGE", id |-> m, targetgid |-> gids]
ToVM(g, e) == [cmd |-> "WORKER2OTHER_LUAVM", gid |-> g, event |-> e]
ToConn(g, m) == [cmd |-> "OTHERLUAVM2WORKERCONN", gid |-> g, id |-> m]
CloseConn(g) == [cmd |-> "OTHERLUAVM2WORKER_CLOSE", gid |-> g]

Init ==
    /\ start \in Start
    /\ up = [t \in Thread |-> <<>>]
    /\ down = [t \in Thread |-> <<>>]
    /\ client = [g \in Gid |-> IF g \in start.connected THEN "open"
                                ELSE IF g \in start.refused THEN "refused" ELSE "unborn"]
    /\ sent = <<>>
    /\ received = [g \in Gid |-> <<>>]
    /\ seen = [g \in Gid |-> IF g \in start.connected THEN <<NewEvent>> ELSE <<>>]

-----------------------------------------------------------------------------
(* Sending: worker::tunnel_forward and other::tunnel_forward.              *)

(* Targets that are main or no tunnel at all are dropped; with none left   *)
(* the call fails and nothing is queued.                                   *)
tunnel_forward(queue, self, dest, inner) ==
    LET kept == {d \in dest : is_tunnel_id(d) /\ d # main_id}
    IN  IF kept = {} THEN queue
        ELSE Append(queue, [source |-> self, target |-> kept, inner |-> inner])

(* main's route for a package: where on_tunnel_process sends it.           *)
all_target(source, target) ==
    IF source = other_id
    THEN IF target = {} THEN Worker ELSE target \cap Worker
    ELSE IF target = {} THEN Worker ELSE target \cap (Worker \cup {other_id})

(* Serves a tunnel only while no other tunnel is ready.                    *)
route_only_alone(t) ==
    /\ up[t] # <<>> /\ \A u \in Thread \ {t} : up[u] = <<>>
    /\ LET p == Head(up[t])
       IN  down' = [d \in Thread |->
                       IF d \in all_target(p.source, p.target)
                       THEN Append(down[d], [source |-> p.source, inner |-> p.inner])
                       ELSE down[d]]
    /\ up' = [up EXCEPT ![t] = Tail(@)]
    /\ UNCHANGED <<start, client, sent, received, seen>>

(* server::on_tunnel_process: main takes the next package of thread t and  *)
(* appends a copy, with its source, to the tunnel of every target.         *)
route(t) ==
    /\ up[t] # <<>>
    /\ LET p == Head(up[t])
       IN  down' = [d \in Thread |->
                       IF d \in all_target(p.source, p.target)
                       THEN Append(down[d], [source |-> p.source, inner |-> p.inner])
                       ELSE down[d]]
    /\ up' = [up EXCEPT ![t] = Tail(@)]
    /\ UNCHANGED <<start, client, sent, received, seen>>

(* server::on_listen_event: main hands a new connection to its worker.     *)
on_listen_event(g) ==
    /\ client[g] = "unborn"
    /\ client' = [client EXCEPT ![g] = "handed"]
    /\ LET w == hash_gid_2_worker_tunnel_id(g)
       IN  down' = [down EXCEPT ![w] =
                       Append(@, [source |-> main_id, inner |-> NewClient(g)])]
    /\ UNCHANGED <<start, up, sent, received, seen>>

-----------------------------------------------------------------------------
(* A worker.                                                               *)

(* Treats every message as a broadcast.                                    *)
Addressed_ignores_list(w, targetgid) ==
    {g \in Gid : client[g] = "open" /\ hash_gid_2_worker_tunnel_id(g) = w}

(* The connections of worker w that a forwarded message is meant for and   *)
(* that handle_tunnel_client_forward_message does not skip as closing: the *)
(* whole pool for an empty target list, otherwise the listed ones that     *)
(* belong to this worker and exist.                                        *)
Addressed(w, targetgid) ==
    {g \in Gid : /\ client[g] = "open"
                 /\ hash_gid_2_worker_tunnel_id(g) = w
                 /\ targetgid # {} => g \in targetgid}

(* send_sync_package for every addressed connection.  Those in full exceed *)
(* the send buffer's limit: they lose the message and start to close.      *)
HandOut(m, addressed, full) ==
    /\ received' = [g \in Gid |-> IF g \in addressed \ full
                                  THEN Append(received[g], m) ELSE received[g]]
    /\ client' = [g \in Gid |-> IF g \in full THEN "closing" ELSE client[g]]

(* The packages worker w sends to the other workers, in the arbitrary      *)
(* order the hash map of groups is walked.  The group of a worker that     *)
(* does not exist is refused by tunnel_forward.                            *)
Groups(gids) == {hash_gid_2_worker_tunnel_id(g) : g \in gids}

Orders(w, gids) ==
    LET others == {v \in Groups(gids) \ {w} : is_tunnel_id(v)}
    IN  UNION {Bijection(1 .. n, others) : n \in 0 .. worker_cnt}

(* Keeps one gid per group.                                                *)
ForwardGroups_overwrites(w, m, gids, order) ==
    up[w] \o [i \in DOMAIN order |->
        [source |-> w, target |-> {order[i]},
         inner |-> ClientForward(m,
             {CHOOSE g \in gids : hash_gid_2_worker_tunnel_id(g) = order[i]})]]

(* Sends past the bytes that still wait in the send buffer.                *)
ForwardGroups_bypasses(w, m, gids, order) ==
    [i \in DOMAIN order |->
        [source |-> w, target |-> {order[i]},
         inner |-> ClientForward(m,
             {g \in gids : hash_gid_2_worker_tunnel_id(g) = order[i]})]]
    \o up[w]

ForwardGroups(w, m, gids, order) ==
    up[w] \o [i \in DOMAIN order |->
        [source |-> w, target |-> {order[i]},
         inner |-> ClientForward(m,
             {g \in gids : hash_gid_2_worker_tunnel_id(g) = order[i]})]]

(* worker::send_client_forward_message: the part of this worker is handed  *)
(* out at once by calling on_tunnel_process, the rest goes through main.   *)
(* An empty gids means every connection of the process.                    *)
send_client_forward_message(w, source_gid, gids, m) ==
    /\ hash_gid_2_worker_tunnel_id(source_gid) = w
    /\ LET mine == gids = {} \/ w \in Groups(gids)
           addressed == IF mine THEN Addressed(w, gids) ELSE {}
       IN  \E full \in SUBSET addressed : HandOut(m, addressed, full)
    /\ IF gids = {}
       THEN up' = [up EXCEPT ![w] =
                      tunnel_forward(@, w, Worker \ {w}, ClientForward(m, {}))]
       ELSE \E order \in Orders(w, gids) :
               up' = [up EXCEPT ![w] = ForwardGroups(w, m, gids, order)]

(* on_new_client_fd: a connection is made and the app tells the Lua VM, or *)
(* the pool refuses the descriptor.                                        *)
on_new_client_fd(w, g) ==
    \/ /\ client' = [client EXCEPT ![g] = "open"]
       /\ up' = [up EXCEPT ![w] =
                    tunnel_forward(@, w, {other_id}, ToVM(g, NewEvent))]
       /\ UNCHANGED received
    \/ /\ client' = [client EXCEPT ![g] = "refused"]
       /\ UNCHANGED <<up, received>>

(* stream_app::on_worker_tunnel for a message of the Lua VM: the answer to *)
(* one client, or the order to close it.                                   *)
on_worker_tunnel(w, inner) ==
    IF inner.cmd = "OTHERLUAVM2WORKER_CLOSE"
    THEN /\ client' = [client EXCEPT ![inner.gid] =
                          IF @ = "open" THEN "closing" ELSE @]
         /\ UNCHANGED <<up, received>>
    ELSE send_client_forward_message(w, inner.gid, {inner.gid}, inner.id)

(* worker::on_tunnel_process for the next package of the tunnel.           *)
worker_on_tunnel_process(w) ==
    /\ down[w] # <<>>
    /\ LET inner == Head(down[w]).inner
       IN  \/ /\ inner.cmd = "MAIN2WORKER_NEW_CLIENT"
              /\ on_new_client_fd(w, inner.gid)
           \/ /\ inner.cmd = "CLIENT_FORWARD_MESSAGE"
              /\ LET addressed == Addressed(w, inner.targetgid)
                 IN  \E full \in SUBSET addressed :
                        HandOut(inner.id, addressed, full)
              /\ UNCHANGED up
           \/ /\ inner.cmd \in {"OTHERLUAVM2WORKERCONN", "OTHERLUAVM2WORKER_CLOSE"}
              /\ on_worker_tunnel(w, inner)
    /\ down' = [down EXCEPT ![w] = Tail(@)]
    /\ UNCHANGED <<start, sent, seen>>

(* The open clients that a message must reach: the history part of a send. *)
Reach(gids) == {g \in Gid : client[g] = "open" /\ (gids # {} => g \in gids)}

(* A handler of a client's app forwards a message to the clients named in  *)
(* gids, or to all of them.  The apps have worker_send_client_forward_-    *)
(* message for it; the calls they show are commented out.                  *)
client_forwards(g, gids) ==
    /\ g \in Speaker /\ client[g] = "open"
    /\ Len(sent) < start.messages
    /\ sent' = Append(sent, [source |-> g, to |-> gids, reach |-> Reach(gids), event |-> Nothing])
    /\ send_client_forward_message(hash_gid_2_worker_tunnel_id(g), g, gids,
                                   Len(sent) + 1)
    /\ UNCHANGED <<start, down, seen>>

(* stream_app::on_recv_package: a package of a client goes to the Lua VM,  *)
(* whatever its cmd.  e is what the VM will take it for: a message, if the *)
(* cmd is registered with the message factory and the payload parses, an   *)
(* event if the cmd is that of the event, and else nothing.                *)
on_recv_package(g, e) ==
    /\ g \in Speaker /\ client[g] = "open"
    /\ Len(sent) < start.messages
    /\ sent' = Append(sent, [source |-> g, to |-> {other_id}, reach |-> {}, event |-> e])
    /\ LET w == hash_gid_2_worker_tunnel_id(g)
       IN  up' = [up EXCEPT ![w] = tunnel_forward(@, w, {other_id}, ToVM(g, e))]
    /\ UNCHANGED <<start, down, client, received, seen>>

Meanings == {Len(sent) + 1, NewEvent, CloseEvent, Nothing}

(* The connection is marked is_close: the peer is gone or broke the        *)
(* protocol.                                                               *)
set_is_close(g) ==
    /\ client[g] = "open"
    /\ client' = [client EXCEPT ![g] = "closing"]
    /\ UNCHANGED <<start, up, down, sent, received, seen>>

(* Closes without the app's callback.                                      *)
close_client_fd_silent(g) ==
    /\ client[g] = "closing"
    /\ client' = [client EXCEPT ![g] = "gone"]
    /\ UNCHANGED <<start, up, down, sent, received, seen>>

(* close_client_fd, with the app's on_close_connection it calls.           *)
close_client_fd(g) ==
    /\ client[g] = "closing"
    /\ client' = [client EXCEPT ![g] = "gone"]
    /\ LET w == hash_gid_2_worker_tunnel_id(g)
       IN  up' = [up EXCEPT ![w] =
                     tunnel_forward(@, w, {other_id}, ToVM(g, CloseEvent))]
    /\ UNCHANGED <<start, down, sent, received, seen>>

-----------------------------------------------------------------------------
(* The other thread and its Lua VM.                                        *)

(* other_app::on_other_tunnel: the VM is told of a package unless its cmd  *)
(* is unknown or its payload does not parse.                               *)
on_other_tunnel(inner) ==
    IF inner.event = Nothing THEN seen
    ELSE [seen EXCEPT ![inner.gid] = Append(@, inner.event)]

(* Sleeps while no client is connected.                                    *)
other_on_tunnel_process_with_clients ==
    /\ down[other_id] # <<>> /\ \E g \in Gid : client[g] = "open"
    /\ LET inner == Head(down[other_id]).inner
       IN  seen' = on_other_tunnel(inner)
    /\ down' = [down EXCEPT ![other_id] = Tail(@)]
    /\ UNCHANGED <<start, up, client, sent, received>>

(* other::on_tunnel_process.                                               *)
other_on_tunnel_process ==
    /\ down[other_id] # <<>>
    /\ LET inner == Head(down[other_id]).inner
       IN  seen' = on_other_tunnel(inner)
    /\ down' = [down EXCEPT ![other_id] = Tail(@)]
    /\ UNCHANGED <<start, up, client, sent, received>>

(* Lua2Protobuf with the client message type: a script sends to a client   *)
(* it was told of, through the worker named in what it was told.           *)
lua_sends(g) ==
    /\ seen[g] # <<>>
    /\ Len(sent) < start.messages
    /\ sent' = Append(sent, [source |-> other_id, to |-> {g}, reach |-> Reach({g}),
                             event |-> Nothing])
    /\ up' = [up EXCEPT ![other_id] =
                 tunnel_forward(@, other_id, {hash_gid_2_worker_tunnel_id(g)},
                                ToConn(g, Len(sent) + 1))]
    /\ UNCHANGED <<start, down, client, received, seen>>

(* Lua2Protobuf with the command that closes a client.                     *)
lua_closes(g) ==
    /\ seen[g] # <<>>
    /\ Len(sent) < start.messages
    /\ sent' = Append(sent, [source |-> other_id, to |-> {}, reach |-> {}, event |-> Nothing])
    /\ up' = [up EXCEPT ![other_id] =
                 tunnel_forward(@, other_id, {hash_gid_2_worker_tunnel_id(g)},
                                CloseConn(g))]
    /\ UNCHANGED <<start, down, client, received, seen>>

-----------------------------------------------------------------------------
Next ==
    \/ \E t \in Thread : route(t)
    \/ \E w \in Worker : worker_on_tunnel_process(w)
    \/ other_on_tunnel_process
    \/ \E g \in Gid :
          \/ on_listen_event(g)
          \/ \E gids \in SUBSET start.named : client_forwards(g, gids)
          \/ \E e \in Meanings : on_recv_package(g, e)
          \/ set_is_close(g)
          \/ close_client_fd(g)
          \/ lua_sends(g)
          \/ lua_closes(g)

Spec == Init /\ [][Next]_vars

(* Every thread runs its loop again and again, and a tunnel with bytes in  *)
(* it is reported readable by the level-triggered poller: no package waits *)
(* for ever.  Clients and scripts owe nothing.                             *)
FairSpec ==
    /\ Spec
    /\ \A t \in Thread : WF_vars(route(t))
    /\ \A w \in Worker : WF_vars(worker_on_tunnel_process(w))
    /\ WF_vars(other_on_tunnel_process)

-----------------------------------------------------------------------------
(* A forwarded message reaches only clients it was addressed to, and each  *)
(* of them at most once: the copies made by send_client_forward_message    *)
(* and by main's all_target never overlap, for a broadcast too.            *)
DeliveredOnce ==
    \A g \in Gid :
       /\ IsInjective(received[g])
       /\ \A m \in Range(received[g]) : sent[m].to # {} => g \in sent[m].to

(* Messages of one sender reach a client in the order they were sent,      *)
(* although some are handed out directly and others pass through main.     *)
SourceOrder ==
    \A g \in Gid : \A i, j \in DOMAIN received[g] :
       (i < j /\ sent[received[g][i]].source = sent[received[g][j]].source)
          => received[g][i] < received[g][j]

(* Message m is on its way to client g.                                    *)
Carries(p, m, g) ==
    \/ /\ p.inner.cmd = "CLIENT_FORWARD_MESSAGE"
       /\ p.inner.id = m
       /\ p.inner.targetgid # {} => g \in p.inner.targetgid
    \/ /\ p.inner.cmd = "OTHERLUAVM2WORKERCONN"
       /\ p.inner.id = m
       /\ p.inner.gid = g

InFlight(m, g) ==
    LET w == hash_gid_2_worker_tunnel_id(g)
    IN  \/ \E p \in Range(down[w]) : Carries(p, m, g)
        \/ \E t \in Thread : \E p \in Range(up[t]) :
              w \in p.target /\ Carries(p, m, g)

(* No message is lost: a client that was open when the message was sent    *)
(* and still is has the message, or the message is in a tunnel towards the *)
(* client's worker.                                                        *)
Accounted ==
    \A m \in DOMAIN sent : \A g \in sent[m].reach :
       client[g] = "open" => m \in Range(received[g]) \/ InFlight(m, g)

(* The values at the positions keep of 1 .. n, in order.                   *)
Picked(n, keep, val) ==
    LET first[k \in 0 .. n] ==
            IF k = 0 THEN <<>>
            ELSE IF k \in keep THEN Append(first[k - 1], val[k]) ELSE first[k - 1]
    IN  first[n]

(* What is in queue q about client g that the VM will be told.             *)
EventsIn(q, g) ==
    LET about == {k \in DOMAIN q : /\ q[k].inner.cmd = "WORKER2OTHER_LUAVM"
                                   /\ q[k].inner.gid = g
                                   /\ q[k].inner.event # Nothing}
    IN  Picked(Len(q), about, [k \in about |-> q[k].inner.event])

(* What the VM can make of the packages of client g.                       *)
PackagesOf(g) ==
    LET own == {m \in DOMAIN sent : sent[m].source = g /\ sent[m].event # Nothing}
    IN  Picked(Len(sent), own, [m \in own |-> sent[m].event])

(* Everything the worker has to tell the VM about client g, in order.      *)
EventsOf(g) ==
    (IF client[g] \in {"open", "closing", "gone"} THEN <<NewEvent>> ELSE <<>>)
    \o PackagesOf(g)
    \o (IF client[g] = "gone" THEN <<CloseEvent>> ELSE <<>>)

(* The Lua VM's view of a client is a prefix of the client's life, and     *)
(* what is missing is in the tunnels in the right order: first the worker  *)
(* announces the client, then come the client's packages that the VM knows *)
(* in the order they were received, last the worker's close.  A package    *)
(* the VM does not know is left out and disturbs no other.  Every cmd is   *)
(* forwarded, so a client's own package may read as a new or a close       *)
(* event: it is told as such, in its place, and replaces neither of the    *)
(* worker's.                                                               *)
VMViewExact ==
    \A g \in Gid :
       seen[g] \o EventsIn(down[other_id], g)
               \o EventsIn(up[hash_gid_2_worker_tunnel_id(g)], g) = EventsOf(g)

(* The messages that a client which is still open has not got yet.         *)
Outstanding == {m \in DOMAIN sent : \E g \in sent[m].reach :
                                       client[g] = "open" /\ m \notin Range(received[g])}

(* Every message a client should get arrives, unless that client closes:   *)
(* what is delivered stays so, and of the messages that are sent none is   *)
(* outstanding for ever.                                                   *)
Delivered == []<>(Outstanding = {})

(* The Lua VM eventually learns of every connection that is gone: of its   *)
(* last package and of the close that its worker reported after it.        *)
VMLearnsClose == []<>(\A g \in Gid : client[g] = "gone" => seen[g] = EventsOf(g))
=============================================================================
