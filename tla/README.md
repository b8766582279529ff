# TLA+ models of avant

avant is a C++ network framework: one process with a main thread, N worker
threads and one "other" thread, each running an event loop of its own.  This
directory holds TLA+ models of it, the TLC configurations that check them and
TLAPS proofs about them.  Every definition that models code is listed in
`PROJECT.json` under `map` with the lines it translates; paths there start at
the repository root, `src/`.  In this file they start inside it.

    tlc -config MCWorkerLoop.cfg MCWorkerLoop     model-check one run
    tlapm TunnelProofs.tla                        check the proofs of a module

## 1. The system

| part | source | state | operations |
|---|---|---|---|
| main thread | `src/server/server.cpp` | `m_curr_connection_num`, `m_gid_seq`, `stop_flag`, one end of every tunnel | accept and dispatch clients, route tunnel packages, run signal requests, drive the stop |
| workers | `src/workers/worker.cpp` | connection pool, poller, timeout timers, `worker_connection_num`, `m_closed_fd`, `m_timeout_fd` | take over clients, run their contexts, close them, forward messages |
| other thread | `src/workers/other.cpp`, `src/app/other_app.cpp` | IPC pool, `appid2gid`/`gid2appid` maps, authenticated pairs | connect to, accept and authenticate peer processes, UDP, Lua |
| tunnels | `socket_pair`, the `tunnel_forward`, `try_send_flush_tunnel` and `on_tunnel_event` of the three threads | send buffer, kernel buffer, receive buffer, epoll registration | append a package, flush, read, parse, process |
| connection pool | `src/connection/connection_mgr.cpp`, `connection.cpp` | slots, three maps, two index sets | init, alloc, release, look up |
| event poller | `src/event/event_poller.cpp` | cache of registrations | add, mod, del, wait (epoll or kqueue) |
| contexts | `src/connection/{stream,http,websocket,ipc_stream}_ctx.cpp` | per-connection flags and buffers | on_create, on_event, send_data, on_close |
| applications | `src/app/*.cpp` | Lua VMs, authenticated pairs | callbacks of the contexts, hooks |
| timers | `external/avant-timer` | expiry queue and id index | add, check_and_handle, mark_delete |
| signals | `src/system/signal_channel.h`, `system.cpp` | two request flags, a self-pipe | handlers; drain and process in the main loop |

How the parts interact.  The main thread accepts a client, counts it, gives it
a gid, picks the worker with the smallest counter and sends the descriptor
through that worker's tunnel.  The worker puts it into its pool, registers it
with its poller and starts a handshake timer; the context takes over from
there.  Only the main thread holds a tunnel to everyone, so a message from a
client to a client of another worker, or to the Lua VM of the other thread, is
a package that main copies from one tunnel to another.  The low nine bits of a
gid name the worker.  The other thread keeps TCP connections to peer processes
with a pool and a poller of its own.  Signals only set a flag and write a byte;
the main loop acts on them, and on a stop waits for every other thread.

What is hard to get right, and hard to test:

* counters that two threads change, read one by one to make a decision;
* descriptors the kernel gives out again while the worker still holds an
  event, a timer or a cached registration for the number;
* send() and recv() that move any part of a package;
* a message overtaking another, or a close overtaking a message, on different
  routes through the main thread;
* connections closed and dialled again from inside the handler of another
  event;
* a signal handler delayed between two instructions while the process ends;
* everyone waiting for everyone at the stop;
* a response, or a frame, that is cut by a full socket or by the end of a read,
  and the resources behind it when one of the calls on the way fails;
* recursive conversions written with a stack of their own beside the stack of
  Lua.

`PROJECT.json` lists the main ones under `hazards` at the lines where they bite;
section 5 adds those that the properties leave aside.

What must hold, and where it is stated:

| part | correctness | property |
|---|---|---|
| connection pool | a look-up finds the connection it names; a reused slot carries nothing over; pointers into the pool stay valid | `LookupSound`, `NoResidue`, `PointersStable`, `ImplementsTable` |
| admission | the client limit holds, counters count, the load is spread, no client is forgotten on its way | `AdmissionLimit`, `WorkerNumExact`, `LoadBounded`, `ClientsTaken` |
| stop | nobody's loop outlives main's, late handlers are harmless, a stop ends, a reload is not swallowed | `ExitAfterLoops`, `WriteHitsPipe`, `StopEnds`, `ReloadServed` |
| tunnels | packages arrive whole, once, in order, and without a busy loop | `Framing`, `ImplementsChannel`, `NoSpin` |
| workers, poller, timers, stream context | one owner per descriptor; events, timers and registrations belong to that owner; every new is paired with a close; silent clients are dropped | `DescriptorsExact`, `CountExact`, `EventsToOwner`, `PollerExact`, `TimersExact`, `AppExact`, `HandshakeEnds` |
| router, stream application, Lua VM | messages once, in order, to the addressees only, none lost; the VM sees each life in order | `DeliveredOnce`, `SourceOrder`, `Accounted`, `Delivered`, `VMViewExact`, `VMLearnsClose` |
| IPC of the other thread | the tables describe the pool, a registration dies with its connection, peers stay dialled | `DirectionsExact`, `PairsLive`, `BatchFresh`, `AlwaysDialled` |
| HTTP | a response is exactly what the request is owed, its resources are released once | `ResponseExact`, `ReleasedOnce` |
| WebSocket | messages and packages survive framing, masking, fragments and every split | `Reassembled`, `PackagesFramed` |
| both | the interest left in the poller brings the context back until the client is served | `Served` |
| Protobuf/Lua conversions | the table or message is the one a recursive definition gives; failures have known causes; both loops end | `TableExact`, `Converted`, `Terminates` |
| gids | a gid names its worker; no gid repeats | theorems `GidNamesWorker`, `GidUnique` |

## 2. The modules

| module | models | refines / uses |
|---|---|---|
| `ConnTable` | what a connection pool promises: a bounded table of (fd, gid) pairs | |
| `ConnectionMgr` | `connection_mgr` and the slots, `connection::on_alloc/on_release` | implements `ConnTable` |
| `Dispatch` | accept loop, least-loaded scan, the two counters, workers' start, take-over and close | |
| `StopProtocol` | signal handlers, self-pipe, main loop, stop and teardown | |
| `Channel` | what a tunnel promises: a reliable FIFO of packages | |
| `Tunnel` | one direction of a tunnel, unit by unit | implements `Channel` |
| `Gid` | the gids of clients and the worker computed from them | used by `TunnelRouter` |
| `TunnelRouter` | main as forwarding centre, clients, workers, Lua VM | takes tunnels as the FIFOs of `Channel`; extends `Gid` |
| `StreamCtx` | the stream context: operators on one connection | used by `WorkerLoop` |
| `WorkerLoop` | a worker's event loop, take-over, close, timers, poller cache, kernel descriptors | extends `StreamCtx`; its pool is the table `ConnTable` allows |
| `OtherIpc` | the other thread's IPC connections: dial, accept, authenticate, close, redial | as above |
| `HttpApp` | `http_app`: ranges, the response object, the two write callbacks, the limits of the body: operators on one connection | used by `HttpCtx` |
| `HttpCtx` | `http_ctx`: TLS handshake, parser, the phases of a request, keep-alive, with socket and peer | extends `HttpApp` |
| `WebSocketApp` | `websocket_app`: reading and writing frames | used by `WebSocketCtx` |
| `WebSocketCtx` | `websocket_ctx`: TLS handshake, upgrade, frames, packages, closing, with socket and peer | extends `WebSocketApp` |
| `ClientCtx` | a client of either type, and the fairness of its worker and peer | instantiates `HttpCtx` and `WebSocketCtx` |
| `LuaPlugin` | `protobuf2lua_nostack`, a script, `lua2protobuf_nostack` | |
| `*Proofs` | theorems about the module they are named after | |
| `TunnelRouterInvariant` | the invariant and the lemmas that `TunnelRouterProofs` rests on, and the theorems about `Gid` | extends `TunnelRouter` |
| `MC*` | values for TLC | |

Actions carry the names of the functions they model.  Where a function runs
without interference (a handler of a single thread that shares nothing in the
middle) it is one action; where another thread can get in between, it is split
at the accesses to shared state: `Dispatch` has one action per atomic load,
store or fetch_add, `StopProtocol` one per flag, `Tunnel` one per system call.
Operators that no specification uses, such as those marked `\* mutant`, are
deliberate faults listed in `PROJECT.json` under `mutants`: each property of a
passing run is violated when one of them takes the place of the definition it
is a copy of.

**ConnectionMgr.**  Maps are functions with `Absent` for a missing key; a slot
is a record of the fields that outlive a call; a buffer is the set of gids
whose bytes are in it.  `UseSlot` stands for what contexts do to their own slot.

**Dispatch.**  `where[c]` follows a client from outside through `accepted`,
`queued`, `open` and the two halves of `close_client_fd`; `scan` holds the
locals of the search loop; `lost` is a history variable for the updates that
the `store(0)` at the start of a worker overwrites.

**StopProtocol.**  `main` is the program counter of the main thread.  A handler
is three steps (store the flag, load the descriptor, write), so that it can be
delayed anywhere.  Start-up may fail before the threads exist; later a wait may fail in any thread,
and a worker or the other thread may stop by itself.

**Tunnel.**  A package is `size[p]` units, the first being the length header: a
header arrives whole, and the guard of the code for a part of one is not told apart
from an empty buffer.
The refinement mapping of `Channel` takes the packages whose last unit is still
in `recv_buffer \o socket \o send_buffer`.

**TunnelRouter.**  Queues hold whole packages.  `sent`, `received` and `seen`
are histories of what was sent, what each client got and what the Lua VM was
told; `sent[m].reach` are the clients that message `m` was for and that were open
when it was sent.  `sent[m].event` is what the Lua VM can make of a client's package.
The worker forwards every cmd (`stream_app.cpp:190`) and the other thread knows those
of the message factory, among which are the two events of connections
(`lua_plugin.cpp:1762`): a package may be one the VM gets, may read as a new or a close
event, or may be dropped because its cmd is not registered or its payload does not
parse (`other_app.cpp:121`; `Nothing`).  `client_forwards` is the context's
`worker_send_client_forward_message`; the calls in the two apps are commented out
(`stream_app.cpp:181`, `websocket_app.cpp:347`), so it stands for an application that
uses it.

**WorkerLoop.**  `file` and `epoll` are the kernel's view, everything else the
worker's.  A wait returns any set of events the registrations allow, with
`kqueue` possibly two for one descriptor, each remembering the client it was
reported for.  Other threads open and close descriptors at any time.

**OtherIpc.**  The tables of the thread are one record; operators such as
`Dial`, `Accept` and `close_ipc_client_fd` map it to the set of records the code
can leave, which lets a close dial again from inside, as the code does.
`claimed` and `connect_failed` are histories.

**HttpApp, HttpCtx.**  Bytes are grouped into units, and a unit on the wire says
what it is (the head with its status and length, the i-th unit of the file, plain
or compressed, the last chunk ...), so that the order and the number of units are
kept and their contents are not.  `write_end_callback` is a record in place of the
closure: which of the two callbacks it is and what it captured.  `heap` counts the
response objects, files, deflate states and listings that exist.  A call that can
fail is a member of `Faults`, and an operator returns one outcome per failure;
`fault` remembers which.  `in` is the kernel's receive queue and `pending` what
OpenSSL has decrypted and not handed out, of which the poller knows nothing.
`FileResponse` and `Owed` define what a request is owed from the set of positions
its range names, not from the code's arithmetic.

**WebSocketApp, WebSocketCtx.**  The layout of a frame is the code's; its widths
are scaled down (`width16` = 2, `width64` = 4, a key of 2, bytes of one bit), so
that the three classes of length, the wrap of `index + payload_length` and the
limit of `std::string` all happen within a few bytes.  `in` is a sequence of segments.
With TLS each is a record, and a read that stops inside one leaves its rest in
`pending`, as in `HttpCtx`.  A package is sent in a binary frame, a broadcast in a text
frame unless its text does not parse.

**LuaPlugin.**  A Lua value is a tagged pair, a table a function of its keys; the
frames of the code's stack and the values on the Lua stack are two sequences that
have to stay in step.  A round of the loop is an action.  The script between the
two conversions makes one assignment that need not fit (`Junk`), or sends the table
as another type.  The widths of numbers are scaled down too (`narrow`, `wide`,
`double_bits`, `float_bits`), and a string that reads as a number remembers how it is
written, because `lua_tostring` writes a number in one of three ways and `std::stoll`
reads only the integer a string begins with.  `OfLua` is the set of values a field may
get: empty when the conversion throws, several where C++ leaves the outcome open (a
double too large for an int32) or where rounding ties.  `lua_rawlen` of an array with
gaps may be any border; `far_border` chooses.  A conversion ends `done`, `refused` (type not registered), `error`
(lua_next meets a key that is not in the table), `thrown` (`std::stoll`), `overrun`
(beyond `LUA_MINSTACK`), or `exit` (the final assertion on the stack).

## 3. What TLC checks

| run | instance | what it shows |
|---|---|---|
| `connection_mgr` | 4 fds, 4 gids, 3 slots | look-ups are sound, reused slots are clean, live connections do not move, and the pool implements `ConnTable`, refusals included |
| `dispatch` | 3 clients, limit 2, 2 workers, batches of 2 | the limit holds, counters are exact up to `lost`, load is spread, every accepted client reaches a pool or is closed |
| `dispatch_start` | same | **violated**: `worker_connection_num` is not the number of connections after a late `store(0)` |
| `stop_protocol` | 1 worker and the other thread, a pipe of 2 bytes drained 1 at a time | loops end before main does, delayed handlers write into the pipe, a stop ends the process, no reload is lost |
| `stop_hooks` | 1 worker | **violated**: the process is torn down while a stop hook runs |
| `tunnel` | packages of 2 and 3 units, 3 units in the socket | framing, no busy loop, implements `Channel` with its fairness |
| `worker` | 2 fds, 2 clients, 1 or 2 slots, epoll or kqueue, with or without TLS, time-outs of 2 ticks | descriptors, counters, poller, timers and application agree in every state; a handshake that never ends is closed |
| `worker_stale` | 2 fds, 3 clients, 2 slots, kqueue | **violated**: a double event of a closed connection reaches the next owner of the descriptor |
| `router` | 3 connected clients on 2 workers and a message; or one client that comes, one connected, one refused, and 2 messages | nothing delivered twice, out of order or lost; the Lua VM hears the worker's new event, then what the client's packages say to it, then the worker's close event; messages and closes arrive |
| `other_ipc` | 2 peers, 3 fds, 3 gids, 3 slots | directions, authenticated pairs and pending events stay consistent through closes and redials; every peer stays dialled unless a connect failed |
| `client_ctx` | HTTP with and without TLS: a first request of every kind, a second one behind it, files of 0 and 3 units, blocks and sockets of 2; WebSocket with and without TLS: two transfers, frames of every length class, every split, packages and broadcasts | responses exact, resources released once, messages and packages whole, and clients served |
| `lua_plugin` | the registered messages with arrays of 0, 1, 2, 19 and 20 messages, two orders of lua_next, two borders, both Lua builds | tables as defined by recursion, messages that convey their tables, failures exactly for the causes `Converted` names, both loops end |

The instances are chosen so that each limit is reached: more clients than
slots, more clients than the limit, a pipe and a socket smaller than what is
written, descriptors fewer than clients so that numbers are reused, a package
larger than what one send can take, two clients on one worker and one on
another.  The bounds that do not come from the configuration of the program
are `Start` and `Speaker` (TunnelRouter: who is connected, refused or named, how many
messages; which clients send some), `max_send_buffer` (Tunnel: units waiting when a
package is forwarded), the sizes of `Gid` in WorkerLoop (clients in a
behaviour), the length of `Request` (HttpCtx: requests of a connection) `max_transfers` (WebSocketCtx: frames and packages) and `Cuts` (WebSocketCtx: with TLS
a frame is one record; without, its bytes are cut everywhere).  A second request is what
meets anything the first leaves behind, and a second frame what meets a fragment
or the rest of a read; a file of three units is a whole block and a partial one,
and more than the socket takes.  Two messages are the fewest that can be reordered or duplicated
relative to each other; two descriptors and two clients allow a batch to hold an
event for a closed connection, for its successor and for a bystander.  Gids in `MCTunnelRouter` are real
numbers (512, 513, 1025, 514) because the worker is computed from them.
In `StopProtocol` a worker and the other thread run the same protocol, so one of
each makes the main thread wait for several; the safety properties are proved for
any number of workers (section 4).  The same configuration with two workers (293493
states, two to four minutes) also passes.
Symmetry is used over descriptors, gids and clients, and only in runs without
temporal properties other than refinement of a safety specification.  The type
invariants belong to the proofs and are not repeated in the runs.

Deadlock is checked except where the system may stop: `StopProtocol` ends,
`TunnelRouter` runs out of messages, a client of `ClientCtx` is closed and a
conversion of `LuaPlugin` is done.

**Fairness.**  Threads are weakly fair: each runs its loop again and again, and
every wait has a time-out (`epoll_wait_time`, which `config_mgr` requires to be
positive).  Strong fairness is used where the code retries something the
kernel may refuse for a while: `Send` and `Recv` in Tunnel (a level-triggered
poller reports the descriptor again, and EINTR does not hit every call),
`wait_returns` in StopProtocol (waits may be interrupted, not for ever), `wait(1)` in WorkerLoop (time passes), taking a
client over in Dispatch (a tunnel is FIFO, so no client is passed over for
ever).  In `ClientCtx` the worker handles events and timers (weakly fair), and the
peer is taken to read what it is sent: a peer that never reads keeps its connection
open for as long as it likes, and the code has no time-out for it.  A conversion of
`LuaPlugin` is a loop of one thread.  Otherwise clients, peers, signals and Lua
scripts owe nothing.

### Findings

* `dispatch_start`.  `worker.h:43` calls `worker_connection_num` the "worker
  connection num", but the thread's own `store(0)` (`worker.cpp:52`) may come
  after the main thread has dispatched clients, and then the counter stays too
  small by their number from then on, and goes below zero when they close.
  `LoadBounded` states how far that can unbalance the workers.
* `stop_hooks`.  `is_stoped` is published before the stop hook
  (`worker.cpp:138`), so the main thread can leave, and the server be destroyed,
  while a worker or the other thread is still in `on_worker_stop`.
* `worker_stale`.  The comments at `worker.cpp:110-111` and `worker.cpp:320` say
  that `m_closed_fd` solves the double events of kqueue.  It does only while nobody is given the
  number: when the tunnel event between the two hands over a client with the
  same descriptor, the second event goes to that client.  Nothing is miscounted
  (`CountExact`), but the new connection handles an event that is not its own,
  an error event included.

## 4. What is proved

All theorems hold for every value of the constants that the named assumptions
allow.  Assumptions are evaluated by TLC in the runs above.

* **ConnectionMgrProofs** (from `CapacityAssumption`, `AbsentAssumption`).
  `IInv` is the type invariant with `MapsAgree` (the three maps are one
  bijection), `PoolPartition` (a slot is free or belongs to exactly one live
  gid), `LookupSound` and `NoResidue`; `LookupSound` is not inductive without the
  first two, because a slot found through a wrong map could be anyone's.
  The last two are what users of the pool rely on.  `PoolSafety` concludes the
  first three, `SlotHygiene` the fourth, `PointerStability` the action property
  `PointersStable`, and `Refinement` that the pool implements `ConnTable`: its
  error codes are the table's refusals.
* **DispatchProofs** (from `ConfigAssumption`, `ClientAssumption`).  Both counters
  are cardinalities of sets of clients (`CurrExact`, `WorkerNumExact`), and each
  step moves one client in or out of a counted set.  `CurrLimit` is what the
  guard of the accept loop preserves; `CurrExact` turns it into `Admission`: the
  server never holds more than `max_client_cnt` clients.  `WorkerCounting` says
  that only the start of a thread can lose an update (`LostAtStart`).  `Spread`
  is `LoadBounded`.  The worker that main picks has the smallest counter only of
  the values it read, one after the other, while workers count down; `ScanInv`
  says what survives of that: the smallest value so far times the number of workers
  read, plus what the workers still to be read hold, is below the limit, and the
  counter of the chosen worker has not grown since it was read.  At the end of the
  scan the chosen counter is below the average.
* **StopProtocolProofs** (from `ThreadAssumption`, `PipeAssumption`).
  `StoppedLeft` (who reports `is_stoped` has left its loop), `NotStarted` and
  `PublishedOpen` (only an open write end is published, and it is never closed)
  make `ExitAfterLoops` and `WriteHitsPipe` inductive: `OrderlyEnd` and
  `HandlerSafety`.
* **WorkerLoopProofs** (from `FiniteAssumption`, `FdAssumption`, `TimeoutAssumption` and
  `NoneAssumption`, and for `Failures` without `new_ctx`, see section 5).  None of the
  invariants is inductive by itself.  `DescriptorsExact` needs to know that a client
  is in one place only and that no two descriptors denote the same client
  (`OneOwner`); it is kept in two halves, `OwnersOpen` and `OpenOwned`, because a close
  threatens the first and an accept the second.  `BatchKnown` (an event that waits is of
  a connection that is there or was closed in this round) is why an event without a
  connection closes nothing, and so why the counter stays exact.  `EpollBatch` says
  that a descriptor has at most one event and only the timers close ahead of it: the
  argument for `timeout_fd_copy`, and the step that fails for kqueue.  `ConnsSound` is
  what each call of `StreamCtx` leaves behind.  There is one theorem for each
  invariant of the run.
* **TunnelProofs** (from `SizeAssumption`, `CapacityAssumption`).  The invariant is
  about the three buffers read as one stream: `InPackages` says that every unit
  lies in a complete copy of some package.  Appending a package keeps it, moving
  units between buffers does not change the stream, and the parse loop drops
  exactly the first copy.  With `NoStall` (unsent units have a write event to
  come) this gives `TunnelSafety`, which contains `Framing`.
  `TunnelImplementsChannel` is the refinement `Spec => C!Spec`: in any behaviour of the
  tunnel, the packages of the stream are a FIFO.  The step lemmas say what a step does
  to the stream (a package more at its end, the first package less, or nothing);
  `PackagesConcat` and `PackagesOne` say what that means for the refinement mapping:
  two streams one after the other complete what each completes, and a package
  completes with its last unit.  `Packages` is a recursive function, so both are by induction, in the
  form of `SetInduction`: a set of numbers with 0 and with every successor holds
  all of them.  The fairness of `Channel` is not part of the theorem.
* **TunnelRouterInvariant**, about `Gid` (for clocks below 2^32, as the layout of a gid has
  it).  A gid is a number in mixed radix: second, 23 bits of sequence, 9 bits of
  worker.  `Fields` shows that the shifts, masks and additions of the code put the
  three into disjoint places, and `Digits` that a quotient and a remainder are
  determined by their number; from these follow `GidNamesWorker`, on which the
  routing of `TunnelRouter` rests, and `GidUnique`: equal gids come from the same
  second, worker and sequence number modulo 2^23.  The sequence restarts with every
  second, so gids are unique as long as fewer than 2^23 clients come in a second and
  the wall clock is not set back; the code checks neither.

* **TunnelRouterInvariant, TunnelRouterProofs** (from `RouterAssumption`: up to 512
  workers, gids are natural numbers and name a worker; the ids of main and of the other
  thread are negative, so no list of gids names them).  `DeliveredOnce` and `SourceOrder`
  speak of what has arrived and are not inductive; the invariant says the same of the
  whole pipeline.  For a client, the messages of one sender are in the order they were sent
  in what the client received, then in the tunnel from main to its worker, then in the
  tunnels to main (`Ordered`), which includes that none is there twice.  That a hand-out
  past the tunnels cannot overtake anything needs to know who may have put what
  into which tunnel (`Sound`, `Fits`): a worker's own clients never use main to
  reach each other.  `NoneLost` is `Accounted` with the position spelled out; it needs
  `Waiting` (a connection that is announced is announced once and not open yet) and
  `Engaged` (nobody sends or is owed anything before the connection opens).
  `VMViewSafety` is about sequences picked out of the tunnels by a recursive function
  (`Picked`).  What it computes for an appended, a removed and a moved package is shown by
  induction over the set of lengths for which the claim holds (`SetInduction`: a set
  of numbers without a least counterexample is all of them).  With these
  lemmas every step either appends one event to the life of one client and to the end of its
  worker's tunnel, or moves the event at the head of one tunnel to the end of the next, or
  touches neither.  The life of a client is the worker's new event, what each of its
  packages says, and the worker's close event.  The theorem does not say that new and close
  are told once: a client that sends a package with the cmd of an event has it told to the
  VM in its place.  A package that says `Nothing` is carried and never told; the
  lemmas have a case of their own for it.
* **OtherIpcProofs** (from `IpcAssumption`).  The tables of the other thread are one
  record and the handlers map it to records, so the invariant is a predicate on records:
  `Good` (types, `Directions`, `Pairs`, as many connections as slots), kept by each
  operator and therefore by a close that dials again from inside.  The loop over the apps
  is treated by induction over the list.  `BatchSafety` follows from a handler touching
  only its own connection and those that are born in it.  `DialSafety` assumes that the
  pool has a slot for each app of `ipc.json`; the code does not check that.  Between two
  handlers no app is undialled unless a dial has failed; an app becomes undialled
  only in a close, and `Room` (the free slots are enough for the undialled apps) holds there
  because the close frees the slot that the dial takes.

Only model-checked: everything about liveness (TLAPS has no rule for fairness
or ENABLED here), among it that `Tunnel` delivers everything
(the fairness of `Channel` in `ImplementsChannel`), the contexts and the conversions (`HttpCtx`,
`WebSocketCtx` and `LuaPlugin` rest on folds and on RECURSIVE definitions over data, which
the provers do not reach).

## 5. Not modelled, and left out of the properties

Not modelled, with the reasons in `PROJECT.json`: UDP (no state between two
datagrams), configuration and the daemon (done before the first thread), the codecs
(URL, Base64, SHA-1, MIME types: functions of bytes that a test reaches better than
a model of small sets), `object_pool` (nothing in `src/` uses it), logging, the
libraries under `external/` other than the timers and the calls of the Lua library that the
conversions make.  Mounting and
hot reload of Lua files are the work of the Lua library; what scripts and hooks do
is left open.  The byte stream of an IPC connection is framed by the same loop as
`Tunnel`'s.  The timers are modelled as the worker uses them, with one shot each.

Some behaviour is modelled but excepted from a property, or kept out by an
assumption:

* A failed allocation of a context (`new_ctx` in `Failures` of `WorkerLoop`) calls
  `close_client_fd` before the slot's socket has been given the descriptor
  (`worker.cpp:637`): the slot is released and the descriptor stays open.  With
  `new_ctx` in `Failures`, `DescriptorsExact` fails in this way.
* A failed `new DIR_TYPE` (`new_dir` in `Faults` of `HttpApp`) deletes the response
  and leaves `ctx.ptr` as it was (`http_app.cpp:845`).  With `new_dir` in `Faults`,
  `ReleasedOnce` fails.
* `ListingFits`: the page of a directory that needs more than one block repeats its
  first block (`http_app.cpp:902`).  `ResponseExact` is stated for one block.
* `Aborts`: an exception, a failing fread or deflate and a failing send end a
  response early.  The code then has nothing to tell the client with, and a kept
  connection goes on to the next request; `ReleasedOnce` covers these paths,
  `ResponseExact` does not.
* A refused body on a kept connection does not close it, although the comments at
  `http_app.cpp:925` and `943` say that the connection is closed: the context is
  reused.  Such a request is never processed, so `ResponseExact` says nothing of it.
  Likewise the comment at `http_app.cpp:339` says that a request other than GET and HEAD
  is disconnected by force; the code answers 405 and keeps a connection that asked to be
  kept.
* Two requests that arrive in one read are parsed into one context: the second method is
  appended to the first, and the answer is 405 (`joined` in `ParseHead`).  `Owed` takes
  that as the answer they are owed, since the code has no pipelining; a client that
  waits for its answer is not concerned.
* The bytes that OpenSSL holds decrypted (`pending`) are reported by no poller, and no
  context asks for them: after a read of 10240 bytes the rest of a TLS record waits
  until more arrives (`http_ctx.cpp:432`, `websocket_ctx.cpp:522`).  `Served` does not
  count them, and `Reassembled` promises that nothing is held back only when there are
  none; without that condition it fails.
* `Served` does not count a WebSocket connection that is to be closed: when its buffer
  is empty `try_send_flush` asks for RE (`websocket_ctx.cpp:602`), and the close waits for the next event.
* `HEAD` of a directory, and the answers 404, 405 and 500, have a body; `Owed` takes
  them as the code sends them.
* An array of floats would not be advanced in `protobuf2lua_nostack`
  (`lua_plugin.cpp:1653`): `push_array` has no step for it and `Terminates` would
  fail; no registered message has one.  Messages that contain their own type would
  not end either, and none does.
* `on_body` adds the length of a piece to a size that contains it already
  (`http_app.cpp:959`), so that a body is refused below the limit when its last piece
  is large.  Modelled so; no document gives the exact limit.
* Bytes that follow an upgrade request in the same read go to the HTTP parser and are
  lost (`websocket_ctx.cpp:384`).  The client of `WebSocketCtx` waits for the answer,
  as RFC 6455 asks.
* A stream connection that asked to be closed waits for its peer's next event in the
  same way as a WebSocket one (`stream_ctx.cpp:244`).
* `StopEnds` assumes that waits do not fail for ever: when they do, the main loop
  continues before the test that would end it (`server.cpp:556`).
* `AlwaysDialled` is about applications whose last dial did not fail: a dial that
  fails at once is repeated only when another outgoing connection closes
  (`other.cpp:631`).
* `OtherIpc` has the batches of epoll.  With kqueue a second event of a descriptor
  closed earlier in the batch would be an unknown one, which stops the thread
  (`other.cpp:219`).
* Lua2Protobuf is mounted in the VMs of the main and worker threads too, where it would
  use the other thread's tunnel (`lua_plugin.cpp:807`).  The router lets only the
  other thread's VM send, as the scripts of the repository do.
* A repeated timer saturates at UINT64_MAX (`avant-timer/timer.cpp:63`); the worker's
  timers have one shot.
* `Converted` names the inputs for which `lua2protobuf_nostack` fails, rather than
  excluding them: an array of messages that does not begin with a table, one with more than
  19, and a 64-bit field set to a string that begins with no integer or with one out of
  range.  It also names what is converted to something else: a string is cut at a NUL, a
  text such as `12abc` in a 64-bit field gives the integer it begins with, a large float
  in one is read up to its exponent, a number out of the range of an int32 or uint32
  becomes any number of that type, and an array with gaps may end at any of them.
* An enum is read as a uint32 (`lua_plugin.cpp:1540`), so that a negative one would not
  survive; no registered message has an enum.
* `Lua2Protobuf` converts its own arguments with `std::stoll` (`lua_plugin.cpp:773`);
  the script of `LuaPlugin` passes numbers.

What would come next: two processes with `OtherIpc` at both ends (who is registered
when both dial each other and one restarts), and proofs about the contexts with their
folds written as recursive functions, as `Picked` and `Packages` are.
