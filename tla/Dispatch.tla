------------------------------- MODULE Dispatch -------------------------------
(***************************************************************************)
(* How clients are admitted, spread over the workers and counted.  The     *)
(* main thread accepts a batch of clients (server::on_start, listen        *)
(* event), reads every worker_connection_num in turn to find the least     *)
(* loaded worker and hands each client over through that worker's tunnel   *)
(* (server::on_listen_event).  A worker takes the client into its pool     *)
(* (worker::on_new_client_fd) and later closes it                          *)
(* (worker::close_client_fd).  The two counters are atomics shared by the  *)
(* threads; each access to one is a step of its own, unless nothing that   *)
(* another thread does in between could change what the step does.         *)
(*                                                                         *)
(* A client is followed from accept() to the moment no counter counts it   *)
(* any more.  The order of clients in a batch and in a tunnel does not     *)
(* matter to the counters and is left open.                                *)
(***************************************************************************)
EXTENDS Integers, FiniteSets

CONSTANTS Client,           \* connections in the kernel's accept queue
          worker_cnt, max_client_cnt, accept_per_tick

(* The ranges server::start accepts (the upper bounds matter to gids only) *)
ASSUME ConfigAssumption == /\ worker_cnt \in Nat \ {0}
                           /\ max_client_cnt \in Nat \ {0}
                           /\ accept_per_tick \in Nat \ {0}
ASSUME ClientAssumption == IsFiniteSet(Client)

Worker == 0 .. worker_cnt - 1

VARIABLES curr_connection_num,
          worker_connection_num,
          started,       \* worker -> its thread has executed store(0)
          where,         \* client -> stage of its life
          owner,         \* client -> the worker it is dispatched to
          main,          \* "poll", "accept" or "scan"
          loop,          \* accepts made for the current listen event
          scan,          \* next worker on_listen_event looks at, its choice
          lost           \* worker -> clients its store(0) forgot (history)

counters == <<curr_connection_num, worker_connection_num>>
vars == <<counters, started, where, owner, main, loop, scan, lost>>

(* outside:   waiting in the accept queue, or gone for good                *)
(* accepted:  in clients_fd, counted by curr_connection_num                *)
(* queued:    in the tunnel of its owner, counted by both counters         *)
(* open:      in the pool of its owner                                     *)
(* released:  closed by its owner, still counted by both counters          *)
(* uncounted: still counted by curr_connection_num only                    *)
Stage == {"outside", "accepted", "queued", "open", "released", "uncounted"}

At(stage) == {c \in Client : where[c] = stage}

Of(w, stage) == {c \in Client : where[c] = stage /\ owner[c] = w}

CeilDiv(a, b) == (a + b - 1) \div b

(* Slots for clients in a worker's pool: connection_mgr::init makes one    *)
(* more, which the tunnel's own connection takes.                          *)
worker_max_client_cnt == CeilDiv(max_client_cnt, worker_cnt) + worker_cnt + 1

-----------------------------------------------------------------------------
(* main thread *)

listen_event == /\ main = "poll"
                /\ main' = "accept"
                /\ loop' = 0
                /\ UNCHANGED <<counters, started, where, owner, scan, lost>>

NewScan == [idx |-> 0, target |-> 0, num |-> 0]

accept_client_over_limit(c) ==              \* mutant
    /\ main = "accept" /\ loop < accept_per_tick
    /\ where[c] = "outside"
    /\ curr_connection_num <= max_client_cnt
    /\ curr_connection_num' = curr_connection_num + 1
    /\ where' = [where EXCEPT ![c] = "accepted"]
    /\ loop' = loop + 1
    /\ UNCHANGED <<worker_connection_num, started, owner, main, scan, lost>>

(* The load that checks the limit and the fetch_add are one step: no other *)
(* thread increments the counter.                                          *)
accept_client(c) ==
    /\ main = "accept" /\ loop < accept_per_tick
    /\ where[c] = "outside"
    /\ curr_connection_num < max_client_cnt
    /\ curr_connection_num' = curr_connection_num + 1
    /\ where' = [where EXCEPT ![c] = "accepted"]
    /\ loop' = loop + 1
    /\ UNCHANGED <<worker_connection_num, started, owner, main, scan, lost>>

accept_end_returns_at_limit ==              \* mutant
    /\ main = "accept"
    /\ main' = IF \/ At("accepted") = {}
                  \/ curr_connection_num >= max_client_cnt
               THEN "poll" ELSE "scan"
    /\ scan' = NewScan
    /\ UNCHANGED <<counters, started, where, owner, loop, lost>>

(* End of the accept loop: nothing left to accept, accept_per_tick used    *)
(* up, or the limit reached (the client is closed at once).                *)
accept_end ==
    /\ main = "accept"
    /\ main' = IF At("accepted") = {} THEN "poll" ELSE "scan"
    /\ scan' = NewScan
    /\ UNCHANGED <<counters, started, where, owner, loop, lost>>

scan_worker_prefers_loaded ==               \* mutant
    /\ main = "scan" /\ scan.idx < worker_cnt
    /\ LET temp_val == worker_connection_num[scan.idx]
       IN  scan' = IF scan.idx = scan.target \/ temp_val >= scan.num
                   THEN [idx |-> scan.idx + 1, target |-> scan.idx, num |-> temp_val]
                   ELSE [scan EXCEPT !.idx = @ + 1]
    /\ UNCHANGED <<counters, started, where, owner, main, loop, lost>>

(* One iteration of the loop over the workers in on_listen_event: the last *)
(* worker with the smallest counter read wins.                             *)
scan_worker ==
    /\ main = "scan" /\ scan.idx < worker_cnt
    /\ LET temp_val == worker_connection_num[scan.idx]
       IN  scan' = IF scan.idx = scan.target \/ temp_val <= scan.num
                   THEN [idx |-> scan.idx + 1, target |-> scan.idx, num |-> temp_val]
                   ELSE [scan EXCEPT !.idx = @ + 1]
    /\ UNCHANGED <<counters, started, where, owner, main, loop, lost>>

(* fetch_add on the chosen worker's counter and tunnel_forward.            *)
forward_client(c) ==
    /\ main = "scan" /\ scan.idx = worker_cnt
    /\ where[c] = "accepted"
    /\ worker_connection_num' = [worker_connection_num EXCEPT ![scan.target] = @ + 1]
    /\ where' = [where EXCEPT ![c] = "queued"]
    /\ owner' = [owner EXCEPT ![c] = scan.target]
    /\ scan' = NewScan
    /\ main' = IF At("accepted") = {c} THEN "poll" ELSE "scan"
    /\ UNCHANGED <<curr_connection_num, started, loop, lost>>

-----------------------------------------------------------------------------
(* worker threads *)

(* worker::operator() starts with worker_connection_num.store(0).  The     *)
(* main thread does not wait for it: clients dispatched before are         *)
(* forgotten by the counter.                                               *)
store_zero(w) ==
    /\ ~started[w]
    /\ started' = [started EXCEPT ![w] = TRUE]
    /\ lost' = [lost EXCEPT ![w] = worker_connection_num[w]]
    /\ worker_connection_num' = [worker_connection_num EXCEPT ![w] = 0]
    /\ UNCHANGED <<curr_connection_num, where, owner, main, loop, scan>>

(* The worker is between two statements of close_client_fd.                *)
Closing(w) == Of(w, "released") \cup Of(w, "uncounted")

InLoop(w) == started[w] /\ Closing(w) = {}

Move(c, stage) == where' = [where EXCEPT ![c] = stage]

(* alloc_connection and everything after it succeeds.                      *)
on_new_client_fd(w, c) ==
    /\ InLoop(w)
    /\ c \in Of(w, "queued")
    /\ Cardinality(Of(w, "open")) < worker_max_client_cnt
    /\ Move(c, "open")
    /\ UNCHANGED <<counters, started, owner, main, loop, scan, lost>>

(* One of its steps fails: no free slot, or a new context, epoller.add,    *)
(* SSL or the timer.  Each path ends in close_client_fd.                   *)
on_new_client_fd_fails(w, c) ==
    /\ InLoop(w)
    /\ c \in Of(w, "queued")
    /\ Move(c, "released")
    /\ UNCHANGED <<counters, started, owner, main, loop, scan, lost>>

(* close_client_fd: release_connection, then the two fetch_sub.            *)
close_client_fd(w, c) ==
    /\ InLoop(w)
    /\ c \in Of(w, "open")
    /\ Move(c, "released")
    /\ UNCHANGED <<counters, started, owner, main, loop, scan, lost>>

sub_worker_num_forgets(w, c) ==             \* mutant
    /\ c \in Of(w, "released")
    /\ Move(c, "uncounted")
    /\ UNCHANGED <<counters, started, owner, main, loop, scan, lost>>

sub_worker_num(w, c) ==
    /\ c \in Of(w, "released")
    /\ worker_connection_num' = [worker_connection_num EXCEPT ![w] = @ - 1]
    /\ Move(c, "uncounted")
    /\ UNCHANGED <<curr_connection_num, started, owner, main, loop, scan, lost>>

sub_curr_num(w, c) ==
    /\ c \in Of(w, "uncounted")
    /\ curr_connection_num' = curr_connection_num - 1
    /\ Move(c, "outside")
    /\ owner' = [owner EXCEPT ![c] = 0]
    /\ UNCHANGED <<worker_connection_num, started, main, loop, scan, lost>>

-----------------------------------------------------------------------------

Init == /\ curr_connection_num = 0
        /\ worker_connection_num = [w \in Worker |-> 0]
        /\ started = [w \in Worker |-> FALSE]
        /\ where = [c \in Client |-> "outside"]
        /\ owner = [c \in Client |-> 0]
        /\ main = "poll" /\ loop = 0 /\ scan = NewScan
        /\ lost = [w \in Worker |-> 0]

MainNext == \/ listen_event
            \/ \E c \in Client : accept_client(c) \/ forward_client(c)
            \/ accept_end
            \/ scan_worker

TakeClient(w, c) == on_new_client_fd(w, c) \/ on_new_client_fd_fails(w, c)

WorkerNext(w) == \/ store_zero(w)
                 \/ \E c \in Client : \/ TakeClient(w, c)
                                      \/ close_client_fd(w, c)
                                      \/ sub_worker_num(w, c)
                                      \/ sub_curr_num(w, c)

Next == MainNext \/ \E w \in Worker : WorkerNext(w)

Spec == Init /\ [][Next]_vars

(* Every thread runs: the kernel schedules them and none waits for a lock. *)
(* A tunnel is first in, first out and readable for as long as it holds a  *)
(* package (level-triggered epoll), so the turn of a queued client comes   *)
(* although the worker keeps closing others in between.                    *)
FairSpec == /\ Spec
            /\ WF_vars(MainNext)
            /\ \A w \in Worker : /\ WF_vars(WorkerNext(w))
                                 /\ \A c \in Client : SF_vars(TakeClient(w, c))

-----------------------------------------------------------------------------
(* properties *)

(* Types of the counters and of the threads' local variables.              *)
TypeOK ==
    /\ curr_connection_num \in Int
    /\ worker_connection_num \in [Worker -> Int]
    /\ started \in [Worker -> BOOLEAN]
    /\ where \in [Client -> Stage]
    /\ owner \in [Client -> Worker]
    /\ main \in {"poll", "accept", "scan"}
    /\ loop \in 0 .. accept_per_tick
    /\ scan \in [idx : 0 .. worker_cnt, target : Worker, num : Int]
    /\ lost \in [Worker -> Nat]

Counted == {c \in Client : where[c] # "outside"}

(* curr_connection_num counts every client from accept() to the end of     *)
(* close_client_fd, on whichever thread and error path it travels.         *)
CurrExact == curr_connection_num = Cardinality(Counted)

(* The server never holds more than max_client_cnt clients, from accept()  *)
(* on, while the workers count their clients down as the main thread       *)
(* counts new ones up.                                                     *)
AdmissionLimit == Cardinality(Counted) <= max_client_cnt

Load(w) == {c \in Client : where[c] \in {"queued", "open", "released"} /\ owner[c] = w}

(* worker_connection_num is the number of clients dispatched to the worker *)
(* and not yet closed, less those its start-up store(0) forgot.            *)
WorkerNumExact ==
    \A w \in Worker : worker_connection_num[w] = Cardinality(Load(w)) - lost[w]

(* Least-loaded dispatch spreads the clients evenly although the counters  *)
(* move while they are read one by one: no worker holds more than its      *)
(* share of max_client_cnt, plus what its counter forgot.  So the pool,    *)
(* with worker_cnt + 1 slots to spare, does not run out unless store(0)    *)
(* forgot more clients than that.                                          *)
LoadBounded ==
    \A w \in Worker :
        Cardinality(Load(w)) <= CeilDiv(max_client_cnt, worker_cnt) + lost[w]

(* What worker.h says worker_connection_num is: the number of connections  *)
(* of the worker.                                                          *)
WorkerNumIsLoad ==
    \A w \in Worker : worker_connection_num[w] = Cardinality(Load(w))

(* No client is forgotten between accept() and a worker's pool.            *)
ClientsTaken ==
    \A c \in Client : where[c] = "accepted" ~> where[c] \notin {"accepted", "queued"}
=============================================================================
