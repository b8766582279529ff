---------------------------- MODULE DispatchProofs ----------------------------
(***************************************************************************)
(* Proofs about the admission and the counting of clients, for every       *)
(* number of workers, every limit and every batch size.                    *)
(***************************************************************************)
EXTENDS Dispatch, FiniteSetTheorems, TLAPS

USE DEF counters, vars

(* A counter can only be overwritten once, by the start of its thread.     *)
LostAtStart == \A w \in Worker : ~started[w] => lost[w] = 0

(* accept_client's guard, on the counter it tests.                         *)
CurrLimit == curr_connection_num <= max_client_cnt

(* The inductive invariant: the two counters are cardinalities, so each    *)
(* step has to move one client in or out of one of the sets they count.    *)
IInv == TypeOK /\ CurrExact /\ CurrLimit /\ WorkerNumExact /\ LostAtStart

(* Sets of clients are finite.                                             *)
LEMMA ClientSubset ==
    ASSUME NEW S \in SUBSET Client
    PROVE  IsFiniteSet(S) /\ Cardinality(S) \in Nat
BY ClientAssumption, FS_Subset, FS_CardinalityType

(* One client enters a set.                                                *)
LEMMA Enter ==
    ASSUME NEW S \in SUBSET Client, NEW T, NEW c \in Client, c \notin S, T = S \cup {c}
    PROVE  Cardinality(T) = Cardinality(S) + 1
BY ClientSubset, FS_AddElement

(* One client leaves a set.                                                *)
LEMMA Leave ==
    ASSUME NEW S \in SUBSET Client, NEW T, NEW c \in Client, c \in S, T = S \ {c}
    PROVE  Cardinality(T) = Cardinality(S) - 1
BY ClientSubset, FS_RemoveElement

(* No client, no worker started, every counter zero.                       *)
LEMMA InitIInv == Init => IInv
<1> SUFFICES ASSUME Init PROVE IInv
    OBVIOUS
<1> USE ConfigAssumption
<1>1. TypeOK
    BY DEF Init, TypeOK, NewScan, Worker, Stage
<1>2. Counted = {} /\ \A w \in Worker : Load(w) = {}
    BY DEF Init, Counted, Load
<1> QED
    BY <1>1, <1>2, FS_EmptySet DEF Init, IInv, CurrExact, CurrLimit, WorkerNumExact,
       LostAtStart

(* The main thread's steps that move no client.                            *)
LEMMA MainLocalStep ==
    ASSUME IInv, listen_event \/ accept_end \/ scan_worker
    PROVE  IInv'
<1> USE ConfigAssumption
<1>1. UNCHANGED <<counters, started, where, owner, lost>>
    BY DEF listen_event, accept_end, scan_worker
<1>2. TypeOK'
    <2>1. CASE listen_event
        BY <2>1 DEF listen_event, IInv, TypeOK
    <2>2. CASE accept_end
        BY <2>2 DEF accept_end, NewScan, IInv, TypeOK, Worker
    <2>3. CASE scan_worker
        <3>0. scan.idx \in 0 .. worker_cnt /\ scan.idx < worker_cnt
            BY <2>3 DEF scan_worker, IInv, TypeOK
        <3>1. /\ scan.idx \in Worker
              /\ scan.idx + 1 \in 0 .. worker_cnt
              /\ worker_connection_num[scan.idx] \in Int
            BY <3>0 DEF IInv, TypeOK, Worker
        <3>2. \/ scan' = [idx |-> scan.idx + 1, target |-> scan.idx,
                           num |-> worker_connection_num[scan.idx]]
              \/ scan' = [scan EXCEPT !.idx = @ + 1]
            BY <2>3 DEF scan_worker
        <3>3. scan' \in [idx : 0 .. worker_cnt, target : Worker, num : Int]
            BY <3>1, <3>2 DEF IInv, TypeOK
        <3> QED
            BY <1>1, <2>3, <3>3 DEF scan_worker, IInv, TypeOK
    <2> QED
        BY <2>1, <2>2, <2>3
<1>3. (CurrExact /\ CurrLimit /\ WorkerNumExact /\ LostAtStart)'
    BY <1>1 DEF IInv, CurrExact, CurrLimit, WorkerNumExact, LostAtStart, Counted, Load
<1> QED
    BY <1>2, <1>3 DEF IInv

(* An accepted client is counted and within the limit.                     *)
LEMMA AcceptStep ==
    ASSUME IInv, NEW c \in Client, accept_client(c)
    PROVE  IInv'
<1> USE ConfigAssumption
<1>1. TypeOK'
    BY DEF accept_client, IInv, TypeOK, Stage
<1>2. Counted' = Counted \cup {c} /\ c \notin Counted
    BY DEF accept_client, IInv, TypeOK, Counted
<1>3. CurrExact'
    BY <1>2, Enter DEF accept_client, IInv, CurrExact, Counted
<1>4. \A w \in Worker : Load(w)' = Load(w)
    BY DEF accept_client, IInv, TypeOK, Load
<1>5. (WorkerNumExact /\ LostAtStart)'
    BY <1>4 DEF accept_client, IInv, WorkerNumExact, LostAtStart
<1>6. CurrLimit'
    BY DEF accept_client, IInv, TypeOK, CurrLimit
<1> QED
    BY <1>1, <1>3, <1>5, <1>6 DEF IInv

(* A forwarded client enters the load of one worker, whose counter grows.  *)
LEMMA ForwardStep ==
    ASSUME IInv, NEW c \in Client, forward_client(c)
    PROVE  IInv'
<1> USE ConfigAssumption
<1>1. PICK t \in Worker : t = scan.target
    BY DEF IInv, TypeOK
<1>2. TypeOK'
    <2>1. scan' \in [idx : 0 .. worker_cnt, target : Worker, num : Int]
        BY DEF forward_client, NewScan, Worker
    <2>2. worker_connection_num' \in [Worker -> Int]
        BY <1>1 DEF forward_client, IInv, TypeOK
    <2>3. where' \in [Client -> Stage] /\ owner' \in [Client -> Worker]
        BY <1>1 DEF forward_client, IInv, TypeOK, Stage
    <2> QED
        BY <2>1, <2>2, <2>3 DEF forward_client, IInv, TypeOK
<1>3. Counted' = Counted
    BY DEF forward_client, IInv, TypeOK, Counted
<1>4. (CurrExact /\ CurrLimit /\ LostAtStart)'
    BY <1>3 DEF forward_client, IInv, CurrExact, CurrLimit, LostAtStart
<1>5. Load(t)' = Load(t) \cup {c} /\ c \notin Load(t)
    BY <1>1 DEF forward_client, IInv, TypeOK, Load
<1>6. \A w \in Worker \ {t} : Load(w)' = Load(w)
    BY <1>1 DEF forward_client, IInv, TypeOK, Load
<1>7. Cardinality(Load(t)') = Cardinality(Load(t)) + 1 /\ Cardinality(Load(t)) \in Nat
    BY <1>5, Enter, ClientSubset DEF Load
<1>8. WorkerNumExact'
    <2> SUFFICES ASSUME NEW w \in Worker
                 PROVE  worker_connection_num'[w] = Cardinality(Load(w)') - lost'[w]
        BY DEF WorkerNumExact
    <2>1. worker_connection_num[w] = Cardinality(Load(w)) - lost[w] /\ lost' = lost
        BY DEF forward_client, IInv, WorkerNumExact
    <2>2. CASE w = t
        BY <1>1, <1>7, <2>1, <2>2 DEF forward_client, IInv, TypeOK
    <2>3. CASE w # t
        BY <1>1, <1>6, <2>1, <2>3 DEF forward_client, IInv, TypeOK
    <2> QED
        BY <2>2, <2>3
<1> QED
    BY <1>2, <1>4, <1>8 DEF IInv

(* The start of a worker thread forgets what its counter held so far.      *)
LEMMA StartStep ==
    ASSUME IInv, NEW w \in Worker, store_zero(w)
    PROVE  IInv'
<1>1. Cardinality(Load(w)) \in Nat
    BY ClientSubset DEF Load
<1>2. worker_connection_num[w] = Cardinality(Load(w)) /\ lost[w] = 0
    BY <1>1 DEF store_zero, IInv, LostAtStart, WorkerNumExact
<1>3. TypeOK'
    BY <1>1, <1>2 DEF store_zero, IInv, TypeOK
<1>4. Counted' = Counted /\ \A v \in Worker : Load(v)' = Load(v)
    BY DEF store_zero, Counted, Load
<1>5. WorkerNumExact'
    <2> SUFFICES ASSUME NEW v \in Worker
                 PROVE  worker_connection_num'[v] = Cardinality(Load(v)') - lost'[v]
        BY DEF WorkerNumExact
    <2>1. CASE v = w
        BY <1>1, <1>2, <1>4, <2>1 DEF store_zero, IInv, TypeOK
    <2>2. CASE v # w
        BY <1>4, <2>2 DEF store_zero, IInv, TypeOK, WorkerNumExact
    <2> QED
        BY <2>1, <2>2
<1>6. (CurrExact /\ CurrLimit /\ LostAtStart)'
    BY <1>4 DEF store_zero, IInv, TypeOK, CurrExact, CurrLimit, LostAtStart
<1> QED
    BY <1>3, <1>5, <1>6 DEF IInv

(* Taking a client into the pool, or starting to close it, moves no        *)
(* counter.                                                                *)
LEMMA TakeStep ==
    ASSUME IInv, NEW w \in Worker, NEW c \in Client,
           TakeClient(w, c) \/ close_client_fd(w, c)
    PROVE  IInv'
<1>1. PICK s \in {"open", "released"} :
          /\ where[c] \in {"queued", "open"}
          /\ where' = [where EXCEPT ![c] = s]
          /\ UNCHANGED <<counters, started, owner, main, loop, scan, lost>>
    BY DEF TakeClient, on_new_client_fd, on_new_client_fd_fails, close_client_fd, Move, Of
<1>2. TypeOK'
    BY <1>1 DEF IInv, TypeOK, Stage
<1>3. Counted' = Counted /\ \A v \in Worker : Load(v)' = Load(v)
    BY <1>1 DEF IInv, TypeOK, Counted, Load
<1> QED
    BY <1>1, <1>2, <1>3 DEF IInv, CurrExact, CurrLimit, WorkerNumExact, LostAtStart

(* fetch_sub on the worker's counter: the client leaves the worker's load. *)
LEMMA SubWorkerStep ==
    ASSUME IInv, NEW w \in Worker, NEW c \in Client, sub_worker_num(w, c)
    PROVE  IInv'
<1>1. TypeOK'
    BY DEF sub_worker_num, Move, Of, IInv, TypeOK, Stage
<1>2. Counted' = Counted
    BY DEF sub_worker_num, Move, Of, IInv, TypeOK, Counted
<1>3. (CurrExact /\ CurrLimit /\ LostAtStart)'
    BY <1>2 DEF sub_worker_num, IInv, CurrExact, CurrLimit, LostAtStart
<1>4. Load(w)' = Load(w) \ {c} /\ c \in Load(w)
    BY DEF sub_worker_num, Move, Of, IInv, TypeOK, Load
<1>5. \A v \in Worker \ {w} : Load(v)' = Load(v)
    BY DEF sub_worker_num, Move, Of, IInv, TypeOK, Load
<1>6. Cardinality(Load(w)') = Cardinality(Load(w)) - 1 /\ Cardinality(Load(w)) \in Nat
    BY <1>4, Leave, ClientSubset DEF Load
<1>7. WorkerNumExact'
    <2> SUFFICES ASSUME NEW v \in Worker
                 PROVE  worker_connection_num'[v] = Cardinality(Load(v)') - lost'[v]
        BY DEF WorkerNumExact
    <2>1. worker_connection_num[v] = Cardinality(Load(v)) - lost[v] /\ lost' = lost
        BY DEF sub_worker_num, IInv, WorkerNumExact
    <2>2. CASE v = w
        BY <1>6, <2>1, <2>2 DEF sub_worker_num, IInv, TypeOK
    <2>3. CASE v # w
        BY <1>5, <2>1, <2>3 DEF sub_worker_num, IInv, TypeOK
    <2> QED
        BY <2>2, <2>3
<1> QED
    BY <1>1, <1>3, <1>7 DEF IInv

(* fetch_sub on the server's counter: the client is counted nowhere.       *)
LEMMA SubCurrStep ==
    ASSUME IInv, NEW w \in Worker, NEW c \in Client, sub_curr_num(w, c)
    PROVE  IInv'
<1> USE ConfigAssumption
<1>1. TypeOK'
    <2>1. 0 \in Worker
        BY DEF Worker
    <2> QED
        BY <2>1 DEF sub_curr_num, Move, Of, IInv, TypeOK, Stage
<1>2. Counted' = Counted \ {c} /\ c \in Counted
    BY DEF sub_curr_num, Move, Of, IInv, TypeOK, Counted
<1>3. CurrExact'
    BY <1>2, Leave DEF sub_curr_num, IInv, CurrExact, Counted
<1>4. \A v \in Worker : Load(v)' = Load(v)
    BY DEF sub_curr_num, Move, Of, IInv, TypeOK, Load
<1>5. (CurrLimit /\ WorkerNumExact /\ LostAtStart)'
    BY <1>4 DEF sub_curr_num, IInv, TypeOK, CurrLimit, WorkerNumExact, LostAtStart
<1> QED
    BY <1>1, <1>3, <1>5 DEF IInv

(* Every reachable state satisfies the inductive invariant.                *)
THEOREM Invariance == Spec => []IInv
<1>1. IInv /\ [Next]_vars => IInv'
    <2> SUFFICES ASSUME IInv, [Next]_vars PROVE IInv'
        OBVIOUS
    <2>1. CASE UNCHANGED vars
        BY <2>1 DEF IInv, TypeOK, CurrExact, CurrLimit, WorkerNumExact, LostAtStart,
           Counted, Load
    <2>2. CASE MainNext
        BY <2>2, MainLocalStep, AcceptStep, ForwardStep DEF MainNext
    <2>3. CASE \E w \in Worker : WorkerNext(w)
        BY <2>3, StartStep, TakeStep, SubWorkerStep, SubCurrStep DEF WorkerNext
    <2> QED
        BY <2>1, <2>2, <2>3 DEF Next
<1> QED
    BY InitIInv, <1>1, PTL DEF Spec

(* However the accept loop of the main thread interleaves with the workers *)
(* closing clients, the server's counter is the number of clients it holds *)
(* and stays within max_client_cnt.                                        *)
THEOREM Admission == Spec => [](CurrExact /\ AdmissionLimit)
<1>1. IInv => CurrExact /\ AdmissionLimit
    BY DEF IInv, CurrExact, CurrLimit, AdmissionLimit
<1> QED
    BY Invariance, <1>1, PTL

(* A worker's counter is its load less what the start of its thread        *)
(* forgot: no other interleaving loses an update.                          *)
THEOREM WorkerCounting == Spec => []WorkerNumExact
<1>1. IInv => WorkerNumExact
    BY DEF IInv
<1> QED
    BY Invariance, <1>1, PTL

(* Types.                                                                  *)
THEOREM TypeCorrect == Spec => []TypeOK
<1>1. IInv => TypeOK
    BY DEF IInv
<1> QED
    BY Invariance, <1>1, PTL

-----------------------------------------------------------------------------
(* The spread of the clients over the workers.  The loop of                *)
(* on_listen_event reads the counters one by one while they fall; what is  *)
(* invariant is a bound on their sum, in which the workers it has passed   *)
(* count with the smallest number read so far and the others with the      *)
(* clients they hold.                                                      *)

(* The clients held by the workers from i on.                              *)
LoadFrom(i) ==
    {c \in Client : where[c] \in {"queued", "open", "released"} /\ owner[c] >= i}

ScanPending == main = "scan" => At("accepted") # {}

ScanBound ==
    main = "scan" =>
        scan.num * scan.idx + Cardinality(LoadFrom(scan.idx)) < max_client_cnt

(* The counter of the worker chosen so far has not grown since it was read.*)
ScanTarget ==
    main = "scan" =>
        IF scan.idx = 0 THEN scan.target = 0
        ELSE scan.target < scan.idx /\ worker_connection_num[scan.target] <= scan.num

NumBounded ==
    \A w \in Worker : worker_connection_num[w] <= CeilDiv(max_client_cnt, worker_cnt)

ScanInv == ScanPending /\ ScanBound /\ ScanTarget /\ NumBounded

LEMMA ProductMonotone ==
    ASSUME NEW a \in Int, NEW b \in Int, a <= b, NEW n \in Nat
    PROVE  a * n <= b * n
OBVIOUS

(* A number whose product with the number of workers is below the limit is *)
(* below the share of a worker.                                            *)
LEMMA BelowShare ==
    ASSUME NEW a \in Int, a * worker_cnt < max_client_cnt
    PROVE  a + 1 <= CeilDiv(max_client_cnt, worker_cnt)
<1>1. CeilDiv(max_client_cnt, worker_cnt) \in Int
    BY ConfigAssumption DEF CeilDiv
<1>2. worker_cnt * CeilDiv(max_client_cnt, worker_cnt) >= max_client_cnt
    BY ConfigAssumption DEF CeilDiv
<1>3. CASE CeilDiv(max_client_cnt, worker_cnt) <= a
    <2>1. CeilDiv(max_client_cnt, worker_cnt) * worker_cnt <= a * worker_cnt
        BY <1>1, <1>3, ProductMonotone, ConfigAssumption
    <2> QED
        BY <1>1, <1>2, <2>1, ConfigAssumption
<1> QED
    BY <1>1, <1>3

(* While a client is accepted and not handed over, the workers hold fewer  *)
(* than the limit.                                                         *)
LEMMA RoomForAccepted ==
    ASSUME IInv', NEW c \in Client, where'[c] = "accepted"
    PROVE  Cardinality(LoadFrom(0)') < max_client_cnt
<1>1. LoadFrom(0)' \subseteq Counted' \ {c} /\ c \in Counted'
    BY DEF LoadFrom, Counted
<1>2. Cardinality(Counted' \ {c}) = Cardinality(Counted') - 1
    BY <1>1, Leave DEF Counted
<1>3. Cardinality(LoadFrom(0)') <= Cardinality(Counted' \ {c})
    BY <1>1, ClientSubset, FS_Subset DEF Counted
<1>4. /\ Cardinality(LoadFrom(0)') \in Nat /\ Cardinality(Counted' \ {c}) \in Nat
      /\ Cardinality(Counted') \in Nat
    BY ClientSubset DEF LoadFrom, Counted
<1> QED
    BY <1>2, <1>3, <1>4, ConfigAssumption DEF IInv, CurrExact, CurrLimit

(* A worker's counter is at most its load, which is what LoadFrom loses    *)
(* when the loop passes the worker.                                        *)
LEMMA PassWorker ==
    ASSUME IInv, NEW w \in Worker
    PROVE  /\ Cardinality(LoadFrom(w)) \in Nat /\ Cardinality(LoadFrom(w + 1)) \in Nat
           /\ worker_connection_num[w] + Cardinality(LoadFrom(w + 1))
                  <= Cardinality(LoadFrom(w))
<1>0. \A c \in Client : owner[c] \in Int
    BY ConfigAssumption DEF Worker, IInv, TypeOK
<1>1. /\ LoadFrom(w) = LoadFrom(w + 1) \cup Load(w)
      /\ LoadFrom(w + 1) \cap Load(w) = {}
    <2>1. w \in Int
        BY ConfigAssumption DEF Worker
    <2>2. \A c \in Client : owner[c] >= w <=> owner[c] >= w + 1 \/ owner[c] = w
        BY <1>0, <2>1
    <2>3. \A c \in Client : ~(owner[c] >= w + 1 /\ owner[c] = w)
        BY <1>0, <2>1
    <2>4. LoadFrom(w) = LoadFrom(w + 1) \cup Load(w)
        BY <2>2 DEF LoadFrom, Load
    <2> QED
        BY <2>3, <2>4 DEF LoadFrom, Load
<1>2. /\ IsFiniteSet(Load(w)) /\ Cardinality(Load(w)) \in Nat
      /\ IsFiniteSet(LoadFrom(w)) /\ Cardinality(LoadFrom(w)) \in Nat
      /\ IsFiniteSet(LoadFrom(w + 1)) /\ Cardinality(LoadFrom(w + 1)) \in Nat
    BY ClientSubset DEF LoadFrom, Load
<1>3. Cardinality(LoadFrom(w)) = Cardinality(LoadFrom(w + 1)) + Cardinality(Load(w))
    <2>1. Cardinality(LoadFrom(w + 1) \cup Load(w)) =
              Cardinality(LoadFrom(w + 1)) + Cardinality(Load(w))
                  - Cardinality(LoadFrom(w + 1) \cap Load(w))
        BY <1>2, FS_Union
    <2>2. Cardinality(LoadFrom(w + 1) \cap Load(w)) = 0
        BY <1>1, FS_EmptySet
    <2> QED
        BY <1>1, <1>2, <2>1, <2>2
<1>4. worker_connection_num[w] <= Cardinality(Load(w)) /\ worker_connection_num[w] \in Int
    BY <1>2 DEF IInv, TypeOK, WorkerNumExact
<1> QED
    BY <1>2, <1>3, <1>4

(* One iteration of the loop over the workers.                             *)
LEMMA ScanStep ==
    ASSUME IInv, ScanInv, scan_worker
    PROVE  ScanInv'
<1> DEFINE i == scan.idx
           val == worker_connection_num[i]
<1>1. /\ main = "scan" /\ main' = "scan" /\ i \in Worker /\ i \in Nat /\ val \in Int
      /\ scan.num \in Int /\ scan.target \in Worker
    BY ConfigAssumption DEF scan_worker, IInv, TypeOK, Worker
<1>2. UNCHANGED <<worker_connection_num, where, owner>>
    BY DEF scan_worker
<1>3. ScanPending' /\ NumBounded'
    BY <1>1, <1>2 DEF ScanInv, ScanPending, NumBounded, At
<1>4. /\ scan'.idx = i + 1
      /\ \/ scan'.num = val /\ scan'.target = i /\ (i = 0 \/ val <= scan.num)
         \/ i # 0 /\ scan'.num = scan.num /\ scan'.target = scan.target /\ scan.num < val
    BY <1>1, ConfigAssumption DEF scan_worker, IInv, TypeOK, ScanInv, ScanTarget, Worker
<1>5. ScanTarget'
    BY <1>1, <1>2, <1>4, ConfigAssumption DEF ScanInv, ScanTarget, Worker
<1>6. ScanBound'
    <2>1. LoadFrom(scan.idx)' = LoadFrom(i + 1)
        BY <1>2, <1>4 DEF LoadFrom
    <2>2. /\ Cardinality(LoadFrom(i)) \in Nat /\ Cardinality(LoadFrom(i + 1)) \in Nat
          /\ val + Cardinality(LoadFrom(i + 1)) <= Cardinality(LoadFrom(i))
        BY <1>1, PassWorker
    <2>3. scan.num * i + Cardinality(LoadFrom(i)) < max_client_cnt
        BY <1>1 DEF ScanInv, ScanBound
    <2>4. scan'.num * i <= scan.num * i /\ scan'.num <= val /\ scan'.num \in Int
        <3>1. CASE i = 0
            BY <1>1, <1>4, <3>1
        <3>2. CASE i # 0
            <4>1. scan'.num \in Int /\ scan'.num <= scan.num /\ scan'.num <= val
                BY <1>1, <1>4, <3>2
            <4> QED
                BY <1>1, <4>1, ProductMonotone
        <3> QED
            BY <3>1, <3>2
    <2>5. scan'.num * (i + 1) = scan'.num * i + scan'.num
        BY <1>1, <2>4
    <2>6. scan'.num * i \in Int /\ scan.num * i \in Int
        BY <1>1, <2>4
    <2>7. scan'.num * (i + 1) + Cardinality(LoadFrom(i + 1)) < max_client_cnt
        <3> HIDE DEF i, val
        <3> QED
            BY <1>1, <2>2, <2>3, <2>4, <2>5, <2>6, ConfigAssumption
    <2> QED
        BY <1>4, <2>1, <2>7 DEF ScanBound
<1> QED
    BY <1>3, <1>5, <1>6 DEF ScanInv

(* The loop starts with a client in hand.                                  *)
LEMMA NewScanBound ==
    ASSUME IInv', At("accepted")' # {}, scan' = NewScan
    PROVE  (ScanPending /\ ScanBound /\ ScanTarget)'
<1>1. PICK c \in Client : where'[c] = "accepted"
    BY DEF At
<1>2. Cardinality(LoadFrom(0)') < max_client_cnt /\ Cardinality(LoadFrom(0)') \in Nat
    BY <1>1, RoomForAccepted, ClientSubset DEF LoadFrom
<1>3. scan'.idx = 0 /\ scan'.num = 0 /\ scan'.target = 0
    BY DEF NewScan
<1>4. LoadFrom(scan.idx)' = LoadFrom(0)'
    BY <1>3 DEF LoadFrom
<1> QED
    BY <1>2, <1>3, <1>4 DEF ScanPending, ScanBound, ScanTarget

(* The client goes to the chosen worker: its counter was below the share   *)
(* of a worker when it was read, and has not grown since.                  *)
LEMMA ForwardSpread ==
    ASSUME IInv, ScanInv, NEW c \in Client, forward_client(c), IInv'
    PROVE  ScanInv'
<1> DEFINE t == scan.target
<1>1. /\ main = "scan" /\ scan.idx = worker_cnt /\ t \in Worker /\ scan.num \in Int
      /\ worker_connection_num[t] \in Int
    BY DEF forward_client, IInv, TypeOK
<1>2. scan.num * worker_cnt < max_client_cnt
    <2>1. Cardinality(LoadFrom(worker_cnt)) \in Nat
        BY ClientSubset DEF LoadFrom
    <2>2. scan.num * worker_cnt \in Int
        BY <1>1, ConfigAssumption
    <2>3. scan.num * worker_cnt + Cardinality(LoadFrom(worker_cnt)) < max_client_cnt
        BY <1>1 DEF ScanInv, ScanBound
    <2> QED
        BY <2>1, <2>2, <2>3, ConfigAssumption
<1>3. worker_connection_num[t] + 1 <= CeilDiv(max_client_cnt, worker_cnt)
    <2>1. scan.num + 1 <= CeilDiv(max_client_cnt, worker_cnt)
        BY <1>1, <1>2, BelowShare
    <2>2. worker_connection_num[t] <= scan.num
        BY <1>1, ConfigAssumption DEF ScanInv, ScanTarget
    <2>3. CeilDiv(max_client_cnt, worker_cnt) \in Int
        BY ConfigAssumption DEF CeilDiv
    <2> QED
        BY <1>1, <2>1, <2>2, <2>3
<1>4. NumBounded'
    BY <1>1, <1>3 DEF forward_client, IInv, TypeOK, ScanInv, NumBounded
<1>5. (ScanPending /\ ScanBound /\ ScanTarget)'
    <2>1. CASE main' = "scan"
        <3>1. At("accepted") # {c} /\ c \in At("accepted") /\ scan' = NewScan
            BY <2>1 DEF forward_client, At
        <3>2. At("accepted")' # {}
            BY <3>1 DEF forward_client, IInv, TypeOK, At
        <3> QED
            BY <3>1, <3>2, NewScanBound
    <2>2. CASE main' # "scan"
        BY <2>2 DEF ScanPending, ScanBound, ScanTarget
    <2> QED
        BY <2>1, <2>2
<1> QED
    BY <1>4, <1>5 DEF ScanInv

(* What the workers do: their counters fall, or start at zero.             *)
LEMMA FallingStep ==
    ASSUME IInv, ScanInv, IInv', UNCHANGED <<main, scan>>,
           At("accepted")' = At("accepted"),
           \A w \in Worker : worker_connection_num'[w] <= worker_connection_num[w],
           LoadFrom(scan.idx)' \subseteq LoadFrom(scan.idx)
    PROVE  ScanInv'
<1>1. /\ scan.num \in Int /\ scan.idx \in Int /\ scan.target \in Worker
      /\ \A w \in Worker : /\ worker_connection_num[w] \in Int
                            /\ worker_connection_num'[w] \in Int
      /\ CeilDiv(max_client_cnt, worker_cnt) \in Int
    BY ConfigAssumption DEF IInv, TypeOK, CeilDiv
<1>2. ScanPending' /\ ScanTarget'
    BY <1>1 DEF ScanInv, ScanPending, ScanTarget
<1>3. NumBounded'
    BY <1>1 DEF ScanInv, NumBounded
<1>4. ScanBound'
    <2>1. /\ Cardinality(LoadFrom(scan.idx)') <= Cardinality(LoadFrom(scan.idx))
          /\ Cardinality(LoadFrom(scan.idx)') \in Nat /\ Cardinality(LoadFrom(scan.idx)) \in Nat
        BY ClientSubset, FS_Subset DEF LoadFrom
    <2>2. scan.num * scan.idx \in Int
        BY <1>1
    <2> QED
        BY <2>1, <2>2, ConfigAssumption DEF ScanInv, ScanBound
<1> QED
    BY <1>2, <1>3, <1>4 DEF ScanInv

LEMMA WorkerSpread ==
    ASSUME IInv, ScanInv, IInv', NEW w \in Worker, WorkerNext(w)
    PROVE  ScanInv'
<1>1. CASE store_zero(w)
    <2>1. Cardinality(Load(w)) \in Nat
        BY ClientSubset DEF Load
    <2>2. worker_connection_num[w] >= 0
        BY <1>1, <2>1 DEF store_zero, IInv, TypeOK, WorkerNumExact, LostAtStart
    <2>3. \A v \in Worker : worker_connection_num'[v] <= worker_connection_num[v]
        BY <1>1, <2>2 DEF store_zero, IInv, TypeOK
    <2> QED
        BY <1>1, <2>3, FallingStep DEF store_zero, At, LoadFrom
<1>2. ASSUME NEW c \in Client, TakeClient(w, c) \/ close_client_fd(w, c) PROVE ScanInv'
    <2>1. PICK stage \in {"open", "released"} :
              /\ where[c] \in {"queued", "open"}
              /\ where' = [where EXCEPT ![c] = stage]
              /\ UNCHANGED <<counters, owner, main, scan>>
        BY <1>2 DEF TakeClient, on_new_client_fd, on_new_client_fd_fails, close_client_fd,
           Move, Of
    <2>2. At("accepted")' = At("accepted") /\ LoadFrom(scan.idx)' = LoadFrom(scan.idx)
        BY <2>1 DEF IInv, TypeOK, At, LoadFrom
    <2>3. \A v \in Worker : worker_connection_num'[v] <= worker_connection_num[v]
        BY <2>1 DEF IInv, TypeOK
    <2> QED
        BY <2>1, <2>2, <2>3, FallingStep
<1>3. ASSUME NEW c \in Client, sub_worker_num(w, c) PROVE ScanInv'
    <2>1. At("accepted")' = At("accepted") /\ LoadFrom(scan.idx)' \subseteq LoadFrom(scan.idx)
        BY <1>3 DEF sub_worker_num, Move, Of, IInv, TypeOK, At, LoadFrom
    <2>2. \A v \in Worker : worker_connection_num'[v] <= worker_connection_num[v]
        BY <1>3 DEF sub_worker_num, IInv, TypeOK
    <2> QED
        BY <1>3, <2>1, <2>2, FallingStep DEF sub_worker_num
<1>4. ASSUME NEW c \in Client, sub_curr_num(w, c) PROVE ScanInv'
    <2>1. At("accepted")' = At("accepted") /\ LoadFrom(scan.idx)' \subseteq LoadFrom(scan.idx)
        BY <1>4 DEF sub_curr_num, Move, Of, IInv, TypeOK, At, LoadFrom
    <2>2. \A v \in Worker : worker_connection_num'[v] <= worker_connection_num[v]
        BY <1>4 DEF sub_curr_num, IInv, TypeOK
    <2> QED
        BY <1>4, <2>1, <2>2, FallingStep DEF sub_curr_num
<1> QED
    BY <1>1, <1>2, <1>3, <1>4 DEF WorkerNext

LEMMA MainSpread ==
    ASSUME IInv, ScanInv, IInv', MainNext
    PROVE  ScanInv'
<1>1. CASE listen_event
    BY <1>1 DEF listen_event, ScanInv, ScanPending, ScanBound, ScanTarget, NumBounded
<1>2. ASSUME NEW c \in Client, accept_client(c) PROVE ScanInv'
    BY <1>2 DEF accept_client, ScanInv, ScanPending, ScanBound, ScanTarget, NumBounded
<1>3. CASE accept_end
    <2>1. NumBounded'
        BY <1>3 DEF accept_end, ScanInv, NumBounded
    <2>2. CASE main' = "scan"
        <3>1. At("accepted")' # {} /\ scan' = NewScan
            BY <1>3, <2>2 DEF accept_end, At
        <3> QED
            BY <2>1, <3>1, NewScanBound DEF ScanInv
    <2>3. CASE main' # "scan"
        BY <2>1, <2>3 DEF ScanInv, ScanPending, ScanBound, ScanTarget
    <2> QED
        BY <2>2, <2>3
<1> QED
    BY <1>1, <1>2, <1>3, ScanStep, ForwardSpread DEF MainNext

(* Whatever the workers close while on_listen_event compares their         *)
(* counters, no worker holds more than its share of max_client_cnt plus    *)
(* what the start of its thread forgot: choosing by counters that are      *)
(* stale never overloads a worker.                                         *)
THEOREM Spread == Spec => []LoadBounded
<1>1. Init => ScanInv
    <2> SUFFICES ASSUME Init PROVE ScanInv
        OBVIOUS
    <2>1. 0 <= CeilDiv(max_client_cnt, worker_cnt)
        BY ConfigAssumption DEF CeilDiv
    <2> QED
        BY <2>1 DEF Init, ScanInv, ScanPending, ScanBound, ScanTarget, NumBounded
<1>2. IInv /\ IInv' /\ ScanInv /\ [Next]_vars => ScanInv'
    <2> SUFFICES ASSUME IInv, IInv', ScanInv, [Next]_vars PROVE ScanInv'
        OBVIOUS
    <2>1. CASE UNCHANGED vars
        BY <2>1 DEF ScanInv, ScanPending, ScanBound, ScanTarget, NumBounded, At, LoadFrom
    <2> QED
        BY <2>1, MainSpread, WorkerSpread DEF Next
<1>3. IInv /\ ScanInv => LoadBounded
    <2> SUFFICES ASSUME IInv, ScanInv, NEW w \in Worker
                 PROVE  Cardinality(Load(w)) <= CeilDiv(max_client_cnt, worker_cnt) + lost[w]
        BY DEF LoadBounded
    <2>1. Cardinality(Load(w)) \in Nat /\ CeilDiv(max_client_cnt, worker_cnt) \in Int
        BY ClientSubset, ConfigAssumption DEF Load, CeilDiv
    <2> QED
        BY <2>1 DEF IInv, TypeOK, WorkerNumExact, ScanInv, NumBounded
<1> QED
    BY Invariance, <1>1, <1>2, <1>3, PTL DEF Spec
=============================================================================
