----------------------- MODULE TunnelRouterInvariant ------------------------
(***************************************************************************)
(* What every step of the router preserves, for every number of workers,   *)
(* clients and messages: lemmas over arbitrary queues of packages, then    *)
(* one per action, and the inductive invariant IInv.  TunnelRouterProofs   *)
(* derives its theorems from it.                                           *)
(***************************************************************************)
EXTENDS TunnelRouter, TLAPS

(***************************************************************************)
(* What the layout of a gid guarantees, for every clock, sequence number   *)
(* and worker.                                                             *)
(***************************************************************************)
ClientGid(t, s, w) == real_gid(server_gen_gid(t, s), w)

LEMMA Units ==
    /\ SeqRange \in Nat /\ SeqRange > 0
    /\ WorkerRange \in Nat /\ WorkerRange > 0
    /\ \A t \in Int : t * SecondUnit = (t * SeqRange) * WorkerRange
BY SMT DEF SeqRange, WorkerRange, SecondUnit

LEMMA Product ==
    ASSUME NEW x \in Int, NEW y \in Int, NEW base \in Int, base > 0, x < y
    PROVE  x * base + base <= y * base
<1>1. y - x - 1 >= 0
  BY SMT
<1>2. (y - x - 1) * base >= 0
  BY SMT, <1>1
<1>3. (y - x - 1) * base = y * base - x * base - base
  BY SMT
<1>4. QED
  BY SMT, <1>2, <1>3

(* A number determines its quotient and its remainder.                     *)
LEMMA Digits ==
    ASSUME NEW base \in Int, base > 0, NEW d \in 0 .. base - 1, NEW e \in 0 .. base - 1,
           NEW q \in Int, NEW p \in Int, q * base + d = p * base + e
    PROVE  q = p /\ d = e
<1>1. ~(q < p) /\ ~(p < q)
  BY SMT, Product
<1>2. q = p
  BY SMT, <1>1
<1>3. QED
  BY SMT, <1>2

(* The masks leave the sequence number and the worker in their fields.     *)
LEMMA Fields ==
    ASSUME NEW t \in Tick, NEW s \in Nat, NEW w \in 0 .. WorkerRange - 1
    PROVE  /\ s % SeqRange \in 0 .. SeqRange - 1
           /\ ClientGid(t, s, w) = (t * SeqRange + (s % SeqRange)) * WorkerRange + w
<1>1. s % SeqRange \in 0 .. SeqRange - 1
  BY SMT, Units
<1>2. w % WorkerRange = w
  BY SMT, Units
<1>3. t \in Int
  BY SMT DEF Tick
<1>4. (t * SeqRange + (s % SeqRange)) * WorkerRange = (t * SeqRange) * WorkerRange + (s % SeqRange) * WorkerRange
  BY SMT, <1>1, <1>3, Units
<1>5. ClientGid(t, s, w) = t * SecondUnit + (s % SeqRange) * WorkerRange + w
  BY <1>2, Zenon DEF ClientGid, real_gid, server_gen_gid
<1>6. t * SecondUnit = (t * SeqRange) * WorkerRange
  BY <1>3, Units, Zenon
<1>7. QED
  BY <1>1, <1>4, <1>5, <1>6, Zenon

(* The worker that handle_tunnel_client_forward_message and                *)
(* send_client_forward_message read from a gid is the one that             *)
(* on_listen_event handed the connection to.                               *)
THEOREM GidNamesWorker ==
    ASSUME NEW t \in Tick, NEW s \in Nat, NEW w \in 0 .. WorkerRange - 1
    PROVE  hash_gid_2_worker_tunnel_id(ClientGid(t, s, w)) = w
<1>1. /\ t * SeqRange + (s % SeqRange) \in Int
      /\ ClientGid(t, s, w) = (t * SeqRange + (s % SeqRange)) * WorkerRange + w
  BY SMT, Fields, Units DEF Tick
<1>2. ASSUME NEW q \in Int
      PROVE  (q * WorkerRange + w) % WorkerRange = w
  BY SMT DEF WorkerRange
<1>3. QED
  BY SMT, <1>1, <1>2 DEF hash_gid_2_worker_tunnel_id

(* Two clients with the same gid were accepted in the same second and by   *)
(* the same worker, a multiple of 2^23 calls of server_gen_gid apart: as   *)
(* long as no second sees that many, and the clock of main does not come   *)
(* back to an earlier second, server_gen_gid never repeats a gid.          *)
THEOREM GidUnique ==
    ASSUME NEW t \in Tick, NEW u \in Tick, NEW s \in Nat, NEW r \in Nat,
           NEW w \in 0 .. WorkerRange - 1, NEW v \in 0 .. WorkerRange - 1,
           ClientGid(t, s, w) = ClientGid(u, r, v)
    PROVE  t = u /\ w = v /\ s % SeqRange = r % SeqRange
<1> DEFINE m == s % SeqRange
           n == r % SeqRange
           q == t * SeqRange + m
           p == u * SeqRange + n
<1>1. t \in Int /\ u \in Int
  BY SMT DEF Tick
<1>2. m \in 0 .. SeqRange - 1 /\ n \in 0 .. SeqRange - 1
  BY Fields, Zenon
<1>3. q * WorkerRange + w = p * WorkerRange + v
  <2>1. ClientGid(t, s, w) = q * WorkerRange + w
    BY Fields, Zenon
  <2>2. ClientGid(u, r, v) = p * WorkerRange + v
    BY Fields, Zenon
  <2>3. QED
    BY <2>1, <2>2, Zenon
<1> HIDE DEF m, n
<1>4. q \in Int /\ p \in Int
  BY SMT, <1>1, <1>2, Units
<1> HIDE DEF q, p
<1>5. q = p /\ w = v
  <2>1. WorkerRange \in Int /\ WorkerRange > 0
    BY SMT, Units
  <2>2. QED
    BY SMT, <1>3, <1>4, <2>1, Digits
<1>6. t * SeqRange + m = u * SeqRange + n
  BY <1>5, Zenon DEF q, p
<1>7. t = u /\ m = n
  BY SMT, <1>1, <1>2, <1>6, Digits, Units
<1>8. QED
  BY <1>5, <1>7, Zenon DEF m, n

-----------------------------------------------------------------------------
(* The worker of a client.                                                 *)
Home(g) == hash_gid_2_worker_tunnel_id(g)

Inner ==
    [cmd : {"MAIN2WORKER_NEW_CLIENT", "OTHERLUAVM2WORKER_CLOSE"}, gid : Gid]
    \cup [cmd : {"CLIENT_FORWARD_MESSAGE"}, id : Nat, targetgid : SUBSET Nat]
    \cup [cmd : {"WORKER2OTHER_LUAVM"}, gid : Gid, event : Int]
    \cup [cmd : {"OTHERLUAVM2WORKERCONN"}, gid : Gid, id : Nat]

UpPackage == [source : Thread, target : SUBSET Thread, inner : Inner]
DownPackage == [source : Thread \cup {main_id}, inner : Inner]
Message == [source : Gid \cup {other_id}, to : SUBSET Int, reach : SUBSET Gid, event : Int]

(* The queues u towards main and d from main, the messages s that were     *)
(* sent and the ids r that the clients have got.                           *)
Typed(u, d, s, r) ==
    /\ u \in [Thread -> Seq(UpPackage)] /\ d \in [Thread -> Seq(DownPackage)]
    /\ s \in Seq(Message) /\ r \in [Gid -> Seq(Nat)]
    /\ \A g \in Gid : \A i \in DOMAIN r[g] : r[g][i] \in DOMAIN s

(* What thread t may have sent towards the threads dest: who sends what,   *)
(* to whom, and on behalf of which message.                                *)
Fits(inner, t, dest, s) ==
    \/ /\ inner.cmd = "CLIENT_FORWARD_MESSAGE"
       /\ inner.id \in DOMAIN s
       /\ s[inner.id].source \in Gid /\ Home(s[inner.id].source) = t
       /\ dest \subseteq Worker \ {t}
       /\ inner.targetgid = {} <=> s[inner.id].to = {}
       /\ inner.targetgid \subseteq s[inner.id].to
    \/ /\ inner.cmd = "OTHERLUAVM2WORKERCONN"
       /\ t = other_id /\ inner.gid \in Gid /\ dest = {Home(inner.gid)}
       /\ inner.id \in DOMAIN s
       /\ s[inner.id].source = other_id /\ s[inner.id].to = {inner.gid}
    \/ /\ inner.cmd = "OTHERLUAVM2WORKER_CLOSE"
       /\ t = other_id /\ inner.gid \in Gid /\ dest = {Home(inner.gid)}
    \/ /\ inner.cmd = "WORKER2OTHER_LUAVM"
       /\ inner.gid \in Gid /\ t = Home(inner.gid) /\ dest = {other_id}

UpFits(p, t, s) == p.source = t /\ p.target # {} /\ Fits(p.inner, t, p.target, s)

DownFits(p, t, s) ==
    \/ p.source \in Thread /\ Fits(p.inner, p.source, {t}, s)
    \/ /\ p.source = main_id /\ p.inner.cmd = "MAIN2WORKER_NEW_CLIENT"
       /\ p.inner.gid \in Gid /\ t = Home(p.inner.gid)

Sound(u, d, s) ==
    \A t \in Thread : /\ \A i \in DOMAIN u[t] : UpFits(u[t][i], t, s)
                      /\ \A i \in DOMAIN d[t] : DownFits(d[t][i], t, s)

(* Only clients that a message is addressed to get it.                     *)
Addressees(s, r) ==
    \A g \in Gid : \A i \in DOMAIN r[g] : s[r[g][i]].to # {} => g \in s[r[g][i]].to

(* Package p brings client g a message; on its way to main, it will.       *)
Brings(p, g) ==
    \/ p.inner.cmd = "CLIENT_FORWARD_MESSAGE" /\ (p.inner.targetgid # {} => g \in p.inner.targetgid)
    \/ p.inner.cmd = "OTHERLUAVM2WORKERCONN" /\ p.inner.gid = g

Heads(p, g) == Home(g) \in p.target /\ Brings(p, g)

Before(m, n, s) == s[m].source = s[n].source => m < n

(* For client g, the messages of one sender are in the order they were     *)
(* sent along the whole way: those received come before those in the       *)
(* tunnel from main, and these before those in the tunnels to main.        *)
Ordered(g, u, d, s, r) ==
    LET w == Home(g)
    IN  /\ \A i, j \in DOMAIN r[g] : i < j => Before(r[g][i], r[g][j], s)
        /\ \A i \in DOMAIN r[g] : \A j \in DOMAIN d[w] :
              Brings(d[w][j], g) => Before(r[g][i], d[w][j].inner.id, s)
        /\ \A i \in DOMAIN r[g] : \A t \in Thread : \A j \in DOMAIN u[t] :
              Heads(u[t][j], g) => Before(r[g][i], u[t][j].inner.id, s)
        /\ \A i, j \in DOMAIN d[w] :
              i < j /\ Brings(d[w][i], g) /\ Brings(d[w][j], g)
                 => Before(d[w][i].inner.id, d[w][j].inner.id, s)
        /\ \A i \in DOMAIN d[w] : \A t \in Thread : \A j \in DOMAIN u[t] :
              Brings(d[w][i], g) /\ Heads(u[t][j], g)
                 => Before(d[w][i].inner.id, u[t][j].inner.id, s)
        /\ \A t \in Thread : \A i, j \in DOMAIN u[t] :
              i < j /\ Heads(u[t][i], g) /\ Heads(u[t][j], g)
                 => Before(u[t][i].inner.id, u[t][j].inner.id, s)

Good(u, d, s, r) ==
    /\ Typed(u, d, s, r) /\ Sound(u, d, s) /\ Addressees(s, r)
    /\ \A g \in Gid : Ordered(g, u, d, s, r)

Stage == {"unborn", "handed", "refused", "open", "closing", "gone"}
Opened == {"open", "closing", "gone"}

(* A connection that waits for its worker is announced once.               *)
IsNew(p) == p.inner.cmd = "MAIN2WORKER_NEW_CLIENT"

Waiting(d, c) ==
    \A t \in Thread : \A i \in DOMAIN d[t] : IsNew(d[t][i]) =>
       /\ c[d[t][i].inner.gid] = "handed"
       /\ \A j \in DOMAIN d[t] : IsNew(d[t][j]) /\ j # i => d[t][j].inner.gid # d[t][i].inner.gid

(* Nobody sends or is owed a message before the connection exists.         *)
Engaged(s, c) ==
    \A m \in DOMAIN s : /\ \A g \in s[m].reach : c[g] \in Opened
                        /\ s[m].source \in Gid => c[s[m].source] \in Opened

-----------------------------------------------------------------------------
(* Ids and queues.                                                         *)

LEMMA Ids ==
    /\ other_id \notin Worker /\ main_id \notin Worker /\ main_id # other_id
    /\ Worker \subseteq Nat /\ Thread = Worker \cup {other_id}
    /\ \A g \in Gid : Home(g) \in Worker /\ Home(g) \in Thread
    /\ Gid \subseteq Nat /\ other_id \notin Nat
BY RouterAssumption DEF Worker, Thread, other_id, main_id, Home

LEMMA Events == NewEvent \in Int /\ CloseEvent \in Int /\ Nothing \in Int
BY DEF NewEvent, CloseEvent, Nothing

LEMMA LenFacts ==
    ASSUME NEW S, NEW q \in Seq(S)
    PROVE  Len(q) \in Nat /\ DOMAIN q = 1 .. Len(q) /\ \A i \in DOMAIN q : q[i] \in S
OBVIOUS

(* The positions in a queue and in its tail.                               *)
LEMMA Positions ==
    ASSUME NEW n \in Nat
    PROVE  /\ \A j \in 1 .. n : j # 1 => j - 1 \in 1 .. n - 1 /\ (j - 1) + 1 = j
           /\ \A i \in 1 .. n - 1 : i + 1 \in 1 .. n
           /\ \A i, j \in 1 .. n - 1 : i < j => i + 1 < j + 1
OBVIOUS

LEMMA TailFacts ==
    ASSUME NEW S, NEW q \in Seq(S), q # <<>>
    PROVE  /\ Len(q) \in Nat /\ Len(q) > 0 /\ DOMAIN q = 1 .. Len(q)
           /\ Head(q) = q[1] /\ q[1] \in S
           /\ Tail(q) \in Seq(S) /\ DOMAIN Tail(q) = 1 .. Len(q) - 1
           /\ \A i \in 1 .. Len(q) - 1 : Tail(q)[i] = q[i + 1]
OBVIOUS

LEMMA AppendFacts ==
    ASSUME NEW S, NEW q \in Seq(S), NEW e \in S
    PROVE  /\ Len(q) \in Nat /\ DOMAIN q = 1 .. Len(q)
           /\ Append(q, e) \in Seq(S) /\ DOMAIN Append(q, e) = 1 .. Len(q) + 1
           /\ Len(Append(q, e)) = Len(q) + 1
           /\ \A i \in 1 .. Len(q) : Append(q, e)[i] = q[i]
           /\ Append(q, e)[Len(q) + 1] = e
OBVIOUS

LEMMA ConcatFacts ==
    ASSUME NEW S, NEW q \in Seq(S), NEW p \in Seq(S)
    PROVE  /\ Len(q) \in Nat /\ DOMAIN q = 1 .. Len(q)
           /\ Len(p) \in Nat /\ DOMAIN p = 1 .. Len(p)
           /\ q \o p \in Seq(S) /\ DOMAIN (q \o p) = 1 .. Len(q) + Len(p)
           /\ \A i \in 1 .. Len(q) : (q \o p)[i] = q[i]
           /\ \A i \in Len(q) + 1 .. Len(q) + Len(p) :
                 (q \o p)[i] = p[i - Len(q)] /\ i - Len(q) \in 1 .. Len(p)
<1>1. /\ q \o p \in Seq(S) /\ Len(q) \in Nat /\ Len(p) \in Nat
      /\ DOMAIN q = 1 .. Len(q) /\ DOMAIN p = 1 .. Len(p)
      /\ Len(q \o p) = Len(q) + Len(p)
      /\ \A i \in 1 .. Len(q) + Len(p) :
            (q \o p)[i] = IF i <= Len(q) THEN q[i] ELSE p[i - Len(q)]
    OBVIOUS
<1>2. DOMAIN (q \o p) = 1 .. Len(q) + Len(p)
    BY <1>1, LenFacts, Zenon
<1> QED
    BY <1>1, <1>2

(* The packages and messages of the model have their types.                *)
LEMMA InnerTypes ==
    /\ \A g \in Gid : NewClient(g) \in Inner /\ CloseConn(g) \in Inner
    /\ \A m \in Nat, gids \in SUBSET Nat : ClientForward(m, gids) \in Inner
    /\ \A g \in Gid, m \in Nat : ToConn(g, m) \in Inner
    /\ \A g \in Gid, e \in Int : ToVM(g, e) \in Inner
BY Zenon DEF Inner, NewClient, CloseConn, ClientForward, ToConn, ToVM

LEMMA PackageTypes ==
    /\ \A t \in Thread, dest \in SUBSET Thread, inner \in Inner :
          [source |-> t, target |-> dest, inner |-> inner] \in UpPackage
    /\ \A t \in Thread \cup {main_id}, inner \in Inner :
          [source |-> t, inner |-> inner] \in DownPackage
    /\ \A p \in UpPackage : p.source \in Thread /\ p.target \in SUBSET Thread /\ p.inner \in Inner
    /\ \A p \in DownPackage : p.source \in Thread \cup {main_id} /\ p.inner \in Inner
BY Zenon DEF UpPackage, DownPackage

(* A package that brings a message was sent by the thread of the message's *)
(* sender, and that thread is not where it goes.                           *)
LEMMA Origin ==
    ASSUME NEW s, NEW g \in Gid, NEW p, NEW t \in Thread, NEW dest, Home(g) \in dest,
           Fits(p.inner, t, dest, s), Brings(p, g)
    PROVE  /\ p.inner.id \in DOMAIN s
           /\ \/ s[p.inner.id].source \in Gid /\ Home(s[p.inner.id].source) = t
              \/ s[p.inner.id].source = other_id /\ t = other_id
           /\ t # Home(g)
           /\ s[p.inner.id].to # {} => g \in s[p.inner.id].to
BY Ids, Zenon DEF Fits, Brings

LEMMA TargetFacts ==
    ASSUME NEW s, NEW t \in Thread, NEW p \in UpPackage, UpFits(p, t, s)
    PROVE  all_target(p.source, p.target) = p.target /\ p.target \subseteq Thread
<1>1. p.target \subseteq Thread /\ p.target # {} /\ p.source = t
    BY PackageTypes, Zenon DEF UpFits
<1>2. t = other_id => p.target \subseteq Worker
    BY Ids, Zenon DEF UpFits, Fits
<1>3. CASE t = other_id
    BY <1>1, <1>2, <1>3, Zenon DEF all_target
<1>4. CASE t # other_id
    BY <1>1, <1>4, Zenon DEF all_target, Thread
<1> QED
    BY <1>1, <1>3, <1>4, Zenon

-----------------------------------------------------------------------------
(* What the operations on the queues preserve.                             *)

(* Package p leaves the head of u[t], which has k packages, and its copy c *)
(* joins the n packages of the queue of g's worker if that is a target.    *)
Moved(g, t, p, c, k, n, u, d, u2, d2) ==
    /\ c.inner = p.inner
    /\ k \in Nat /\ k > 0 /\ DOMAIN u[t] = 1 .. k /\ p = u[t][1]
    /\ DOMAIN u2[t] = 1 .. k - 1 /\ \A i \in 1 .. k - 1 : u2[t][i] = u[t][i + 1]
    /\ \A x \in Thread \ {t} : u2[x] = u[x]
    /\ n \in Nat /\ DOMAIN d[Home(g)] = 1 .. n
    /\ \A i \in DOMAIN d2[Home(g)] :
          \/ i \in 1 .. n /\ d2[Home(g)][i] = d[Home(g)][i]
          \/ i = n + 1 /\ d2[Home(g)][i] = c /\ Home(g) \in p.target

LEMMA RouteOrdered ==
    ASSUME NEW u, NEW d, NEW s, NEW r, NEW g \in Gid, Ordered(g, u, d, s, r), NEW t \in Thread,
           NEW p, UpFits(p, t, s), NEW u2, NEW d2, Sound(u2, d2, s),
           NEW c, NEW k, NEW n, Moved(g, t, p, c, k, n, u, d, u2, d2)
    PROVE  Ordered(g, u2, d2, s, r)
<1> USE DEF Moved
<1> DEFINE w == Home(g)
<1>1. w \in Thread
    BY Ids, Zenon
<1>2. Brings(c, g) <=> Brings(p, g)
    BY Zenon DEF Brings
<1>3. w \in p.target /\ Brings(c, g) => Heads(p, g)
    BY <1>2, Zenon DEF Heads
<1>4. 1 \in DOMAIN u[t]
    OBVIOUS
<1>5. \A x \in Thread : \A j \in DOMAIN u2[x] : \E l \in DOMAIN u[x] : u2[x][j] = u[x][l]
    <2> TAKE x \in Thread
    <2> TAKE j \in DOMAIN u2[x]
    <2>1. CASE x = t
        <3>1. j + 1 \in DOMAIN u[x] /\ u2[x][j] = u[x][j + 1]
            BY <2>1
        <3> QED
            BY <3>1, Zenon
    <2>2. CASE x # t
        BY <2>2, Zenon
    <2> QED
        BY <2>1, <2>2, Zenon
<1>6. ASSUME NEW x \in Thread, NEW j \in DOMAIN u2[x], Heads(u2[x][j], g), Heads(p, g)
      PROVE  Before(p.inner.id, u2[x][j].inner.id, s)
    <2>1. CASE x = t
        <3>1. j \in 1 .. k - 1 /\ j + 1 \in DOMAIN u[t] /\ u2[x][j] = u[t][j + 1] /\ 1 < j + 1
            BY <2>1
        <3> QED
            BY <1>4, <1>6, <3>1, Zenon DEF Ordered
    <2>2. CASE x # t
        <3>1. UpFits(u2[x][j], x, s)
            BY Zenon DEF Sound
        <3>2. /\ \/ s[p.inner.id].source \in Gid /\ Home(s[p.inner.id].source) = t
                 \/ s[p.inner.id].source = other_id /\ t = other_id
            <4>1. Home(g) \in p.target /\ Brings(p, g) /\ Fits(p.inner, t, p.target, s)
                BY <1>6, Zenon DEF UpFits, Heads
            <4> QED
                BY ONLY <4>1, Origin, g \in Gid, t \in Thread, Zenon
        <3>3. /\ \/ s[u2[x][j].inner.id].source \in Gid /\ Home(s[u2[x][j].inner.id].source) = x
                 \/ s[u2[x][j].inner.id].source = other_id /\ x = other_id
            <4> DEFINE q == u2[x][j]
            <4>1. Home(g) \in q.target /\ Brings(q, g) /\ Fits(q.inner, x, q.target, s)
                BY <1>6, <3>1, Zenon DEF UpFits, Heads
            <4> HIDE DEF q
            <4>2. /\ \/ s[q.inner.id].source \in Gid /\ Home(s[q.inner.id].source) = x
                     \/ s[q.inner.id].source = other_id /\ x = other_id
                BY ONLY <4>1, Origin, g \in Gid, x \in Thread, Zenon
            <4> QED
                BY <4>2, Zenon DEF q
        <3>4. other_id \notin Gid
            BY Ids, Zenon
        <3>5. s[p.inner.id].source # s[u2[x][j].inner.id].source
            BY ONLY <2>2, <3>2, <3>3, <3>4, SMTT(30)
        <3> QED
            BY <3>5, Zenon DEF Before
    <2> QED
        BY <2>1, <2>2, Zenon
<1>7. /\ \A i \in DOMAIN r[g] : \A x \in Thread : \A j \in DOMAIN u2[x] :
            Heads(u2[x][j], g) => Before(r[g][i], u2[x][j].inner.id, s)
      /\ \A i \in DOMAIN d[w] : \A x \in Thread : \A j \in DOMAIN u2[x] :
            Brings(d[w][i], g) /\ Heads(u2[x][j], g)
               => Before(d[w][i].inner.id, u2[x][j].inner.id, s)
    BY <1>5 DEF Ordered
<1>8. \A x \in Thread : \A i, j \in DOMAIN u2[x] :
          i < j /\ Heads(u2[x][i], g) /\ Heads(u2[x][j], g)
             => Before(u2[x][i].inner.id, u2[x][j].inner.id, s)
    <2> TAKE x \in Thread
    <2> TAKE i, j \in DOMAIN u2[x]
    <2>1. CASE x = t
        <3>1. /\ i + 1 \in DOMAIN u[t] /\ u2[x][i] = u[t][i + 1]
              /\ j + 1 \in DOMAIN u[t] /\ u2[x][j] = u[t][j + 1]
              /\ i < j => i + 1 < j + 1
            BY <2>1, Positions, Zenon
        <3> QED
            BY <3>1, Zenon DEF Ordered
    <2>2. CASE x # t
        BY <2>2, Zenon DEF Ordered
    <2> QED
        BY <2>1, <2>2, Zenon
<1>9. \A i \in DOMAIN r[g] : \A j \in DOMAIN d2[w] :
          Brings(d2[w][j], g) => Before(r[g][i], d2[w][j].inner.id, s)
    <2> TAKE i \in DOMAIN r[g]
    <2> TAKE j \in DOMAIN d2[w]
    <2> HAVE Brings(d2[w][j], g)
    <2>1. CASE j \in DOMAIN d[w] /\ d2[w][j] = d[w][j]
        BY <2>1, Zenon DEF Ordered
    <2>2. CASE d2[w][j] = c /\ w \in p.target
        BY <1>3, <1>4, <2>2, Zenon DEF Ordered
    <2> QED
        BY <2>1, <2>2, Zenon
<1>10. \A i, j \in DOMAIN d2[w] :
          i < j /\ Brings(d2[w][i], g) /\ Brings(d2[w][j], g)
             => Before(d2[w][i].inner.id, d2[w][j].inner.id, s)
    <2> TAKE i, j \in DOMAIN d2[w]
    <2> HAVE i < j /\ Brings(d2[w][i], g) /\ Brings(d2[w][j], g)
    <2>1. i \in DOMAIN d[w] /\ d2[w][i] = d[w][i]
        OBVIOUS
    <2>2. CASE j \in DOMAIN d[w] /\ d2[w][j] = d[w][j]
        BY <2>1, <2>2, Zenon DEF Ordered
    <2>3. CASE d2[w][j] = c /\ w \in p.target
        BY <1>3, <1>4, <2>1, <2>3, Zenon DEF Ordered
    <2> QED
        BY <2>2, <2>3, Zenon
<1>11. \A i \in DOMAIN d2[w] : \A x \in Thread : \A j \in DOMAIN u2[x] :
          Brings(d2[w][i], g) /\ Heads(u2[x][j], g)
             => Before(d2[w][i].inner.id, u2[x][j].inner.id, s)
    BY <1>3, <1>6, <1>7, Zenon
<1>12. \A i, j \in DOMAIN r[g] : i < j => Before(r[g][i], r[g][j], s)
    BY Zenon DEF Ordered
<1> QED
    BY ONLY <1>7, <1>8, <1>9, <1>10, <1>11, <1>12, Zenon DEF Ordered

(* main forwards the first package p of u[t] to its targets, as c.         *)
Routed(t, p, c, u, d, u2, d2) ==
    /\ u[t] # <<>> /\ p = Head(u[t]) /\ u2 = [u EXCEPT ![t] = Tail(@)]
    /\ c = [source |-> p.source, inner |-> p.inner]
    /\ d2 = [x \in Thread |-> IF x \in all_target(p.source, p.target)
                              THEN Append(d[x], c) ELSE d[x]]

LEMMA RouteGood ==
    ASSUME NEW u, NEW d, NEW s, NEW r, Good(u, d, s, r), NEW t \in Thread,
           NEW p, NEW c, NEW u2, NEW d2, Routed(t, p, c, u, d, u2, d2)
    PROVE  /\ Good(u2, d2, s, r)
           /\ UpFits(p, t, s) /\ p.target \subseteq Thread
           /\ \A x \in Thread : d2[x] = IF x \in p.target THEN Append(d[x], c) ELSE d[x]
<1>11. /\ u[t] # <<>> /\ p = Head(u[t]) /\ u2 = [u EXCEPT ![t] = Tail(@)]
       /\ c = [source |-> p.source, inner |-> p.inner]
       /\ d2 = [x \in Thread |-> IF x \in all_target(p.source, p.target)
                                 THEN Append(d[x], c) ELSE d[x]]
    BY Zenon DEF Routed
<1>0. /\ u \in [Thread -> Seq(UpPackage)] /\ u[t] \in Seq(UpPackage) /\ u2[t] = Tail(u[t])
      /\ d \in [Thread -> Seq(DownPackage)]
    BY <1>11, Zenon DEF Good, Typed
<1>1. /\ Len(u[t]) \in Nat /\ Len(u[t]) > 0 /\ DOMAIN u[t] = 1 .. Len(u[t])
      /\ p = u[t][1] /\ p \in UpPackage /\ u2[t] \in Seq(UpPackage)
      /\ DOMAIN u2[t] = 1 .. Len(u[t]) - 1
      /\ \A i \in 1 .. Len(u[t]) - 1 : u2[t][i] = u[t][i + 1]
    BY <1>0, <1>11, TailFacts, Zenon
<1>2. \A x \in Thread \ {t} : u2[x] = u[x]
    BY <1>0, <1>11, Zenon
<1>3. UpFits(p, t, s)
    BY <1>1 DEF Good, Sound
<1>4. all_target(p.source, p.target) = p.target /\ p.target \subseteq Thread
    BY <1>1, <1>3, TargetFacts, Zenon
<1>5. c \in DownPackage
    BY <1>1, <1>11, PackageTypes, Zenon
<1>6. \A x \in Thread : d2[x] = IF x \in p.target THEN Append(d[x], c) ELSE d[x]
    BY <1>4, <1>11, Zenon
<1>7. ASSUME NEW x \in Thread
      PROVE  /\ Len(d[x]) \in Nat /\ DOMAIN d[x] = 1 .. Len(d[x])
             /\ d2[x] \in Seq(DownPackage)
             /\ \A i \in DOMAIN d2[x] :
                   \/ i \in 1 .. Len(d[x]) /\ d2[x][i] = d[x][i]
                   \/ i = Len(d[x]) + 1 /\ d2[x][i] = c /\ x \in p.target
    <2>1. d[x] \in Seq(DownPackage)
        BY <1>0, Zenon
    <2>2. CASE x \in p.target
        <3>1. /\ Len(d[x]) \in Nat /\ DOMAIN d[x] = 1 .. Len(d[x])
              /\ d2[x] \in Seq(DownPackage) /\ DOMAIN d2[x] = 1 .. Len(d[x]) + 1
              /\ \A i \in 1 .. Len(d[x]) : d2[x][i] = d[x][i]
              /\ d2[x][Len(d[x]) + 1] = c
            <4>1. d2[x] = Append(d[x], c)
                BY ONLY <1>6, <2>2, x \in Thread, Zenon
            <4> QED
                BY ONLY <1>5, <2>1, <4>1, AppendFacts
        <3> QED
            BY ONLY <2>2, <3>1
    <2>3. CASE x \notin p.target
        BY ONLY <1>6, <2>1, <2>3, LenFacts, x \in Thread
    <2> QED
        BY <2>2, <2>3, Zenon
<1>8. Typed(u2, d2, s, r)
    <2>1. u2 \in [Thread -> Seq(UpPackage)]
        BY <1>0, <1>1, <1>11, Zenon
    <2>2. d2 \in [Thread -> Seq(DownPackage)]
        BY <1>7, <1>11, Zenon
    <2> QED
        BY <2>1, <2>2, Zenon DEF Good, Typed
<1>9. Sound(u2, d2, s)
    <2>1. ASSUME NEW x \in Thread, NEW i \in DOMAIN u2[x] PROVE UpFits(u2[x][i], x, s)
        <3>1. CASE x = t
            <4>1. i + 1 \in DOMAIN u[t] /\ u2[x][i] = u[t][i + 1]
                BY <1>1, <3>1
            <4> QED
                BY <3>1, <4>1, Zenon DEF Good, Sound
        <3>2. CASE x # t
            BY <1>2, <3>2, Zenon DEF Good, Sound
        <3> QED
            BY <3>1, <3>2, Zenon
    <2>2. ASSUME NEW x \in p.target PROVE DownFits(c, x, s)
        <3>1. c.source = t /\ c.inner = p.inner /\ Fits(p.inner, t, p.target, s)
            BY <1>3, <1>11, Zenon DEF UpFits
        <3>2. Fits(p.inner, t, {x}, s)
            BY ONLY <3>1, x \in p.target, Zenon DEF Fits
        <3> QED
            BY <3>1, <3>2, Zenon DEF DownFits
    <2>3. ASSUME NEW x \in Thread, NEW i \in DOMAIN d2[x] PROVE DownFits(d2[x][i], x, s)
        BY ONLY <1>7, <2>2, <2>3, Good(u, d, s, r) DEF Good, Sound
    <2> QED
        BY ONLY <2>1, <2>3, Zenon DEF Sound
<1>10. ASSUME NEW g \in Gid PROVE Ordered(g, u2, d2, s, r)
    <2>1. Ordered(g, u, d, s, r) /\ Home(g) \in Thread
        BY Ids, Zenon DEF Good
    <2>2. c.inner = p.inner
        BY <1>11, Zenon
    <2>3. /\ Len(d[Home(g)]) \in Nat /\ DOMAIN d[Home(g)] = 1 .. Len(d[Home(g)])
          /\ \A i \in DOMAIN d2[Home(g)] :
                \/ i \in 1 .. Len(d[Home(g)]) /\ d2[Home(g)][i] = d[Home(g)][i]
                \/ i = Len(d[Home(g)]) + 1 /\ d2[Home(g)][i] = c /\ Home(g) \in p.target
        BY ONLY <1>7, <2>1, Zenon
    <2>4. Moved(g, t, p, c, Len(u[t]), Len(d[Home(g)]), u, d, u2, d2)
        BY ONLY <1>1, <1>2, <2>2, <2>3, Zenon DEF Moved
    <2> QED
        BY ONLY <1>3, <1>9, <2>1, <2>4, RouteOrdered, g \in Gid, t \in Thread, Zenon
<1> QED
    BY <1>3, <1>4, <1>6, <1>8, <1>9, <1>10, Zenon DEF Good

(* The first package of a queue is taken and dropped.                      *)
Dropped(w, d, d2) == d[w] # <<>> /\ d2 = [d EXCEPT ![w] = Tail(@)]

Shifted(w, d, d2) ==
    /\ Head(d[w]) = d[w][1] /\ 1 \in DOMAIN d[w]
    /\ \A x \in Thread : \A i \in DOMAIN d2[x] :
          /\ x = w => i + 1 \in DOMAIN d[x] /\ i \in Nat /\ i > 0 /\ d2[x][i] = d[x][i + 1]
          /\ x # w => i \in DOMAIN d[x] /\ d2[x][i] = d[x][i]

LEMMA DropGood ==
    ASSUME NEW u, NEW d, NEW s, NEW r, Good(u, d, s, r), NEW w \in Thread,
           NEW d2, Dropped(w, d, d2)
    PROVE  Good(u, d2, s, r) /\ Shifted(w, d, d2)
<1>0. /\ d \in [Thread -> Seq(DownPackage)] /\ d[w] \in Seq(DownPackage) /\ d2[w] = Tail(d[w])
      /\ \A x \in Thread \ {w} : d2[x] = d[x]
    BY Zenon DEF Good, Typed, Dropped
<1>1. /\ Len(d[w]) \in Nat /\ Len(d[w]) > 0 /\ DOMAIN d[w] = 1 .. Len(d[w])
      /\ Head(d[w]) = d[w][1] /\ d2[w] \in Seq(DownPackage)
      /\ DOMAIN d2[w] = 1 .. Len(d[w]) - 1
      /\ \A i \in 1 .. Len(d[w]) - 1 : d2[w][i] = d[w][i + 1]
    BY <1>0, TailFacts DEF Dropped
<1>2. ASSUME NEW x \in Thread, NEW i \in DOMAIN d2[x]
      PROVE  /\ x = w => i + 1 \in DOMAIN d[x] /\ i \in Nat /\ i > 0 /\ d2[x][i] = d[x][i + 1]
             /\ x # w => i \in DOMAIN d[x] /\ d2[x][i] = d[x][i]
    BY <1>0, <1>1, SMTT(30)
<1>3. Typed(u, d2, s, r)
    BY <1>0, <1>1, Zenon DEF Good, Typed, Dropped
<1>4. Sound(u, d2, s)
    BY <1>2, Zenon DEF Good, Sound
<1>5. ASSUME NEW g \in Gid PROVE Ordered(g, u, d2, s, r)
    <2>1. Ordered(g, u, d, s, r) /\ Home(g) \in Thread
        BY Ids, Zenon DEF Good
    <2>2. \A j \in DOMAIN d2[Home(g)] : \E k \in DOMAIN d[Home(g)] : d2[Home(g)][j] = d[Home(g)][k]
        BY ONLY <1>2, <2>1, Zenon
    <2>3. \A i, j \in DOMAIN d2[Home(g)] : i < j =>
             \E k, l \in DOMAIN d[Home(g)] : /\ k < l /\ d2[Home(g)][i] = d[Home(g)][k]
                                             /\ d2[Home(g)][j] = d[Home(g)][l]
        <3> TAKE i, j \in DOMAIN d2[Home(g)]
        <3> HAVE i < j
        <3>1. CASE Home(g) = w
            <4>1. /\ i + 1 \in DOMAIN d[Home(g)] /\ j + 1 \in DOMAIN d[Home(g)] /\ i + 1 < j + 1
                  /\ d2[Home(g)][i] = d[Home(g)][i + 1] /\ d2[Home(g)][j] = d[Home(g)][j + 1]
                BY <1>2, <2>1, <3>1
            <4> QED
                BY <4>1, Zenon
        <3>2. CASE Home(g) # w
            BY <1>2, <2>1, <3>2, Zenon
        <3> QED
            BY <3>1, <3>2, Zenon
    <2> QED
        BY ONLY <2>1, <2>2, <2>3 DEF Ordered
<1>6. Good(u, d2, s, r)
    BY <1>3, <1>4, <1>5, Zenon DEF Good
<1> QED
    BY ONLY <1>1, <1>2, <1>6 DEF Shifted

(* Whatever is on its way to client g was sent, and not by a client of the *)
(* same worker.                                                            *)
Foreign(m, g, s) == m \in DOMAIN s /\ (s[m].source \in Gid => Home(s[m].source) # Home(g))

LEMMA Known ==
    ASSUME NEW u, NEW d, NEW s, Sound(u, d, s), NEW g \in Gid
    PROVE  /\ \A j \in DOMAIN d[Home(g)] :
                 Brings(d[Home(g)][j], g) => Foreign(d[Home(g)][j].inner.id, g, s)
           /\ \A t \in Thread : \A j \in DOMAIN u[t] :
                 Heads(u[t][j], g) => Foreign(u[t][j].inner.id, g, s)
<1>1. ASSUME NEW p, NEW t \in Thread, NEW dest, Home(g) \in dest, Fits(p.inner, t, dest, s), Brings(p, g)
      PROVE  Foreign(p.inner.id, g, s)
    <2>1. /\ p.inner.id \in DOMAIN s
          /\ \/ s[p.inner.id].source \in Gid /\ Home(s[p.inner.id].source) = t
             \/ s[p.inner.id].source = other_id /\ t = other_id
          /\ t # Home(g)
        BY ONLY <1>1, Origin, g \in Gid, Zenon
    <2>2. other_id \notin Gid
        BY Ids, Zenon
    <2> QED
        BY ONLY <2>1, <2>2, Zenon DEF Foreign
<1>2. ASSUME NEW j \in DOMAIN d[Home(g)], Brings(d[Home(g)][j], g)
      PROVE  Foreign(d[Home(g)][j].inner.id, g, s)
    <2> DEFINE p == d[Home(g)][j]
    <2>1. DownFits(p, Home(g), s) /\ Brings(p, g)
        BY <1>2, Ids, Zenon DEF Sound
    <2> HIDE DEF p
    <2>2. p.source \in Thread /\ Fits(p.inner, p.source, {Home(g)}, s)
        BY <2>1, Zenon DEF DownFits, Brings
    <2>3. Home(g) \in {Home(g)}
        BY Zenon
    <2>4. Foreign(p.inner.id, g, s)
        BY ONLY <1>1, <2>1, <2>2, <2>3, Zenon
    <2> QED
        BY <2>4, Zenon DEF p
<1>3. ASSUME NEW t \in Thread, NEW j \in DOMAIN u[t], Heads(u[t][j], g)
      PROVE  Foreign(u[t][j].inner.id, g, s)
    <2> DEFINE p == u[t][j]
    <2>1. UpFits(p, t, s) /\ Home(g) \in p.target /\ Brings(p, g)
        BY <1>3, Zenon DEF Sound, Heads
    <2> HIDE DEF p
    <2>2. Foreign(p.inner.id, g, s)
        BY ONLY <1>1, <2>1, t \in Thread, Zenon DEF UpFits
    <2> QED
        BY <2>2, Zenon DEF p
<1> QED
    BY <1>2, <1>3, Zenon

(* Message m is put in the send buffers of the clients in to, where it is  *)
(* due: what they have comes before it, what is on its way to them after.  *)
HandedOut(to, m, r, r2) == r2 = [g \in Gid |-> IF g \in to THEN Append(r[g], m) ELSE r[g]]

Due(m, g, u, d, s, r) ==
    /\ g \in Gid /\ m \in DOMAIN s
    /\ s[m].to # {} => g \in s[m].to
    /\ \A i \in DOMAIN r[g] : Before(r[g][i], m, s)
    /\ \A j \in DOMAIN d[Home(g)] :
          Brings(d[Home(g)][j], g) => Before(m, d[Home(g)][j].inner.id, s)
    /\ \A t \in Thread : \A j \in DOMAIN u[t] :
          Heads(u[t][j], g) => Before(m, u[t][j].inner.id, s)

LEMMA GrowGood ==
    ASSUME NEW u, NEW d, NEW s, NEW r, Good(u, d, s, r), NEW to, NEW m,
           \A g \in to : Due(m, g, u, d, s, r), NEW r2, HandedOut(to, m, r, r2)
    PROVE  Good(u, d, s, r2)
<1>1. \A g \in to : m \in DOMAIN s /\ m \in Nat
    <2>1. s \in Seq(Message)
        BY Zenon DEF Good, Typed
    <2>2. DOMAIN s \subseteq Nat
        BY <2>1, LenFacts
    <2> QED
        BY <2>2, Zenon DEF Due
<1>2. ASSUME NEW g \in Gid
      PROVE  /\ r[g] \in Seq(Nat) /\ r2[g] \in Seq(Nat)
             /\ Len(r[g]) \in Nat /\ DOMAIN r[g] = 1 .. Len(r[g])
             /\ \A i \in DOMAIN r2[g] :
                   \/ i \in 1 .. Len(r[g]) /\ r2[g][i] = r[g][i]
                   \/ i = Len(r[g]) + 1 /\ r2[g][i] = m /\ g \in to
    <2>1. r[g] \in Seq(Nat)
        BY Zenon DEF Good, Typed
    <2>2. Len(r[g]) \in Nat /\ DOMAIN r[g] = 1 .. Len(r[g])
        BY ONLY <2>1, LenFacts, Zenon
    <2>3. CASE g \in to
        <3>1. r2[g] = Append(r[g], m) /\ m \in Nat
            BY <1>1, <2>3, Zenon DEF HandedOut
        <3>2. /\ r2[g] \in Seq(Nat) /\ DOMAIN r2[g] = 1 .. Len(r[g]) + 1
              /\ \A i \in 1 .. Len(r[g]) : r2[g][i] = r[g][i]
              /\ r2[g][Len(r[g]) + 1] = m
            BY ONLY <2>1, <3>1, AppendFacts
        <3>3. \A i \in 1 .. Len(r[g]) + 1 : i \in 1 .. Len(r[g]) \/ i = Len(r[g]) + 1
            BY ONLY <2>2
        <3> QED
            BY ONLY <2>1, <2>2, <2>3, <3>2, <3>3, Zenon
    <2>4. CASE g \notin to
        BY <2>1, <2>2, <2>4, Zenon DEF HandedOut
    <2> QED
        BY <2>3, <2>4, Zenon
<1>3. Typed(u, d, s, r2)
    <2>1. r2 \in [Gid -> Seq(Nat)]
        BY <1>2, Zenon DEF HandedOut
    <2>2. Typed(u, d, s, r)
        BY Zenon DEF Good
    <2>3. ASSUME NEW g \in Gid, NEW i \in DOMAIN r2[g] PROVE r2[g][i] \in DOMAIN s
        BY ONLY <1>1, <1>2, <2>2, <2>3, Zenon DEF Typed
    <2> QED
        BY ONLY <2>1, <2>2, <2>3, Zenon DEF Typed
<1>4. Addressees(s, r2)
    <2>1. ASSUME NEW g \in Gid, NEW i \in DOMAIN r2[g], s[r2[g][i]].to # {}
          PROVE  g \in s[r2[g][i]].to
        BY <1>2, <2>1, Zenon DEF Good, Addressees, Due
    <2> QED
        BY ONLY <2>1, Zenon DEF Addressees
<1>5. ASSUME NEW g \in Gid PROVE Ordered(g, u, d, s, r2)
    <2>1. Ordered(g, u, d, s, r)
        BY Zenon DEF Good
    <2>2. CASE g \notin to
        <3>1. r2[g] = r[g]
            BY <2>2, Zenon DEF HandedOut
        <3> QED
            BY ONLY <2>1, <3>1, Zenon DEF Ordered
    <2>3. CASE g \in to
        <3>1. Due(m, g, u, d, s, r)
            BY <2>3, Zenon
        <3> DEFINE n == Len(r[g])
        <3>0. /\ n \in Nat /\ DOMAIN r[g] = 1 .. n
              /\ \A i \in DOMAIN r2[g] : \/ i \in 1 .. n /\ r2[g][i] = r[g][i]
                                         \/ i = n + 1 /\ r2[g][i] = m
            BY <1>2, Zenon
        <3> HIDE DEF n
        <3>2. \A i, j \in DOMAIN r2[g] : i < j => Before(r2[g][i], r2[g][j], s)
            <4> TAKE i, j \in DOMAIN r2[g]
            <4> HAVE i < j
            <4>1. i \in DOMAIN r[g] /\ r2[g][i] = r[g][i]
                BY ONLY <3>0, i < j, i \in DOMAIN r2[g], j \in DOMAIN r2[g]
            <4>2. CASE j \in DOMAIN r[g] /\ r2[g][j] = r[g][j]
                BY ONLY <2>1, <4>1, <4>2, i < j, Zenon DEF Ordered
            <4>3. CASE r2[g][j] = m
                BY ONLY <3>1, <4>1, <4>3, Zenon DEF Due
            <4> QED
                BY ONLY <3>0, <4>2, <4>3, j \in DOMAIN r2[g], Zenon
        <3>3. \A i \in DOMAIN r2[g] : \A j \in DOMAIN d[Home(g)] :
                 Brings(d[Home(g)][j], g) => Before(r2[g][i], d[Home(g)][j].inner.id, s)
            BY ONLY <3>0, <2>1, <3>1, Zenon DEF Ordered, Due
        <3>4. \A i \in DOMAIN r2[g] : \A t \in Thread : \A j \in DOMAIN u[t] :
                 Heads(u[t][j], g) => Before(r2[g][i], u[t][j].inner.id, s)
            BY ONLY <3>0, <2>1, <3>1, Zenon DEF Ordered, Due
        <3> QED
            BY ONLY <2>1, <3>2, <3>3, <3>4, Zenon DEF Ordered
    <2> QED
        BY <2>2, <2>3, Zenon
<1> QED
    BY <1>3, <1>4, <1>5, Zenon DEF Good

(* Worker w hands out the message that the first package of d[w] brings.   *)
LEMMA DeliverGood ==
    ASSUME NEW u, NEW d, NEW s, NEW r, Good(u, d, s, r), NEW w \in Thread,
           NEW d2, Dropped(w, d, d2),
           NEW to, \A g \in to : g \in Gid /\ Home(g) = w /\ Brings(Head(d[w]), g),
           NEW m, m = Head(d[w]).inner.id, NEW r2, HandedOut(to, m, r, r2)
    PROVE  Good(u, d2, s, r2)
<1>1. Good(u, d2, s, r) /\ Shifted(w, d, d2)
    BY DropGood, Zenon
<1>2. ASSUME NEW g \in to PROVE Due(m, g, u, d2, s, r)
    <2>1. /\ g \in Gid /\ Home(g) = w /\ Brings(d[w][1], g) /\ 1 \in DOMAIN d[w]
          /\ m = d[w][1].inner.id
        BY <1>1, Zenon DEF Shifted
    <2>2. /\ DownFits(d[w][1], w, s) /\ Ordered(g, u, d, s, r)
        BY <2>1, Zenon DEF Good, Sound
    <2>3. m \in DOMAIN s /\ (s[m].to # {} => g \in s[m].to)
        <3> DEFINE p == d[w][1]
        <3>1. p.source \in Thread /\ Fits(p.inner, p.source, {w}, s) /\ m = p.inner.id /\ Brings(p, g)
            BY <2>1, <2>2, Zenon DEF DownFits, Brings
        <3> HIDE DEF p
        <3> QED
            BY ONLY <2>1, <3>1, Origin, w \in {w}, ZenonT(30)
    <2>4. \A j \in DOMAIN d2[w] : j + 1 \in DOMAIN d[w] /\ 1 < j + 1 /\ d2[w][j] = d[w][j + 1]
        BY <1>1 DEF Shifted
    <2> QED
        BY ONLY <2>1, <2>2, <2>3, <2>4, Zenon DEF Due, Ordered
<1> QED
    BY ONLY <1>1, <1>2, GrowGood, HandedOut(to, m, r, r2), Zenon

(* A message reaches clients of its sender's worker directly.              *)
LEMMA HandoutGood ==
    ASSUME NEW u, NEW d, NEW s, NEW r, Good(u, d, s, r), NEW m \in DOMAIN s, s[m].source \in Gid,
           NEW to, \A g \in to : /\ g \in Gid /\ Home(g) = Home(s[m].source)
                                 /\ s[m].to # {} => g \in s[m].to
                                 /\ \A i \in DOMAIN r[g] : r[g][i] < m,
           NEW r2, HandedOut(to, m, r, r2)
    PROVE  Good(u, d, s, r2)
<1>1. ASSUME NEW g \in to PROVE Due(m, g, u, d, s, r)
    <2>1. g \in Gid /\ Home(g) = Home(s[m].source)
        BY Zenon
    <2>2. ASSUME NEW n, Foreign(n, g, s) PROVE Before(m, n, s)
        BY <2>1, <2>2, Zenon DEF Foreign, Before
    <2>3. /\ \A j \in DOMAIN d[Home(g)] :
                 Brings(d[Home(g)][j], g) => Foreign(d[Home(g)][j].inner.id, g, s)
          /\ \A t \in Thread : \A j \in DOMAIN u[t] :
                 Heads(u[t][j], g) => Foreign(u[t][j].inner.id, g, s)
        BY <2>1, Known, Zenon DEF Good
    <2> QED
        BY <2>1, <2>2, <2>3, Zenon DEF Due, Before
<1> QED
    BY ONLY <1>1, GrowGood, HandedOut(to, m, r, r2), Good(u, d, s, r), Zenon

(* A message is sent.                                                      *)
Extended(s, s2) == s2 \in Seq(Message) /\ \A m \in DOMAIN s : m \in DOMAIN s2 /\ s2[m] = s[m]

LEMMA ExtendGood ==
    ASSUME NEW u, NEW d, NEW s, NEW r, Good(u, d, s, r), NEW s2, Extended(s, s2)
    PROVE  Good(u, d, s2, r)
<1>1. \A m \in DOMAIN s : m \in DOMAIN s2 /\ s2[m] = s[m]
    BY Zenon DEF Extended
<1>2. Typed(u, d, s2, r) /\ Addressees(s2, r)
    BY <1>1, Zenon DEF Good, Typed, Addressees, Extended
<1>3. \A inner, t, dest : Fits(inner, t, dest, s) => Fits(inner, t, dest, s2)
    BY ONLY <1>1 DEF Fits
<1>4. Sound(u, d, s2)
    <2>1. \A p, t : (UpFits(p, t, s) => UpFits(p, t, s2)) /\ (DownFits(p, t, s) => DownFits(p, t, s2))
        BY ONLY <1>3, Zenon DEF UpFits, DownFits
    <2> QED
        BY <2>1, Zenon DEF Good, Sound
<1>5. ASSUME NEW g \in Gid PROVE Ordered(g, u, d, s2, r)
    <2>1. Ordered(g, u, d, s, r) /\ Sound(u, d, s) /\ \A i \in DOMAIN r[g] : r[g][i] \in DOMAIN s
        BY Zenon DEF Good, Typed
    <2>2. \A m, n \in DOMAIN s : Before(m, n, s) => Before(m, n, s2)
        BY <1>1, Zenon DEF Before
    <2>3. /\ \A j \in DOMAIN d[Home(g)] :
                 Brings(d[Home(g)][j], g) => d[Home(g)][j].inner.id \in DOMAIN s
          /\ \A t \in Thread : \A j \in DOMAIN u[t] :
                 Heads(u[t][j], g) => u[t][j].inner.id \in DOMAIN s
        BY ONLY <2>1, Known, g \in Gid, Zenon DEF Foreign
    <2> QED
        BY ONLY <2>1, <2>2, <2>3, Zenon DEF Ordered
<1> QED
    BY <1>2, <1>4, <1>5, Zenon DEF Good

(* Thread t queues the packages ps of a message that s2 has and s has not. *)
Pushed(t, ps, u, u2) == ps \in Seq(UpPackage) /\ u2 = [u EXCEPT ![t] = @ \o ps]

Fresh(t, ps, s, s2) ==
    /\ \A i \in DOMAIN ps : UpFits(ps[i], t, s2)
    /\ \A i \in DOMAIN ps : \A g \in Gid : Heads(ps[i], g) => \A m \in DOMAIN s : m < ps[i].inner.id
    /\ \A i, j \in DOMAIN ps : \A g \in Gid : i < j => ~Heads(ps[i], g) \/ ~Heads(ps[j], g)

LEMMA PushGood ==
    ASSUME NEW u, NEW d, NEW s, NEW r, Good(u, d, s, r), NEW s2, Extended(s, s2),
           NEW t \in Thread, NEW ps, NEW u2, Pushed(t, ps, u, u2), Fresh(t, ps, s, s2)
    PROVE  Good(u2, d, s2, r)
<1>1. Good(u, d, s2, r)
    BY ExtendGood, Zenon
<1>2. /\ u \in [Thread -> Seq(UpPackage)] /\ u[t] \in Seq(UpPackage) /\ ps \in Seq(UpPackage)
      /\ u2[t] = u[t] \o ps /\ u2 \in [Thread -> Seq(UpPackage)]
      /\ \A x \in Thread \ {t} : u2[x] = u[x]
    <2>1. u \in [Thread -> Seq(UpPackage)] /\ u[t] \in Seq(UpPackage)
        BY Zenon DEF Good, Typed
    <2>2. ps \in Seq(UpPackage) /\ u2 = [u EXCEPT ![t] = u[t] \o ps]
        BY Zenon DEF Pushed
    <2>3. u[t] \o ps \in Seq(UpPackage)
        BY ONLY <2>1, <2>2, ConcatFacts, Zenon
    <2> QED
        BY ONLY <2>1, <2>2, <2>3, t \in Thread, Zenon
<1> DEFINE n == Len(u[t])
<1>3. /\ n \in Nat /\ DOMAIN u[t] = 1 .. n
      /\ \A i \in DOMAIN u2[t] : \/ i \in DOMAIN u[t] /\ u2[t][i] = u[t][i]
                                 \/ i > n /\ i \in Nat /\ i - n \in DOMAIN ps /\ u2[t][i] = ps[i - n]
    <2>1. /\ Len(u[t]) \in Nat /\ DOMAIN u[t] = 1 .. Len(u[t])
          /\ Len(ps) \in Nat /\ DOMAIN ps = 1 .. Len(ps)
          /\ DOMAIN u2[t] = 1 .. Len(u[t]) + Len(ps)
          /\ \A i \in 1 .. Len(u[t]) : u2[t][i] = u[t][i]
          /\ \A i \in Len(u[t]) + 1 .. Len(u[t]) + Len(ps) :
                u2[t][i] = ps[i - Len(u[t])] /\ i - Len(u[t]) \in 1 .. Len(ps)
        BY ONLY <1>2, ConcatFacts
    <2>2. ASSUME NEW i \in DOMAIN u2[t]
          PROVE  \/ i \in DOMAIN u[t] /\ u2[t][i] = u[t][i]
                 \/ i > n /\ i \in Nat /\ i - n \in DOMAIN ps /\ u2[t][i] = ps[i - n]
        <3>1. CASE i \in 1 .. n
            BY ONLY <2>1, <3>1, Zenon DEF n
        <3>2. CASE i \in n + 1 .. n + Len(ps)
            BY ONLY <2>1, <3>2, SMTT(30) DEF n
        <3> QED
            BY ONLY <2>1, <2>2, <3>1, <3>2 DEF n
    <2> QED
        BY ONLY <2>1, <2>2, Zenon DEF n
<1> HIDE DEF n
<1>4. ASSUME NEW x \in Thread, NEW i \in DOMAIN u2[x]
      PROVE  \/ i \in DOMAIN u[x] /\ u2[x][i] = u[x][i]
             \/ x = t /\ i > n /\ i \in Nat /\ i - n \in DOMAIN ps /\ u2[x][i] = ps[i - n]
    BY ONLY <1>2, <1>3, <1>4, Zenon
<1>5. Typed(u2, d, s2, r)
    BY <1>1, <1>2, Zenon DEF Good, Typed
<1>6. Sound(u2, d, s2)
    <2>1. ASSUME NEW x \in Thread, NEW i \in DOMAIN u2[x] PROVE UpFits(u2[x][i], x, s2)
        BY ONLY <1>1, <1>4, <2>1, Fresh(t, ps, s, s2), Zenon DEF Good, Sound, Fresh
    <2> QED
        BY ONLY <1>1, <2>1, Zenon DEF Good, Sound
<1>7. ASSUME NEW g \in Gid PROVE Ordered(g, u2, d, s2, r)
    <2>1. Ordered(g, u, d, s2, r) /\ Sound(u, d, s) /\ \A i \in DOMAIN r[g] : r[g][i] \in DOMAIN s
        BY <1>1, Zenon DEF Good, Typed
    <2>2. /\ \A j \in DOMAIN d[Home(g)] :
                 Brings(d[Home(g)][j], g) => d[Home(g)][j].inner.id \in DOMAIN s
          /\ \A x \in Thread : \A j \in DOMAIN u[x] :
                 Heads(u[x][j], g) => u[x][j].inner.id \in DOMAIN s
        BY ONLY <2>1, Known, g \in Gid, Zenon DEF Foreign
    <2>3. ASSUME NEW i \in DOMAIN ps, Heads(ps[i], g), NEW m \in DOMAIN s
          PROVE  Before(m, ps[i].inner.id, s2)
        BY <2>3, Zenon DEF Fresh, Before
    <2>4. /\ \A i \in DOMAIN r[g] : \A x \in Thread : \A j \in DOMAIN u2[x] :
                Heads(u2[x][j], g) => Before(r[g][i], u2[x][j].inner.id, s2)
          /\ \A i \in DOMAIN d[Home(g)] : \A x \in Thread : \A j \in DOMAIN u2[x] :
                Brings(d[Home(g)][i], g) /\ Heads(u2[x][j], g)
                   => Before(d[Home(g)][i].inner.id, u2[x][j].inner.id, s2)
        <3> SUFFICES ASSUME NEW x \in Thread, NEW j \in DOMAIN u2[x], Heads(u2[x][j], g)
                     PROVE  /\ \A i \in DOMAIN r[g] : Before(r[g][i], u2[x][j].inner.id, s2)
                            /\ \A i \in DOMAIN d[Home(g)] : Brings(d[Home(g)][i], g)
                                  => Before(d[Home(g)][i].inner.id, u2[x][j].inner.id, s2)
            BY Zenon
        <3>1. CASE j \in DOMAIN u[x] /\ u2[x][j] = u[x][j]
            BY <2>1, <3>1, Zenon DEF Ordered
        <3>2. CASE \E i \in DOMAIN ps : u2[x][j] = ps[i]
            BY <2>1, <2>2, <2>3, <3>2, Zenon
        <3> QED
            BY <1>4, <3>1, <3>2, Zenon
    <2>5. ASSUME NEW x \in Thread, NEW i \in DOMAIN u2[x], NEW j \in DOMAIN u2[x],
                 i < j, Heads(u2[x][i], g), Heads(u2[x][j], g)
          PROVE  Before(u2[x][i].inner.id, u2[x][j].inner.id, s2)
        <3>1. CASE j \in DOMAIN u[x] /\ u2[x][j] = u[x][j]
            <4>1. i \in DOMAIN u[x] /\ u2[x][i] = u[x][i]
                BY ONLY <1>3, <1>4, <2>5, <3>1
            <4> QED
                BY ONLY <2>1, <2>5, <3>1, <4>1, Zenon DEF Ordered
        <3>2. CASE x = t /\ j > n /\ j \in Nat /\ j - n \in DOMAIN ps /\ u2[x][j] = ps[j - n]
            <4>1. CASE i \in DOMAIN u[x] /\ u2[x][i] = u[x][i]
                BY ONLY <2>2, <2>3, <2>5, <3>2, <4>1, Zenon
            <4>2. CASE i > n /\ i \in Nat /\ i - n \in DOMAIN ps /\ u2[x][i] = ps[i - n]
                <5>1. i - n < j - n
                    BY ONLY <1>3, <2>5, <3>2, <4>2
                <5> QED
                    BY <2>5, <3>2, <4>2, <5>1, Zenon DEF Fresh
            <4> QED
                BY ONLY <1>4, <2>5, <4>1, <4>2, Zenon
        <3> QED
            BY ONLY <1>4, <2>5, <3>1, <3>2, Zenon
    <2> QED
        BY ONLY <2>1, <2>4, <2>5, Zenon DEF Ordered
<1> QED
    BY ONLY <1>1, <1>5, <1>6, <1>7, Zenon DEF Good

(* main announces a new connection to its worker.                          *)
Announced(g, d, d2) ==
    d2 = [d EXCEPT ![Home(g)] = Append(@, [source |-> main_id, inner |-> NewClient(g)])]

Joined(w, q, d, d2) ==
    \A x \in Thread : \A i \in DOMAIN d2[x] :
       \/ i \in DOMAIN d[x] /\ d2[x][i] = d[x][i]
       \/ i \notin DOMAIN d[x] /\ x = w /\ i = Len(d[x]) + 1 /\ d2[x][i] = q

LEMMA AnnounceGood ==
    ASSUME NEW u, NEW d, NEW s, NEW r, Good(u, d, s, r), NEW g \in Gid, NEW d2, Announced(g, d, d2)
    PROVE  /\ Good(u, d2, s, r)
           /\ Joined(Home(g), [source |-> main_id, inner |-> NewClient(g)], d, d2)
<1> DEFINE q == [source |-> main_id, inner |-> NewClient(g)]
           w == Home(g)
<1>1. w \in Thread /\ d \in [Thread -> Seq(DownPackage)] /\ q \in DownPackage
    BY Ids, InnerTypes, PackageTypes, Zenon DEF Good, Typed
<1>2. /\ q.source = main_id /\ q.inner.cmd = "MAIN2WORKER_NEW_CLIENT" /\ q.inner.gid = g
      /\ d2 = [d EXCEPT ![w] = Append(d[w], q)]
    BY Zenon DEF NewClient, Announced
<1> HIDE DEF q, w
<1>3. /\ Len(d[w]) \in Nat /\ DOMAIN d[w] = 1 .. Len(d[w])
      /\ Append(d[w], q) \in Seq(DownPackage) /\ DOMAIN Append(d[w], q) = 1 .. Len(d[w]) + 1
      /\ \A i \in 1 .. Len(d[w]) : Append(d[w], q)[i] = d[w][i]
      /\ Append(d[w], q)[Len(d[w]) + 1] = q
    <2>1. d[w] \in Seq(DownPackage)
        BY <1>1, Zenon
    <2> QED
        BY ONLY <1>1, <2>1, AppendFacts
<1>4. d2[w] = Append(d[w], q) /\ \A x \in Thread \ {w} : d2[x] = d[x]
    BY ONLY <1>1, <1>2, Zenon
<1>5. Joined(w, q, d, d2)
    BY ONLY <1>1, <1>3, <1>4 DEF Joined
<1>6. Typed(u, d2, s, r)
    <2>1. d2 \in [Thread -> Seq(DownPackage)]
        BY ONLY <1>1, <1>2, <1>3, Zenon
    <2> QED
        BY <2>1, Zenon DEF Good, Typed
<1>7. Sound(u, d2, s)
    <2>1. DownFits(q, w, s)
        BY <1>2, Zenon DEF DownFits, w
    <2> QED
        BY <1>5, <2>1, Zenon DEF Good, Sound, Joined
<1>8. ASSUME NEW g2 \in Gid PROVE Ordered(g2, u, d2, s, r)
    <2>1. Ordered(g2, u, d, s, r) /\ Home(g2) \in Thread
        BY Ids, Zenon DEF Good
    <2>2. ~Brings(q, g2)
        BY <1>2, Zenon DEF Brings
    <2>3. \A i \in DOMAIN d2[Home(g2)] : Brings(d2[Home(g2)][i], g2)
             => i \in DOMAIN d[Home(g2)] /\ d2[Home(g2)][i] = d[Home(g2)][i]
        BY ONLY <1>5, <2>1, <2>2, Zenon DEF Joined
    <2> QED
        BY ONLY <2>1, <2>3, Zenon DEF Ordered
<1>9. Good(u, d2, s, r)
    BY <1>6, <1>7, <1>8, Zenon DEF Good
<1> QED
    BY <1>5, <1>9, Zenon DEF q, w

-----------------------------------------------------------------------------
(* What the senders queue.                                                 *)

(* What tunnel_forward adds to the queue: a package, unless nobody is left *)
(* to send it to.                                                          *)
Packed(t, dest, inner) ==
    IF dest = {} THEN <<>> ELSE <<[source |-> t, target |-> dest, inner |-> inner]>>

LEMMA ForwardOne ==
    ASSUME NEW q \in Seq(UpPackage), NEW t \in Thread, NEW dest \in SUBSET Thread, NEW inner \in Inner
    PROVE  tunnel_forward(q, t, dest, inner) = q \o Packed(t, dest, inner)
<1> DEFINE p == [source |-> t, target |-> dest, inner |-> inner]
<1>1. p \in UpPackage
    BY PackageTypes, Zenon
<1>2. {x \in dest : is_tunnel_id(x) /\ x # main_id} = dest
    BY Ids, Zenon DEF is_tunnel_id
<1>3. tunnel_forward(q, t, dest, inner) = IF dest = {} THEN q ELSE Append(q, p)
    BY <1>2, Zenon DEF tunnel_forward
<1>4. Append(q, p) = q \o <<p>> /\ q \o <<>> = q
    BY <1>1
<1> QED
    BY <1>3, <1>4, Zenon DEF Packed

AtMostOne(ps, t, dest, inner) ==
    /\ ps \in Seq(UpPackage)
    /\ dest = {} => DOMAIN ps = {}
    /\ dest # {} => DOMAIN ps = {1}
    /\ \A i \in DOMAIN ps : ps[i].source = t /\ ps[i].target = dest /\ ps[i].inner = inner

LEMMA PackedFacts ==
    ASSUME NEW t \in Thread, NEW dest \in SUBSET Thread, NEW inner \in Inner,
           NEW ps, ps = Packed(t, dest, inner)
    PROVE  AtMostOne(ps, t, dest, inner)
<1> DEFINE p == [source |-> t, target |-> dest, inner |-> inner]
<1>1. p \in UpPackage /\ p.source = t /\ p.target = dest /\ p.inner = inner
    BY PackageTypes, Zenon
<1> HIDE DEF p
<1>2. CASE dest = {}
    <2>1. <<>> \in Seq(UpPackage) /\ DOMAIN <<>> = {}
        OBVIOUS
    <2> QED
        BY <1>2, <2>1, Zenon DEF Packed, AtMostOne
<1>3. CASE dest # {}
    <2>1. <<p>> \in Seq(UpPackage) /\ DOMAIN <<p>> = {1} /\ <<p>>[1] = p
        BY <1>1
    <2>2. Packed(t, dest, inner) = <<p>>
        BY <1>3, Zenon DEF Packed, p
    <2> QED
        BY <1>1, <1>3, <2>1, <2>2, Zenon DEF AtMostOne
<1> QED
    BY <1>2, <1>3, Zenon

-----------------------------------------------------------------------------
(* Nothing is lost: message m is on its way to client g.                   *)

Way(m, g, u, d) ==
    \/ \E j \in DOMAIN d[Home(g)] : Brings(d[Home(g)][j], g) /\ d[Home(g)][j].inner.id = m
    \/ \E t \in Thread : \E j \in DOMAIN u[t] : Heads(u[t][j], g) /\ u[t][j].inner.id = m

Has(r, g, m) == \E i \in DOMAIN r[g] : r[g][i] = m

(* Accounted, of any queues.                                               *)
NoneLost(u, d, s, r, c) ==
    \A m \in DOMAIN s : \A g \in s[m].reach : c[g] = "open" => Has(r, g, m) \/ Way(m, g, u, d)

LEMMA WayRoute ==
    ASSUME NEW u, NEW d, NEW s, NEW r, Good(u, d, s, r), NEW t \in Thread,
           NEW p, NEW c, NEW u2, NEW d2, Routed(t, p, c, u, d, u2, d2),
           \A x \in Thread : d2[x] = IF x \in p.target THEN Append(d[x], c) ELSE d[x],
           NEW g \in Gid, NEW m, Way(m, g, u, d)
    PROVE  Way(m, g, u2, d2)
<1>8. /\ u[t] # <<>> /\ p = Head(u[t]) /\ u2 = [u EXCEPT ![t] = Tail(@)]
      /\ c = [source |-> p.source, inner |-> p.inner]
      /\ d2 = [x \in Thread |-> IF x \in all_target(p.source, p.target)
                                THEN Append(d[x], c) ELSE d[x]]
    BY Zenon DEF Routed
<1> DEFINE w == Home(g)
<1>1. /\ u \in [Thread -> Seq(UpPackage)] /\ u[t] \in Seq(UpPackage) /\ u2[t] = Tail(u[t])
      /\ w \in Thread /\ d[w] \in Seq(DownPackage) /\ \A x \in Thread \ {t} : u2[x] = u[x]
    BY <1>8, Ids, Zenon DEF Good, Typed
<1>2. /\ Len(u[t]) \in Nat /\ DOMAIN u[t] = 1 .. Len(u[t])
      /\ p = u[t][1] /\ p \in UpPackage
      /\ DOMAIN u2[t] = 1 .. Len(u[t]) - 1
      /\ \A i \in 1 .. Len(u[t]) - 1 : u2[t][i] = u[t][i + 1]
    <2>1. u[t] # <<>> /\ p = Head(u[t])
        BY <1>8, Zenon
    <2> QED
        BY ONLY <1>1, <2>1, TailFacts, ZenonT(30)
<1>3. c \in DownPackage /\ c.inner = p.inner
    BY <1>2, <1>8, PackageTypes, Zenon
<1>4. w \in p.target => /\ Len(d[w]) \in Nat /\ DOMAIN d[w] = 1 .. Len(d[w])
                        /\ DOMAIN d2[w] = 1 .. Len(d[w]) + 1
                        /\ \A i \in 1 .. Len(d[w]) : d2[w][i] = d[w][i]
                        /\ d2[w][Len(d[w]) + 1] = c
    <2> SUFFICES ASSUME w \in p.target PROVE <1>4!2
        BY Zenon
    <2>1. d2[w] = Append(d[w], c)
        BY <1>1, Zenon
    <2> QED
        BY ONLY <1>1, <1>3, <2>1, AppendFacts
<1>5. w \notin p.target => d2[w] = d[w]
    BY <1>1, Zenon
<1> HIDE DEF w
<1>6. CASE \E j \in DOMAIN d[w] : Brings(d[w][j], g) /\ d[w][j].inner.id = m
    <2>1. \A j \in DOMAIN d[w] : j \in DOMAIN d2[w] /\ d2[w][j] = d[w][j]
        BY ONLY <1>4, <1>5
    <2> QED
        BY <1>6, <2>1, Zenon DEF Way, w
<1>7. ASSUME NEW x \in Thread, NEW j \in DOMAIN u[x], Heads(u[x][j], g), u[x][j].inner.id = m
      PROVE  Way(m, g, u2, d2)
    <2>1. CASE x # t
        BY ONLY <1>1, <1>7, <2>1, Zenon DEF Way
    <2>2. CASE x = t /\ j # 1
        <3>1. j - 1 \in DOMAIN u2[t] /\ u2[t][j - 1] = u[t][j]
            <4>1. j - 1 \in 1 .. Len(u[t]) - 1 /\ (j - 1) + 1 = j
                BY ONLY <1>2, <1>7, <2>2, Positions, Zenon
            <4>2. u2[t][j - 1] = u[t][(j - 1) + 1]
                BY ONLY <1>2, <4>1, Zenon
            <4> QED
                BY ONLY <1>2, <4>1, <4>2, Zenon
        <3> QED
            BY ONLY <1>7, <2>2, <3>1, Zenon DEF Way
    <2>3. CASE x = t /\ j = 1
        <3>1. w \in p.target /\ Brings(p, g) /\ p.inner.id = m
            BY <1>2, <1>7, <2>3, Zenon DEF Heads, w
        <3>2. Brings(c, g) /\ c.inner.id = m
            BY ONLY <1>3, <3>1, Zenon DEF Brings
        <3>3. Len(d[w]) + 1 \in DOMAIN d2[w] /\ d2[w][Len(d[w]) + 1] = c
            BY ONLY <1>4, <3>1
        <3> QED
            BY ONLY <3>2, <3>3, Zenon DEF Way, w
    <2> QED
        BY <2>1, <2>2, <2>3, Zenon
<1> QED
    BY <1>6, <1>7, Zenon DEF Way, w

LEMMA WayDrop ==
    ASSUME NEW u, NEW d, NEW s, NEW r, Good(u, d, s, r), NEW w \in Thread, NEW d2, Dropped(w, d, d2),
           NEW g \in Gid, NEW m, Way(m, g, u, d)
    PROVE  \/ Way(m, g, u, d2)
           \/ Home(g) = w /\ Brings(Head(d[w]), g) /\ Head(d[w]).inner.id = m
<1>1. /\ d \in [Thread -> Seq(DownPackage)] /\ d[w] \in Seq(DownPackage) /\ d[w] # <<>>
      /\ d2[w] = Tail(d[w]) /\ \A x \in Thread \ {w} : d2[x] = d[x]
    BY Zenon DEF Good, Typed, Dropped
<1>2. /\ Len(d[w]) \in Nat /\ DOMAIN d[w] = 1 .. Len(d[w])
      /\ Head(d[w]) = d[w][1]
      /\ DOMAIN d2[w] = 1 .. Len(d[w]) - 1
      /\ \A i \in 1 .. Len(d[w]) - 1 : d2[w][i] = d[w][i + 1]
    BY ONLY <1>1, TailFacts, ZenonT(30)
<1>3. ASSUME NEW j \in DOMAIN d[Home(g)], Brings(d[Home(g)][j], g), d[Home(g)][j].inner.id = m
      PROVE  \/ Way(m, g, u, d2)
             \/ Home(g) = w /\ Brings(Head(d[w]), g) /\ Head(d[w]).inner.id = m
    <2>1. CASE Home(g) # w
        BY <1>1, <1>3, <2>1, Ids, Zenon DEF Way
    <2>2. CASE Home(g) = w /\ j = 1
        BY <1>2, <1>3, <2>2, Zenon
    <2>3. CASE Home(g) = w /\ j # 1
        <3>1. j - 1 \in DOMAIN d2[w] /\ d2[w][j - 1] = d[w][j]
            <4>1. j - 1 \in 1 .. Len(d[w]) - 1 /\ (j - 1) + 1 = j
                BY ONLY <1>2, <1>3, <2>3, Positions, Zenon
            <4>2. d2[w][j - 1] = d[w][(j - 1) + 1]
                BY ONLY <1>2, <4>1, Zenon
            <4> QED
                BY ONLY <1>2, <4>1, <4>2, Zenon
        <3> QED
            BY <1>3, <2>3, <3>1, Zenon DEF Way
    <2> QED
        BY <2>1, <2>2, <2>3, Zenon
<1> QED
    BY <1>3, Zenon DEF Way

LEMMA WayPush ==
    ASSUME NEW u, NEW d, NEW s, NEW r, Good(u, d, s, r), NEW t \in Thread, NEW ps, NEW u2,
           Pushed(t, ps, u, u2), NEW g \in Gid, NEW m,
           \/ Way(m, g, u, d)
           \/ \E i \in DOMAIN ps : Heads(ps[i], g) /\ ps[i].inner.id = m
    PROVE  Way(m, g, u2, d)
<1>1. /\ u \in [Thread -> Seq(UpPackage)] /\ u[t] \in Seq(UpPackage) /\ ps \in Seq(UpPackage)
      /\ u2[t] = u[t] \o ps /\ \A x \in Thread \ {t} : u2[x] = u[x]
    BY Zenon DEF Good, Typed, Pushed
<1>2. /\ Len(u[t]) \in Nat /\ DOMAIN u[t] = 1 .. Len(u[t])
      /\ Len(ps) \in Nat /\ DOMAIN ps = 1 .. Len(ps)
      /\ DOMAIN u2[t] = 1 .. Len(u[t]) + Len(ps)
      /\ \A i \in 1 .. Len(u[t]) : u2[t][i] = u[t][i]
      /\ \A i \in Len(u[t]) + 1 .. Len(u[t]) + Len(ps) : u2[t][i] = ps[i - Len(u[t])]
    BY ONLY <1>1, ConcatFacts
<1>3. \A x \in Thread : \A i \in DOMAIN u[x] : i \in DOMAIN u2[x] /\ u2[x][i] = u[x][i]
    <2>1. \A i \in DOMAIN u[t] : i \in DOMAIN u2[t] /\ u2[t][i] = u[t][i]
        BY ONLY <1>2
    <2> QED
        BY <1>1, <2>1, Zenon
<1>4. CASE Way(m, g, u, d)
    BY ONLY <1>3, <1>4, ZenonT(30) DEF Way
<1>5. ASSUME NEW i \in DOMAIN ps, Heads(ps[i], g), ps[i].inner.id = m
      PROVE  Way(m, g, u2, d)
    <2>1. i + Len(u[t]) \in DOMAIN u2[t] /\ u2[t][i + Len(u[t])] = ps[i]
        <3> DEFINE n == Len(u[t])
                   k == Len(ps)
        <3>1. i \in 1 .. k /\ n \in Nat /\ k \in Nat
            BY <1>2, <1>5, Zenon
        <3>2. i + n \in n + 1 .. n + k /\ i + n \in 1 .. n + k /\ (i + n) - n = i
            BY ONLY <3>1
        <3>3. u2[t][i + n] = ps[(i + n) - n]
            BY <1>2, <3>2, Zenon
        <3> QED
            BY <1>2, <3>2, <3>3, Zenon
    <2> QED
        BY ONLY <1>5, <2>1, t \in Thread, Zenon DEF Way
<1> QED
    BY <1>4, <1>5, Zenon

LEMMA WayAnnounce ==
    ASSUME NEW u, NEW d, NEW s, NEW r, Good(u, d, s, r), NEW g \in Gid, NEW d2, Announced(g, d, d2),
           NEW g2 \in Gid, NEW m, Way(m, g2, u, d)
    PROVE  Way(m, g2, u, d2)
<1> DEFINE q == [source |-> main_id, inner |-> NewClient(g)]
           w == Home(g)
<1>1. w \in Thread /\ d \in [Thread -> Seq(DownPackage)] /\ q \in DownPackage
    BY Ids, InnerTypes, PackageTypes, Zenon DEF Good, Typed
<1>2. d2 = [d EXCEPT ![w] = Append(d[w], q)]
    BY Zenon DEF Announced
<1> HIDE DEF q, w
<1>3. d[w] \in Seq(DownPackage) /\ d2[w] = Append(d[w], q) /\ \A x \in Thread \ {w} : d2[x] = d[x]
    BY ONLY <1>1, <1>2, Zenon
<1>4. /\ DOMAIN d[w] = 1 .. Len(d[w]) /\ Len(d[w]) \in Nat
      /\ DOMAIN d2[w] = 1 .. Len(d[w]) + 1 /\ \A i \in 1 .. Len(d[w]) : d2[w][i] = d[w][i]
    BY ONLY <1>1, <1>3, AppendFacts
<1>5. \A x \in Thread : \A i \in DOMAIN d[x] : i \in DOMAIN d2[x] /\ d2[x][i] = d[x][i]
    BY ONLY <1>3, <1>4, SMTT(30)
<1> QED
    BY <1>5, Ids, Zenon DEF Way

Keeps(to, g, m, r, r2) ==
    /\ \A n : Has(r, g, n) => Has(r2, g, n)
    /\ g \in to => Has(r2, g, m)

LEMMA HasKept ==
    ASSUME NEW r \in [Gid -> Seq(Nat)], NEW to, NEW m, to # {} => m \in Nat,
           NEW r2, HandedOut(to, m, r, r2), NEW g \in Gid
    PROVE  Keeps(to, g, m, r, r2)
<1>1. r[g] \in Seq(Nat)
    BY Zenon
<1>2. CASE g \in to
    <2>1. m \in Nat /\ r2[g] = Append(r[g], m)
        BY <1>2, Zenon DEF HandedOut
    <2>2. /\ Len(r[g]) \in Nat /\ DOMAIN r[g] = 1 .. Len(r[g])
          /\ DOMAIN r2[g] = 1 .. Len(r[g]) + 1 /\ r2[g][Len(r[g]) + 1] = m
          /\ \A i \in 1 .. Len(r[g]) : r2[g][i] = r[g][i]
        BY ONLY <1>1, <2>1, AppendFacts
    <2>3. /\ Len(r[g]) + 1 \in DOMAIN r2[g]
          /\ \A i \in DOMAIN r[g] : i \in DOMAIN r2[g] /\ r2[g][i] = r[g][i]
        BY ONLY <2>2
    <2> QED
        BY ONLY <2>2, <2>3, Zenon DEF Has, Keeps
<1>3. CASE g \notin to
    BY <1>3, Zenon DEF HandedOut, Has, Keeps
<1> QED
    BY <1>2, <1>3, Zenon

-----------------------------------------------------------------------------
(* The lives of the connections.                                           *)

Calm(c, c2) ==
    /\ c \in [Gid -> Stage] /\ c2 \in [Gid -> Stage]
    /\ \A g \in Gid : \/ c2[g] = c[g]
                      \/ c[g] \in Opened /\ c2[g] \in {"closing", "gone"}

(* Announcements only stay where they are.                                 *)
LEMMA WaitingSame ==
    ASSUME NEW u, NEW d, NEW s, Sound(u, d, s), NEW c, Waiting(d, c), NEW c2, Calm(c, c2), NEW d2,
           \A t \in Thread : \A i \in DOMAIN d2[t] :
              IsNew(d2[t][i]) => i \in DOMAIN d[t] /\ d2[t][i] = d[t][i]
    PROVE  Waiting(d2, c2)
<1>1. \A t \in Thread : \A i \in DOMAIN d[t] : IsNew(d[t][i]) => d[t][i].inner.gid \in Gid
    BY Zenon DEF Sound, DownFits, Fits, IsNew
<1>2. \A g \in Gid : c[g] = "handed" => c2[g] = "handed"
    BY Zenon DEF Calm, Opened
<1> QED
    BY <1>1, <1>2 DEF Waiting

(* The first package of a queue is taken.                                  *)
LEMMA WaitingDrop ==
    ASSUME NEW u, NEW d, NEW s, Sound(u, d, s), NEW c, Waiting(d, c),
           NEW w \in Thread, NEW d2, Shifted(w, d, d2), NEW c2,
           \/ Calm(c, c2)
           \/ /\ IsNew(d[w][1])
              /\ \A g \in Gid \ {d[w][1].inner.gid} : c2[g] = c[g]
    PROVE  Waiting(d2, c2)
<1>1. \A t \in Thread : \A i \in DOMAIN d[t] :
         IsNew(d[t][i]) => d[t][i].inner.gid \in Gid /\ Home(d[t][i].inner.gid) = t
    BY Zenon DEF Sound, DownFits, Fits, IsNew
<1>2. ASSUME NEW t \in Thread, NEW i \in DOMAIN d2[t], IsNew(d2[t][i])
      PROVE  \E k \in DOMAIN d[t] : /\ IsNew(d[t][k]) /\ d2[t][i] = d[t][k] /\ (t = w => k # 1)
                                    /\ k = IF t = w THEN i + 1 ELSE i
    <2>1. CASE t = w
        <3>1. i + 1 \in DOMAIN d[t] /\ i \in Nat /\ i > 0 /\ d2[t][i] = d[t][i + 1]
            BY <2>1, Zenon DEF Shifted
        <3>2. i + 1 # 1
            BY <3>1
        <3> QED
            BY <1>2, <2>1, <3>1, <3>2, Zenon
    <2>2. CASE t # w
        BY <1>2, <2>2, Zenon DEF Shifted
    <2> QED
        BY <2>1, <2>2, Zenon
<1>3. ASSUME NEW t \in Thread, NEW k \in DOMAIN d[t], IsNew(d[t][k]), t = w => k # 1
      PROVE  c2[d[t][k].inner.gid] = "handed"
    <2>1. c[d[t][k].inner.gid] = "handed" /\ d[t][k].inner.gid \in Gid
        BY <1>1, <1>3, Zenon DEF Waiting
    <2>2. CASE Calm(c, c2)
        BY <2>1, <2>2, Zenon DEF Calm, Opened
    <2>3. CASE IsNew(d[w][1]) /\ \A g \in Gid \ {d[w][1].inner.gid} : c2[g] = c[g]
        <3>1. 1 \in DOMAIN d[w]
            BY Zenon DEF Shifted
        <3>2. d[t][k].inner.gid # d[w][1].inner.gid
            <4>1. CASE t = w
                BY ONLY <1>3, <2>3, <3>1, <4>1, Waiting(d, c), t \in Thread, k \in DOMAIN d[t], Zenon DEF Waiting
            <4>2. CASE t # w
                BY ONLY <1>1, <1>3, <2>3, <3>1, <4>2, w \in Thread, t \in Thread, k \in DOMAIN d[t]
            <4> QED
                BY <4>1, <4>2, Zenon
        <3> QED
            BY <2>1, <2>3, <3>2, Zenon
    <2> QED
        BY <2>2, <2>3, Zenon
<1>4. ASSUME NEW t \in Thread, NEW i \in DOMAIN d2[t], NEW j \in DOMAIN d2[t],
             IsNew(d2[t][i]), IsNew(d2[t][j]), j # i
      PROVE  d2[t][j].inner.gid # d2[t][i].inner.gid
    <2>1. PICK k \in DOMAIN d[t] : IsNew(d[t][k]) /\ d2[t][i] = d[t][k] /\ k = IF t = w THEN i + 1 ELSE i
        BY <1>2, <1>4, Zenon
    <2>2. PICK l \in DOMAIN d[t] : IsNew(d[t][l]) /\ d2[t][j] = d[t][l] /\ l = IF t = w THEN j + 1 ELSE j
        BY <1>2, <1>4, Zenon
    <2>3. k # l
        <3>1. t = w => i \in Nat /\ j \in Nat
            BY Zenon DEF Shifted
        <3> QED
            BY ONLY <1>4, <2>1, <2>2, <3>1
    <2> QED
        BY ONLY <2>1, <2>2, <2>3, Waiting(d, c), t \in Thread DEF Waiting
<1>5. ASSUME NEW t \in Thread, NEW i \in DOMAIN d2[t], IsNew(d2[t][i])
      PROVE  c2[d2[t][i].inner.gid] = "handed"
    BY ONLY <1>2, <1>3, <1>5
<1> QED
    BY ONLY <1>4, <1>5, Zenon DEF Waiting

LEMMA WaitingAnnounce ==
    ASSUME NEW u, NEW d, NEW s, Sound(u, d, s), NEW c \in [Gid -> Stage], Waiting(d, c),
           NEW g \in Gid, c[g] = "unborn", NEW c2, c2 = [c EXCEPT ![g] = "handed"], NEW d2,
           Joined(Home(g), [source |-> main_id, inner |-> NewClient(g)], d, d2)
    PROVE  Waiting(d2, c2)
<1> DEFINE q == [source |-> main_id, inner |-> NewClient(g)]
<1>1. q.inner.gid = g
    BY Zenon DEF NewClient
<1>2. Joined(Home(g), q, d, d2)
    BY Zenon
<1> HIDE DEF q
<1>3. \A t \in Thread : \A i \in DOMAIN d[t] : IsNew(d[t][i]) =>
         d[t][i].inner.gid \in Gid /\ d[t][i].inner.gid # g /\ c2[d[t][i].inner.gid] = "handed"
    BY Zenon DEF Sound, DownFits, Fits, IsNew, Waiting
<1>4. c2[g] = "handed"
    BY Zenon
<1>5. ASSUME NEW t \in Thread, NEW i \in DOMAIN d2[t], NEW j \in DOMAIN d2[t],
             IsNew(d2[t][i]), IsNew(d2[t][j]), j # i
      PROVE  d2[t][j].inner.gid # d2[t][i].inner.gid
    BY ONLY <1>1, <1>2, <1>3, <1>5, Waiting(d, c) DEF Joined, Waiting
<1>6. ASSUME NEW t \in Thread, NEW i \in DOMAIN d2[t], IsNew(d2[t][i])
      PROVE  c2[d2[t][i].inner.gid] = "handed"
    BY ONLY <1>1, <1>2, <1>3, <1>4, <1>6 DEF Joined
<1> QED
    BY ONLY <1>5, <1>6, Zenon DEF Waiting

LEMMA EngagedSame ==
    ASSUME NEW s \in Seq(Message), NEW c, NEW c2, Engaged(s, c),
           \A g \in Gid : c[g] \in Opened => c2[g] \in Opened
    PROVE  Engaged(s, c2)
<1>1. \A m \in DOMAIN s : s[m] \in Message
    OBVIOUS
<1>2. \A x \in Message : x.reach \subseteq Gid
    BY Zenon DEF Message
<1> QED
    BY <1>1, <1>2, Zenon DEF Engaged

-----------------------------------------------------------------------------
(* The whole of the router's state, and what each kind of step does to it. *)

State(u, d, s, r, c) ==
    /\ Good(u, d, s, r)
    /\ c \in [Gid -> Stage] /\ Waiting(d, c) /\ Engaged(s, c)
    /\ NoneLost(u, d, s, r, c)

LEMMA ReachFacts ==
    ASSUME NEW s \in Seq(Message), NEW m \in DOMAIN s
    PROVE  s[m] \in Message /\ s[m].reach \subseteq Gid /\ m \in Nat
<1>1. DOMAIN s = 1 .. Len(s) /\ Len(s) \in Nat
    BY LenFacts, Zenon
<1>2. s[m] \in Message
    OBVIOUS
<1>3. \A x \in Message : x.reach \subseteq Gid
    BY Zenon DEF Message
<1> QED
    BY <1>1, <1>2, <1>3

LEMMA StateRoute ==
    ASSUME NEW u, NEW d, NEW s, NEW r, NEW k, State(u, d, s, r, k), NEW t \in Thread,
           NEW p, NEW c, NEW u2, NEW d2, Routed(t, p, c, u, d, u2, d2)
    PROVE  State(u2, d2, s, r, k)
<1>1. Good(u, d, s, r)
    BY Zenon DEF State
<1>2. /\ Good(u2, d2, s, r)
      /\ UpFits(p, t, s) /\ p.target \subseteq Thread
      /\ \A x \in Thread : d2[x] = IF x \in p.target THEN Append(d[x], c) ELSE d[x]
    BY ONLY <1>1, RouteGood, Routed(t, p, c, u, d, u2, d2), t \in Thread
<1>3. ASSUME NEW x \in Thread, NEW i \in DOMAIN d2[x], IsNew(d2[x][i])
      PROVE  i \in DOMAIN d[x] /\ d2[x][i] = d[x][i]
    <2>1. ~IsNew(c)
        BY <1>2, Zenon DEF UpFits, Fits, IsNew, Routed
    <2>2. d[x] \in Seq(DownPackage) /\ c \in DownPackage
        <3>1. d[x] \in Seq(DownPackage) /\ u[t] \in Seq(UpPackage)
            BY <1>1, Zenon DEF Good, Typed
        <3>2. u[t] # <<>> /\ p = Head(u[t]) /\ c = [source |-> p.source, inner |-> p.inner]
            BY Zenon DEF Routed
        <3>3. p \in UpPackage
            BY ONLY <3>1, <3>2, TailFacts, Zenon
        <3> QED
            BY ONLY <3>1, <3>2, <3>3, PackageTypes, Zenon
    <2>3. CASE x \in p.target
        <3>1. d2[x] = Append(d[x], c)
            BY <1>2, <2>3, Zenon
        <3>2. DOMAIN d[x] = 1 .. Len(d[x]) /\ i \in 1 .. Len(d[x]) + 1 /\ Len(d[x]) \in Nat
            BY <2>2, <3>1, AppendFacts
        <3>3. i # Len(d[x]) + 1
            BY <1>3, <2>1, <2>2, <3>1, AppendFacts
        <3>4. i \in 1 .. Len(d[x])
            BY <3>2, <3>3
        <3> QED
            BY ONLY <2>2, <3>1, <3>2, <3>4, AppendFacts
    <2>4. CASE x \notin p.target
        BY <1>2, <2>4, Zenon
    <2> QED
        BY <2>3, <2>4, Zenon
<1>4. Waiting(d2, k)
    <2>1. Calm(k, k) /\ Waiting(d, k) /\ Sound(u, d, s)
        BY <1>1, Zenon DEF State, Calm, Good
    <2> QED
        BY ONLY <1>3, <2>1, WaitingSame
<1>5. NoneLost(u2, d2, s, r, k)
    <2> SUFFICES ASSUME NEW m \in DOMAIN s, NEW g \in s[m].reach, k[g] = "open"
                 PROVE  Has(r, g, m) \/ Way(m, g, u2, d2)
        BY Zenon DEF NoneLost
    <2>1. Has(r, g, m) \/ Way(m, g, u, d)
        BY Zenon DEF State, NoneLost
    <2>2. g \in Gid
        BY <1>1, ReachFacts, Zenon DEF Good, Typed
    <2>3. Way(m, g, u, d) => Way(m, g, u2, d2)
        BY ONLY <1>1, <1>2, <2>2, WayRoute, Routed(t, p, c, u, d, u2, d2), t \in Thread
    <2> QED
        BY <2>1, <2>3, Zenon
<1> QED
    BY <1>2, <1>4, <1>5, Zenon DEF State

(* Thread w takes the first package of its queue and hands the message m   *)
(* that it brings to the clients in to.                                    *)
Greeted(p, c, c2) ==
    /\ IsNew(p)
    /\ \A g \in Gid \ {p.inner.gid} : c2[g] = c[g]

(* The clients that the package p brings worker w a message for, and that  *)
(* are still open.                                                         *)
Receivers(w, p, c, to) ==
    /\ \A g \in to : g \in Gid /\ Home(g) = w /\ Brings(p, g)
    /\ \A g \in Gid : Home(g) = w /\ Brings(p, g) /\ c[g] = "open" => g \in to

LEMMA StateTake ==
    ASSUME NEW u, NEW d, NEW s, NEW r, NEW c, State(u, d, s, r, c),
           NEW w \in Thread, NEW d2, Dropped(w, d, d2), NEW p, p = Head(d[w]),
           NEW to, NEW m, m = p.inner.id, NEW r2, HandedOut(to, m, r, r2),
           NEW c2 \in [Gid -> Stage], Calm(c, c2) \/ Greeted(p, c, c2), Receivers(w, p, c2, to)
    PROVE  State(u, d2, s, r2, c2)
<1>0. /\ \A g \in to : g \in Gid /\ Home(g) = w /\ Brings(p, g)
      /\ \A g \in Gid : Home(g) = w /\ Brings(p, g) /\ c2[g] = "open" => g \in to
    BY Zenon DEF Receivers
<1> USE <1>0
<1>1. Good(u, d, s, r) /\ Waiting(d, c) /\ Engaged(s, c) /\ NoneLost(u, d, s, r, c)
    BY Zenon DEF State
<1>2. Shifted(w, d, d2)
    BY <1>1, DropGood, Zenon
<1>3. Sound(u, d, s) /\ r \in [Gid -> Seq(Nat)] /\ s \in Seq(Message)
    BY <1>1, Zenon DEF Good, Typed
<1>4. Good(u, d2, s, r2)
    BY <1>1, DeliverGood, Zenon
<1>5. p = d[w][1] /\ 1 \in DOMAIN d[w]
    BY <1>2, Zenon DEF Shifted
<1>6. to # {} => m \in Nat
    <2> SUFFICES ASSUME NEW g \in to PROVE m \in Nat
        BY Zenon
    <2>1. Foreign(d[w][1].inner.id, g, s)
        BY <1>3, <1>5, Known, Zenon
    <2> QED
        BY <1>3, <1>5, <2>1, ReachFacts, Zenon DEF Foreign
<1>7. Waiting(d2, c2)
    BY <1>1, <1>2, <1>3, <1>5, WaitingDrop DEF Greeted
<1>8. Greeted(p, c, c2) => p.inner.gid \in Gid /\ c[p.inner.gid] = "handed"
    <2>1. IsNew(p) => p.inner.gid \in Gid
        BY <1>3, <1>5, Zenon DEF Sound, DownFits, Fits, IsNew
    <2>2. IsNew(p) => c[p.inner.gid] = "handed"
        BY <1>1, <1>5, Zenon DEF Waiting
    <2> QED
        BY <2>1, <2>2, Zenon DEF Greeted
<1>9. \A g \in Gid : c[g] \in Opened => c2[g] \in Opened /\ (c2[g] = "open" => c[g] = "open")
    BY <1>8, Zenon DEF Greeted, Calm, Opened
<1>10. Engaged(s, c2)
    BY <1>1, <1>3, <1>9, EngagedSame, Zenon
<1>11. NoneLost(u, d2, s, r2, c2)
    <2> SUFFICES ASSUME NEW n \in DOMAIN s, NEW g \in s[n].reach, c2[g] = "open"
                 PROVE  Has(r2, g, n) \/ Way(n, g, u, d2)
        BY Zenon DEF NoneLost
    <2>1. g \in Gid
        BY <1>3, ReachFacts, Zenon
    <2>2. c[g] = "open"
        BY <1>1, <1>9, <2>1, Zenon DEF Engaged
    <2>3. Has(r, g, n) \/ Way(n, g, u, d)
        BY <1>1, <2>2, Zenon DEF NoneLost
    <2>4. Keeps(to, g, m, r, r2)
        BY <1>3, <1>6, <2>1, HasKept, Zenon
    <2>5. ASSUME Way(n, g, u, d)
          PROVE  Way(n, g, u, d2) \/ (Home(g) = w /\ Brings(p, g) /\ m = n)
        <3>1. Good(u, d, s, r)
            BY <1>1, Zenon
        <3>2. \/ Way(n, g, u, d2)
              \/ Home(g) = w /\ Brings(Head(d[w]), g) /\ Head(d[w]).inner.id = n
            BY ONLY <2>1, <2>5, <3>1, WayDrop, Dropped(w, d, d2), w \in Thread
        <3> QED
            BY ONLY <3>2, p = Head(d[w]), m = p.inner.id, Zenon
    <2> QED
        BY <2>1, <2>3, <2>4, <2>5, Zenon DEF Keeps
<1> QED
    BY <1>4, <1>7, <1>10, <1>11, Zenon DEF State

-----------------------------------------------------------------------------
(* The packages of message m that worker w sends for the clients gids: one *)
(* for each other worker that has one, and that brings it all of its own.  *)
Spread(w, m, gids, ps) ==
    /\ ps \in Seq(UpPackage)
    /\ \A i \in DOMAIN ps :
          /\ ps[i].source = w /\ ps[i].target # {} /\ ps[i].target \subseteq Worker \ {w}
          /\ ps[i].inner.cmd = "CLIENT_FORWARD_MESSAGE" /\ ps[i].inner.id = m
          /\ ps[i].inner.targetgid = {} <=> gids = {}
          /\ ps[i].inner.targetgid \subseteq gids
          /\ gids # {} => \A v \in ps[i].target : \E g \in gids : Home(g) = v
    /\ \A i, j \in DOMAIN ps : i < j => ps[i].target \cap ps[j].target = {}
    /\ \A g \in Gid : (gids # {} => g \in gids) /\ Home(g) # w =>
          \E i \in DOMAIN ps : /\ Home(g) \in ps[i].target
                               /\ gids # {} => g \in ps[i].inner.targetgid

LEMMA OrderFacts ==
    ASSUME NEW w \in Worker, NEW gids \in SUBSET Nat, NEW order \in Orders(w, gids)
    PROVE  /\ Len(order) \in Nat /\ DOMAIN order = 1 .. Len(order)
           /\ \A i \in DOMAIN order : order[i] \in Worker \ {w} /\ \E g \in gids : Home(g) = order[i]
           /\ \A i, j \in DOMAIN order : i # j => order[i] # order[j]
           /\ \A g \in gids : Home(g) \in Worker \ {w} => \E i \in DOMAIN order : order[i] = Home(g)
<1> DEFINE S == {v \in Groups(gids) \ {w} : is_tunnel_id(v)}
<1>1. S = {v \in Worker \ {w} : \E g \in gids : Home(g) = v}
    <2>1. \A g \in gids : Home(g) \in Nat
        BY DEF Home, hash_gid_2_worker_tunnel_id, WorkerRange
    <2>2. Groups(gids) = {Home(g) : g \in gids}
        BY Zenon DEF Groups, Home
    <2>3. \A v \in Nat : is_tunnel_id(v) <=> v \in Worker
        BY Ids DEF is_tunnel_id, other_id, main_id
    <2> QED
        BY ONLY <2>1, <2>2, <2>3, Ids, Zenon
<1>2. PICK n \in Nat : order \in Bijection(1 .. n, S)
    <2>1. PICK n \in 0 .. worker_cnt : order \in Bijection(1 .. n, S)
        BY Zenon DEF Orders
    <2>2. n \in Nat
        BY RouterAssumption
    <2> QED
        BY ONLY <2>1, <2>2, Zenon
<1> HIDE DEF S
<1>3. order \in [1 .. n -> S] /\ \A i, j \in 1 .. n : i # j => order[i] # order[j]
    BY ONLY <1>2, Zenon DEF Bijection, Injection, IsInjective
<1>4. \A v \in S : \E i \in 1 .. n : order[i] = v
    BY ONLY <1>2, Zenon DEF Bijection, Surjection
<1>5. order \in Seq(S)
    BY ONLY <1>3, n \in Nat
<1>6. Len(order) \in Nat /\ DOMAIN order = 1 .. Len(order) /\ DOMAIN order = 1 .. n
    BY ONLY <1>3, <1>5, LenFacts, Zenon
<1> QED
    BY ONLY <1>1, <1>3, <1>4, <1>6, Zenon

LEMMA BroadcastSpread ==
    ASSUME NEW w \in Worker, NEW m \in Nat, NEW inner, inner = ClientForward(m, {}),
           NEW rest, rest = Worker \ {w}, NEW ps, ps = Packed(w, rest, inner)
    PROVE  Spread(w, m, {}, ps)
<1>1. /\ inner.cmd = "CLIENT_FORWARD_MESSAGE" /\ inner.id = m /\ inner.targetgid = {}
      /\ inner \in Inner
    BY InnerTypes, Zenon DEF ClientForward
<1>2. w \in Thread /\ rest \in SUBSET Thread
    BY Ids, Zenon
<1>3. AtMostOne(ps, w, rest, inner)
    BY ONLY <1>1, <1>2, ps = Packed(w, rest, inner), PackedFacts, Zenon
<1>4. ASSUME NEW g \in Gid, Home(g) # w
      PROVE  \E i \in DOMAIN ps : Home(g) \in ps[i].target
    <2>1. Home(g) \in rest
        BY <1>4, Ids, Zenon
    <2>2. 1 \in DOMAIN ps /\ ps[1].target = rest
        BY <1>3, <2>1, Zenon DEF AtMostOne
    <2> QED
        BY <2>1, <2>2, Zenon
<1>5. \A i, j \in DOMAIN ps : ~(i < j)
    BY <1>3 DEF AtMostOne
<1>6. \A i \in DOMAIN ps : rest # {}
    BY <1>3, Zenon DEF AtMostOne
<1>7. Spread(w, m, {}, ps)
    BY ONLY <1>1, <1>3, <1>4, <1>5, <1>6, rest = Worker \ {w}, Zenon DEF Spread, AtMostOne
<1> QED
    BY <1>7, Zenon

LEMMA GroupsSpread ==
    ASSUME NEW w \in Worker, NEW m \in Nat, NEW gids \in SUBSET Nat, gids # {},
           NEW order \in Orders(w, gids), NEW ps,
           ps = [i \in DOMAIN order |->
                    [source |-> w, target |-> {order[i]},
                     inner |-> ClientForward(m,
                         {g \in gids : hash_gid_2_worker_tunnel_id(g) = order[i]})]]
    PROVE  Spread(w, m, gids, ps)
<1>1. /\ Len(order) \in Nat /\ DOMAIN order = 1 .. Len(order)
      /\ \A i \in DOMAIN order : order[i] \in Worker \ {w} /\ \E g \in gids : Home(g) = order[i]
      /\ \A i, j \in DOMAIN order : i # j => order[i] # order[j]
      /\ \A g \in gids : Home(g) \in Worker \ {w} => \E i \in DOMAIN order : order[i] = Home(g)
    BY OrderFacts
<1>2. ASSUME NEW i \in DOMAIN order
      PROVE  /\ ps[i] \in UpPackage /\ ps[i].source = w /\ ps[i].target = {order[i]}
             /\ ps[i].inner.cmd = "CLIENT_FORWARD_MESSAGE" /\ ps[i].inner.id = m
             /\ ps[i].inner.targetgid = {g \in gids : Home(g) = order[i]}
    <2> DEFINE mine == {g \in gids : hash_gid_2_worker_tunnel_id(g) = order[i]}
    <2>1. ps[i] = [source |-> w, target |-> {order[i]}, inner |-> ClientForward(m, mine)]
        BY Zenon
    <2>2. mine \in SUBSET Nat /\ mine = {g \in gids : Home(g) = order[i]}
        BY Zenon DEF Home
    <2> HIDE DEF mine
    <2>3. ps[i] \in UpPackage
        <3>1. ClientForward(m, mine) \in Inner
            BY ONLY <2>2, InnerTypes, m \in Nat, Zenon
        <3>2. {order[i]} \in SUBSET Thread /\ w \in Thread
            BY ONLY <1>1, i \in DOMAIN order, w \in Worker, Ids, Zenon
        <3> QED
            BY ONLY <2>1, <3>1, <3>2, PackageTypes, Zenon
    <2>4. ClientForward(m, mine).cmd = "CLIENT_FORWARD_MESSAGE" /\ ClientForward(m, mine).id = m
          /\ ClientForward(m, mine).targetgid = mine
        BY Zenon DEF ClientForward
    <2> QED
        BY ONLY <2>1, <2>2, <2>3, <2>4
<1>3. DOMAIN ps = DOMAIN order
    BY Zenon
<1>4. ps \in [1 .. Len(order) -> UpPackage]
    BY <1>1, <1>2, Zenon
<1>5. ps \in Seq(UpPackage)
    BY ONLY <1>1, <1>4
<1>6. ASSUME NEW i \in DOMAIN ps
      PROVE  /\ ps[i].source = w /\ ps[i].target # {} /\ ps[i].target \subseteq Worker \ {w}
             /\ ps[i].inner.cmd = "CLIENT_FORWARD_MESSAGE" /\ ps[i].inner.id = m
             /\ ps[i].inner.targetgid # {}
             /\ ps[i].inner.targetgid \subseteq gids
             /\ \A v \in ps[i].target : \E g \in gids : Home(g) = v
    <2>1. /\ ps[i].source = w /\ ps[i].target = {order[i]}
          /\ ps[i].inner.cmd = "CLIENT_FORWARD_MESSAGE" /\ ps[i].inner.id = m
          /\ ps[i].inner.targetgid = {g \in gids : Home(g) = order[i]}
        BY ONLY <1>2, <1>3, <1>6, Zenon
    <2>2. order[i] \in Worker \ {w} /\ \E g \in gids : Home(g) = order[i]
        BY ONLY <1>1, <1>3, <1>6, Zenon
    <2> QED
        BY ONLY <2>1, <2>2, Zenon
<1>7. \A i, j \in DOMAIN ps : i # j => ps[i].target \cap ps[j].target = {}
    BY ONLY <1>1, <1>2, <1>3
<1>8. ASSUME NEW g \in Gid, g \in gids, Home(g) # w
      PROVE  \E i \in DOMAIN ps : Home(g) \in ps[i].target /\ g \in ps[i].inner.targetgid
    <2>1. PICK i \in DOMAIN order : order[i] = Home(g)
        BY ONLY <1>1, <1>8, Ids, Zenon
    <2> QED
        BY ONLY <1>2, <1>3, <1>8, <2>1, Zenon
<1>9. \A i, j \in DOMAIN ps : i < j => i # j
    BY ONLY <1>1, <1>3
<1> QED
    BY ONLY <1>5, <1>6, <1>7, <1>8, <1>9, gids # {}, Zenon DEF Spread

(* A step of send_client_forward_message.                                  *)
Sends(w, gids, m, ps, full) ==
    /\ Spread(w, m, gids, ps) /\ Pushed(w, ps, up, up')
    /\ full \subseteq Addressed(w, gids)
    /\ HandedOut(Addressed(w, gids) \ full, m, received, received')
    /\ client' = [g \in Gid |-> IF g \in full THEN "closing" ELSE client[g]]

LEMMA SendFacts ==
    ASSUME Good(up, down, sent, received), NEW w \in Worker, NEW gids \in SUBSET Nat, NEW m \in Nat,
           NEW source_gid, send_client_forward_message(w, source_gid, gids, m)
    PROVE  \E ps, full : Sends(w, gids, m, ps, full)
<1>1. /\ up \in [Thread -> Seq(UpPackage)] /\ w \in Thread /\ up[w] \in Seq(UpPackage)
    BY Ids, Zenon DEF Good, Typed
<1>2. PICK full : /\ full \subseteq Addressed(w, gids)
                  /\ HandedOut(Addressed(w, gids) \ full, m, received, received')
                  /\ client' = [g \in Gid |-> IF g \in full THEN "closing" ELSE client[g]]
    <2> DEFINE mine == gids = {} \/ w \in Groups(gids)
               addressed == IF mine THEN Addressed(w, gids) ELSE {}
    <2>1. \E full \in SUBSET addressed : HandOut(m, addressed, full)
        BY Zenon DEF send_client_forward_message
    <2>2. addressed = Addressed(w, gids)
        BY Zenon DEF Addressed, Groups
    <2> QED
        BY <2>1, <2>2, Zenon DEF HandOut, HandedOut
<1>3. \E ps : Spread(w, m, gids, ps) /\ Pushed(w, ps, up, up')
    <2>1. CASE gids = {}
        <3> DEFINE ps == Packed(w, Worker \ {w}, ClientForward(m, {}))
        <3>1. up' = [up EXCEPT ![w] = tunnel_forward(@, w, Worker \ {w}, ClientForward(m, {}))]
            BY <2>1, Zenon DEF send_client_forward_message
        <3>2. Spread(w, m, {}, ps)
            BY BroadcastSpread, Zenon
        <3>3. tunnel_forward(up[w], w, Worker \ {w}, ClientForward(m, {})) = up[w] \o ps
            <4>1. ClientForward(m, {}) \in Inner
                BY InnerTypes, Zenon
            <4>2. Worker \ {w} \in SUBSET Thread
                BY Ids, Zenon
            <4> QED
                BY <1>1, <4>1, <4>2, ForwardOne, Zenon
        <3>4. ps \in Seq(UpPackage)
            BY <3>2, Zenon DEF Spread
        <3> HIDE DEF ps
        <3>5. Pushed(w, ps, up, up')
            BY <3>1, <3>3, <3>4, Zenon DEF Pushed
        <3> QED
            BY <2>1, <3>2, <3>5, Zenon
    <2>2. CASE gids # {}
        <3>1. PICK order \in Orders(w, gids) : up' = [up EXCEPT ![w] = ForwardGroups(w, m, gids, order)]
            BY <2>2, Zenon DEF send_client_forward_message
        <3> DEFINE ps == [i \in DOMAIN order |->
                    [source |-> w, target |-> {order[i]},
                     inner |-> ClientForward(m,
                         {g \in gids : hash_gid_2_worker_tunnel_id(g) = order[i]})]]
        <3>2. Spread(w, m, gids, ps)
            BY <2>2, GroupsSpread, Zenon
        <3>3. ForwardGroups(w, m, gids, order) = up[w] \o ps
            BY Zenon DEF ForwardGroups
        <3> HIDE DEF ps
        <3>4. Pushed(w, ps, up, up')
            BY <3>1, <3>2, <3>3, Zenon DEF Pushed, Spread
        <3> QED
            BY <3>2, <3>4, Zenon
    <2> QED
        BY <2>1, <2>2, Zenon
<1> QED
    BY <1>2, <1>3, Zenon DEF Sends

-----------------------------------------------------------------------------
(* Sending, on the whole of the state.                                     *)

(* Message x is added to the messages s, as number m.                      *)
Grown(s, s2, x, m) ==
    /\ Extended(s, s2) /\ m \in Nat /\ m \in DOMAIN s2 /\ s2[m] = x
    /\ \A n \in DOMAIN s2 : n \in DOMAIN s \/ n = m
    /\ \A n \in DOMAIN s : n < m

LEMMA SentFacts ==
    ASSUME NEW s \in Seq(Message), NEW x \in Message, NEW s2, s2 = Append(s, x), NEW m, m = Len(s) + 1
    PROVE  Grown(s, s2, x, m)
<1>1. /\ Len(s) \in Nat /\ DOMAIN s = 1 .. Len(s)
      /\ s2 \in Seq(Message) /\ DOMAIN s2 = 1 .. Len(s) + 1
      /\ \A i \in 1 .. Len(s) : s2[i] = s[i]
      /\ s2[Len(s) + 1] = x
    BY AppendFacts
<1>2. /\ m \in Nat /\ m \in DOMAIN s2 /\ DOMAIN s \subseteq DOMAIN s2
      /\ \A n \in DOMAIN s2 : n \in DOMAIN s \/ n = m
      /\ \A n \in DOMAIN s : n < m
    BY ONLY <1>1, m = Len(s) + 1
<1> QED
    BY ONLY <1>1, <1>2, m = Len(s) + 1, Zenon DEF Grown, Extended

(* The clients to get message x directly, if c2 is what becomes of the     *)
(* connections c; the packages ps bring it to the others that it must      *)
(* reach.                                                                  *)
Served(x, m, to, ps, c, c2) ==
    /\ Calm(c, c2)
    /\ \A g \in to : /\ g \in Gid /\ x.source \in Gid /\ Home(g) = Home(x.source)
                     /\ x.to # {} => g \in x.to
    /\ \A g \in x.reach : /\ g \in Gid /\ c[g] \in Opened
                          /\ c2[g] = "open" => \/ g \in to
                                               \/ \E i \in DOMAIN ps : Heads(ps[i], g) /\ ps[i].inner.id = m
    /\ x.source \in Gid => c[x.source] \in Opened

LEMMA StateSend ==
    ASSUME NEW u, NEW d, NEW s, NEW r, NEW c, State(u, d, s, r, c),
           NEW x, NEW m, NEW s2, Grown(s, s2, x, m),
           NEW t \in Thread, NEW ps, NEW u2, Pushed(t, ps, u, u2), Fresh(t, ps, s, s2),
           NEW to, NEW r2, HandedOut(to, m, r, r2), NEW c2, Served(x, m, to, ps, c, c2)
    PROVE  State(u2, d, s2, r2, c2)
<1>1. Good(u, d, s, r) /\ Waiting(d, c) /\ Engaged(s, c) /\ NoneLost(u, d, s, r, c)
    BY Zenon DEF State
<1>2. Extended(s, s2) /\ m \in DOMAIN s2 /\ s2[m] = x /\ m \in Nat
    BY Zenon DEF Grown
<1>3. Good(u2, d, s2, r)
    BY ONLY <1>1, <1>2, PushGood, Pushed(t, ps, u, u2), Fresh(t, ps, s, s2), t \in Thread, Zenon
<1>4. Sound(u, d, s) /\ s \in Seq(Message) /\ r \in [Gid -> Seq(Nat)]
      /\ \A g \in Gid : \A i \in DOMAIN r[g] : r[g][i] \in DOMAIN s
    BY ONLY <1>1, Zenon DEF Good, Typed
<1>5. Good(u2, d, s2, r2)
    <2>1. CASE to = {}
        <3>1. r2 = r
            BY <1>4, <2>1, Zenon DEF HandedOut
        <3> QED
            BY ONLY <1>3, <3>1, Zenon
    <2>2. CASE to # {}
        <3>1. \A g \in to : /\ g \in Gid /\ Home(g) = Home(s2[m].source)
                            /\ s2[m].to # {} => g \in s2[m].to
                            /\ \A i \in DOMAIN r[g] : r[g][i] < m
            BY ONLY <1>2, <1>4, Served(x, m, to, ps, c, c2), Grown(s, s2, x, m), Zenon DEF Served, Grown
        <3>2. s2[m].source \in Gid
            BY ONLY <1>2, <2>2, Served(x, m, to, ps, c, c2), Zenon DEF Served
        <3> QED
            BY ONLY <1>2, <1>3, <3>1, <3>2, HandoutGood, HandedOut(to, m, r, r2), Zenon
    <2> QED
        BY ONLY <2>1, <2>2, Zenon
<1>6. Calm(c, c2)
    BY Zenon DEF Served
<1>7. Waiting(d, c2)
    BY ONLY <1>1, <1>4, <1>6, WaitingSame, Zenon
<1>8. \A g \in Gid : /\ c[g] \in Opened => c2[g] \in Opened
                     /\ c2[g] = "open" => c[g] = "open"
    BY ONLY <1>6, Zenon DEF Calm, Opened
<1>9. s2 \in Seq(Message) /\ \A n \in DOMAIN s : n \in DOMAIN s2 /\ s2[n] = s[n]
    BY ONLY <1>2, Zenon DEF Extended
<1>10. Engaged(s2, c2)
    <2>1. Engaged(s, c2)
        BY ONLY <1>1, <1>4, <1>8, EngagedSame, Zenon
    <2>2. \A n \in DOMAIN s2 : n \in DOMAIN s \/ n = m
        BY Zenon DEF Grown
    <2>3. /\ \A g \in x.reach : c2[g] \in Opened
          /\ x.source \in Gid => c2[x.source] \in Opened
        BY ONLY <1>8, Served(x, m, to, ps, c, c2), Zenon DEF Served
    <2> QED
        BY ONLY <1>2, <1>9, <2>1, <2>2, <2>3, Zenon DEF Engaged
<1>11. NoneLost(u2, d, s2, r2, c2)
    <2> SUFFICES ASSUME NEW n \in DOMAIN s2, NEW g \in s2[n].reach, c2[g] = "open"
                 PROVE  Has(r2, g, n) \/ Way(n, g, u2, d)
        BY Zenon DEF NoneLost
    <2>1. g \in Gid
        BY ONLY <1>9, ReachFacts, n \in DOMAIN s2, g \in s2[n].reach, Zenon
    <2>2. Keeps(to, g, m, r, r2)
        BY ONLY <1>2, <1>4, <2>1, HasKept, HandedOut(to, m, r, r2), Zenon
    <2>3. CASE n \in DOMAIN s
        <3>1. Has(r, g, n) \/ Way(n, g, u, d)
            BY ONLY <1>1, <1>8, <1>9, <2>1, <2>3, g \in s2[n].reach, c2[g] = "open", Zenon DEF NoneLost
        <3>2. Way(n, g, u, d) => Way(n, g, u2, d)
            BY ONLY <1>1, <2>1, WayPush, Pushed(t, ps, u, u2), t \in Thread, Zenon
        <3> QED
            BY ONLY <2>2, <3>1, <3>2, Zenon DEF Keeps
    <2>4. CASE n = m
        <3>1. g \in to \/ \E i \in DOMAIN ps : Heads(ps[i], g) /\ ps[i].inner.id = m
            BY ONLY <1>2, <2>4, g \in s2[n].reach, c2[g] = "open", Served(x, m, to, ps, c, c2), Zenon DEF Served
        <3>2. (\E i \in DOMAIN ps : Heads(ps[i], g) /\ ps[i].inner.id = m) => Way(m, g, u2, d)
            BY ONLY <1>1, <2>1, WayPush, Pushed(t, ps, u, u2), t \in Thread, Zenon
        <3> QED
            BY ONLY <2>2, <2>4, <3>1, <3>2, Zenon DEF Keeps
    <2> QED
        BY <2>3, <2>4, Zenon DEF Grown
<1> QED
    BY ONLY <1>5, <1>6, <1>7, <1>10, <1>11, Zenon DEF State, Calm


(* Thread t queues packages that bring no client a message.                *)
Silent(t, ps, s) ==
    \A i \in DOMAIN ps : UpFits(ps[i], t, s) /\ \A g \in Gid : ~Heads(ps[i], g)

LEMMA StatePush ==
    ASSUME NEW u, NEW d, NEW s, NEW r, NEW c, State(u, d, s, r, c),
           NEW t \in Thread, NEW ps, NEW u2, Pushed(t, ps, u, u2), Silent(t, ps, s),
           NEW c2, Calm(c, c2)
    PROVE  State(u2, d, s, r, c2)
<1>1. Good(u, d, s, r) /\ Waiting(d, c) /\ Engaged(s, c) /\ NoneLost(u, d, s, r, c)
    BY Zenon DEF State
<1>2. Sound(u, d, s) /\ s \in Seq(Message)
    BY ONLY <1>1, Zenon DEF Good, Typed
<1>3. Extended(s, s) /\ Fresh(t, ps, s, s)
    BY ONLY <1>2, Silent(t, ps, s), Zenon DEF Extended, Fresh, Silent
<1>4. Good(u2, d, s, r)
    BY ONLY <1>1, <1>3, PushGood, Pushed(t, ps, u, u2), t \in Thread, Zenon
<1>5. Waiting(d, c2)
    BY ONLY <1>1, <1>2, WaitingSame, Calm(c, c2), Zenon
<1>6. \A g \in Gid : /\ c[g] \in Opened => c2[g] \in Opened
                     /\ c2[g] = "open" => c[g] = "open"
    BY ONLY Calm(c, c2), Zenon DEF Calm, Opened
<1>7. Engaged(s, c2)
    BY ONLY <1>1, <1>2, <1>6, EngagedSame, Zenon
<1>8. NoneLost(u2, d, s, r, c2)
    <2> SUFFICES ASSUME NEW n \in DOMAIN s, NEW g \in s[n].reach, c2[g] = "open"
                 PROVE  Has(r, g, n) \/ Way(n, g, u2, d)
        BY Zenon DEF NoneLost
    <2>1. g \in Gid
        BY ONLY <1>2, ReachFacts, n \in DOMAIN s, g \in s[n].reach, Zenon
    <2>2. Has(r, g, n) \/ Way(n, g, u, d)
        BY ONLY <1>1, <1>6, <2>1, n \in DOMAIN s, g \in s[n].reach, c2[g] = "open", Zenon DEF NoneLost
    <2>3. Way(n, g, u, d) => Way(n, g, u2, d)
        BY ONLY <1>1, <2>1, WayPush, Pushed(t, ps, u, u2), t \in Thread, Zenon
    <2> QED
        BY ONLY <2>2, <2>3, Zenon
<1> QED
    BY ONLY <1>4, <1>5, <1>7, <1>8, Calm(c, c2), Zenon DEF State, Calm

LEMMA StateCalm ==
    ASSUME NEW u, NEW d, NEW s, NEW r, NEW c, State(u, d, s, r, c), NEW c2, Calm(c, c2)
    PROVE  State(u, d, s, r, c2)
<1>1. Good(u, d, s, r) /\ Waiting(d, c) /\ Engaged(s, c) /\ NoneLost(u, d, s, r, c)
    BY Zenon DEF State
<1>2. Sound(u, d, s) /\ s \in Seq(Message)
    BY ONLY <1>1, Zenon DEF Good, Typed
<1>3. Waiting(d, c2)
    BY ONLY <1>1, <1>2, WaitingSame, Calm(c, c2), Zenon
<1>4. \A g \in Gid : /\ c[g] \in Opened => c2[g] \in Opened
                     /\ c2[g] = "open" => c[g] = "open"
    BY ONLY Calm(c, c2), Zenon DEF Calm, Opened
<1>5. Engaged(s, c2)
    BY ONLY <1>1, <1>2, <1>4, EngagedSame, Zenon
<1>6. \A n \in DOMAIN s : s[n].reach \subseteq Gid
    BY ONLY <1>2, ReachFacts, Zenon
<1>7. NoneLost(u, d, s, r, c2)
    BY ONLY <1>1, <1>4, <1>6, Zenon DEF NoneLost
<1> QED
    BY ONLY <1>1, <1>3, <1>5, <1>7, Calm(c, c2), Zenon DEF State, Calm

LEMMA StateAnnounce ==
    ASSUME NEW u, NEW d, NEW s, NEW r, NEW c, State(u, d, s, r, c), NEW g \in Gid, c[g] = "unborn",
           NEW d2, Announced(g, d, d2), NEW c2, c2 = [c EXCEPT ![g] = "handed"]
    PROVE  State(u, d2, s, r, c2)
<1>1. Good(u, d, s, r) /\ Waiting(d, c) /\ Engaged(s, c) /\ NoneLost(u, d, s, r, c)
      /\ c \in [Gid -> Stage]
    BY Zenon DEF State
<1>2. Sound(u, d, s) /\ s \in Seq(Message)
    BY ONLY <1>1, Zenon DEF Good, Typed
<1>3. /\ Good(u, d2, s, r)
      /\ Joined(Home(g), [source |-> main_id, inner |-> NewClient(g)], d, d2)
    BY ONLY <1>1, AnnounceGood, Announced(g, d, d2), g \in Gid, Zenon
<1>4. Waiting(d2, c2)
    BY ONLY <1>1, <1>2, <1>3, WaitingAnnounce, g \in Gid, c[g] = "unborn", c2 = [c EXCEPT ![g] = "handed"], Zenon
<1>5. /\ c2 \in [Gid -> Stage]
      /\ \A x \in Gid : c[x] \in Opened => c2[x] \in Opened
      /\ \A x \in Gid : c2[x] = "open" => c[x] = "open"
    BY ONLY <1>1, g \in Gid, c[g] = "unborn", c2 = [c EXCEPT ![g] = "handed"], Zenon DEF Stage, Opened
<1>6. Engaged(s, c2)
    BY ONLY <1>1, <1>2, <1>5, EngagedSame, Zenon
<1>7. NoneLost(u, d2, s, r, c2)
    <2> SUFFICES ASSUME NEW n \in DOMAIN s, NEW h \in s[n].reach, c2[h] = "open"
                 PROVE  Has(r, h, n) \/ Way(n, h, u, d2)
        BY Zenon DEF NoneLost
    <2>1. h \in Gid
        BY ONLY <1>2, ReachFacts, n \in DOMAIN s, h \in s[n].reach, Zenon
    <2>2. Has(r, h, n) \/ Way(n, h, u, d)
        BY ONLY <1>1, <1>5, <2>1, n \in DOMAIN s, h \in s[n].reach, c2[h] = "open", Zenon DEF NoneLost
    <2>3. Way(n, h, u, d) => Way(n, h, u, d2)
        BY ONLY <1>1, <2>1, WayAnnounce, Announced(g, d, d2), g \in Gid, Zenon
    <2> QED
        BY ONLY <2>2, <2>3, Zenon
<1> QED
    BY ONLY <1>3, <1>4, <1>5, <1>6, <1>7, Zenon DEF State


-----------------------------------------------------------------------------
(* The steps.                                                              *)

LEMMA OnePackage ==
    ASSUME NEW u, NEW d, NEW s, NEW r, Good(u, d, s, r), NEW t \in Thread, NEW dest \in SUBSET Thread,
           NEW inner \in Inner, NEW u2, u2 = [u EXCEPT ![t] = tunnel_forward(@, t, dest, inner)]
    PROVE  \E ps : Pushed(t, ps, u, u2) /\ AtMostOne(ps, t, dest, inner)
<1>1. u \in [Thread -> Seq(UpPackage)] /\ u[t] \in Seq(UpPackage)
    BY Zenon DEF Good, Typed
<1>2. tunnel_forward(u[t], t, dest, inner) = u[t] \o Packed(t, dest, inner)
    BY ONLY <1>1, ForwardOne, t \in Thread, dest \in SUBSET Thread, inner \in Inner, Zenon
<1>3. AtMostOne(Packed(t, dest, inner), t, dest, inner)
    BY ONLY PackedFacts, t \in Thread, dest \in SUBSET Thread, inner \in Inner, Zenon
<1>4. Pushed(t, Packed(t, dest, inner), u, u2)
    BY <1>2, <1>3, Zenon DEF Pushed, AtMostOne
<1> QED
    BY ONLY <1>3, <1>4, Zenon

LEMMA RouteStep ==
    ASSUME State(up, down, sent, received, client), NEW t \in Thread, route(t)
    PROVE  State(up', down', sent', received', client')
<1> DEFINE p == Head(up[t])
           c == [source |-> p.source, inner |-> p.inner]
<1>1. Routed(t, p, c, up, down, up', down')
    BY Zenon DEF route, Routed
<1>2. sent' = sent /\ received' = received /\ client' = client
    BY Zenon DEF route
<1> HIDE DEF p, c
<1>3. State(up', down', sent, received, client)
    BY ONLY <1>1, StateRoute, State(up, down, sent, received, client), t \in Thread, Zenon
<1> QED
    BY ONLY <1>2, <1>3, Zenon

LEMMA ListenStep ==
    ASSUME State(up, down, sent, received, client), NEW g \in Gid, on_listen_event(g)
    PROVE  State(up', down', sent', received', client')
<1>1. /\ Announced(g, down, down') /\ client[g] = "unborn"
      /\ client' = [client EXCEPT ![g] = "handed"]
    BY Zenon DEF on_listen_event, Announced, Home
<1>2. sent' = sent /\ received' = received /\ up' = up
    BY Zenon DEF on_listen_event
<1>3. State(up, down', sent, received, client')
    BY ONLY <1>1, StateAnnounce, State(up, down, sent, received, client), g \in Gid, Zenon
<1> QED
    BY ONLY <1>2, <1>3, Zenon

LEMMA SetCloseStep ==
    ASSUME State(up, down, sent, received, client), NEW g \in Gid, set_is_close(g)
    PROVE  State(up', down', sent', received', client')
<1>1. Calm(client, client')
    BY Zenon DEF State, set_is_close, Calm, Stage, Opened
<1>2. sent' = sent /\ received' = received /\ up' = up /\ down' = down
    BY Zenon DEF set_is_close
<1>3. State(up, down, sent, received, client')
    BY ONLY <1>1, StateCalm, State(up, down, sent, received, client), Zenon
<1> QED
    BY ONLY <1>2, <1>3, Zenon

(* What a worker tells the Lua VM brings no client a message.              *)
LEMMA VMPackage ==
    ASSUME NEW s, NEW g \in Gid, NEW e, NEW w, w = Home(g), NEW ps,
           AtMostOne(ps, w, {other_id}, ToVM(g, e))
    PROVE  Silent(w, ps, s)
<1>1. ToVM(g, e).cmd = "WORKER2OTHER_LUAVM" /\ ToVM(g, e).gid = g
    BY Zenon DEF ToVM
<1> QED
    BY <1>1, Zenon DEF Silent, AtMostOne, UpFits, Fits, Heads, Brings

LEMMA CloseStep ==
    ASSUME State(up, down, sent, received, client), NEW g \in Gid, close_client_fd(g)
    PROVE  State(up', down', sent', received', client')
<1>1. Calm(client, client')
    BY Zenon DEF State, close_client_fd, Calm, Stage, Opened
<1>2. sent' = sent /\ received' = received /\ down' = down
    BY Zenon DEF close_client_fd
<1>3. PICK ps : Pushed(Home(g), ps, up, up') /\ AtMostOne(ps, Home(g), {other_id}, ToVM(g, CloseEvent))
    <2>1. up' = [up EXCEPT ![Home(g)] = tunnel_forward(@, Home(g), {other_id}, ToVM(g, CloseEvent))]
        BY Zenon DEF close_client_fd, Home
    <2>2. ToVM(g, CloseEvent) \in Inner /\ Home(g) \in Thread /\ {other_id} \in SUBSET Thread
        BY InnerTypes, Ids DEF CloseEvent
    <2>3. Good(up, down, sent, received)
        BY Zenon DEF State
    <2> QED
        BY ONLY <2>1, <2>2, <2>3, OnePackage, Zenon
<1>4. Silent(Home(g), ps, sent)
    BY ONLY <1>3, VMPackage, g \in Gid, Zenon
<1>5. State(up', down, sent, received, client')
    BY ONLY <1>1, <1>3, <1>4, StatePush, Ids, State(up, down, sent, received, client), g \in Gid, Zenon
<1> QED
    BY ONLY <1>2, <1>5, Zenon


LEMMA RecvStep ==
    ASSUME State(up, down, sent, received, client), NEW g \in Gid, NEW e \in Int,
           on_recv_package(g, e)
    PROVE  State(up', down', sent', received', client')
<1> DEFINE m == Len(sent) + 1
           x == [source |-> g, to |-> {other_id}, reach |-> {}, event |-> e]
<1>1. /\ Good(up, down, sent, received) /\ sent \in Seq(Message) /\ received \in [Gid -> Seq(Nat)]
      /\ client \in [Gid -> Stage]
    BY Zenon DEF State, Good, Typed
<1>2. client' = client /\ received' = received /\ down' = down /\ client[g] = "open"
    BY Zenon DEF on_recv_package
<1>3. x \in Message
    BY DEF Message, other_id
<1>4. Grown(sent, sent', x, m)
    <2>1. sent' = Append(sent, x)
        BY Zenon DEF on_recv_package
    <2> HIDE DEF x
    <2> QED
        BY ONLY <1>1, <1>3, <2>1, SentFacts, Zenon DEF m
<1>5. PICK ps : Pushed(Home(g), ps, up, up') /\ AtMostOne(ps, Home(g), {other_id}, ToVM(g, e))
    <2>1. up' = [up EXCEPT ![Home(g)] = tunnel_forward(@, Home(g), {other_id}, ToVM(g, e))]
        BY Zenon DEF on_recv_package, Home
    <2>2. ToVM(g, e) \in Inner /\ Home(g) \in Thread /\ {other_id} \in SUBSET Thread
        BY InnerTypes, Ids, Zenon
    <2> QED
        BY ONLY <1>1, <2>1, <2>2, OnePackage, Zenon
<1>6. x.source = g /\ x.reach = {}
    BY Zenon
<1> HIDE DEF x, m
<1>7. Fresh(Home(g), ps, sent, sent')
    <2>1. Silent(Home(g), ps, sent')
        BY ONLY <1>5, VMPackage, g \in Gid, Zenon
    <2> QED
        BY ONLY <2>1, Zenon DEF Fresh, Silent
<1>8. HandedOut({}, m, received, received')
    BY ONLY <1>1, <1>2, Zenon DEF HandedOut
<1>9. Served(x, m, {}, ps, client, client')
    BY ONLY <1>1, <1>2, <1>6, g \in Gid, Zenon DEF Served, Calm, Opened
<1>10. State(up', down, sent', received', client')
    BY ONLY <1>4, <1>5, <1>7, <1>8, <1>9, StateSend, Ids, State(up, down, sent, received, client), g \in Gid, Zenon
<1> QED
    BY ONLY <1>2, <1>10, Zenon

LEMMA LuaCloseStep ==
    ASSUME State(up, down, sent, received, client), NEW g \in Gid, lua_closes(g)
    PROVE  State(up', down', sent', received', client')
<1> DEFINE m == Len(sent) + 1
           x == [source |-> other_id, to |-> {}, reach |-> {}, event |-> Nothing]
<1>1. /\ Good(up, down, sent, received) /\ sent \in Seq(Message) /\ received \in [Gid -> Seq(Nat)]
      /\ client \in [Gid -> Stage]
    BY Zenon DEF State, Good, Typed
<1>2. client' = client /\ received' = received /\ down' = down
    BY Zenon DEF lua_closes
<1>3. x \in Message
    BY Events, Zenon DEF Message
<1>4. Grown(sent, sent', x, m)
    <2>1. sent' = Append(sent, x)
        BY Zenon DEF lua_closes
    <2> HIDE DEF x
    <2> QED
        BY ONLY <1>1, <1>3, <2>1, SentFacts, Zenon DEF m
<1>5. PICK ps : Pushed(other_id, ps, up, up') /\ AtMostOne(ps, other_id, {Home(g)}, CloseConn(g))
    <2>1. up' = [up EXCEPT ![other_id] = tunnel_forward(@, other_id, {Home(g)}, CloseConn(g))]
        BY Zenon DEF lua_closes, Home
    <2>3. CloseConn(g) \in Inner /\ other_id \in Thread /\ {Home(g)} \in SUBSET Thread
        BY InnerTypes, Ids, Zenon
    <2> QED
        BY ONLY <1>1, <2>1, <2>3, OnePackage, Zenon
<1>6. x.source = other_id /\ x.reach = {}
    BY Zenon
<1> HIDE DEF x, m
<1>7. Fresh(other_id, ps, sent, sent')
    <2>1. CloseConn(g).cmd = "OTHERLUAVM2WORKER_CLOSE" /\ CloseConn(g).gid = g
        BY Zenon DEF CloseConn
    <2>2. Silent(other_id, ps, sent')
        BY ONLY <1>5, <2>1, g \in Gid, Zenon DEF Silent, AtMostOne, UpFits, Fits, Heads, Brings
    <2> QED
        BY ONLY <2>2, Zenon DEF Fresh, Silent
<1>8. HandedOut({}, m, received, received')
    BY ONLY <1>1, <1>2, Zenon DEF HandedOut
<1>9. Served(x, m, {}, ps, client, client')
    <2>1. other_id \notin Gid
        BY Ids, Zenon
    <2> QED
        BY ONLY <1>1, <1>2, <1>6, <2>1, Zenon DEF Served, Calm
<1>10. State(up', down, sent', received', client')
    BY ONLY <1>4, <1>5, <1>7, <1>8, <1>9, StateSend, Ids, State(up, down, sent, received, client), Zenon
<1> QED
    BY ONLY <1>2, <1>10, Zenon

LEMMA LuaSendStep ==
    ASSUME State(up, down, sent, received, client), NEW g \in Gid, lua_sends(g)
    PROVE  State(up', down', sent', received', client')
<1> DEFINE m == Len(sent) + 1
           x == [source |-> other_id, to |-> {g}, reach |-> Reach({g}), event |-> Nothing]
<1>1. /\ Good(up, down, sent, received) /\ sent \in Seq(Message) /\ received \in [Gid -> Seq(Nat)]
      /\ client \in [Gid -> Stage]
    BY Zenon DEF State, Good, Typed
<1>2. client' = client /\ received' = received /\ down' = down
    BY Zenon DEF lua_sends
<1>3. x \in Message
    BY RouterAssumption, Events DEF Message, Reach
<1>4. Grown(sent, sent', x, m)
    <2>1. sent' = Append(sent, x)
        BY Zenon DEF lua_sends
    <2> HIDE DEF x
    <2> QED
        BY ONLY <1>1, <1>3, <2>1, SentFacts, Zenon DEF m
<1>5. PICK ps : Pushed(other_id, ps, up, up') /\ AtMostOne(ps, other_id, {Home(g)}, ToConn(g, m))
    <2>1. up' = [up EXCEPT ![other_id] = tunnel_forward(@, other_id, {Home(g)}, ToConn(g, m))]
        BY Zenon DEF lua_sends, Home
    <2>2. m \in Nat
        BY ONLY <1>4, Zenon DEF Grown
    <2> HIDE DEF m
    <2>3. ToConn(g, m) \in Inner /\ other_id \in Thread /\ {Home(g)} \in SUBSET Thread
        BY <2>2, InnerTypes, Ids, Zenon
    <2> QED
        BY ONLY <1>1, <2>1, <2>3, OnePackage, Zenon
<1>6. x.source = other_id /\ x.to = {g} /\ \A h \in x.reach : h = g /\ client[h] = "open"
    BY Zenon DEF Reach
<1> HIDE DEF x, m
<1>7. ToConn(g, m).cmd = "OTHERLUAVM2WORKERCONN" /\ ToConn(g, m).gid = g /\ ToConn(g, m).id = m
    BY Zenon DEF ToConn
<1>8. Fresh(other_id, ps, sent, sent')
    <2>1. \A i, j \in DOMAIN ps : ~(i < j)
        BY ONLY <1>5 DEF AtMostOne
    <2>2. \A i \in DOMAIN ps : UpFits(ps[i], other_id, sent')
        BY ONLY <1>4, <1>5, <1>6, <1>7, g \in Gid, Zenon DEF AtMostOne, UpFits, Fits, Grown
    <2>3. \A i \in DOMAIN ps : \A n \in DOMAIN sent : n < ps[i].inner.id
        BY ONLY <1>4, <1>5, <1>7, Zenon DEF AtMostOne, Grown
    <2> QED
        BY ONLY <2>1, <2>2, <2>3, Zenon DEF Fresh
<1>9. HandedOut({}, m, received, received')
    BY ONLY <1>1, <1>2, Zenon DEF HandedOut
<1>10. Served(x, m, {}, ps, client, client')
    <2>1. other_id \notin Gid
        BY Ids, Zenon
    <2>2. 1 \in DOMAIN ps /\ Heads(ps[1], g) /\ ps[1].inner.id = m
        BY ONLY <1>5, <1>7, Zenon DEF AtMostOne, Heads, Brings
    <2>3. \A h \in x.reach : /\ h \in Gid /\ client[h] \in Opened
                             /\ \E i \in DOMAIN ps : Heads(ps[i], h) /\ ps[i].inner.id = m
        BY ONLY <1>6, <2>2, g \in Gid, Zenon DEF Opened
    <2>4. Calm(client, client')
        BY ONLY <1>1, <1>2, Zenon DEF Calm
    <2> QED
        BY ONLY <1>6, <2>1, <2>3, <2>4, Zenon DEF Served
<1>11. State(up', down, sent', received', client')
    BY ONLY <1>4, <1>5, <1>8, <1>9, <1>10, StateSend, Ids, State(up, down, sent, received, client), Zenon
<1> QED
    BY ONLY <1>2, <1>11, Zenon


(* What send_client_forward_message does to the clients of worker w.       *)
LEMMA SendCalm ==
    ASSUME NEW w, NEW gids, NEW m, NEW ps, NEW full, Sends(w, gids, m, ps, full), client \in [Gid -> Stage]
    PROVE  /\ Calm(client, client')
           /\ \A g \in Addressed(w, gids) \ full : /\ g \in Gid /\ Home(g) = w /\ client[g] = "open"
                                                   /\ gids # {} => g \in gids
           /\ \A g \in Gid : /\ Home(g) = w /\ client'[g] = "open" /\ (gids # {} => g \in gids)
                             => g \in Addressed(w, gids) \ full
<1>1. full \subseteq Addressed(w, gids)
      /\ client' = [g \in Gid |-> IF g \in full THEN "closing" ELSE client[g]]
    BY Zenon DEF Sends
<1>2. \A g : g \in Addressed(w, gids) <=> /\ g \in Gid /\ client[g] = "open" /\ Home(g) = w
                                          /\ gids # {} => g \in gids
    BY Zenon DEF Addressed, Home
<1>3. Calm(client, client')
    BY ONLY <1>1, <1>2, client \in [Gid -> Stage], Zenon DEF Calm, Stage, Opened
<1>4. \A g \in Gid : client'[g] = "open" => client[g] = "open" /\ g \notin full
    BY ONLY <1>1, Zenon
<1> QED
    BY ONLY <1>2, <1>3, <1>4, Zenon

LEMMA ForwardStep ==
    ASSUME State(up, down, sent, received, client), start \in Start, NEW g \in Gid,
           NEW gids \in SUBSET start.named, client_forwards(g, gids)
    PROVE  State(up', down', sent', received', client')
<1> DEFINE m == Len(sent) + 1
           x == [source |-> g, to |-> gids, reach |-> Reach(gids), event |-> Nothing]
           w == Home(g)
<1>1. /\ Good(up, down, sent, received) /\ sent \in Seq(Message) /\ received \in [Gid -> Seq(Nat)]
      /\ client \in [Gid -> Stage]
    BY Zenon DEF State, Good, Typed
<1>2. gids \in SUBSET Nat
    BY RouterAssumption, Zenon
<1>3. x \in Message
    BY <1>2, Events DEF Message, Reach
<1>4. down' = down /\ client[g] = "open" /\ sent' = Append(sent, x)
      /\ send_client_forward_message(w, g, gids, m)
    BY Zenon DEF client_forwards, Home
<1>5. /\ x.source = g /\ x.to = gids
      /\ \A h \in x.reach : h \in Gid /\ client[h] = "open" /\ (gids # {} => h \in gids)
    BY Zenon DEF Reach
<1>6. w \in Worker /\ w \in Thread
    BY Ids, Zenon
<1> HIDE DEF x, w
<1>7. Grown(sent, sent', x, m)
    BY ONLY <1>1, <1>3, <1>4, SentFacts, Zenon DEF m
<1> HIDE DEF m
<1>8. m \in Nat
    BY ONLY <1>7, Zenon DEF Grown
<1>9. PICK ps, full : Sends(w, gids, m, ps, full)
    BY ONLY <1>1, <1>2, <1>4, <1>6, <1>8, SendFacts, Zenon
<1>10. /\ Spread(w, m, gids, ps) /\ Pushed(w, ps, up, up')
       /\ HandedOut(Addressed(w, gids) \ full, m, received, received')
    BY ONLY <1>9, Zenon DEF Sends
<1>11. Fresh(w, ps, sent, sent')
    <2>1. \A i \in DOMAIN ps : UpFits(ps[i], w, sent')
        <3>1. Home(g) = w
            BY Zenon DEF w
        <3> QED
            BY ONLY <1>5, <1>7, <1>10, <3>1, g \in Gid, Zenon DEF Spread, UpFits, Fits, Grown
    <2>2. \A i \in DOMAIN ps : \A n \in DOMAIN sent : n < ps[i].inner.id
        BY ONLY <1>7, <1>10 DEF Spread, Grown
    <2>3. \A i, j \in DOMAIN ps : \A h \in Gid : i < j => ~Heads(ps[i], h) \/ ~Heads(ps[j], h)
        BY ONLY <1>10, Zenon DEF Spread, Heads
    <2> QED
        BY ONLY <2>1, <2>2, <2>3, Zenon DEF Fresh
<1>12. Served(x, m, Addressed(w, gids) \ full, ps, client, client')
    <2> DEFINE to == Addressed(w, gids) \ full
    <2>1. /\ Calm(client, client')
          /\ \A h \in to : h \in Gid /\ Home(h) = w /\ (gids # {} => h \in gids)
          /\ \A h \in Gid : Home(h) = w /\ client'[h] = "open" /\ (gids # {} => h \in gids) => h \in to
        BY ONLY <1>1, <1>9, SendCalm
    <2> HIDE DEF to
    <2>2. \A h \in Gid : (gids # {} => h \in gids) /\ Home(h) # w =>
             \E i \in DOMAIN ps : Heads(ps[i], h) /\ ps[i].inner.id = m
        BY ONLY <1>10, Zenon DEF Spread, Heads, Brings
    <2>3. Home(g) = w
        BY Zenon DEF w
    <2>4. \A h \in x.reach : /\ h \in Gid /\ client[h] \in Opened
                             /\ client'[h] = "open" => \/ h \in to
                                                       \/ \E i \in DOMAIN ps : Heads(ps[i], h) /\ ps[i].inner.id = m
        BY ONLY <1>5, <2>1, <2>2, Zenon DEF Opened
    <2>5. Served(x, m, to, ps, client, client')
        BY ONLY <1>4, <1>5, <2>1, <2>3, <2>4, g \in Gid, Zenon DEF Served, Opened
    <2> QED
        BY ONLY <2>5, Zenon DEF to
<1>13. State(up', down, sent', received', client')
    BY ONLY <1>6, <1>7, <1>10, <1>11, <1>12, StateSend, State(up, down, sent, received, client), Zenon
<1> QED
    BY ONLY <1>4, <1>13, Zenon


-----------------------------------------------------------------------------
(* Packages that are taken from a tunnel.                                  *)

(* The package p at the head of a queue from main.                         *)
Taken(w, p) ==
    /\ p = Head(down[w]) /\ Dropped(w, down, down')
    /\ p.inner \in Inner /\ DownFits(p, w, sent)

LEMMA TakenFacts ==
    ASSUME State(up, down, sent, received, client), NEW w \in Thread, down[w] # <<>>,
           down' = [down EXCEPT ![w] = Tail(@)]
    PROVE  Taken(w, Head(down[w]))
<1>1. Dropped(w, down, down')
    BY Zenon DEF Dropped
<1>2. down[w] \in Seq(DownPackage) /\ Sound(up, down, sent)
    BY Zenon DEF State, Good, Typed
<1>3. Head(down[w]) = down[w][1] /\ 1 \in DOMAIN down[w] /\ down[w][1] \in DownPackage
    BY ONLY <1>2, TailFacts, down[w] # <<>>
<1>4. Head(down[w]).inner \in Inner
    BY ONLY <1>3, PackageTypes, Zenon
<1>5. DownFits(Head(down[w]), w, sent)
    BY ONLY <1>2, <1>3, w \in Thread, Zenon DEF Sound
<1> QED
    BY ONLY <1>1, <1>4, <1>5, Zenon DEF Taken

(* A package that brings nobody a message is only taken away.              *)
LEMMA QuietTake ==
    ASSUME State(up, down, sent, received, client), NEW w \in Thread, NEW p, Taken(w, p),
           \A g \in Gid : Home(g) = w => ~Brings(p, g),
           NEW c \in [Gid -> Stage], Calm(client, c) \/ Greeted(p, client, c)
    PROVE  State(up, down', sent, received, c)
<1>1. received \in [Gid -> Seq(Nat)]
    BY Zenon DEF State, Good, Typed
<1>2. HandedOut({}, p.inner.id, received, received)
    BY ONLY <1>1, Zenon DEF HandedOut
<1>3. Receivers(w, p, c, {})
    BY Zenon DEF Receivers
<1>4. p = Head(down[w]) /\ Dropped(w, down, down')
    BY Zenon DEF Taken
<1> QED
    BY ONLY <1>2, <1>3, <1>4, StateTake, State(up, down, sent, received, client),
       w \in Thread, c \in [Gid -> Stage], Calm(client, c) \/ Greeted(p, client, c), SMTT(30)

LEMMA OtherStep ==
    ASSUME State(up, down, sent, received, client), other_on_tunnel_process
    PROVE  State(up', down', sent', received', client')
<1> DEFINE p == Head(down[other_id])
<1>1. /\ down[other_id] # <<>> /\ down' = [down EXCEPT ![other_id] = Tail(@)]
      /\ up' = up /\ sent' = sent /\ received' = received /\ client' = client
    BY Zenon DEF other_on_tunnel_process
<1>2. other_id \in Thread /\ \A g \in Gid : Home(g) # other_id
    BY Ids, Zenon
<1>3. Taken(other_id, p)
    BY ONLY <1>1, <1>2, TakenFacts, State(up, down, sent, received, client), Zenon
<1>4. client \in [Gid -> Stage] /\ Calm(client, client)
    BY Zenon DEF State, Calm
<1> HIDE DEF p
<1>5. State(up, down', sent, received, client)
    BY ONLY <1>2, <1>3, <1>4, QuietTake, State(up, down, sent, received, client), Zenon
<1> QED
    BY ONLY <1>1, <1>5, Zenon

(* on_new_client_fd: the connection opens and the Lua VM is told, or the   *)
(* pool refuses it.                                                        *)
LEMMA NewClientStep ==
    ASSUME State(up, down, sent, received, client), NEW w \in Thread, NEW p, Taken(w, p),
           p.inner.cmd = "MAIN2WORKER_NEW_CLIENT", on_new_client_fd(w, p.inner.gid)
    PROVE  State(up', down', sent, received', client')
<1> DEFINE g == p.inner.gid
<1>1. g \in Gid /\ w = Home(g)
    BY ONLY Taken(w, p), p.inner.cmd = "MAIN2WORKER_NEW_CLIENT", Zenon DEF Taken, DownFits, Fits
<1>2. client \in [Gid -> Stage] /\ (\A h \in Gid : ~Brings(p, h)) /\ received' = received
    BY Zenon DEF State, Brings, on_new_client_fd
<1>3. client' \in [Gid -> Stage] /\ Greeted(p, client, client')
    BY <1>1, <1>2, Zenon DEF on_new_client_fd, Stage, Greeted, IsNew
<1>4. State(up, down', sent, received, client')
    BY ONLY <1>2, <1>3, QuietTake, State(up, down, sent, received, client), w \in Thread, Taken(w, p), Zenon
<1>5. CASE up' = up
    BY ONLY <1>2, <1>4, <1>5, Zenon
<1>6. CASE up' = [up EXCEPT ![w] = tunnel_forward(@, w, {other_id}, ToVM(g, NewEvent))]
    <2>1. Good(up, down', sent, received)
        BY ONLY <1>4, Zenon DEF State
    <2> HIDE DEF g
    <2>2. ToVM(g, NewEvent) \in Inner /\ {other_id} \in SUBSET Thread
        <3>1. NewEvent \in Int
            BY DEF NewEvent
        <3> QED
            BY ONLY <1>1, <3>1, InnerTypes, Ids, Zenon
    <2>3. PICK ps : Pushed(w, ps, up, up') /\ AtMostOne(ps, w, {other_id}, ToVM(g, NewEvent))
        BY ONLY <1>6, <2>1, <2>2, OnePackage, w \in Thread, Zenon
    <2>4. Silent(w, ps, sent)
        BY ONLY <1>1, <2>3, VMPackage, Zenon
    <2>5. Calm(client', client')
        BY ONLY <1>3, Zenon DEF Calm
    <2>6. State(up', down', sent, received, client')
        BY ONLY <1>4, <2>3, <2>4, <2>5, StatePush, w \in Thread, Zenon
    <2> QED
        BY ONLY <1>2, <2>6, Zenon
<1> QED
    BY <1>5, <1>6, Zenon DEF on_new_client_fd


(* handle_tunnel_client_forward_message: the message is handed to the      *)
(* clients that the package names.                                         *)
LEMMA ForwardedStep ==
    ASSUME State(up, down, sent, received, client), NEW w \in Thread, NEW p, Taken(w, p),
           p.inner.cmd = "CLIENT_FORWARD_MESSAGE", NEW full \in SUBSET Addressed(w, p.inner.targetgid),
           HandOut(p.inner.id, Addressed(w, p.inner.targetgid), full)
    PROVE  State(up, down', sent, received', client')
<1> DEFINE to == Addressed(w, p.inner.targetgid) \ full
<1>1. /\ HandedOut(to, p.inner.id, received, received')
      /\ client' = [g \in Gid |-> IF g \in full THEN "closing" ELSE client[g]]
    BY Zenon DEF HandOut, HandedOut
<1>2. client \in [Gid -> Stage]
    BY Zenon DEF State
<1>3. \A g \in Gid : Brings(p, g) <=> (p.inner.targetgid # {} => g \in p.inner.targetgid)
    BY ONLY p.inner.cmd = "CLIENT_FORWARD_MESSAGE", Zenon DEF Brings
<1>4. \A g : g \in Addressed(w, p.inner.targetgid) <=> g \in Gid /\ client[g] = "open" /\ Home(g) = w /\ Brings(p, g)
    BY <1>3, Zenon DEF Addressed, Home
<1>5. Calm(client, client') /\ client' \in [Gid -> Stage]
    BY ONLY <1>1, <1>2, <1>4, full \in SUBSET Addressed(w, p.inner.targetgid), Zenon DEF Calm, Stage, Opened
<1>6. Receivers(w, p, client', to)
    BY ONLY <1>1, <1>4, Zenon DEF Receivers
<1>7. p = Head(down[w]) /\ Dropped(w, down, down')
    BY Zenon DEF Taken
<1> HIDE DEF to
<1> QED
    BY ONLY <1>1, <1>5, <1>6, <1>7, StateTake, State(up, down, sent, received, client), w \in Thread

(* on_worker_tunnel: what the Lua VM sends a client passes through         *)
(* send_client_forward_message, which finds the client at home.            *)
LEMMA AnswerStep ==
    ASSUME State(up, down, sent, received, client), NEW w \in Worker, NEW p, Taken(w, p),
           p.inner.cmd = "OTHERLUAVM2WORKERCONN",
           send_client_forward_message(w, p.inner.gid, {p.inner.gid}, p.inner.id)
    PROVE  State(up', down', sent, received', client')
<1>1. /\ Good(up, down, sent, received) /\ client \in [Gid -> Stage] /\ up \in [Thread -> Seq(UpPackage)]
    BY Zenon DEF State, Good, Typed
<1>2. w \in Thread
    BY Ids, Zenon
<1>3. p.inner.gid \in Gid /\ Home(p.inner.gid) = w /\ p.inner.id \in DOMAIN sent
    BY ONLY <1>2, Ids, Taken(w, p), p.inner.cmd = "OTHERLUAVM2WORKERCONN", Zenon DEF Taken, DownFits, Fits
<1>4. p.inner.id \in Nat
    <2>1. sent \in Seq(Message)
        BY Zenon DEF State, Good, Typed
    <2> QED
        BY ONLY <1>3, <2>1, ReachFacts, Zenon
<1>5. {p.inner.gid} \in SUBSET Nat
    BY ONLY <1>3, Ids, Zenon
<1>6. PICK ps, full : Sends(w, {p.inner.gid}, p.inner.id, ps, full)
    BY ONLY <1>1, <1>4, <1>5, SendFacts, w \in Worker,
            send_client_forward_message(w, p.inner.gid, {p.inner.gid}, p.inner.id), Zenon
<1> DEFINE to == Addressed(w, {p.inner.gid}) \ full
<1>7. /\ Spread(w, p.inner.id, {p.inner.gid}, ps) /\ Pushed(w, ps, up, up')
      /\ HandedOut(to, p.inner.id, received, received')
    BY ONLY <1>6, Zenon DEF Sends
<1>8. up' = up
    <2>1. DOMAIN ps = {} /\ ps \in Seq(UpPackage)
        BY ONLY <1>3, <1>7 DEF Spread
    <2>2. ps = <<>>
        BY ONLY <2>1
    <2>3. up[w] \in Seq(UpPackage)
        BY ONLY <1>1, <1>2, Zenon
    <2>4. up[w] \o ps = up[w]
        BY ONLY <2>2, <2>3
    <2> QED
        BY ONLY <1>1, <1>2, <1>7, <2>4, Zenon DEF Pushed
<1>9. \A g \in Gid : Brings(p, g) <=> g \in {p.inner.gid}
    BY ONLY p.inner.cmd = "OTHERLUAVM2WORKERCONN", Zenon DEF Brings
<1>10. /\ Calm(client, client')
       /\ \A g \in to : g \in Gid /\ Home(g) = w /\ g \in {p.inner.gid}
       /\ \A g \in Gid : Home(g) = w /\ client'[g] = "open" /\ g \in {p.inner.gid} => g \in to
    <2> DEFINE gids == {p.inner.gid}
    <2>1. gids # {}
        BY Zenon
    <2> HIDE DEF gids
    <2>2. Sends(w, gids, p.inner.id, ps, full)
        BY ONLY <1>6, Zenon DEF gids
    <2>3. /\ Calm(client, client')
          /\ \A g \in Addressed(w, gids) \ full : /\ g \in Gid /\ Home(g) = w /\ client[g] = "open"
                                                  /\ gids # {} => g \in gids
          /\ \A g \in Gid : /\ Home(g) = w /\ client'[g] = "open" /\ (gids # {} => g \in gids)
                            => g \in Addressed(w, gids) \ full
        BY ONLY <1>1, <2>2, SendCalm
    <2> QED
        BY ONLY <2>1, <2>3, Zenon DEF gids
<1>11. p = Head(down[w]) /\ Dropped(w, down, down')
    BY Zenon DEF Taken
<1> HIDE DEF to
<1>12. Receivers(w, p, client', to) /\ client' \in [Gid -> Stage]
    BY ONLY <1>9, <1>10, ZenonT(30) DEF Calm, Receivers
<1>13. State(up, down', sent, received', client')
    BY ONLY <1>2, <1>7, <1>10, <1>11, <1>12, StateTake, State(up, down, sent, received, client), ZenonT(30)
<1> QED
    BY ONLY <1>8, <1>13, Zenon

LEMMA WorkerStep ==
    ASSUME State(up, down, sent, received, client), NEW w \in Worker, worker_on_tunnel_process(w)
    PROVE  State(up', down', sent', received', client')
<1> DEFINE p == Head(down[w])
<1>1. down[w] # <<>> /\ down' = [down EXCEPT ![w] = Tail(@)] /\ sent' = sent
    BY Zenon DEF worker_on_tunnel_process
<1>2. w \in Thread
    BY Ids, Zenon
<1>3. Taken(w, p)
    BY ONLY <1>1, <1>2, TakenFacts, State(up, down, sent, received, client), Zenon
<1>4. \/ p.inner.cmd = "MAIN2WORKER_NEW_CLIENT" /\ on_new_client_fd(w, p.inner.gid)
      \/ /\ p.inner.cmd = "CLIENT_FORWARD_MESSAGE" /\ up' = up
         /\ \E full \in SUBSET Addressed(w, p.inner.targetgid) :
               HandOut(p.inner.id, Addressed(w, p.inner.targetgid), full)
      \/ p.inner.cmd \in {"OTHERLUAVM2WORKERCONN", "OTHERLUAVM2WORKER_CLOSE"} /\ on_worker_tunnel(w, p.inner)
    BY Zenon DEF worker_on_tunnel_process
<1> HIDE DEF p
<1>5. CASE p.inner.cmd = "MAIN2WORKER_NEW_CLIENT" /\ on_new_client_fd(w, p.inner.gid)
    <2>1. State(up', down', sent, received', client')
        BY ONLY <1>2, <1>3, <1>5, NewClientStep, State(up, down, sent, received, client), Zenon
    <2> QED
        BY ONLY <1>1, <2>1, Zenon
<1>6. CASE /\ p.inner.cmd = "CLIENT_FORWARD_MESSAGE" /\ up' = up
           /\ \E full \in SUBSET Addressed(w, p.inner.targetgid) :
                 HandOut(p.inner.id, Addressed(w, p.inner.targetgid), full)
    <2>1. State(up, down', sent, received', client')
        BY ONLY <1>2, <1>3, <1>6, ForwardedStep, State(up, down, sent, received, client), Zenon
    <2> QED
        BY ONLY <1>1, <1>6, <2>1, Zenon
<1>7. CASE p.inner.cmd = "OTHERLUAVM2WORKERCONN" /\ on_worker_tunnel(w, p.inner)
    <2>1. send_client_forward_message(w, p.inner.gid, {p.inner.gid}, p.inner.id)
        BY ONLY <1>7, Zenon DEF on_worker_tunnel
    <2>2. State(up', down', sent, received', client')
        BY ONLY <1>3, <1>7, <2>1, AnswerStep, State(up, down, sent, received, client), w \in Worker, Zenon
    <2> QED
        BY ONLY <1>1, <2>2, Zenon
<1>8. CASE p.inner.cmd = "OTHERLUAVM2WORKER_CLOSE" /\ on_worker_tunnel(w, p.inner)
    <2>1. client \in [Gid -> Stage]
        BY Zenon DEF State
    <2>2. /\ client' = [client EXCEPT ![p.inner.gid] = IF @ = "open" THEN "closing" ELSE @]
          /\ up' = up /\ received' = received
        BY ONLY <1>8, Zenon DEF on_worker_tunnel
    <2>3. Calm(client, client') /\ client' \in [Gid -> Stage]
        BY ONLY <2>1, <2>2, Zenon DEF Calm, Stage, Opened
    <2>4. \A g \in Gid : Home(g) = w => ~Brings(p, g)
        BY ONLY <1>8, Zenon DEF Brings
    <2>5. State(up, down', sent, received, client')
        BY ONLY <1>2, <1>3, <2>3, <2>4, QuietTake, State(up, down, sent, received, client), Zenon
    <2> QED
        BY ONLY <1>1, <2>2, <2>5, Zenon
<1> QED
    BY ONLY <1>4, <1>5, <1>6, <1>7, <1>8, Zenon


-----------------------------------------------------------------------------
(* The inductive invariant.                                                *)
IInv == start \in Start /\ State(up, down, sent, received, client)

LEMMA InitState ==
    ASSUME Init
    PROVE  IInv
<1>1. /\ \A t \in Thread : up[t] = <<>> /\ down[t] = <<>>
      /\ \A g \in Gid : received[g] = <<>>
      /\ sent = <<>> /\ start \in Start
    BY Zenon DEF Init
<1>2. Typed(up, down, sent, received)
    <2>1. <<>> \in Seq(UpPackage) /\ <<>> \in Seq(DownPackage) /\ <<>> \in Seq(Message) /\ <<>> \in Seq(Nat)
        OBVIOUS
    <2>2. up \in [Thread -> Seq(UpPackage)] /\ down \in [Thread -> Seq(DownPackage)]
        BY <2>1, Zenon DEF Init
    <2>3. received \in [Gid -> Seq(Nat)] /\ sent \in Seq(Message)
        BY <2>1, Zenon DEF Init
    <2> QED
        BY ONLY <1>1, <2>2, <2>3 DEF Typed
<1>3. client \in [Gid -> Stage]
    BY Zenon DEF Init, Stage
<1>4. Sound(up, down, sent)
    BY ONLY <1>1 DEF Sound
<1>5. Addressees(sent, received)
    BY ONLY <1>1 DEF Addressees
<1>6. \A g \in Gid : Ordered(g, up, down, sent, received)
    <2>1. /\ \A t \in Thread : DOMAIN up[t] = {} /\ DOMAIN down[t] = {}
          /\ \A g \in Gid : DOMAIN received[g] = {}
        BY ONLY <1>1
    <2>2. \A g \in Gid : Home(g) \in Thread
        BY ONLY Ids, Zenon
    <2> QED
        BY ONLY <2>1, <2>2, Zenon DEF Ordered
<1>7. Waiting(down, client) /\ Engaged(sent, client) /\ NoneLost(up, down, sent, received, client)
    BY ONLY <1>1 DEF Waiting, Engaged, NoneLost
<1> QED
    BY ONLY <1>1, <1>2, <1>3, <1>4, <1>5, <1>6, <1>7, Zenon DEF IInv, State, Good

LEMMA MeaningsType ==
    ASSUME State(up, down, sent, received, client)
    PROVE  Meanings \subseteq Int
<1>1. Len(sent) + 1 \in Int
    <2>1. sent \in Seq(Message)
        BY Zenon DEF State, Good, Typed
    <2> QED
        BY ONLY <2>1
<1> QED
    BY ONLY <1>1, Events, Zenon DEF Meanings

LEMMA NextState ==
    ASSUME IInv, [Next]_vars
    PROVE  IInv'
<1>1. State(up, down, sent, received, client) /\ start \in Start
    BY Zenon DEF IInv
<1>2. start' = start
    BY Zenon DEF Next, vars, route, worker_on_tunnel_process, other_on_tunnel_process, on_listen_event,
           client_forwards, on_recv_package, set_is_close, close_client_fd, lua_sends, lua_closes
<1>3. State(up', down', sent', received', client')
    <2>1. ASSUME NEW t \in Thread, route(t) PROVE State(up', down', sent', received', client')
        BY ONLY <1>1, <2>1, RouteStep, Zenon
    <2>2. ASSUME NEW w \in Worker, worker_on_tunnel_process(w)
          PROVE  State(up', down', sent', received', client')
        BY ONLY <1>1, <2>2, WorkerStep, Zenon
    <2>3. ASSUME other_on_tunnel_process PROVE State(up', down', sent', received', client')
        BY ONLY <1>1, <2>3, OtherStep, Zenon
    <2>4. ASSUME NEW g \in Gid, on_listen_event(g) PROVE State(up', down', sent', received', client')
        BY ONLY <1>1, <2>4, ListenStep, Zenon
    <2>5. ASSUME NEW g \in Gid, NEW gids \in SUBSET start.named, client_forwards(g, gids)
          PROVE  State(up', down', sent', received', client')
        BY ONLY <1>1, <2>5, ForwardStep, Zenon
    <2>6. ASSUME NEW g \in Gid, NEW e \in Meanings, on_recv_package(g, e)
          PROVE  State(up', down', sent', received', client')
        BY ONLY <1>1, <2>6, RecvStep, MeaningsType, Zenon
    <2>7. ASSUME NEW g \in Gid, set_is_close(g) PROVE State(up', down', sent', received', client')
        BY ONLY <1>1, <2>7, SetCloseStep, Zenon
    <2>8. ASSUME NEW g \in Gid, close_client_fd(g) PROVE State(up', down', sent', received', client')
        BY ONLY <1>1, <2>8, CloseStep, Zenon
    <2>9. ASSUME NEW g \in Gid, lua_sends(g) PROVE State(up', down', sent', received', client')
        BY ONLY <1>1, <2>9, LuaSendStep, Zenon
    <2>10. ASSUME NEW g \in Gid, lua_closes(g) PROVE State(up', down', sent', received', client')
        BY ONLY <1>1, <2>10, LuaCloseStep, Zenon
    <2>11. CASE UNCHANGED vars
        BY ONLY <1>1, <2>11, Zenon DEF vars
    <2> QED
        BY ONLY <2>1, <2>2, <2>3, <2>4, <2>5, <2>6, <2>7, <2>8, <2>9, <2>10, <2>11, [Next]_vars, Zenon DEF Next
<1> QED
    BY ONLY <1>1, <1>2, <1>3, Zenon DEF IInv

LEMMA Invariance == Spec => []IInv
<1>1. Init => IInv
    BY InitState, Zenon
<1>2. IInv /\ [Next]_vars => IInv'
    BY NextState, Zenon
<1> QED
    BY <1>1, <1>2, PTL DEF Spec


-----------------------------------------------------------------------------
(* What the invariant says of the deliveries.                              *)

LEMMA OrderOfState ==
    ASSUME IInv
    PROVE  DeliveredOnce /\ SourceOrder
<1>1. Good(up, down, sent, received) /\ received \in [Gid -> Seq(Nat)] /\ Addressees(sent, received)
    BY Zenon DEF IInv, State, Good, Typed
<1>2. ASSUME NEW g \in Gid, NEW i \in DOMAIN received[g], NEW j \in DOMAIN received[g], i < j,
             sent[received[g][i]].source = sent[received[g][j]].source
      PROVE  received[g][i] < received[g][j]
    BY ONLY <1>1, <1>2, Zenon DEF Good, Ordered, Before
<1>3. SourceOrder
    BY ONLY <1>2, Zenon DEF SourceOrder
<1>4. ASSUME NEW g \in Gid
      PROVE  /\ IsInjective(received[g])
             /\ \A m \in Range(received[g]) : sent[m].to # {} => g \in sent[m].to
    <2>1. received[g] \in Seq(Nat)
        BY ONLY <1>1, <1>4, Zenon
    <2>2. Len(received[g]) \in Nat /\ DOMAIN received[g] = 1 .. Len(received[g])
          /\ \A i \in DOMAIN received[g] : received[g][i] \in Nat
        BY ONLY <2>1, LenFacts, Zenon
    <2>3. ASSUME NEW i \in DOMAIN received[g], NEW j \in DOMAIN received[g],
                 received[g][i] = received[g][j], i < j
          PROVE  FALSE
        <3>1. received[g][i] < received[g][j]
            BY ONLY <1>2, <1>4, <2>3, Zenon
        <3> QED
            BY ONLY <2>2, <2>3, <3>1
    <2>4. \A i, j \in DOMAIN received[g] : i # j => i < j \/ j < i
        BY ONLY <2>2
    <2>5. IsInjective(received[g])
        BY ONLY <2>3, <2>4, Zenon DEF IsInjective
    <2>6. \A m \in Range(received[g]) : sent[m].to # {} => g \in sent[m].to
        BY ONLY <1>1, <1>4, Zenon DEF Addressees, Range
    <2> QED
        BY ONLY <2>5, <2>6, Zenon
<1> QED
    BY ONLY <1>3, <1>4, Zenon DEF DeliveredOnce

LEMMA AccountOfState ==
    ASSUME IInv
    PROVE  Accounted
<1>1. NoneLost(up, down, sent, received, client) /\ sent \in Seq(Message)
    BY Zenon DEF IInv, State, Good, Typed
<1>2. ASSUME NEW m \in DOMAIN sent, NEW g \in sent[m].reach, client[g] = "open"
      PROVE  m \in Range(received[g]) \/ InFlight(m, g)
    <2>1. \A p : Brings(p, g) /\ p.inner.id = m => Carries(p, m, g)
        BY ONLY TRUE, Zenon DEF Brings, Carries
    <2>2. CASE Has(received, g, m)
        BY ONLY <2>2, Zenon DEF Has, Range
    <2>3. CASE \E j \in DOMAIN down[Home(g)] : Brings(down[Home(g)][j], g) /\ down[Home(g)][j].inner.id = m
        BY ONLY <2>1, <2>3, Zenon DEF InFlight, Range, Home
    <2>4. CASE \E t \in Thread : \E j \in DOMAIN up[t] : Heads(up[t][j], g) /\ up[t][j].inner.id = m
        BY ONLY <2>1, <2>4, Zenon DEF InFlight, Range, Home, Heads
    <2>5. Has(received, g, m) \/ Way(m, g, up, down)
        BY ONLY <1>1, <1>2, Zenon DEF NoneLost
    <2> QED
        BY ONLY <2>2, <2>3, <2>4, <2>5, Zenon DEF Way
<1> QED
    BY ONLY <1>2, Zenon DEF Accounted

-----------------------------------------------------------------------------
(* Picked is a recursive function: that there is one, and what it          *)
(* computes, is shown by induction over a set of numbers, for which the    *)
(* least number outside of it serves.                                      *)
INSTANCE WellFoundedInduction

LEMMA SetInduction ==
    ASSUME NEW S, 0 \in S, \A n \in Nat : n \in S => n + 1 \in S
    PROVE  Nat \subseteq S
<1> DEFINE R == OpToRel(<, Nat)
           T == Nat \ S
<1>1. SUFFICES ASSUME T # {} PROVE FALSE
    BY Zenon
<1>2. IsWellFoundedOn(R, Nat)
    BY NatLessThanWellFounded, Zenon
<1>3. \A x \in Nat : x # 0 => x - 1 \in Nat /\ <<x - 1, x>> \in R
    BY DEF OpToRel
<1> HIDE DEF R
<1>4. PICK x \in T : \A y \in T : ~(<<y, x>> \in R)
    <2>1. T \subseteq Nat
        BY Zenon
    <2> HIDE DEF T
    <2> QED
        BY <1>1, <1>2, <2>1, WFMin, Zenon
<1>5. x - 1 \in Nat /\ x - 1 \in S /\ x \in Nat
    BY <1>3, <1>4, Zenon
<1> QED
    BY <1>5

(* f[k] is what is picked of the first k.                                  *)
Pick(f, keep, val, k) ==
    IF k = 0 THEN <<>> ELSE IF k \in keep THEN Append(f[k - 1], val[k]) ELSE f[k - 1]

Picks(f, n, keep, val) == f = [k \in 0 .. n |-> Pick(f, keep, val, k)]

LEMMA PicksExist ==
    ASSUME NEW n \in Nat, NEW keep, NEW val
    PROVE  \E f : Picks(f, n, keep, val) /\ Picked(n, keep, val) = f[n]
<1> DEFINE S == {j \in Nat : \E f : Picks(f, j, keep, val)}
<1>1. 0 \in S
    <2>1. Picks([k \in 0 .. 0 |-> <<>>], 0, keep, val)
        BY DEF Picks, Pick
    <2> QED
        BY ONLY <2>1, Zenon
<1>2. ASSUME NEW j \in Nat, j \in S PROVE j + 1 \in S
    <2>1. PICK f : Picks(f, j, keep, val)
        BY ONLY <1>2, Zenon
    <2> DEFINE h == [k \in 0 .. j + 1 |-> IF k = j + 1 THEN Pick(f, keep, val, j + 1) ELSE f[k]]
    <2>2. /\ \A k \in 0 .. j : h[k] = f[k]
          /\ h[j + 1] = Pick(f, keep, val, j + 1)
          /\ h = [k \in 0 .. j + 1 |-> h[k]]
        BY ONLY j \in Nat
    <2>3. \A k \in 0 .. j : f[k] = Pick(f, keep, val, k)
        BY ONLY <2>1, Zenon DEF Picks
    <2> HIDE DEF h
    <2>4. ASSUME NEW k \in 0 .. j + 1 PROVE h[k] = Pick(h, keep, val, k)
        <3>1. CASE k = j + 1
            <4>1. k - 1 = j /\ k # 0 /\ j \in 0 .. j
                BY ONLY <3>1, j \in Nat
            <4> QED
                BY ONLY <2>2, <3>1, <4>1, Zenon DEF Pick
        <3>2. CASE k # j + 1 /\ k # 0
            <4>1. k \in 0 .. j /\ k - 1 \in 0 .. j
                BY ONLY <3>2, k \in 0 .. j + 1, j \in Nat
            <4> QED
                BY ONLY <2>2, <2>3, <4>1, Zenon DEF Pick
        <3>3. CASE k = 0
            <4>1. k \in 0 .. j
                BY ONLY <3>3, j \in Nat
            <4> QED
                BY ONLY <2>2, <2>3, <3>3, <4>1, Zenon DEF Pick
        <3> QED
            BY ONLY <3>1, <3>2, <3>3, Zenon
    <2>5. Picks(h, j + 1, keep, val)
        BY ONLY <2>2, <2>4, Zenon DEF Picks
    <2>6. j + 1 \in Nat
        BY ONLY j \in Nat
    <2> QED
        BY ONLY <2>5, <2>6, Zenon
<1>3. Nat \subseteq S
    <2> HIDE DEF S
    <2> QED
        BY ONLY <1>1, <1>2, SetInduction, Zenon
<1>4. \E f : Picks(f, n, keep, val)
    BY ONLY <1>3, n \in Nat, Zenon
<1> QED
    BY ONLY <1>4, Zenon DEF Picked, Picks, Pick

Follows(f, n, keep, val) ==
    /\ f[0] = <<>>
    /\ \A k \in Nat : k + 1 <= n => /\ k + 1 \in keep => f[k + 1] = Append(f[k], val[k + 1])
                                    /\ k + 1 \notin keep => f[k + 1] = f[k]

LEMMA PickedFollows ==
    ASSUME NEW n \in Nat, NEW keep, NEW val
    PROVE  \E f : Follows(f, n, keep, val) /\ Picked(n, keep, val) = f[n]
<1>1. PICK f : Picks(f, n, keep, val) /\ Picked(n, keep, val) = f[n]
    BY ONLY PicksExist, n \in Nat, Zenon
<1>2. \A k \in 0 .. n : f[k] = Pick(f, keep, val, k)
    BY ONLY <1>1, Zenon DEF Picks
<1>3. 0 \in 0 .. n /\ \A k \in Nat : k + 1 <= n => k + 1 \in 0 .. n /\ k + 1 # 0 /\ (k + 1) - 1 = k
    BY ONLY n \in Nat
<1>4. Follows(f, n, keep, val)
    BY ONLY <1>2, <1>3, Zenon DEF Pick, Follows
<1> QED
    BY ONLY <1>1, <1>4, Zenon

(* The same is picked from the same values.                                *)
Alike(n, keep, val, keep2, val2) ==
    \A k \in Nat : k + 1 <= n => /\ k + 1 \in keep <=> k + 1 \in keep2
                                 /\ k + 1 \in keep => val[k + 1] = val2[k + 1]

LEMMA FollowsAlike ==
    ASSUME NEW n \in Nat, NEW n2 \in Nat, n <= n2, NEW keep, NEW val, NEW keep2, NEW val2,
           Alike(n, keep, val, keep2, val2),
           NEW f, Follows(f, n, keep, val), NEW f2, Follows(f2, n2, keep2, val2)
    PROVE  f[n] = f2[n]
<1> DEFINE S == {k \in Nat : k <= n => f[k] = f2[k]}
<1>1. 0 \in S
    BY ONLY Follows(f, n, keep, val), Follows(f2, n2, keep2, val2), Zenon DEF Follows
<1>2. ASSUME NEW k \in Nat, k \in S PROVE k + 1 \in S
    <2>1. k + 1 \in Nat /\ (k + 1 <= n => k <= n /\ k + 1 <= n2)
        BY ONLY k \in Nat, n \in Nat, n2 \in Nat, n <= n2
    <2>2. ASSUME k + 1 <= n PROVE f[k + 1] = f2[k + 1]
        <3>1. f[k] = f2[k] /\ k + 1 <= n2
            BY ONLY <1>2, <2>1, <2>2, Zenon
        <3>2. /\ k + 1 \in keep <=> k + 1 \in keep2
              /\ k + 1 \in keep => val[k + 1] = val2[k + 1]
            BY ONLY <2>2, k \in Nat, Alike(n, keep, val, keep2, val2), Zenon DEF Alike
        <3>3. /\ k + 1 \in keep => f[k + 1] = Append(f[k], val[k + 1])
              /\ k + 1 \notin keep => f[k + 1] = f[k]
            BY ONLY <2>2, k \in Nat, Follows(f, n, keep, val), Zenon DEF Follows
        <3>4. /\ k + 1 \in keep2 => f2[k + 1] = Append(f2[k], val2[k + 1])
              /\ k + 1 \notin keep2 => f2[k + 1] = f2[k]
            BY ONLY <3>1, k \in Nat, Follows(f2, n2, keep2, val2), Zenon DEF Follows
        <3> QED
            BY ONLY <3>1, <3>2, <3>3, <3>4, Zenon
    <2> QED
        BY ONLY <2>1, <2>2, Zenon
<1>3. Nat \subseteq S
    <2> HIDE DEF S
    <2> QED
        BY ONLY <1>1, <1>2, SetInduction, Zenon
<1>4. n <= n
    BY ONLY n \in Nat
<1> QED
    BY ONLY <1>3, <1>4, n \in Nat, Zenon

LEMMA PickedAlike ==
    ASSUME NEW n \in Nat, NEW keep, NEW val, NEW keep2, NEW val2,
           Alike(n, keep, val, keep2, val2)
    PROVE  Picked(n, keep, val) = Picked(n, keep2, val2)
<1>1. PICK f : Follows(f, n, keep, val) /\ Picked(n, keep, val) = f[n]
    BY ONLY PickedFollows, n \in Nat, Zenon
<1>2. PICK f2 : Follows(f2, n, keep2, val2) /\ Picked(n, keep2, val2) = f2[n]
    BY ONLY PickedFollows, n \in Nat, Zenon
<1>3. n <= n
    BY ONLY n \in Nat
<1> QED
    BY ONLY <1>1, <1>2, <1>3, FollowsAlike, n \in Nat, Alike(n, keep, val, keep2, val2), SMTT(30)

LEMMA PickedNone ==
    ASSUME NEW keep, NEW val
    PROVE  Picked(0, keep, val) = <<>>
<1>1. \E f : Follows(f, 0, keep, val) /\ Picked(0, keep, val) = f[0]
    BY ONLY PickedFollows, Zenon
<1> QED
    BY ONLY <1>1, Zenon DEF Follows

(* One more value.                                                         *)
LEMMA PickedNext ==
    ASSUME NEW n \in Nat, NEW keep, NEW val, NEW keep2, NEW val2,
           Alike(n, keep, val, keep2, val2)
    PROVE  /\ n + 1 \in keep2 =>
                  Picked(n + 1, keep2, val2) = Append(Picked(n, keep, val), val2[n + 1])
           /\ n + 1 \notin keep2 => Picked(n + 1, keep2, val2) = Picked(n, keep, val)
<1>1. PICK f : Follows(f, n, keep, val) /\ Picked(n, keep, val) = f[n]
    BY ONLY PickedFollows, n \in Nat, Zenon
<1>2. n + 1 \in Nat /\ n <= n + 1 /\ n + 1 <= n + 1
    BY ONLY n \in Nat
<1>3. PICK f2 : Follows(f2, n + 1, keep2, val2) /\ Picked(n + 1, keep2, val2) = f2[n + 1]
    BY ONLY PickedFollows, <1>2, Zenon
<1>4. f[n] = f2[n]
    BY ONLY <1>1, <1>2, <1>3, FollowsAlike, n \in Nat, Alike(n, keep, val, keep2, val2), SMTT(30)
<1> QED
    BY ONLY <1>1, <1>2, <1>3, <1>4, n \in Nat, Zenon DEF Follows

(* What is picked has the type of the values.                              *)
LEMMA FollowsType ==
    ASSUME NEW n \in Nat, NEW keep, NEW val, NEW V,
           \A k \in Nat : k + 1 <= n /\ k + 1 \in keep => val[k + 1] \in V,
           NEW f, Follows(f, n, keep, val)
    PROVE  \A k \in Nat : k <= n => f[k] \in Seq(V)
<1> DEFINE S == {k \in Nat : k <= n => f[k] \in Seq(V)}
<1>1. 0 \in S
    <2>1. <<>> \in Seq(V) /\ 0 \in Nat
        OBVIOUS
    <2> QED
        BY ONLY <2>1, Follows(f, n, keep, val), Zenon DEF Follows
<1>2. ASSUME NEW k \in Nat, k \in S PROVE k + 1 \in S
    <2>1. k + 1 \in Nat /\ (k + 1 <= n => k <= n)
        BY ONLY k \in Nat, n \in Nat
    <2>2. \A s \in Seq(V), v \in V : Append(s, v) \in Seq(V)
        OBVIOUS
    <2> QED
        BY ONLY <1>2, <2>1, <2>2, Follows(f, n, keep, val),
                \A j \in Nat : j + 1 <= n /\ j + 1 \in keep => val[j + 1] \in V, Zenon DEF Follows
<1>3. Nat \subseteq S
    <2> HIDE DEF S
    <2> QED
        BY ONLY <1>1, <1>2, SetInduction, Zenon
<1> QED
    BY ONLY <1>3, Zenon

LEMMA PickedType ==
    ASSUME NEW n \in Nat, NEW keep, NEW val, NEW V,
           \A k \in Nat : k + 1 <= n /\ k + 1 \in keep => val[k + 1] \in V
    PROVE  Picked(n, keep, val) \in Seq(V)
<1>1. PICK f : Follows(f, n, keep, val) /\ Picked(n, keep, val) = f[n]
    BY ONLY PickedFollows, n \in Nat, Zenon
<1>2. \A k \in Nat : k <= n => f[k] \in Seq(V)
    BY ONLY <1>1, FollowsType, n \in Nat,
            \A k \in Nat : k + 1 <= n /\ k + 1 \in keep => val[k + 1] \in V, Zenon
<1>3. n <= n
    BY ONLY n \in Nat
<1> QED
    BY ONLY <1>1, <1>2, <1>3, n \in Nat, Zenon

(* Nothing is picked beyond n.                                             *)
NoneBeyond(n, n2, keep2) ==
    \A k \in Nat : n < k + 1 /\ k + 1 <= n + n2 => k + 1 \notin keep2

LEMMA PickedPadded ==
    ASSUME NEW n \in Nat, NEW n2 \in Nat, NEW keep, NEW val, NEW keep2, NEW val2,
           Alike(n, keep, val, keep2, val2),
           NoneBeyond(n, n2, keep2)
    PROVE  Picked(n + n2, keep2, val2) = Picked(n, keep, val)
<1>1. PICK f : Follows(f, n, keep, val) /\ Picked(n, keep, val) = f[n]
    BY ONLY PickedFollows, n \in Nat, Zenon
<1>2. n + n2 \in Nat /\ n <= n + n2
    BY ONLY n \in Nat, n2 \in Nat
<1>3. PICK f2 : Follows(f2, n + n2, keep2, val2) /\ Picked(n + n2, keep2, val2) = f2[n + n2]
    BY ONLY PickedFollows, <1>2, Zenon
<1>4. f[n] = f2[n]
    BY ONLY <1>1, <1>2, <1>3, FollowsAlike, n \in Nat, Alike(n, keep, val, keep2, val2), SMTT(30)
<1> DEFINE S == {k \in Nat : k <= n2 => f2[n + k] = f2[n]}
<1>5. 0 \in S
    <2>1. n + 0 = n
        BY ONLY n \in Nat
    <2> QED
        BY ONLY <2>1, Zenon
<1>6. ASSUME NEW k \in Nat, k \in S PROVE k + 1 \in S
    <2>1. /\ k + 1 \in Nat /\ n + k \in Nat /\ (n + k) + 1 = n + (k + 1)
          /\ (k + 1 <= n2 => k <= n2 /\ (n + k) + 1 <= n + n2 /\ n < (n + k) + 1)
        BY ONLY k \in Nat, n \in Nat, n2 \in Nat
    <2>2. k + 1 <= n2 => f2[(n + k) + 1] = f2[n + k]
        BY ONLY <1>3, <2>1, NoneBeyond(n, n2, keep2), Zenon DEF Follows, NoneBeyond
    <2> QED
        BY ONLY <1>6, <2>1, <2>2, Zenon
<1>7. Nat \subseteq S
    <2> HIDE DEF S
    <2> QED
        BY ONLY <1>5, <1>6, SetInduction, Zenon
<1>8. n2 <= n2
    BY ONLY n2 \in Nat
<1>9. f2[n + n2] = f2[n]
    BY ONLY <1>7, <1>8, n2 \in Nat, Zenon
<1> QED
    BY ONLY <1>1, <1>3, <1>4, <1>9, Zenon

Offset(n, keep, val, keep2, val2, V) ==
    \A k \in Nat : k + 1 <= n => /\ (k + 1) + 1 \in keep <=> k + 1 \in keep2
                                 /\ k + 1 \in keep2 => /\ val[(k + 1) + 1] = val2[k + 1]
                                                       /\ val2[k + 1] \in V

First(h, keep, val) == h = IF 1 \in keep THEN <<val[1]>> ELSE <<>>

(* The first value comes before what is picked of the others.              *)
LEMMA PickedShift ==
    ASSUME NEW n \in Nat, NEW keep, NEW val, NEW keep2, NEW val2, NEW V, NEW h \in Seq(V),
           Offset(n, keep, val, keep2, val2, V),
           First(h, keep, val)
    PROVE  Picked(n + 1, keep, val) = h \o Picked(n, keep2, val2)
<1>1. PICK f2 : Follows(f2, n, keep2, val2) /\ Picked(n, keep2, val2) = f2[n]
    BY ONLY PickedFollows, n \in Nat, Zenon
<1>2. n + 1 \in Nat /\ n <= n + 1 /\ n <= n /\ 0 + 1 = 1 /\ 0 + 1 <= n + 1 /\ 0 \in Nat
    BY ONLY n \in Nat
<1>3. PICK f : Follows(f, n + 1, keep, val) /\ Picked(n + 1, keep, val) = f[n + 1]
    BY ONLY PickedFollows, <1>2, Zenon
<1>4. \A k \in Nat : k <= n => f2[k] \in Seq(V)
    BY ONLY <1>1, FollowsType, n \in Nat,
            Offset(n, keep, val, keep2, val2, V), Zenon DEF Offset
<1> DEFINE S == {k \in Nat : k <= n => f[k + 1] = h \o f2[k]}
<1>5. 0 \in S
    <2>1. f[1] = IF 1 \in keep THEN Append(<<>>, val[1]) ELSE <<>>
        BY ONLY <1>2, <1>3, Zenon DEF Follows
    <2>2. Append(<<>>, val[1]) = <<val[1]>>
        OBVIOUS
    <2>3. f[1] = h
        BY ONLY <2>1, <2>2, First(h, keep, val), Zenon DEF First
    <2>4. f2[0] = <<>> /\ h \o <<>> = h
        BY ONLY <1>1, h \in Seq(V) DEF Follows
    <2> QED
        BY ONLY <1>2, <2>3, <2>4, Zenon
<1>6. ASSUME NEW k \in Nat, k \in S PROVE k + 1 \in S
    <2>1. k + 1 \in Nat /\ (k + 1 <= n => k <= n /\ (k + 1) + 1 <= n + 1)
        BY ONLY k \in Nat, n \in Nat
    <2>2. \A s \in Seq(V), v \in V : Append(h \o s, v) = h \o Append(s, v)
        BY ONLY h \in Seq(V)
    <2>3. CASE k + 1 <= n /\ k + 1 \in keep2
        <3>1. (k + 1) + 1 \in keep /\ val2[k + 1] \in V /\ val[(k + 1) + 1] = val2[k + 1]
            BY ONLY <2>3, k \in Nat, Offset(n, keep, val, keep2, val2, V), Zenon DEF Offset
        <3>2. f[(k + 1) + 1] = Append(f[k + 1], val[(k + 1) + 1])
            BY ONLY <1>3, <2>1, <2>3, <3>1, Zenon DEF Follows
        <3>3. f2[k + 1] = Append(f2[k], val2[k + 1])
            BY ONLY <1>1, <2>3, k \in Nat, Zenon DEF Follows
        <3>4. f[k + 1] = h \o f2[k] /\ f2[k] \in Seq(V)
            BY ONLY <1>4, <1>6, <2>1, <2>3, k \in Nat, Zenon
        <3> QED
            BY ONLY <2>1, <2>2, <3>1, <3>2, <3>3, <3>4, Zenon
    <2>4. CASE k + 1 <= n /\ k + 1 \notin keep2
        <3>1. (k + 1) + 1 \notin keep
            BY ONLY <2>4, k \in Nat, Offset(n, keep, val, keep2, val2, V), Zenon DEF Offset
        <3>2. f[(k + 1) + 1] = f[k + 1]
            BY ONLY <1>3, <2>1, <2>4, <3>1, Zenon DEF Follows
        <3>3. f2[k + 1] = f2[k]
            BY ONLY <1>1, <2>4, k \in Nat, Zenon DEF Follows
        <3>4. f[k + 1] = h \o f2[k]
            BY ONLY <1>6, <2>1, <2>4, Zenon
        <3> QED
            BY ONLY <2>1, <3>2, <3>3, <3>4, Zenon
    <2> QED
        BY ONLY <2>1, <2>3, <2>4, Zenon
<1>7. Nat \subseteq S
    <2> HIDE DEF S
    <2> QED
        BY ONLY <1>5, <1>6, SetInduction, Zenon
<1> QED
    BY ONLY <1>1, <1>2, <1>3, <1>7, n \in Nat, Zenon

-----------------------------------------------------------------------------
(* Sequences of events.                                                    *)

LEMMA Associative ==
    ASSUME NEW a \in Seq(Int), NEW b \in Seq(Int), NEW c \in Seq(Int)
    PROVE  (a \o b) \o c = a \o (b \o c)
<1> DEFINE l == (a \o b) \o c
           r == a \o (b \o c)
<1>1. /\ Len(a) \in Nat /\ Len(b) \in Nat /\ Len(c) \in Nat
      /\ a \o b \in Seq(Int) /\ b \o c \in Seq(Int)
      /\ Len(a \o b) = Len(a) + Len(b) /\ Len(b \o c) = Len(b) + Len(c)
    OBVIOUS
<1>2. /\ l \in Seq(Int) /\ r \in Seq(Int)
      /\ Len(l) = Len(a) + Len(b) + Len(c) /\ Len(r) = Len(a) + Len(b) + Len(c)
    BY <1>1
<1>3. ASSUME NEW i \in 1 .. Len(a) + Len(b) + Len(c) PROVE l[i] = r[i]
    <2>1. CASE i <= Len(a)
        OBVIOUS
    <2>2. CASE i > Len(a) /\ i <= Len(a) + Len(b)
        OBVIOUS
    <2>3. CASE i > Len(a) + Len(b)
        OBVIOUS
    <2> QED
        BY ONLY <1>1, <1>3, <2>1, <2>2, <2>3, SMTT(30)
<1> HIDE DEF l, r
<1>4. l = r
    BY ONLY <1>1, <1>2, <1>3
<1> QED
    BY ONLY <1>4, Zenon DEF l, r

LEMMA AppendOne ==
    ASSUME NEW S, NEW a \in Seq(S), NEW e \in S, NEW x \in Seq(S), Len(x) = 1, x[1] = e
    PROVE  Append(a, e) = a \o x
<1> DEFINE y == Append(a, e)
           z == a \o x
<1>1. y \in Seq(S) /\ Len(y) = Len(a) + 1 /\ Len(a) \in Nat /\ z \in Seq(S) /\ Len(z) = Len(a) + 1
    <2>1. y \in Seq(S) /\ Len(y) = Len(a) + 1
        BY ONLY a \in Seq(S), e \in S
    <2>2. z \in Seq(S) /\ Len(z) = Len(a) + Len(x) /\ Len(a) \in Nat
        BY ONLY a \in Seq(S), x \in Seq(S)
    <2> QED
        BY ONLY <2>1, <2>2, Len(x) = 1, Zenon
<1>2. ASSUME NEW i \in 1 .. Len(a) + 1 PROVE y[i] = z[i]
    <2>1. CASE i <= Len(a)
        OBVIOUS
    <2>2. CASE i = Len(a) + 1
        OBVIOUS
    <2> QED
        BY ONLY <1>1, <1>2, <2>1, <2>2
<1> HIDE DEF y, z
<1>3. y = z
    BY ONLY <1>1, <1>2
<1> QED
    BY ONLY <1>3, Zenon DEF y, z

LEMMA AppendIsConcat ==
    ASSUME NEW a \in Seq(Int), NEW e \in Int
    PROVE  Append(a, e) = a \o <<e>> /\ <<e>> \in Seq(Int)
<1>1. <<e>> \in Seq(Int) /\ Len(<<e>>) = 1 /\ <<e>>[1] = e
    OBVIOUS
<1> QED
    BY ONLY <1>1, AppendOne, a \in Seq(Int), e \in Int, Zenon

(* An event moves from one queue to the end of the queue before it.        *)
LEMMA MovedOn ==
    ASSUME NEW a \in Seq(Int), NEW b \in Seq(Int), NEW c \in Seq(Int), NEW e \in Int
    PROVE  (a \o Append(b, e)) \o c = (a \o b) \o (<<e>> \o c)
<1> DEFINE x == <<e>>
           ab == a \o b
<1>1. x \in Seq(Int) /\ Append(b, e) = b \o x
    BY ONLY AppendIsConcat, b \in Seq(Int), e \in Int, Zenon
<1> HIDE DEF x
<1>2. ab \in Seq(Int) /\ a \o (b \o x) = ab \o x
    <2>1. ab \in Seq(Int)
        OBVIOUS
    <2> QED
        BY ONLY <1>1, <2>1, Associative, a \in Seq(Int), b \in Seq(Int), ZenonT(30)
<1> HIDE DEF ab
<1>3. (ab \o x) \o c = ab \o (x \o c)
    BY ONLY <1>1, <1>2, Associative, c \in Seq(Int), Zenon
<1>4. (a \o Append(b, e)) \o c = ab \o (x \o c)
    BY ONLY <1>1, <1>2, <1>3, Zenon
<1> QED
    BY ONLY <1>4, Zenon DEF x, ab

(* The first of a queue moves to the end of what was taken before.         *)
LEMMA TakenOff ==
    ASSUME NEW a \in Seq(Int), NEW b \in Seq(Int), NEW e \in Int
    PROVE  Append(a, e) \o b = a \o (<<e>> \o b)
<1> DEFINE x == <<e>>
<1>1. x \in Seq(Int) /\ Append(a, e) = a \o x
    BY ONLY AppendIsConcat, a \in Seq(Int), e \in Int, Zenon
<1> HIDE DEF x
<1>2. (a \o x) \o b = a \o (x \o b)
    BY ONLY <1>1, Associative, a \in Seq(Int), b \in Seq(Int), Zenon
<1> QED
    BY ONLY <1>1, <1>2, Zenon DEF x

(* An event is queued.                                                     *)
LEMMA PutOn ==
    ASSUME NEW a \in Seq(Int), NEW b \in Seq(Int), NEW e \in Int
    PROVE  a \o Append(b, e) = Append(a \o b, e)
<1> DEFINE x == <<e>>
           ab == a \o b
<1>1. x \in Seq(Int) /\ Append(b, e) = b \o x
    BY ONLY AppendIsConcat, b \in Seq(Int), e \in Int, Zenon
<1> HIDE DEF x
<1>2. ab \in Seq(Int) /\ a \o (b \o x) = ab \o x
    <2>1. ab \in Seq(Int)
        OBVIOUS
    <2> QED
        BY ONLY <1>1, <2>1, Associative, a \in Seq(Int), b \in Seq(Int), Zenon
<1> HIDE DEF ab
<1>3. Append(ab, e) = ab \o x
    BY ONLY <1>2, AppendIsConcat, e \in Int, Zenon DEF x
<1> QED
    BY ONLY <1>1, <1>2, <1>3, Zenon DEF ab

LEMMA NoMore ==
    ASSUME NEW a \in Seq(Int)
    PROVE  a \o <<>> = a /\ <<>> \o a = a
OBVIOUS

-----------------------------------------------------------------------------
(* What is in a queue for the Lua VM.                                      *)

About(p, g) == p.inner.cmd = "WORKER2OTHER_LUAVM" /\ p.inner.gid = g /\ p.inner.event # Nothing

AboutIn(q, g) == {k \in DOMAIN q : About(q[k], g)}
EventAt(q, g) == [k \in AboutIn(q, g) |-> q[k].inner.event]

LEMMA EventsInPicked ==
    ASSUME NEW q, NEW g
    PROVE  EventsIn(q, g) = Picked(Len(q), AboutIn(q, g), EventAt(q, g))
BY Zenon DEF EventsIn, AboutIn, EventAt, About

LEMMA EventTypes ==
    \A inner \in Inner :
       inner.cmd = "WORKER2OTHER_LUAVM" => inner.gid \in Gid /\ inner.event \in Int
<1> SUFFICES ASSUME NEW inner \in Inner, inner.cmd = "WORKER2OTHER_LUAVM"
             PROVE  inner.gid \in Gid /\ inner.event \in Int
    BY Zenon
<1>1. inner \in [cmd : {"WORKER2OTHER_LUAVM"}, gid : Gid, event : Int]
    BY Zenon DEF Inner
<1> QED
    BY ONLY <1>1, Zenon

LEMMA EventsEmpty ==
    ASSUME NEW g
    PROVE  EventsIn(<<>>, g) = <<>>
<1>1. Len(<<>>) = 0
    BY Zenon
<1> QED
    BY ONLY <1>1, EventsInPicked, PickedNone, Zenon

LEMMA EventsAppend ==
    ASSUME NEW S, NEW q \in Seq(S), NEW e \in S, NEW g
    PROVE  /\ About(e, g) => EventsIn(Append(q, e), g) = Append(EventsIn(q, g), e.inner.event)
           /\ ~About(e, g) => EventsIn(Append(q, e), g) = EventsIn(q, g)
<1> DEFINE n == Len(q)
           q2 == Append(q, e)
<1>1. /\ n \in Nat /\ DOMAIN q = 1 .. n /\ DOMAIN q2 = 1 .. n + 1 /\ Len(q2) = n + 1
      /\ \A i \in 1 .. n : q2[i] = q[i]
      /\ q2[n + 1] = e
    BY AppendFacts
<1> HIDE DEF n, q2
<1>2. \A k \in Nat : k + 1 <= n => k + 1 \in DOMAIN q /\ k + 1 \in DOMAIN q2 /\ k + 1 \in 1 .. n
    BY ONLY <1>1
<1>3. n + 1 \in DOMAIN q2
    BY ONLY <1>1
<1>4. Alike(n, AboutIn(q, g), EventAt(q, g), AboutIn(q2, g), EventAt(q2, g))
    BY ONLY <1>1, <1>2, Zenon DEF Alike, AboutIn, EventAt
<1>5. /\ n + 1 \in AboutIn(q2, g) <=> About(e, g)
      /\ About(e, g) => EventAt(q2, g)[n + 1] = e.inner.event
    BY ONLY <1>1, <1>3, Zenon DEF AboutIn, EventAt
<1>6. /\ EventsIn(q, g) = Picked(n, AboutIn(q, g), EventAt(q, g))
      /\ EventsIn(q2, g) = Picked(n + 1, AboutIn(q2, g), EventAt(q2, g))
    <2>1. n = Len(q)
        BY Zenon DEF n
    <2> QED
        BY ONLY <1>1, <2>1, EventsInPicked, Zenon
<1>7. /\ About(e, g) => EventsIn(q2, g) = Append(EventsIn(q, g), e.inner.event)
      /\ ~About(e, g) => EventsIn(q2, g) = EventsIn(q, g)
    BY ONLY <1>1, <1>4, <1>5, <1>6, PickedNext, SMTT(30)
<1> QED
    BY ONLY <1>7, Zenon DEF q2

LEMMA EventsConcat ==
    ASSUME NEW S, NEW q \in Seq(S), NEW ps \in Seq(S), NEW g, \A i \in DOMAIN ps : ~About(ps[i], g)
    PROVE  EventsIn(q \o ps, g) = EventsIn(q, g)
<1> DEFINE n == Len(q)
           k == Len(ps)
           q2 == q \o ps
<1>1. /\ n \in Nat /\ DOMAIN q = 1 .. n /\ k \in Nat /\ DOMAIN ps = 1 .. k
      /\ q2 \in Seq(S) /\ DOMAIN q2 = 1 .. n + k
      /\ \A i \in 1 .. n : q2[i] = q[i]
      /\ \A i \in n + 1 .. n + k : q2[i] = ps[i - n] /\ i - n \in 1 .. k
    BY ConcatFacts
<1>2. Len(q2) = n + k
    OBVIOUS
<1> HIDE DEF n, k, q2
<1>3. /\ \A j \in Nat : j + 1 <= n => j + 1 \in DOMAIN q /\ j + 1 \in DOMAIN q2 /\ j + 1 \in 1 .. n
      /\ \A j \in Nat : n < j + 1 /\ j + 1 <= n + k => j + 1 \in n + 1 .. n + k
    BY ONLY <1>1
<1>4. Alike(n, AboutIn(q, g), EventAt(q, g), AboutIn(q2, g), EventAt(q2, g))
    BY ONLY <1>1, <1>3, Zenon DEF Alike, AboutIn, EventAt
<1>5. NoneBeyond(n, k, AboutIn(q2, g))
    BY ONLY <1>1, <1>3, \A i \in DOMAIN ps : ~About(ps[i], g), Zenon DEF AboutIn, NoneBeyond
<1>6. Picked(n + k, AboutIn(q2, g), EventAt(q2, g)) = Picked(n, AboutIn(q, g), EventAt(q, g))
    BY ONLY <1>1, <1>4, <1>5, PickedPadded
<1>7. n = Len(q)
    BY Zenon DEF n
<1>8. EventsIn(q2, g) = EventsIn(q, g)
    BY ONLY <1>2, <1>6, <1>7, EventsInPicked, Zenon
<1> QED
    BY ONLY <1>8, ZenonT(30) DEF q2

(* Events that are numbers.                                                *)
Numbered(S, g) == \A p \in S : About(p, g) => p.inner.event \in Int

LEMMA EventsType ==
    ASSUME NEW S, NEW q \in Seq(S), NEW g, Numbered(S, g)
    PROVE  EventsIn(q, g) \in Seq(Int)
<1>1. Len(q) \in Nat /\ DOMAIN q = 1 .. Len(q) /\ \A i \in DOMAIN q : q[i] \in S
    BY LenFacts, Zenon
<1>2. \A k \in Nat : k + 1 <= Len(q) /\ k + 1 \in AboutIn(q, g) => EventAt(q, g)[k + 1] \in Int
    BY ONLY <1>1, Numbered(S, g), Zenon DEF AboutIn, EventAt, Numbered
<1> QED
    BY ONLY <1>1, <1>2, EventsInPicked, PickedType, Zenon

LEMMA EventsHead ==
    ASSUME NEW S, NEW q \in Seq(S), q # <<>>, NEW g, Numbered(S, g)
    PROVE  /\ About(Head(q), g) => EventsIn(q, g) = <<Head(q).inner.event>> \o EventsIn(Tail(q), g)
           /\ ~About(Head(q), g) => EventsIn(q, g) = EventsIn(Tail(q), g)
<1> DEFINE n == Len(q) - 1
           q2 == Tail(q)
           h == IF 1 \in AboutIn(q, g) THEN <<EventAt(q, g)[1]>> ELSE <<>>
<1>1. /\ n \in Nat /\ DOMAIN q = 1 .. n + 1 /\ DOMAIN q2 = 1 .. n /\ Len(q2) = n /\ Len(q) = n + 1
      /\ \A i \in 1 .. n : q2[i] = q[i + 1]
      /\ Head(q) = q[1] /\ q2 \in Seq(S) /\ 1 \in DOMAIN q /\ q[1] \in S
    BY TailFacts
<1> HIDE DEF n, q2
<1>2. /\ \A k \in Nat : k + 1 <= n => k + 1 \in DOMAIN q2 /\ (k + 1) + 1 \in DOMAIN q /\ k + 1 \in 1 .. n
    BY ONLY <1>1
<1>3. \A i \in DOMAIN q2 : q2[i] \in S
    BY ONLY <1>1, LenFacts, Zenon
<1>4. Offset(n, AboutIn(q, g), EventAt(q, g), AboutIn(q2, g), EventAt(q2, g), Int)
    BY ONLY <1>1, <1>2, <1>3, Numbered(S, g), Zenon DEF Offset, AboutIn, EventAt, Numbered
<1>5. /\ 1 \in AboutIn(q, g) <=> About(Head(q), g)
      /\ About(Head(q), g) => EventAt(q, g)[1] = Head(q).inner.event /\ EventAt(q, g)[1] \in Int
    BY ONLY <1>1, Numbered(S, g), Zenon DEF AboutIn, EventAt, Numbered
<1>6. h \in Seq(Int) /\ First(h, AboutIn(q, g), EventAt(q, g))
    BY <1>5 DEF First
<1>7. ~About(Head(q), g) => h = <<>>
    BY ONLY <1>5, Zenon
<1>8. About(Head(q), g) => h = <<Head(q).inner.event>>
    BY ONLY <1>5, Zenon
<1> HIDE DEF h
<1>9. Picked(n + 1, AboutIn(q, g), EventAt(q, g)) = h \o Picked(n, AboutIn(q2, g), EventAt(q2, g))
    BY ONLY <1>1, <1>4, <1>6, PickedShift, SMTT(30)
<1>10. EventsIn(q, g) = h \o EventsIn(q2, g) /\ EventsIn(q2, g) \in Seq(Int)
    BY ONLY <1>1, <1>9, EventsInPicked, EventsType, Numbered(S, g), Zenon
<1>11. h = <<>> => EventsIn(q, g) = EventsIn(q2, g)
    BY ONLY <1>10
<1> QED
    BY ONLY <1>7, <1>8, <1>10, <1>11, Zenon DEF q2

-----------------------------------------------------------------------------
(* The packages that clients send the Lua VM.                              *)

ToTheVM(x, g) == x.source = g /\ x.event # Nothing
OwnIn(s, g) == {m \in DOMAIN s : ToTheVM(s[m], g)}
OwnAt(s, g) == [m \in OwnIn(s, g) |-> s[m].event]
PackagesIn(s, g) == Picked(Len(s), OwnIn(s, g), OwnAt(s, g))

LEMMA PackagesGrow ==
    ASSUME NEW s \in Seq(Message), NEW x \in Message, NEW g
    PROVE  /\ ToTheVM(x, g) => PackagesIn(Append(s, x), g) = Append(PackagesIn(s, g), x.event)
           /\ ~ToTheVM(x, g) => PackagesIn(Append(s, x), g) = PackagesIn(s, g)
<1> DEFINE n == Len(s)
           s2 == Append(s, x)
<1>1. /\ n \in Nat /\ DOMAIN s = 1 .. n /\ DOMAIN s2 = 1 .. n + 1 /\ Len(s2) = n + 1
      /\ \A i \in 1 .. n : s2[i] = s[i]
      /\ s2[n + 1] = x
    BY AppendFacts
<1> HIDE DEF s2
<1>2. PackagesIn(s, g) = Picked(n, OwnIn(s, g), OwnAt(s, g))
    BY Zenon DEF PackagesIn
<1> HIDE DEF n
<1>3. PackagesIn(s2, g) = Picked(n + 1, OwnIn(s2, g), OwnAt(s2, g))
    BY <1>1, Zenon DEF PackagesIn
<1>4. /\ n + 1 \in DOMAIN s2
      /\ \A k \in Nat : k + 1 <= n => k + 1 \in DOMAIN s /\ k + 1 \in DOMAIN s2 /\ k + 1 \in 1 .. n
    BY ONLY <1>1
<1>5. Alike(n, OwnIn(s, g), OwnAt(s, g), OwnIn(s2, g), OwnAt(s2, g))
    BY ONLY <1>1, <1>4, Zenon DEF Alike, OwnIn, OwnAt
<1>6. /\ n + 1 \in OwnIn(s2, g) <=> ToTheVM(x, g)
      /\ ToTheVM(x, g) => OwnAt(s2, g)[n + 1] = x.event
    BY ONLY <1>1, <1>4, ZenonT(30) DEF OwnIn, OwnAt
<1>7. /\ ToTheVM(x, g) => PackagesIn(s2, g) = Append(PackagesIn(s, g), x.event)
      /\ ~ToTheVM(x, g) => PackagesIn(s2, g) = PackagesIn(s, g)
    BY ONLY <1>1, <1>2, <1>3, <1>5, <1>6, PickedNext, SMTT(30)
<1> QED
    BY ONLY <1>7, Zenon DEF s2, n

LEMMA PackagesType ==
    ASSUME NEW s \in Seq(Message), NEW g
    PROVE  PackagesIn(s, g) \in Seq(Int)
<1>1. Len(s) \in Nat /\ DOMAIN s = 1 .. Len(s) /\ \A i \in DOMAIN s : s[i] \in Message
    BY LenFacts, Zenon
<1>2. \A x \in Message : x.event \in Int
    BY ONLY Zenon DEF Message
<1>3. \A k \in Nat : k + 1 <= Len(s) /\ k + 1 \in OwnIn(s, g) => OwnAt(s, g)[k + 1] \in Int
    BY ONLY <1>1, <1>2, Zenon DEF OwnIn, OwnAt
<1> QED
    BY ONLY <1>1, <1>3, PickedType, Zenon DEF PackagesIn

LEMMA PackagesNone ==
    ASSUME NEW s \in Seq(Message), NEW g, \A m \in DOMAIN s : s[m].source # g
    PROVE  PackagesIn(s, g) = <<>>
<1>1. Len(s) \in Nat /\ DOMAIN s = 1 .. Len(s)
    BY LenFacts, Zenon
<1>2. OwnIn(s, g) = {}
    BY Zenon DEF OwnIn, ToTheVM
<1> DEFINE val == OwnAt(s, g)
<1>3. Alike(0, OwnIn(s, g), val, OwnIn(s, g), val)
    BY ONLY Zenon DEF Alike
<1>4. 0 + Len(s) = Len(s) /\ 0 \in Nat
    BY ONLY <1>1
<1>5. PackagesIn(s, g) = Picked(Len(s), OwnIn(s, g), val)
    BY ONLY Zenon DEF PackagesIn
<1> HIDE DEF val
<1>6. NoneBeyond(0, Len(s), OwnIn(s, g))
    BY ONLY <1>2, Zenon DEF NoneBeyond
<1>7. Picked(0 + Len(s), OwnIn(s, g), val) = Picked(0, OwnIn(s, g), val)
    BY ONLY <1>1, <1>3, <1>4, <1>6, PickedPadded, SMTT(30)
<1> QED
    BY ONLY <1>4, <1>5, <1>7, PickedNone, Zenon
=============================================================================
