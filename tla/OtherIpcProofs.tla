--------------------------- MODULE OtherIpcProofs ---------------------------
(***************************************************************************)
(* Proofs about the other thread's tables of peer connections, for every   *)
(* list of apps, every size of the pool and every batch of events.         *)
(***************************************************************************)
EXTENDS OtherIpc, FiniteSetTheorems, TLAPS

TablesType ==
    [pool : [Fd -> Gid \cup {None}], is_close : SUBSET Gid,
     appid2gid : [App -> Gid \cup {None}], gid2appid : [Gid -> App \cup {None}],
     remote2this : SUBSET Gid,
     auth_appid2gid : [App -> Gid \cup {None}], auth_gid2appid : [Gid -> App \cup {None}]]

(* DirectionsExact, of any tables.                                         *)
Directions(s) ==
    /\ Inverse2(s.appid2gid, s.gid2appid)
    /\ Live(s) = {g \in Gid : s.gid2appid[g] # None} \cup s.remote2this
    /\ \A g \in s.remote2this : s.gid2appid[g] = None

(* An authenticated pair names a connection of the pool.                   *)
Pairs(s) ==
    /\ Inverse2(s.auth_appid2gid, s.auth_gid2appid)
    /\ \A g \in Gid : s.auth_gid2appid[g] # None => g \in Live(s)

OneFdPerGid(s) == \A fd, fd2 \in Fd : s.pool[fd] = s.pool[fd2] /\ s.pool[fd] # None => fd = fd2

WithinPool(s) == Cardinality(Live(s)) <= capacity

(* What every handler leaves behind.                                       *)
Good(s) ==
    /\ s \in TablesType
    /\ OneFdPerGid(s) /\ WithinPool(s)
    /\ Directions(s) /\ Pairs(s)

(* What dialling and accepting leave alone.                                *)
Grown(s, t) ==
    /\ \A fd \in Fd : s.pool[fd] # None => t.pool[fd] = s.pool[fd]
    /\ t.auth_appid2gid = s.auth_appid2gid /\ t.auth_gid2appid = s.auth_gid2appid

Undialled(s) == {app \in App : s.appid2gid[app] = None}

(* There is a slot for every app that is not dialled.                      *)
Room(s) == Cardinality(Live(s)) + Cardinality(Undialled(s)) <= capacity

(* The events that wait are those of connections, and what the peers of    *)
(* authenticated connections have named is on record.                      *)
IInv ==
    /\ Good(ipc)
    /\ claimed \in [Gid -> SUBSET App]
    /\ connect_failed \in BOOLEAN
    /\ \A g \in Gid : ipc.auth_gid2appid[g] # None => ipc.auth_gid2appid[g] \in claimed[g]
    /\ batch \subseteq (Fd \X Gid) \cup {ListenEvent}
    /\ BatchFresh

-----------------------------------------------------------------------------
LEMMA FiniteSets ==
    /\ IsFiniteSet(App) /\ Cardinality(App) \in Nat
    /\ \A s : /\ IsFiniteSet(Live(s)) /\ Cardinality(Live(s)) \in Nat
              /\ IsFiniteSet(Undialled(s)) /\ Cardinality(Undialled(s)) \in Nat
<1>1. IsFiniteSet(App)
    <2>0. /\ ipc_json \in [1 .. Len(ipc_json) -> App] /\ Len(ipc_json) \in Nat
          /\ DOMAIN ipc_json = 1 .. Len(ipc_json)
        BY IpcAssumption
    <2>1. App = {ipc_json[i] : i \in 1 .. Len(ipc_json)}
        BY <2>0, IpcAssumption, Zenon DEF Range
    <2>2. ipc_json \in Surjection(1 .. Len(ipc_json), App)
        BY <2>0, <2>1, Zenon DEF Surjection
    <2>3. IsFiniteSet(1 .. Len(ipc_json))
        BY <2>0, FS_Interval
    <2> QED
        BY <2>2, <2>3, FS_Surjection, Zenon
<1>2. \A s : Live(s) \subseteq Gid /\ Undialled(s) \subseteq App
    BY Zenon DEF Live, Undialled
<1> QED
    BY <1>1, <1>2, IpcAssumption, FS_Subset, FS_CardinalityType, Zenon

(* A slot taken by a new connection.                                       *)
LEMMA SlotFacts ==
    ASSUME NEW s, Good(s), NEW x \in Slots(s), NEW t,
           t.pool = [s.pool EXCEPT ![x[1]] = x[2]]
    PROVE  /\ x[1] \in Fd /\ x[2] \in Gid /\ x[2] \notin Live(s) /\ s.pool[x[1]] = None
           /\ t.pool \in [Fd -> Gid \cup {None}]
           /\ OneFdPerGid(t)
           /\ Live(t) = Live(s) \cup {x[2]}
           /\ Cardinality(Live(t)) = Cardinality(Live(s)) + 1
           /\ WithinPool(t)
<1>1. /\ x[1] \in Fd /\ x[2] \in Gid /\ x[2] \notin Live(s) /\ s.pool[x[1]] = None
      /\ Cardinality(Live(s)) < capacity
    BY FiniteSets, IpcAssumption DEF Slots, Free
<1>2. s.pool \in [Fd -> Gid \cup {None}] /\ x[2] # None
    BY <1>1, IpcAssumption, Zenon DEF Good, TablesType
<1>3. t.pool \in [Fd -> Gid \cup {None}]
    BY <1>1, <1>2, Zenon
<1>4. OneFdPerGid(t)
    BY <1>1, <1>2 DEF Good, OneFdPerGid, Live
<1>5. Live(t) = Live(s) \cup {x[2]}
    <2>1. \A fd \in Fd : t.pool[fd] = IF fd = x[1] THEN x[2] ELSE s.pool[fd]
        BY <1>1, <1>2, Zenon
    <2>2. \A g \in Gid : g \in Live(t) => g \in Live(s) \cup {x[2]}
        BY <2>1, Zenon DEF Live
    <2>3. \A g \in Live(s) : g \in Live(t)
        BY <1>1, <2>1, IpcAssumption, Zenon DEF Live
    <2>4. x[2] \in Live(t)
        BY <1>1, <2>1, Zenon DEF Live
    <2> QED
        BY <2>2, <2>3, <2>4, Zenon DEF Live
<1>6. Cardinality(Live(t)) = Cardinality(Live(s)) + 1
    BY <1>1, <1>5, FiniteSets, FS_AddElement, Zenon
<1>7. WithinPool(t)
    BY <1>1, <1>6, FiniteSets, IpcAssumption DEF WithinPool
<1> QED
    BY <1>1, <1>3, <1>4, <1>5, <1>6, <1>7, Zenon

(* A dialled connection is new in the pool and in both maps of its         *)
(* direction.                                                              *)
LEMMA DialGood ==
    ASSUME NEW s, Good(s), NEW app \in App, s.appid2gid[app] = None, NEW t \in Dial(s, app)
    PROVE  /\ Good(t) /\ Grown(s, t)
           /\ Undialled(t) = Undialled(s) \ {app}
           /\ Cardinality(Live(t)) = Cardinality(Live(s)) + 1
<1>1. PICK x \in Slots(s) :
          t = [s EXCEPT !.pool[x[1]] = x[2], !.appid2gid[app] = x[2], !.gid2appid[x[2]] = app]
    BY Zenon DEF Dial
<1>2. /\ t.pool = [s.pool EXCEPT ![x[1]] = x[2]]
      /\ t.appid2gid = [s.appid2gid EXCEPT ![app] = x[2]]
      /\ t.gid2appid = [s.gid2appid EXCEPT ![x[2]] = app]
      /\ t.remote2this = s.remote2this /\ t.is_close = s.is_close
      /\ t.auth_appid2gid = s.auth_appid2gid /\ t.auth_gid2appid = s.auth_gid2appid
    BY <1>1, Zenon DEF Good, TablesType
<1>3. /\ x[1] \in Fd /\ x[2] \in Gid /\ x[2] \notin Live(s) /\ s.pool[x[1]] = None
      /\ t.pool \in [Fd -> Gid \cup {None}]
      /\ OneFdPerGid(t)
      /\ Live(t) = Live(s) \cup {x[2]}
      /\ Cardinality(Live(t)) = Cardinality(Live(s)) + 1
      /\ WithinPool(t)
    BY <1>2, SlotFacts
<1>4. x[2] # None /\ app # None
    BY <1>3, IpcAssumption, Zenon
<1>5. t \in TablesType
    BY <1>1, <1>3, Zenon DEF Good, TablesType
<1>6. Directions(t)
    <2>1. s.gid2appid[x[2]] = None /\ x[2] \notin s.remote2this
        BY <1>3, Zenon DEF Good, Directions
    <2>2. Inverse2(t.appid2gid, t.gid2appid)
        <3>1. \A a \in App : s.appid2gid[a] # x[2]
            BY <1>4, <2>1, IpcAssumption DEF Good, Directions, Inverse2
        <3>2. /\ \A a \in App : t.appid2gid[a] = IF a = app THEN x[2] ELSE s.appid2gid[a]
              /\ \A g \in Gid : t.gid2appid[g] = IF g = x[2] THEN app ELSE s.gid2appid[g]
              /\ \A a \in App : s.appid2gid[a] # None => s.appid2gid[a] \in Gid
              /\ \A g \in Gid : s.gid2appid[g] # None => s.gid2appid[g] \in App
            BY <1>2, <1>3 DEF Good, TablesType
        <3>3. \A a \in App : t.appid2gid[a] # None => t.gid2appid[t.appid2gid[a]] = a
            BY <1>3, <3>1, <3>2 DEF Good, Directions, Inverse2
        <3>4. \A g \in Gid : s.gid2appid[g] # app
            BY IpcAssumption DEF Good, TablesType, Directions, Inverse2
        <3>5. \A g \in Gid : t.gid2appid[g] # None => t.appid2gid[t.gid2appid[g]] = g
            BY <1>3, <3>2, <3>4 DEF Good, Directions, Inverse2
        <3> QED
            BY <3>3, <3>5, Zenon DEF Inverse2
    <2>3. Live(t) = {g \in Gid : t.gid2appid[g] # None} \cup t.remote2this
        BY <1>2, <1>3, <1>4 DEF Good, TablesType, Directions
    <2>4. \A g \in t.remote2this : t.gid2appid[g] = None
        BY <1>2, <1>3, <2>1, Zenon DEF Good, TablesType, Directions
    <2> QED
        BY <2>2, <2>3, <2>4, Zenon DEF Directions
<1>7. Pairs(t)
    BY <1>2, <1>3, Zenon DEF Good, Pairs
<1>8. Grown(s, t)
    BY <1>2, <1>3, Zenon DEF Good, TablesType, Grown
<1>9. Undialled(t) = Undialled(s) \ {app}
    BY <1>2, <1>4, Zenon DEF Good, TablesType, Undialled
<1> QED
    BY <1>3, <1>5, <1>6, <1>7, <1>8, <1>9, Zenon DEF Good

(* With a slot to spare, a descriptor and a gid are to be had.             *)
LEMMA SlotExists ==
    ASSUME NEW s, Good(s), Cardinality(Live(s)) < capacity
    PROVE  Slots(s) # {}
<1>1. Gid \ Live(s) # {}
    <2> SUFFICES ASSUME Gid \subseteq Live(s) PROVE FALSE
        BY Zenon
    <2>1. Cardinality(Gid) <= Cardinality(Live(s))
        BY FiniteSets, FS_Subset, Zenon
    <2>2. Cardinality(Gid) \in Nat
        BY IpcAssumption, FS_CardinalityType, Zenon
    <2> QED
        BY <2>1, <2>2, FiniteSets, IpcAssumption
<1>2. Free(s) # {}
    <2> SUFFICES ASSUME Free(s) = {} PROVE FALSE
        BY Zenon
    <2>1. s.pool \in Injection(Fd, Live(s))
        BY Zenon DEF Injection, IsInjective, Good, TablesType, OneFdPerGid, Free, Live
    <2>2. Cardinality(Fd) <= Cardinality(Live(s))
        BY <2>1, FiniteSets, FS_Injection, Zenon
    <2>3. Cardinality(Fd) \in Nat
        BY IpcAssumption, FS_CardinalityType, Zenon
    <2> QED
        BY <2>2, <2>3, FiniteSets, IpcAssumption
<1>3. ~(Cardinality(Live(s)) >= capacity)
    BY FiniteSets, IpcAssumption
<1>4. Slots(s) = Free(s) \X (Gid \ Live(s))
    BY <1>3, Zenon DEF Slots
<1>5. PICK fd \in Free(s), g \in Gid \ Live(s) : TRUE
    BY <1>1, <1>2, Zenon
<1>6. <<fd, g>> \in Slots(s)
    BY <1>4, <1>5, Zenon
<1> QED
    BY <1>6, Zenon

(* An app that has room is dialled, and leaves room for the others.        *)
LEMMA DialRoom ==
    ASSUME NEW s, Good(s), Room(s), NEW app \in App, s.appid2gid[app] = None
    PROVE  Dial(s, app) # {} /\ \A t \in Dial(s, app) : Room(t)
<1>1. Cardinality(Undialled(s) \ {app}) = Cardinality(Undialled(s)) - 1
    BY FiniteSets, FS_RemoveElement, Zenon DEF Undialled
<1>2. Cardinality(Undialled(s) \ {app}) \in Nat
    BY FiniteSets, FS_RemoveElement, FS_CardinalityType, Zenon
<1>3. Cardinality(Live(s)) < capacity
    BY <1>1, <1>2, FiniteSets, IpcAssumption DEF Room
<1>4. Dial(s, app) # {}
    BY <1>3, SlotExists DEF Dial
<1>5. ASSUME NEW t \in Dial(s, app) PROVE Room(t)
    <2>1. Undialled(t) = Undialled(s) \ {app} /\ Cardinality(Live(t)) = Cardinality(Live(s)) + 1
        BY <1>5, DialGood, Zenon
    <2> QED
        BY <1>1, <2>1, FiniteSets, IpcAssumption DEF Room
<1> QED
    BY <1>4, <1>5, Zenon

-----------------------------------------------------------------------------
(* The loop of ipc_client_to_connect.  It is a recursive function, so that *)
(* there is one, and what it computes, is shown by induction: over a set   *)
(* of numbers, for which the least element outside of it serves.           *)

LEMMA SetInduction ==
    ASSUME NEW S, 0 \in S, \A n \in Nat : n \in S => n + 1 \in S
    PROVE  Nat \subseteq S
<1> DEFINE R == OpToRel(<, Nat)
           T == Nat \ S
<1>1. SUFFICES ASSUME T # {} PROVE FALSE
    BY Zenon
<1>2. IsWellFoundedOn(R, Nat)
    BY NatLessThanWellFounded, Zenon
<1>3. \A x \in Nat : x # 0 => x - 1 \in Nat /\ <<x - 1, x>> \in R
    BY DEF OpToRel
<1> HIDE DEF R
<1>4. PICK x \in T : \A y \in T : ~(<<y, x>> \in R)
    <2>1. T \subseteq Nat
        BY Zenon
    <2> HIDE DEF T
    <2> QED
        BY <1>1, <1>2, <2>1, WFMin, Zenon
<1>5. x - 1 \in Nat /\ x - 1 \in S /\ x \in Nat
    BY <1>3, <1>4, Zenon
<1> QED
    BY <1>5

(* The function that ipc_client_to_connect defines exists.                 *)
LEMMA TriedExists ==
    ASSUME NEW s, NEW failing
    PROVE  \E f : /\ f = [n \in 0 .. Len(ipc_json) |->
                            IF n = 0 THEN {s} ELSE DialOrSkip(f[n - 1], ipc_json[n], failing)]
                  /\ ipc_client_to_connect(s, failing) = f[Len(ipc_json)]
<1> DEFINE After(f, n) == IF n = 0 THEN {s} ELSE DialOrSkip(f[n - 1], ipc_json[n], failing)
           Is(f, k) == f = [n \in 0 .. k |-> After(f, n)]
           S == {k \in Nat : \E f : Is(f, k)}
<1>1. 0 \in S
    <2>1. Is([n \in 0 .. 0 |-> {s}], 0)
        OBVIOUS
    <2> QED
        BY <2>1, Zenon
<1>2. ASSUME NEW k \in Nat, k \in S PROVE k + 1 \in S
    <2>1. PICK f : Is(f, k)
        BY <1>2, Zenon
    <2> DEFINE h == [n \in 0 .. k + 1 |->
                        IF n = k + 1 THEN DialOrSkip(f[k], ipc_json[k + 1], failing) ELSE f[n]]
    <2>2. /\ \A n \in 0 .. k : h[n] = f[n]
          /\ h[k + 1] = DialOrSkip(f[k], ipc_json[k + 1], failing)
          /\ h = [n \in 0 .. k + 1 |-> h[n]]
        OBVIOUS
    <2>3. \A n \in 0 .. k : f[n] = After(f, n)
        BY <2>1, Zenon
    <2> HIDE DEF h
    <2>4. ASSUME NEW n \in 0 .. k + 1 PROVE h[n] = After(h, n)
        <3>1. CASE n = 0
            BY <2>2, <2>3, <3>1
        <3>2. CASE n = k + 1
            <4>1. n - 1 = k /\ n # 0 /\ k \in 0 .. k
                BY <3>2
            <4> QED
                BY <2>2, <3>2, <4>1, Zenon
        <3>3. CASE n # 0 /\ n # k + 1
            <4>1. n \in 0 .. k /\ n - 1 \in 0 .. k
                BY <3>3
            <4>2. h[n] = f[n] /\ h[n - 1] = f[n - 1] /\ f[n] = After(f, n)
                BY <2>2, <2>3, <4>1, Zenon
            <4> QED
                BY <3>3, <4>2, Zenon
        <3> QED
            BY <3>1, <3>2, <3>3, Zenon
    <2> HIDE DEF After
    <2>5. Is(h, k + 1)
        BY <2>2, <2>4, Zenon
    <2> HIDE DEF Is
    <2> QED
        BY <2>5
<1>3. Nat \subseteq S
    BY <1>1, <1>2, SetInduction, Zenon
<1>4. Len(ipc_json) \in Nat
    BY IpcAssumption
<1>5. \E f : Is(f, Len(ipc_json))
    BY <1>3, <1>4, Zenon
<1> QED
    BY <1>5, Zenon DEF ipc_client_to_connect

(* One iteration of the loop keeps the tables good and what was there, and *)
(* dials the app if there is room and the dial does not fail.              *)
LEMMA DialStep ==
    ASSUME NEW s, Good(s), NEW app \in App, NEW failing, NEW t \in DialOrSkip({s}, app, failing)
    PROVE  /\ Good(t) /\ Grown(s, t) /\ Undialled(t) \subseteq Undialled(s)
           /\ failing = {} /\ Room(s) => Room(t) /\ app \notin Undialled(t)
<1>0. t \in IF app \in failing \/ Dial(s, app) = {} THEN {s} ELSE Dial(s, app)
    BY Zenon DEF DialOrSkip
<1>1. Grown(s, s)
    BY Zenon DEF Grown
<1>2. CASE s.appid2gid[app] # None
    <2>1. t = s
        BY <1>0, <1>2, Zenon DEF Dial
    <2> QED
        BY <1>1, <1>2, <2>1, Zenon DEF Undialled
<1>3. CASE s.appid2gid[app] = None
    <2>1. \/ t = s /\ (app \in failing \/ Dial(s, app) = {})
          \/ t \in Dial(s, app)
        BY <1>0, Zenon
    <2>2. CASE t = s /\ (app \in failing \/ Dial(s, app) = {})
        <3>1. Room(s) => failing # {}
            BY <1>3, <2>2, DialRoom, Zenon
        <3> QED
            BY <1>1, <2>2, <3>1, Zenon
    <2>3. CASE t \in Dial(s, app)
        BY <1>3, <2>3, DialGood, DialRoom
    <2> QED
        BY <2>1, <2>2, <2>3, Zenon
<1> QED
    BY <1>2, <1>3, Zenon

(* ipc_client_to_connect as a whole.                                       *)
LEMMA DialLoop ==
    ASSUME NEW s, Good(s), NEW failing, NEW t \in ipc_client_to_connect(s, failing)
    PROVE  /\ Good(t) /\ Grown(s, t)
           /\ failing = {} /\ Room(s) => Undialled(t) = {}
<1>1. PICK f : /\ f = [n \in 0 .. Len(ipc_json) |->
                         IF n = 0 THEN {s} ELSE DialOrSkip(f[n - 1], ipc_json[n], failing)]
               /\ ipc_client_to_connect(s, failing) = f[Len(ipc_json)]
    BY TriedExists, Zenon
<1> DEFINE Dialled(u, n) == \A i \in 1 .. n : ipc_json[i] \notin Undialled(u)
           Fine(u, n) == /\ Good(u) /\ Grown(s, u)
                         /\ failing = {} /\ Room(s) => Room(u) /\ Dialled(u, n)
           S == {n \in Nat : n <= Len(ipc_json) => \A u \in f[n] : Fine(u, n)}
<1>2. Len(ipc_json) \in Nat /\ \A n \in 1 .. Len(ipc_json) : ipc_json[n] \in App
    BY IpcAssumption
<1>3. 0 \in S
    <2>1. f[0] = {s}
        BY <1>1, <1>2
    <2>2. Fine(s, 0)
        BY DEF Grown
    <2> HIDE DEF Fine
    <2> QED
        BY <2>1, <2>2, Zenon
<1>4. ASSUME NEW n \in Nat, n \in S PROVE n + 1 \in S
    <2> SUFFICES ASSUME n + 1 <= Len(ipc_json), NEW u \in f[n + 1] PROVE Fine(u, n + 1)
        OBVIOUS
    <2> DEFINE app == ipc_json[n + 1]
    <2>1. f[n + 1] = DialOrSkip(f[n], app, failing) /\ app \in App
        BY <1>1, <1>2
    <2>2. PICK v \in f[n] : u \in DialOrSkip({v}, app, failing)
        BY <2>1, Zenon DEF DialOrSkip
    <2>3. Fine(v, n)
        BY <1>2, <1>4
    <2>0. Good(v)
        BY <2>3, Zenon
    <2> HIDE DEF app
    <2>4. /\ Good(u) /\ Grown(v, u) /\ Undialled(u) \subseteq Undialled(v)
          /\ failing = {} /\ Room(v) => Room(u) /\ app \notin Undialled(u)
        BY <2>0, <2>1, <2>2, DialStep, Zenon
    <2>5. Grown(s, u)
        BY <2>3, <2>4, Zenon DEF Grown
    <2>6. ASSUME failing = {}, Room(s) PROVE Room(u) /\ Dialled(u, n + 1)
        <3>1. \A i \in 1 .. n + 1 : i \in 1 .. n \/ i = n + 1
            OBVIOUS
        <3> QED
            BY <2>3, <2>4, <2>6, <3>1, Zenon DEF app
    <2> QED
        BY <2>4, <2>5, <2>6, Zenon
<1>5. Nat \subseteq S
    <2> HIDE DEF S
    <2> QED
        BY <1>3, <1>4, SetInduction, Zenon
<1>6. Fine(t, Len(ipc_json))
    <2> HIDE DEF Fine
    <2>1. Len(ipc_json) \in S
        BY <1>2, <1>5, Zenon
    <2>2. Len(ipc_json) <= Len(ipc_json)
        BY <1>2
    <2> QED
        BY <1>1, <2>1, <2>2, Zenon
<1>7. \A a \in App : \E i \in 1 .. Len(ipc_json) : ipc_json[i] = a
    BY IpcAssumption DEF Range
<1> QED
    BY <1>6, <1>7 DEF Undialled

-----------------------------------------------------------------------------
(* Accepting.                                                              *)
LEMMA AcceptGood ==
    ASSUME NEW s, Good(s), NEW t \in Accept(s)
    PROVE  Good(t) /\ Grown(s, t) /\ Undialled(t) = Undialled(s)
<1>0. PICK made \in UNION {Injection(fds, Gid \ Live(s)) : fds \in SUBSET Free(s)} :
          /\ Cardinality(Live(s)) + Cardinality(DOMAIN made) <= capacity
          /\ t = [s EXCEPT !.pool = [fd \in Fd |-> IF fd \in DOMAIN made THEN made[fd]
                                                    ELSE s.pool[fd]],
                           !.remote2this = s.remote2this \cup Range(made)]
    BY Zenon DEF Accept
<1>1. PICK fds \in SUBSET Free(s) : made \in Injection(fds, Gid \ Live(s))
    BY <1>0, Zenon
<1>2. /\ DOMAIN made = fds /\ fds \subseteq Fd
      /\ \A fd \in fds : /\ s.pool[fd] = None /\ made[fd] \in Gid /\ made[fd] \notin Live(s)
                          /\ made[fd] # None
      /\ \A fd, fd2 \in fds : made[fd] = made[fd2] => fd = fd2
    BY <1>1, IpcAssumption DEF Injection, IsInjective, Free
<1>3. /\ t.pool = [fd \in Fd |-> IF fd \in fds THEN made[fd] ELSE s.pool[fd]]
      /\ t.remote2this = s.remote2this \cup Range(made)
      /\ t.appid2gid = s.appid2gid /\ t.gid2appid = s.gid2appid
      /\ t.is_close = s.is_close
      /\ t.auth_appid2gid = s.auth_appid2gid /\ t.auth_gid2appid = s.auth_gid2appid
    BY <1>0, <1>2, Zenon DEF Good, TablesType
<1>4. Range(made) = {made[fd] : fd \in fds} /\ Range(made) \subseteq Gid
    BY <1>2, Zenon DEF Range
<1>5. t \in TablesType
    <2>1. t.pool \in [Fd -> Gid \cup {None}]
        BY <1>2, <1>3 DEF Good, TablesType
    <2>2. t.remote2this \subseteq Gid
        BY <1>3, <1>4, Zenon DEF Good, TablesType
    <2> QED
        BY <1>0, <1>3, <2>1, <2>2, Zenon DEF Good, TablesType
<1>6. Live(t) = Live(s) \cup Range(made)
    <2>1. \A fd \in Fd : t.pool[fd] = IF fd \in fds THEN made[fd] ELSE s.pool[fd]
        BY <1>3, Zenon
    <2>2. \A g \in Live(t) : g \in Live(s) \cup Range(made)
        BY <1>4, <2>1, Zenon DEF Live
    <2>3. \A g \in Live(s) : g \in Live(t)
        BY <1>2, <2>1, IpcAssumption, Zenon DEF Live
    <2>4. \A g \in Range(made) : g \in Live(t)
        BY <1>2, <1>4, <2>1, Zenon DEF Live
    <2> QED
        BY <2>2, <2>3, <2>4, Zenon
<1>7. WithinPool(t)
    <2>1. IsFiniteSet(fds) /\ Cardinality(fds) \in Nat
        BY <1>2, IpcAssumption, FS_Subset, FS_CardinalityType, Zenon
    <2>2. made \in Surjection(fds, Range(made))
        BY <1>1, <1>4, Zenon DEF Surjection, Injection
    <2>3. IsFiniteSet(Range(made)) /\ Cardinality(Range(made)) <= Cardinality(fds)
        BY <2>1, <2>2, FS_Surjection, Zenon
    <2>4. /\ Cardinality(Range(made)) \in Nat /\ Cardinality(Live(s) \cap Range(made)) \in Nat
          /\ Cardinality(Live(t)) = Cardinality(Live(s)) + Cardinality(Range(made))
                                        - Cardinality(Live(s) \cap Range(made))
        BY <1>6, <2>3, FiniteSets, FS_Union, FS_Intersection, FS_CardinalityType, Zenon
    <2> QED
        BY <1>0, <1>2, <2>1, <2>3, <2>4, FiniteSets, IpcAssumption DEF WithinPool
<1>8. OneFdPerGid(t)
    <2> SUFFICES ASSUME NEW fd \in Fd, NEW fd2 \in Fd, t.pool[fd] = t.pool[fd2],
                        t.pool[fd] # None
                 PROVE  fd = fd2
        BY Zenon DEF OneFdPerGid
    <2>1. \A h \in Fd : t.pool[h] = IF h \in fds THEN made[h] ELSE s.pool[h]
        BY <1>3, Zenon
    <2>2. \A h \in Fd : s.pool[h] # None => s.pool[h] \in Live(s)
        BY Zenon DEF Good, TablesType, Live
    <2> QED
        BY <1>2, <2>1, <2>2, Zenon DEF Good, OneFdPerGid
<1>9. Directions(t)
    <2>1. \A g \in Range(made) : s.gid2appid[g] = None
        BY <1>2, <1>4 DEF Good, Directions
    <2> QED
        BY <1>3, <1>6, <2>1, Zenon DEF Good, Directions
<1>10. Pairs(t)
    BY <1>3, <1>6, Zenon DEF Good, Pairs
<1>11. Grown(s, t)
    BY <1>2, <1>3, Zenon DEF Grown
<1> QED
    BY <1>3, <1>5, <1>7, <1>8, <1>9, <1>10, <1>11, Zenon DEF Good, Undialled

-----------------------------------------------------------------------------
(* Closing.  The application forgets the pair, the slot is released.       *)
LEMMA ForgetGood ==
    ASSUME NEW s, Good(s), NEW g \in Gid, NEW t, t = on_close_connection(s, g)
    PROVE  /\ Good(t)
           /\ t.pool = s.pool /\ t.gid2appid = s.gid2appid /\ t.appid2gid = s.appid2gid
           /\ t.auth_gid2appid = [s.auth_gid2appid EXCEPT ![g] = None]
<1> DEFINE app == s.auth_gid2appid[g]
<1>1. CASE app = None
    <2>1. t = s
        BY <1>1, Zenon DEF on_close_connection
    <2>2. s.auth_gid2appid = [s.auth_gid2appid EXCEPT ![g] = None]
        BY <1>1, Zenon DEF Good, TablesType
    <2> QED
        BY <2>1, <2>2, Zenon
<1>2. CASE app # None
    <2>1. app \in App
        BY <1>2, Zenon DEF Good, TablesType
    <2>2. t = [s EXCEPT !.auth_gid2appid[g] = None, !.auth_appid2gid[app] = None]
        BY <1>2, Zenon DEF on_close_connection
    <2>3. /\ t.pool = s.pool /\ t.gid2appid = s.gid2appid /\ t.appid2gid = s.appid2gid
          /\ t.remote2this = s.remote2this
          /\ t.auth_gid2appid = [s.auth_gid2appid EXCEPT ![g] = None]
          /\ t.auth_appid2gid = [s.auth_appid2gid EXCEPT ![app] = None]
          /\ t \in TablesType
        <3> HIDE DEF app
        <3>1. /\ [s.auth_gid2appid EXCEPT ![g] = None] \in [Gid -> App \cup {None}]
              /\ [s.auth_appid2gid EXCEPT ![app] = None] \in [App -> Gid \cup {None}]
            BY <2>1, Zenon DEF Good, TablesType
        <3> QED
            BY <2>2, <3>1, Zenon DEF Good, TablesType
    <2>4. Live(t) = Live(s)
        BY <2>3, Zenon DEF Live
    <2>5. OneFdPerGid(t) /\ WithinPool(t) /\ Directions(t)
        BY <2>3, <2>4 DEF Good, OneFdPerGid, WithinPool, Directions
    <2>6. Pairs(t)
        <3>1. /\ \A g2 \in Gid : t.auth_gid2appid[g2] = IF g2 = g THEN None ELSE s.auth_gid2appid[g2]
              /\ \A a \in App : t.auth_appid2gid[a] = IF a = app THEN None ELSE s.auth_appid2gid[a]
              /\ \A a \in App : s.auth_appid2gid[a] # None => s.auth_appid2gid[a] \in Gid
              /\ \A g2 \in Gid : s.auth_gid2appid[g2] # None => s.auth_gid2appid[g2] \in App
            BY <2>1, <2>3 DEF Good, TablesType
        <3>2. Inverse2(t.auth_appid2gid, t.auth_gid2appid)
            BY <3>1 DEF Good, Pairs, Inverse2
        <3>3. \A g2 \in Gid : t.auth_gid2appid[g2] # None => g2 \in Live(t)
            BY <2>4, <3>1, Zenon DEF Good, Pairs
        <3> QED
            BY <3>2, <3>3, Zenon DEF Pairs
    <2> QED
        BY <2>3, <2>5, <2>6, Zenon DEF Good
<1> QED
    BY <1>1, <1>2, Zenon

LEMMA ReleaseGood ==
    ASSUME NEW s, Good(s), NEW fd \in Fd, NEW g \in Gid, s.pool[fd] = g,
           s.auth_gid2appid[g] = None, NEW t, t = Release(s, fd)
    PROVE  /\ Good(t)
           /\ t.pool = [s.pool EXCEPT ![fd] = None]
           /\ t.auth_gid2appid = s.auth_gid2appid
           /\ Undialled(t) = Undialled(s) \cup ({s.gid2appid[g]} \ {None})
           /\ Cardinality(Live(t)) = Cardinality(Live(s)) - 1
<1> DEFINE app == s.gid2appid[g]
<1>1. /\ t.pool = [s.pool EXCEPT ![fd] = None]
      /\ t.is_close = s.is_close \ {g}
      /\ t.appid2gid = IF app = None THEN s.appid2gid ELSE [s.appid2gid EXCEPT ![app] = None]
      /\ t.gid2appid = [s.gid2appid EXCEPT ![g] = None]
      /\ t.remote2this = s.remote2this \ {g}
      /\ t.auth_appid2gid = s.auth_appid2gid /\ t.auth_gid2appid = s.auth_gid2appid
    BY Zenon DEF Release, Good, TablesType
<1>2. /\ app \in App \cup {None} /\ g # None /\ None \notin App
      /\ \A a \in App : s.appid2gid[a] # None => s.appid2gid[a] \in Gid
      /\ \A g2 \in Gid : s.gid2appid[g2] # None => s.gid2appid[g2] \in App
    BY IpcAssumption, Zenon DEF Good, TablesType
<1>3. /\ \A fd2 \in Fd : t.pool[fd2] = IF fd2 = fd THEN None ELSE s.pool[fd2]
      /\ \A g2 \in Gid : t.gid2appid[g2] = IF g2 = g THEN None ELSE s.gid2appid[g2]
      /\ \A a \in App : t.appid2gid[a] = IF a = app THEN None ELSE s.appid2gid[a]
    BY <1>1, <1>2 DEF Good, TablesType
<1>4. t \in TablesType
    <2>1. t.pool \in [Fd -> Gid \cup {None}] /\ t.gid2appid \in [Gid -> App \cup {None}]
        BY <1>1 DEF Good, TablesType
    <2>2. t.appid2gid \in [App -> Gid \cup {None}]
        BY <1>1, <1>2 DEF Good, TablesType
    <2>3. t = [s EXCEPT !.pool = t.pool, !.is_close = t.is_close, !.appid2gid = t.appid2gid,
                        !.gid2appid = t.gid2appid, !.remote2this = t.remote2this]
        BY Zenon DEF Release, Good, TablesType
    <2> QED
        BY <1>1, <2>1, <2>2, <2>3, Zenon DEF Good, TablesType
<1>5. Live(t) = Live(s) \ {g}
    BY <1>2, <1>3, IpcAssumption DEF Live, Good, OneFdPerGid
<1>6. Cardinality(Live(t)) = Cardinality(Live(s)) - 1
    <2>1. g \in Live(s)
        BY Zenon DEF Live
    <2>2. Cardinality(Live(s) \ {g}) = Cardinality(Live(s)) - 1
        BY <2>1, FiniteSets, FS_RemoveElement, Zenon
    <2> QED
        BY <1>5, <2>2, Zenon
<1>7. OneFdPerGid(t)
    BY <1>3 DEF Good, OneFdPerGid
<1>8. WithinPool(t)
    BY <1>6, FiniteSets, IpcAssumption DEF Good, WithinPool
<1>9. Directions(t)
    <2>1. Inverse2(t.appid2gid, t.gid2appid)
        <3>1. \A a \in App : t.appid2gid[a] # None => t.gid2appid[t.appid2gid[a]] = a
            BY <1>2, <1>3 DEF Good, Directions, Inverse2
        <3>2. \A g2 \in Gid : t.gid2appid[g2] # None => t.appid2gid[t.gid2appid[g2]] = g2
            BY <1>2, <1>3 DEF Good, Directions, Inverse2
        <3> QED
            BY <3>1, <3>2, Zenon DEF Inverse2
    <2>2. Live(t) = {g2 \in Gid : t.gid2appid[g2] # None} \cup t.remote2this
        BY <1>1, <1>3, <1>5 DEF Good, Directions
    <2>3. \A g2 \in t.remote2this : t.gid2appid[g2] = None
        BY <1>1, <1>3 DEF Good, TablesType, Directions
    <2> QED
        BY <2>1, <2>2, <2>3, Zenon DEF Directions
<1>10. Pairs(t)
    BY <1>1, <1>5, Zenon DEF Good, Pairs
<1>11. Undialled(t) = Undialled(s) \cup ({app} \ {None})
    BY <1>2, <1>3 DEF Undialled
<1> QED
    BY <1>1, <1>4, <1>6, <1>7, <1>8, <1>9, <1>10, <1>11, Zenon DEF Good

(* close_ipc_client_fd after on_close_connection: whatever is dialled      *)
(* again, only the closed connection's place is taken.                     *)
LEMMA CloseGood ==
    ASSUME NEW s, Good(s), NEW fd \in Fd, NEW g \in Gid, s.pool[fd] = g, NEW failing,
           NEW t \in close_ipc_client_fd(on_close_connection(s, g), fd, failing)
    PROVE  /\ Good(t)
           /\ \A fd2 \in Fd \ {fd} : s.pool[fd2] # None => t.pool[fd2] = s.pool[fd2]
           /\ t.auth_gid2appid = [s.auth_gid2appid EXCEPT ![g] = None]
           /\ failing = {} /\ Undialled(s) = {} => Undialled(t) = {}
<1> DEFINE u == on_close_connection(s, g)
           r == Release(u, fd)
<1>1. /\ Good(u) /\ u.pool = s.pool /\ u.gid2appid = s.gid2appid /\ u.appid2gid = s.appid2gid
      /\ u.auth_gid2appid = [s.auth_gid2appid EXCEPT ![g] = None]
    BY ForgetGood
<1>2. u.auth_gid2appid[g] = None /\ u.pool[fd] = g
    BY <1>1, Zenon DEF Good, TablesType
<1>0. r = Release(u, fd)
    BY Zenon
<1> HIDE DEF u, r
<1>3. /\ Good(r) /\ r.pool = [u.pool EXCEPT ![fd] = None]
      /\ r.auth_gid2appid = u.auth_gid2appid
      /\ Undialled(r) = Undialled(u) \cup ({u.gid2appid[g]} \ {None})
      /\ Cardinality(Live(r)) = Cardinality(Live(u)) - 1
    <2>1. Good(u)
        BY <1>1, Zenon
    <2> QED
        BY ONLY <1>0, <1>2, <2>1, ReleaseGood, fd \in Fd, g \in Gid
<1>4. Undialled(u) = Undialled(s)
    BY <1>1, Zenon DEF Undialled
<1>5. t \in IF u.gid2appid[g] = None THEN {r} ELSE ipc_client_to_connect(r, failing)
    BY <1>1, Zenon DEF close_ipc_client_fd, u, r
<1>6. \A fd2 \in Fd \ {fd} : r.pool[fd2] = s.pool[fd2]
    BY <1>1, <1>3 DEF Good, TablesType
<1>7. CASE u.gid2appid[g] = None
    BY <1>1, <1>3, <1>4, <1>5, <1>6, <1>7, Zenon
<1>8. CASE u.gid2appid[g] # None
    <2>1. /\ Good(t) /\ Grown(r, t)
          /\ failing = {} /\ Room(r) => Undialled(t) = {}
        BY <1>3, <1>5, <1>8, DialLoop, Zenon
    <2>2. Undialled(s) = {} => Room(r)
        <3> SUFFICES ASSUME Undialled(s) = {} PROVE Room(r)
            BY Zenon
        <3>1. Undialled(r) = {u.gid2appid[g]}
            BY <1>3, <1>4, <1>8, Zenon
        <3>2. Cardinality(Undialled(r)) = 1
            BY <3>1, FS_Singleton, Zenon
        <3> QED
            BY <1>1, <1>3, <3>2, FiniteSets, IpcAssumption DEF Good, WithinPool, Room
    <2> QED
        BY <1>1, <1>3, <1>6, <2>1, <2>2, Zenon DEF Grown
<1> QED
    BY <1>7, <1>8, Zenon

-----------------------------------------------------------------------------
(* The steps.                                                              *)

LEMMA EmptyGood == Good(Tables) /\ Live(Tables) = {}
<1>1. Tables \in TablesType
    BY Zenon DEF Tables, TablesType
<1>2. Live(Tables) = {}
    BY IpcAssumption, Zenon DEF Tables, Live
<1>3. WithinPool(Tables)
    BY <1>2, FS_EmptySet, IpcAssumption DEF WithinPool
<1> QED
    BY <1>1, <1>2, <1>3, Zenon DEF Good, Tables, OneFdPerGid, Directions, Pairs, Inverse2

LEMMA InitIInv == Init => IInv
<1> SUFFICES ASSUME Init PROVE IInv
    BY Zenon
<1>1. Good(Tables)
    BY EmptyGood, Zenon
<1>2. PICK failing \in SUBSET App : /\ ipc \in ipc_client_to_connect(Tables, failing)
                                    /\ connect_failed = (failing # {})
    BY Zenon DEF Init
<1>3. Good(ipc) /\ Grown(Tables, ipc)
    BY <1>1, <1>2, DialLoop, Zenon
<1>4. \A g \in Gid : ipc.auth_gid2appid[g] = None
    BY <1>3, Zenon DEF Grown, Tables
<1> QED
    BY <1>2, <1>3, <1>4, Zenon DEF Init, IInv, BatchFresh

(* The connections that live on keep their descriptor, and with it their   *)
(* events.                                                                 *)
LEMMA BatchKept ==
    ASSUME IInv, batch' \subseteq batch, ~to_stop',
           \A e \in batch' \ {ListenEvent} : ipc'.pool[e[1]] = ipc.pool[e[1]]
    PROVE  BatchFresh' /\ batch' \subseteq (Fd \X Gid) \cup {ListenEvent}
BY Zenon DEF IInv, BatchFresh, ListenEvent

LEMMA WaitStep ==
    ASSUME IInv, wait
    PROVE  IInv'
<1>1. batch' \subseteq {<<fd, ipc.pool[fd]>> : fd \in Fd \ Free(ipc)} \cup {ListenEvent}
    BY Zenon DEF wait
<1>2. \A fd \in Fd \ Free(ipc) : ipc.pool[fd] \in Gid
    BY Zenon DEF IInv, Good, TablesType, Free
<1>3. batch' \subseteq (Fd \X Gid) \cup {ListenEvent}
    BY <1>1, <1>2
<1>4. BatchFresh'
    BY <1>1 DEF wait, IInv, BatchFresh
<1> QED
    BY <1>3, <1>4, Zenon DEF wait, IInv

LEMMA ListenStep ==
    ASSUME IInv, on_ipc_listen_event
    PROVE  IInv' /\ Undialled(ipc') = Undialled(ipc)
<1>1. Good(ipc') /\ Grown(ipc, ipc') /\ Undialled(ipc') = Undialled(ipc)
    BY AcceptGood, Zenon DEF on_ipc_listen_event, IInv
<1>2. /\ claimed' = [g \in Gid |-> IF g \in Live(ipc') \cap Live(ipc) THEN claimed[g] ELSE {}]
      /\ claimed' \in [Gid -> SUBSET App]
    BY Zenon DEF on_ipc_listen_event, Claims, IInv
<1>3. \A g \in Gid : ipc'.auth_gid2appid[g] # None => ipc'.auth_gid2appid[g] \in claimed'[g]
    BY <1>1, <1>2, Zenon DEF Grown, IInv, Good, Pairs
<1>4. \A e \in batch \ {ListenEvent} : e[1] \in Fd /\ ipc.pool[e[1]] # None
    BY IpcAssumption, Zenon DEF IInv, BatchFresh
<1>5. BatchFresh' /\ batch' \subseteq (Fd \X Gid) \cup {ListenEvent}
    BY <1>1, <1>4, BatchKept, Zenon DEF on_ipc_listen_event, Grown, IInv, BatchFresh
<1> QED
    BY <1>1, <1>2, <1>3, <1>5, Zenon DEF on_ipc_listen_event, IInv

(* An event taken from the batch is of a connection.                       *)
LEMMA TakeFacts ==
    ASSUME IInv, NEW fd, NEW g, Take(fd, g)
    PROVE  /\ fd \in Fd /\ g \in Gid /\ ipc.pool[fd] = g /\ g # None
           /\ to_stop' = FALSE /\ batch' = batch \ {<<fd, g>>}
           /\ \A e \in batch' \ {ListenEvent} : /\ e[1] \in Fd \ {fd} /\ ipc.pool[e[1]] = e[2]
                                                /\ e[2] # None
<1>1. <<fd, g>> \in batch /\ fd # None
    BY Zenon DEF Take
<1>2. <<fd, g>> \in Fd \X Gid /\ <<fd, g>> # ListenEvent
    BY <1>1, Zenon DEF IInv, ListenEvent
<1>3. fd \in Fd /\ g \in Gid /\ ipc.pool[fd] = g /\ g # None
    BY <1>1, <1>2, IpcAssumption, Zenon DEF IInv, BatchFresh
<1>4. to_stop' = FALSE /\ batch' = batch \ {<<fd, g>>}
    BY <1>3, Zenon DEF Take
<1>5. ASSUME NEW e \in batch' \ {ListenEvent}
      PROVE  e[1] \in Fd \ {fd} /\ ipc.pool[e[1]] = e[2] /\ e[2] # None
    <2>1. e \in batch /\ e # <<fd, g>> /\ e \in Fd \X Gid /\ ipc.pool[e[1]] = e[2]
        BY <1>4, <1>5, Zenon DEF IInv, BatchFresh
    <2> QED
        BY <1>3, <2>1, IpcAssumption
<1> QED
    BY <1>3, <1>4, <1>5, Zenon

LEMMA CloseStep ==
    ASSUME IInv, NEW fd, NEW g, on_event_close(fd, g)
    PROVE  /\ IInv'
           /\ connect_failed' \/ ~connect_failed
           /\ ~connect_failed' /\ Undialled(ipc) = {} => Undialled(ipc') = {}
<1>1. /\ fd \in Fd /\ g \in Gid /\ ipc.pool[fd] = g /\ g # None
      /\ to_stop' = FALSE /\ batch' = batch \ {<<fd, g>>}
      /\ \A e \in batch' \ {ListenEvent} : /\ e[1] \in Fd \ {fd} /\ ipc.pool[e[1]] = e[2]
                                           /\ e[2] # None
    BY TakeFacts, Zenon DEF on_event_close
<1>2. PICK failing \in SUBSET App :
          /\ ipc' \in close_ipc_client_fd(on_close_connection(ipc, g), fd, failing)
          /\ connect_failed' = (connect_failed \/ failing # {})
    BY <1>1, Zenon DEF on_event_close
<1>3. /\ Good(ipc')
      /\ \A fd2 \in Fd \ {fd} : ipc.pool[fd2] # None => ipc'.pool[fd2] = ipc.pool[fd2]
      /\ ipc'.auth_gid2appid = [ipc.auth_gid2appid EXCEPT ![g] = None]
      /\ failing = {} /\ Undialled(ipc) = {} => Undialled(ipc') = {}
    BY <1>1, <1>2, CloseGood DEF IInv
<1>4. /\ claimed' = [g2 \in Gid |-> IF g2 \in Live(ipc') /\ g2 # g THEN claimed[g2] ELSE {}]
      /\ claimed' \in [Gid -> SUBSET App]
    BY <1>1, Zenon DEF on_event_close, IInv
<1>5. \A g2 \in Gid : ipc'.auth_gid2appid[g2] # None => ipc'.auth_gid2appid[g2] \in claimed'[g2]
    <2> SUFFICES ASSUME NEW g2 \in Gid, ipc'.auth_gid2appid[g2] # None
                 PROVE  ipc'.auth_gid2appid[g2] \in claimed'[g2]
        BY Zenon
    <2>1. g2 # g /\ ipc'.auth_gid2appid[g2] = ipc.auth_gid2appid[g2]
        BY <1>3, Zenon DEF IInv, Good, TablesType
    <2>2. g2 \in Live(ipc')
        BY <1>3, Zenon DEF Good, Pairs
    <2> QED
        BY <1>4, <2>1, <2>2, Zenon DEF IInv
<1>6. BatchFresh' /\ batch' \subseteq (Fd \X Gid) \cup {ListenEvent}
    BY <1>1, <1>3, BatchKept, Zenon
<1>7. connect_failed' \in BOOLEAN
    BY <1>2, Zenon DEF IInv
<1>8. IInv'
    BY <1>3, <1>4, <1>5, <1>6, <1>7, Zenon DEF IInv
<1> QED
    BY <1>2, <1>3, <1>8, Zenon DEF IInv

LEMMA MarkedGood ==
    ASSUME NEW s, Good(s), NEW g \in Gid, NEW t, t = Marked(s, g)
    PROVE  /\ Good(t)
           /\ t.pool = s.pool /\ t.appid2gid = s.appid2gid /\ t.auth_gid2appid = s.auth_gid2appid
<1>1. /\ t.pool = s.pool /\ t.remote2this = s.remote2this /\ t \in TablesType
      /\ t.appid2gid = s.appid2gid /\ t.gid2appid = s.gid2appid
      /\ t.auth_appid2gid = s.auth_appid2gid /\ t.auth_gid2appid = s.auth_gid2appid
    BY Zenon DEF Marked, Good, TablesType
<1>2. Live(t) = Live(s)
    BY <1>1, Zenon DEF Live
<1> QED
    BY <1>1, <1>2 DEF Good, OneFdPerGid, WithinPool, Directions, Pairs

LEMMA HandshakeGood ==
    ASSUME NEW s, Good(s), NEW g \in Live(s), NEW app \in App, NEW t, t = Handshake(s, g, app)
    PROVE  /\ Good(t)
           /\ t.pool = s.pool /\ t.appid2gid = s.appid2gid
           /\ \/ t.auth_gid2appid = s.auth_gid2appid
              \/ t.auth_gid2appid = [s.auth_gid2appid EXCEPT ![g] = app]
<1>1. CASE ~(s.auth_appid2gid[app] = None /\ s.auth_gid2appid[g] = None)
    <2>1. t = s
        BY <1>1, Zenon DEF Handshake
    <2> QED
        BY <2>1, Zenon
<1>2. CASE s.auth_appid2gid[app] = None /\ s.auth_gid2appid[g] = None
    <2>1. t = [s EXCEPT !.auth_appid2gid[app] = g, !.auth_gid2appid[g] = app] /\ g \in Gid
        BY <1>2, Zenon DEF Handshake, Live
    <2>2. /\ t.pool = s.pool /\ t.remote2this = s.remote2this /\ t \in TablesType
          /\ t.appid2gid = s.appid2gid /\ t.gid2appid = s.gid2appid
          /\ t.auth_appid2gid = [s.auth_appid2gid EXCEPT ![app] = g]
          /\ t.auth_gid2appid = [s.auth_gid2appid EXCEPT ![g] = app]
        <3>1. /\ [s.auth_gid2appid EXCEPT ![g] = app] \in [Gid -> App \cup {None}]
              /\ [s.auth_appid2gid EXCEPT ![app] = g] \in [App -> Gid \cup {None}]
            BY <2>1, Zenon DEF Good, TablesType
        <3> QED
            BY <2>1, <3>1, Zenon DEF Good, TablesType
    <2>3. Live(t) = Live(s)
        BY <2>2, Zenon DEF Live
    <2>4. OneFdPerGid(t) /\ WithinPool(t) /\ Directions(t)
        BY <2>2, <2>3 DEF Good, OneFdPerGid, WithinPool, Directions
    <2>5. /\ \A a \in App : t.auth_appid2gid[a] = IF a = app THEN g ELSE s.auth_appid2gid[a]
          /\ \A g2 \in Gid : t.auth_gid2appid[g2] = IF g2 = g THEN app ELSE s.auth_gid2appid[g2]
          /\ \A a \in App : s.auth_appid2gid[a] # None => s.auth_appid2gid[a] \in Gid
          /\ \A g2 \in Gid : s.auth_gid2appid[g2] # None => s.auth_gid2appid[g2] \in App
        BY <2>1, <2>2 DEF Good, TablesType
    <2>6. /\ \A a \in App : s.auth_appid2gid[a] # g
          /\ \A g2 \in Gid : s.auth_gid2appid[g2] # app
        BY <1>2, <2>1, IpcAssumption DEF Good, Pairs, Inverse2
    <2>7. \A a \in App : t.auth_appid2gid[a] # None => t.auth_gid2appid[t.auth_appid2gid[a]] = a
        BY <2>1, <2>5, <2>6 DEF Good, Pairs, Inverse2
    <2>8. \A g2 \in Gid : t.auth_gid2appid[g2] # None => t.auth_appid2gid[t.auth_gid2appid[g2]] = g2
        BY <2>5, <2>6 DEF Good, Pairs, Inverse2
    <2>9. \A g2 \in Gid : t.auth_gid2appid[g2] # None => g2 \in Live(t)
        BY <2>3, <2>5, Zenon DEF Good, Pairs
    <2> QED
        BY <2>2, <2>4, <2>7, <2>8, <2>9, Zenon DEF Good, Pairs, Inverse2
<1> QED
    BY <1>1, <1>2, Zenon

LEMMA EventStep ==
    ASSUME IInv, NEW fd, NEW g, on_event(fd, g)
    PROVE  IInv' /\ Undialled(ipc') = Undialled(ipc)
<1>1. /\ fd \in Fd /\ g \in Gid /\ ipc.pool[fd] = g /\ g # None
      /\ to_stop' = FALSE /\ batch' = batch \ {<<fd, g>>}
    BY TakeFacts, Zenon DEF on_event
<1>2. g \in Live(ipc)
    BY <1>1, Zenon DEF Live
<1> DEFINE Kept == /\ Good(ipc') /\ ipc'.pool = ipc.pool /\ ipc'.appid2gid = ipc.appid2gid
                   /\ claimed' \in [Gid -> SUBSET App]
                   /\ \A g2 \in Gid : ipc'.auth_gid2appid[g2] # None
                                          => ipc'.auth_gid2appid[g2] \in claimed'[g2]
<1>3. Kept
    <2>1. CASE ipc' \in {ipc, Marked(ipc, g)} /\ UNCHANGED claimed
        BY <1>1, <2>1, MarkedGood DEF IInv
    <2>2. ASSUME NEW app \in App,
                 ipc' \in {Handshake(ipc, g, app), Marked(Handshake(ipc, g, app), g)},
                 claimed' = [claimed EXCEPT ![g] = @ \cup {app}]
          PROVE  Kept
        <3> DEFINE h == Handshake(ipc, g, app)
        <3>1. /\ Good(h) /\ h.pool = ipc.pool /\ h.appid2gid = ipc.appid2gid
              /\ \/ h.auth_gid2appid = ipc.auth_gid2appid
                 \/ h.auth_gid2appid = [ipc.auth_gid2appid EXCEPT ![g] = app]
            BY <1>2, HandshakeGood DEF IInv
        <3> HIDE DEF h
        <3>2. ipc' \in {h, Marked(h, g)}
            BY <2>2, Zenon DEF h
        <3>3. /\ Good(ipc') /\ ipc'.pool = h.pool /\ ipc'.appid2gid = h.appid2gid
              /\ ipc'.auth_gid2appid = h.auth_gid2appid
            BY <1>1, <3>1, <3>2, MarkedGood
        <3>4. claimed' \in [Gid -> SUBSET App] /\ \A g2 \in Gid : claimed[g2] \subseteq claimed'[g2]
            BY <1>1, <2>2, Zenon DEF IInv
        <3>5. app \in claimed'[g]
            BY <1>1, <2>2, Zenon DEF IInv
        <3>6. \A g2 \in Gid : ipc'.auth_gid2appid[g2] # None
                                  => ipc'.auth_gid2appid[g2] \in claimed'[g2]
            BY <3>1, <3>3, <3>4, <3>5 DEF IInv, Good, TablesType
        <3> QED
            BY <3>1, <3>3, <3>4, <3>6, Zenon
    <2>3. \/ ipc' \in {ipc, Marked(ipc, g)} /\ UNCHANGED claimed
          \/ \E app \in App :
                /\ ipc' \in {Handshake(ipc, g, app), Marked(Handshake(ipc, g, app), g)}
                /\ claimed' = [claimed EXCEPT ![g] = @ \cup {app}]
        BY <1>1, Zenon DEF on_event
    <2> HIDE DEF Kept
    <2> QED
        BY ONLY <2>1, <2>2, <2>3, Zenon
<1>4. BatchFresh' /\ batch' \subseteq (Fd \X Gid) \cup {ListenEvent}
    BY <1>1, <1>3, BatchKept, Zenon
<1> QED
    BY <1>3, <1>4, Zenon DEF on_event, IInv, Undialled

LEMMA SendStep ==
    ASSUME IInv, NEW app \in App, other_lua_send_ipc_package(app)
    PROVE  IInv' /\ Undialled(ipc') = Undialled(ipc)
<1>1. ipc.auth_appid2gid[app] \in Gid
    BY Zenon DEF other_lua_send_ipc_package, Live
<1>2. /\ Good(ipc') /\ ipc'.pool = ipc.pool /\ ipc'.appid2gid = ipc.appid2gid
      /\ ipc'.auth_gid2appid = ipc.auth_gid2appid
    BY <1>1, MarkedGood, Zenon DEF other_lua_send_ipc_package, IInv
<1>3. BatchFresh'
    BY <1>2, Zenon DEF other_lua_send_ipc_package, IInv, BatchFresh
<1> QED
    BY <1>2, <1>3, Zenon DEF other_lua_send_ipc_package, IInv, Undialled

LEMMA NextIInv ==
    ASSUME IInv, [Next]_vars
    PROVE  /\ IInv'
           /\ connect_failed' \/ ~connect_failed
           /\ ~connect_failed' /\ Undialled(ipc) = {} => Undialled(ipc') = {}
<1>1. CASE wait
    <2>1. ipc' = ipc /\ connect_failed' = connect_failed
        BY <1>1, Zenon DEF wait
    <2> QED
        BY <1>1, <2>1, WaitStep, Zenon DEF IInv
<1>2. CASE on_ipc_listen_event
    <2>1. connect_failed' = connect_failed
        BY <1>2, Zenon DEF on_ipc_listen_event
    <2> QED
        BY <1>2, <2>1, ListenStep, Zenon DEF IInv
<1>3. ASSUME NEW e \in batch, on_event_close(e[1], e[2])
      PROVE  NextIInv!3
    BY <1>3, CloseStep, Zenon
<1>4. ASSUME NEW e \in batch, on_event(e[1], e[2])
      PROVE  NextIInv!3
    <2>1. connect_failed' = connect_failed
        BY <1>4, Zenon DEF on_event
    <2> QED
        BY <1>4, <2>1, EventStep, Zenon DEF IInv
<1>5. ASSUME NEW app \in App, other_lua_send_ipc_package(app)
      PROVE  NextIInv!3
    <2>1. connect_failed' = connect_failed
        BY <1>5, Zenon DEF other_lua_send_ipc_package
    <2> QED
        BY <1>5, <2>1, SendStep, Zenon DEF IInv
<1>6. CASE UNCHANGED vars
    BY <1>6, Zenon DEF vars, IInv, BatchFresh
<1> QED
    BY <1>1, <1>2, <1>3, <1>4, <1>5, <1>6, Zenon DEF Next

(* What the four theorems rest on: every handler of the other thread keeps *)
(* the tables good, the batch of events fresh and the claims on record.    *)
THEOREM Invariance == Spec => []IInv
<1>1. IInv /\ [Next]_vars => IInv'
    BY NextIInv, Zenon
<1> QED
    BY InitIInv, <1>1, PTL DEF Spec

(* The two direction tables and the set of accepted connections describe   *)
(* the pool exactly, for any number of apps and connections.               *)
THEOREM DirectionSafety == Spec => []DirectionsExact
<1>1. IInv => DirectionsExact
    BY Zenon DEF IInv, Good, Directions, DirectionsExact
<1> QED
    BY Invariance, <1>1, PTL

(* An authenticated app names a live connection that claimed to be it.     *)
THEOREM PairSafety == Spec => []PairsLive
<1>1. IInv => PairsLive
    BY Zenon DEF IInv, Good, Pairs, PairsLive
<1> QED
    BY Invariance, <1>1, PTL

(* A close of one connection, with the redial that may reuse its           *)
(* descriptor, never leaves an event of the batch for another connection.  *)
THEOREM BatchSafety == Spec => []BatchFresh
<1>1. IInv => BatchFresh
    BY Zenon DEF IInv
<1> QED
    BY Invariance, <1>1, PTL

(* When the pool has room for every app of ipc.json, an app without a      *)
(* connection means that a dialling has failed: accepting peers and        *)
(* reconnecting never starve one, whatever the sizes.  An undialled app    *)
(* can only appear in a close, which frees the slot that its dial takes.   *)
THEOREM DialSafety ==
    ASSUME Cardinality(App) <= capacity
    PROVE  Spec => []AlwaysDialled
<1> DEFINE AllDialled == ~connect_failed => Undialled(ipc) = {}
<1>1. Init => AllDialled
    <2> SUFFICES ASSUME Init, ~connect_failed PROVE Undialled(ipc) = {}
        BY Zenon
    <2>1. ipc \in ipc_client_to_connect(Tables, {})
        BY Zenon DEF Init
    <2>2. Good(Tables) /\ Live(Tables) = {}
        BY EmptyGood, Zenon
    <2>3. Undialled(Tables) = App
        BY Zenon DEF Undialled, Tables
    <2>4. Room(Tables)
        BY <2>2, <2>3, FS_EmptySet, FiniteSets, IpcAssumption DEF Room
    <2> QED
        BY <2>1, <2>2, <2>4, DialLoop, Zenon
<1>2. IInv /\ AllDialled /\ [Next]_vars => AllDialled'
    BY NextIInv, Zenon
<1>3. AllDialled => AlwaysDialled
    BY Zenon DEF Undialled, AlwaysDialled
<1> QED
    BY Invariance, <1>1, <1>2, <1>3, PTL DEF Spec
=============================================================================
