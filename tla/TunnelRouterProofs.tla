------------------------- MODULE TunnelRouterProofs -------------------------
(***************************************************************************)
(* Theorems about the packages that main forwards, for every number of     *)
(* workers, clients and messages.                                          *)
(***************************************************************************)
EXTENDS TunnelRouterInvariant

(* However many workers, clients and messages there are: the copies that   *)
(* send_client_forward_message and main's all_target make of one message   *)
(* never overlap, and none goes to a client it was not addressed to.       *)
THEOREM DeliverySafety == Spec => []DeliveredOnce
<1>1. IInv => DeliveredOnce
    BY OrderOfState, Zenon
<1> QED
    BY <1>1, Invariance, PTL

(* The messages of one sender reach a client in the order they were sent,  *)
(* whether the worker hands them out itself or main forwards them.         *)
THEOREM OrderSafety == Spec => []SourceOrder
<1>1. IInv => SourceOrder
    BY OrderOfState, Zenon
<1> QED
    BY <1>1, Invariance, PTL

(* A client that was open when a message was sent and still is has it, or  *)
(* a tunnel holds it on the way there: on_tunnel_process of no thread      *)
(* drops a message.                                                        *)
THEOREM AccountSafety == Spec => []Accounted
<1>1. IInv => Accounted
    BY AccountOfState, Zenon
<1> QED
    BY <1>1, Invariance, PTL

-----------------------------------------------------------------------------
(* What the Lua VM was told of client g and what is on its way to it, and  *)
(* the life of the client.                                                 *)

Told(v, d, u, g) == v[g] \o EventsIn(d[other_id], g) \o EventsIn(u[Home(g)], g)

LifeOf(s, c, g) ==
    (IF c[g] \in Opened THEN <<NewEvent>> ELSE <<>>)
    \o PackagesIn(s, g)
    \o (IF c[g] = "gone" THEN <<CloseEvent>> ELSE <<>>)

View(v, d, u, s, c) ==
    /\ v \in [Gid -> Seq(Int)]
    /\ \A g \in Gid : Told(v, d, u, g) = LifeOf(s, c, g)

LEMMA Numbers ==
    ASSUME NEW g
    PROVE  Numbered(UpPackage, g) /\ Numbered(DownPackage, g)
BY EventTypes, PackageTypes, Zenon DEF Numbered, About

LEMMA ViewTypes ==
    ASSUME NEW u, NEW d, NEW s, NEW r, NEW c, State(u, d, s, r, c), NEW v, View(v, d, u, s, c), NEW g \in Gid
    PROVE  /\ v[g] \in Seq(Int) /\ EventsIn(d[other_id], g) \in Seq(Int)
           /\ EventsIn(u[Home(g)], g) \in Seq(Int) /\ PackagesIn(s, g) \in Seq(Int)
           /\ u \in [Thread -> Seq(UpPackage)] /\ d \in [Thread -> Seq(DownPackage)]
           /\ u[Home(g)] \in Seq(UpPackage) /\ d[other_id] \in Seq(DownPackage)
           /\ s \in Seq(Message)
<1>1. /\ v[g] \in Seq(Int) /\ u \in [Thread -> Seq(UpPackage)] /\ d \in [Thread -> Seq(DownPackage)]
      /\ s \in Seq(Message)
    BY Zenon DEF State, Good, Typed, View
<1>2. u[Home(g)] \in Seq(UpPackage) /\ d[other_id] \in Seq(DownPackage)
    BY ONLY <1>1, Ids, g \in Gid, Zenon
<1> QED
    BY ONLY <1>1, <1>2, Numbers, EventsType, PackagesType, Zenon

(* Nothing happens that concerns client g and the VM.                      *)
Apart(g, v, d, u, s, c, v2, d2, u2, s2, c2) ==
    /\ v2[g] = v[g]
    /\ EventsIn(d2[other_id], g) = EventsIn(d[other_id], g)
    /\ EventsIn(u2[Home(g)], g) = EventsIn(u[Home(g)], g)
    /\ PackagesIn(s2, g) = PackagesIn(s, g)
    /\ c2[g] \in Opened <=> c[g] \in Opened
    /\ c2[g] = "gone" <=> c[g] = "gone"

LEMMA ViewApart ==
    ASSUME NEW g \in Gid, NEW v, NEW d, NEW u, NEW s, NEW c, NEW v2, NEW d2, NEW u2, NEW s2, NEW c2,
           View(v, d, u, s, c), Apart(g, v, d, u, s, c, v2, d2, u2, s2, c2)
    PROVE  Told(v2, d2, u2, g) = LifeOf(s2, c2, g)
<1>1. Told(v, d, u, g) = LifeOf(s, c, g)
    BY Zenon DEF View
<1>2. Told(v2, d2, u2, g) = Told(v, d, u, g)
    BY ONLY Apart(g, v, d, u, s, c, v2, d2, u2, s2, c2), Zenon DEF Apart, Told
<1>3. LifeOf(s2, c2, g) = LifeOf(s, c, g)
    BY ONLY Apart(g, v, d, u, s, c, v2, d2, u2, s2, c2), Zenon DEF Apart, LifeOf
<1> QED
    BY ONLY <1>1, <1>2, <1>3, Zenon

(* main moves an event from the worker's tunnel to the end of the other    *)
(* thread's.                                                               *)
LEMMA ViewRoute ==
    ASSUME NEW u, NEW d, NEW s, NEW r, NEW k, State(u, d, s, r, k), NEW v, View(v, d, u, s, k),
           NEW t \in Thread, NEW p, NEW c, NEW u2, NEW d2, Routed(t, p, c, u, d, u2, d2)
    PROVE  View(v, d2, u2, s, k)
<1>1. Good(u, d, s, r) /\ v \in [Gid -> Seq(Int)]
    BY Zenon DEF State, View
<1>2. /\ UpFits(p, t, s)
      /\ \A x \in Thread : d2[x] = IF x \in p.target THEN Append(d[x], c) ELSE d[x]
    BY ONLY <1>1, RouteGood, Routed(t, p, c, u, d, u2, d2), t \in Thread
<1>3. /\ u[t] # <<>> /\ p = Head(u[t]) /\ u2 = [u EXCEPT ![t] = Tail(@)]
      /\ c = [source |-> p.source, inner |-> p.inner]
    BY Zenon DEF Routed
<1> SUFFICES ASSUME NEW g \in Gid PROVE Told(v, d2, u2, g) = LifeOf(s, k, g)
    BY <1>1, Zenon DEF View
<1>4. /\ v[g] \in Seq(Int) /\ EventsIn(d[other_id], g) \in Seq(Int)
      /\ u \in [Thread -> Seq(UpPackage)]
      /\ u[Home(g)] \in Seq(UpPackage) /\ d[other_id] \in Seq(DownPackage)
    BY ONLY ViewTypes, State(u, d, s, r, k), View(v, d, u, s, k), g \in Gid, Zenon
<1>5. Home(g) \in Thread /\ other_id \in Thread
    BY Ids, Zenon
<1>6. p \in UpPackage /\ c \in DownPackage
    <2>1. u[t] \in Seq(UpPackage)
        BY ONLY <1>4, t \in Thread, Zenon
    <2>2. p \in UpPackage
        BY ONLY <1>3, <2>1, TailFacts, Zenon
    <2> QED
        BY ONLY <1>3, <2>2, PackageTypes, Zenon
<1>7. c.inner = p.inner
    BY ONLY <1>3, Zenon
<1>8. CASE About(p, g)
    <2> DEFINE a == EventsIn(d[other_id], g)
               b == EventsIn(Tail(u[t]), g)
               e == p.inner.event
    <2>1. t = Home(g) /\ p.target = {other_id}
        BY ONLY <1>2, <1>8, Zenon DEF UpFits, Fits, About
    <2>2. EventsIn(u[Home(g)], g) = <<e>> \o b
        BY ONLY <1>3, <1>4, <1>8, <2>1, EventsHead, Numbers, SMTT(30)
    <2>3. u2[Home(g)] = Tail(u[t]) /\ Tail(u[t]) \in Seq(UpPackage)
        BY ONLY <1>3, <1>4, <1>5, <2>1, TailFacts, Zenon
    <2>4. b \in Seq(Int)
        BY ONLY <2>3, EventsType, Numbers, Zenon
    <2>5. EventsIn(d2[other_id], g) = Append(a, e)
        <3>1. About(c, g) /\ c.inner.event = e
            BY ONLY <1>7, <1>8, Zenon DEF About
        <3>2. d2[other_id] = Append(d[other_id], c)
            BY ONLY <1>2, <1>5, <2>1, Zenon
        <3> QED
            BY ONLY <1>4, <1>6, <3>1, <3>2, EventsAppend, SMTT(30)
    <2>6. e \in Int
        BY ONLY <1>6, <1>8, Numbers, Zenon DEF Numbered
    <2>9. a \in Seq(Int)
        BY ONLY <1>4, Zenon
    <2> HIDE DEF a, b, e
    <2>7. (v[g] \o Append(a, e)) \o b = (v[g] \o a) \o (<<e>> \o b)
        <3> DEFINE x == v[g]
        <3>1. x \in Seq(Int)
            BY ONLY <1>4, Zenon
        <3> HIDE DEF x
        <3>2. (x \o Append(a, e)) \o b = (x \o a) \o (<<e>> \o b)
            BY ONLY <2>4, <2>6, <2>9, <3>1, MovedOn, ZenonT(30)
        <3> QED
            BY ONLY <3>2, Zenon DEF x
    <2>8. Told(v, d2, u2, g) = Told(v, d, u, g)
        <3>1. u2[Home(g)] = Tail(u[t]) /\ EventsIn(u2[Home(g)], g) = b
            BY ONLY <2>3, Zenon DEF b
        <3> QED
            BY ONLY <2>2, <2>5, <2>7, <3>1, Zenon DEF Told, a
    <2> QED
        BY ONLY <2>8, View(v, d, u, s, k), g \in Gid, Zenon DEF View
<1>9. CASE ~About(p, g)
    <2>1. EventsIn(u2[Home(g)], g) = EventsIn(u[Home(g)], g)
        <3>1. CASE t = Home(g)
            <4>1. EventsIn(u[Home(g)], g) = EventsIn(Tail(u[t]), g)
                BY ONLY <1>3, <1>4, <1>9, <3>1, EventsHead, Numbers, Zenon
            <4>2. u2[Home(g)] = Tail(u[t])
                BY ONLY <1>3, <1>4, <1>5, <3>1, Zenon
            <4> QED
                BY ONLY <4>1, <4>2, Zenon
        <3>2. CASE t # Home(g)
            <4>1. u2[Home(g)] = u[Home(g)]
                BY ONLY <1>3, <1>4, <1>5, <3>2, Zenon
            <4> QED
                BY ONLY <4>1, Zenon
        <3> QED
            BY ONLY <3>1, <3>2, Zenon
    <2>2. EventsIn(d2[other_id], g) = EventsIn(d[other_id], g)
        <3>1. ~About(c, g)
            BY ONLY <1>7, <1>9, Zenon DEF About
        <3>2. d2[other_id] = d[other_id] \/ d2[other_id] = Append(d[other_id], c)
            BY ONLY <1>2, <1>5, Zenon
        <3>3. EventsIn(Append(d[other_id], c), g) = EventsIn(d[other_id], g)
            BY ONLY <1>4, <1>6, <3>1, EventsAppend, SMTT(30)
        <3> QED
            BY ONLY <3>2, <3>3, Zenon
    <2>3. Apart(g, v, d, u, s, k, v, d2, u2, s, k)
        BY ONLY <2>1, <2>2, Zenon DEF Apart
    <2> QED
        BY ONLY <2>3, ViewApart, View(v, d, u, s, k), g \in Gid, SMTT(30)
<1> QED
    BY ONLY <1>8, <1>9, Zenon

(* The other thread takes an event and tells the VM.                       *)
LEMMA ViewTold ==
    ASSUME NEW u, NEW d, NEW s, NEW r, NEW c, State(u, d, s, r, c), NEW v, View(v, d, u, s, c),
           NEW p, p = Head(d[other_id]), NEW d2, Dropped(other_id, d, d2),
           NEW v2, v2 = IF p.inner.event = Nothing THEN v
                        ELSE [v EXCEPT ![p.inner.gid] = Append(@, p.inner.event)]
    PROVE  View(v2, d2, u, s, c)
<1>1. /\ v \in [Gid -> Seq(Int)] /\ Sound(u, d, s) /\ d \in [Thread -> Seq(DownPackage)]
      /\ other_id \in Thread /\ d[other_id] \in Seq(DownPackage)
    BY Ids, Zenon DEF State, View, Good, Typed
<1>2. d[other_id] # <<>> /\ d2 = [d EXCEPT ![other_id] = Tail(@)]
    BY Zenon DEF Dropped
<1>3. /\ p = d[other_id][1] /\ 1 \in DOMAIN d[other_id] /\ p \in DownPackage
      /\ Tail(d[other_id]) \in Seq(DownPackage)
    BY ONLY <1>1, <1>2, p = Head(d[other_id]), TailFacts, SMTT(30)
<1>4. DownFits(p, other_id, s)
    BY ONLY <1>1, <1>3, Zenon DEF Sound
<1>5. p.inner.cmd = "WORKER2OTHER_LUAVM" /\ p.inner.gid \in Gid
    BY ONLY <1>4, Ids, Zenon DEF DownFits, Fits
<1>6. p.inner.event \in Int
    BY ONLY <1>3, <1>5, PackageTypes, EventTypes, Zenon
<1>7. d2[other_id] = Tail(d[other_id])
    BY ONLY <1>1, <1>2, Zenon
<1>8. v2 \in [Gid -> Seq(Int)]
    <2>1. \A q \in Seq(Int), e \in Int : Append(q, e) \in Seq(Int)
        OBVIOUS
    <2> QED
        BY <1>1, <1>5, <1>6, <2>1, ZenonT(30)
<1> SUFFICES ASSUME NEW g \in Gid PROVE Told(v2, d2, u, g) = LifeOf(s, c, g)
    BY <1>8, Zenon DEF View
<1>9. CASE g = p.inner.gid /\ p.inner.event # Nothing
    <2> DEFINE a == EventsIn(Tail(d[other_id]), g)
               b == EventsIn(u[Home(g)], g)
               e == p.inner.event
    <2>1. EventsIn(d[other_id], g) = <<e>> \o a
        BY ONLY <1>1, <1>2, <1>5, <1>9, p = Head(d[other_id]), EventsHead, Numbers, Zenon DEF About
    <2>2. a \in Seq(Int)
        BY ONLY <1>3, EventsType, Numbers, Zenon
    <2>3. v[g] \in Seq(Int) /\ b \in Seq(Int)
        BY ONLY ViewTypes, State(u, d, s, r, c), View(v, d, u, s, c), g \in Gid, Zenon
    <2>4. v2[g] = Append(v[g], e)
        BY <1>1, <1>9, Zenon
    <2>5. EventsIn(d2[other_id], g) = a
        BY ONLY <1>7, Zenon
    <2>6. e \in Int
        BY ONLY <1>6, Zenon
    <2> HIDE DEF a, e
    <2>7. Told(v2, d2, u, g) = (Append(v[g], e) \o a) \o b
        BY ONLY <2>4, <2>5, Zenon DEF Told
    <2>8. Told(v, d, u, g) = (v[g] \o (<<e>> \o a)) \o b
        BY ONLY <2>1, Zenon DEF Told
    <2> HIDE DEF b
    <2>9. (Append(v[g], e) \o a) \o b = (v[g] \o (<<e>> \o a)) \o b
        BY ONLY <2>2, <2>3, <2>6, TakenOff, Zenon
    <2> QED
        BY ONLY <2>7, <2>8, <2>9, View(v, d, u, s, c), g \in Gid, Zenon DEF View
<1>10. CASE g # p.inner.gid \/ p.inner.event = Nothing
    <2>1. EventsIn(d[other_id], g) = EventsIn(Tail(d[other_id]), g)
        BY ONLY <1>1, <1>2, <1>10, p = Head(d[other_id]), EventsHead, Numbers, Zenon DEF About
    <2>2. v2[g] = v[g]
        BY <1>1, <1>10, Zenon
    <2>3. Apart(g, v, d, u, s, c, v2, d2, u, s, c)
        BY ONLY <1>7, <2>1, <2>2, Zenon DEF Apart
    <2> QED
        BY ONLY <2>3, ViewApart, View(v, d, u, s, c), g \in Gid, SMTT(30)
<1> QED
    BY ONLY <1>9, <1>10, Zenon

(* A worker tells the VM of client g.                                      *)
Tells(g, e, u, u2) == u2 = [u EXCEPT ![Home(g)] = tunnel_forward(@, Home(g), {other_id}, ToVM(g, e))]

Queued(g, e, u, u2) ==
    /\ EventsIn(u2[Home(g)], g) = IF e = Nothing THEN EventsIn(u[Home(g)], g)
                                  ELSE Append(EventsIn(u[Home(g)], g), e)
    /\ \A h \in Gid \ {g} : EventsIn(u2[Home(h)], h) = EventsIn(u[Home(h)], h)

LEMMA TellVM ==
    ASSUME NEW u \in [Thread -> Seq(UpPackage)], NEW g \in Gid, NEW e \in Int, NEW u2,
           Tells(g, e, u, u2)
    PROVE  Queued(g, e, u, u2)
<1> DEFINE p == [source |-> Home(g), target |-> {other_id}, inner |-> ToVM(g, e)]
<1>1. Home(g) \in Thread /\ {other_id} \in SUBSET Thread /\ u[Home(g)] \in Seq(UpPackage)
    BY Ids, Zenon
<1>2. tunnel_forward(u[Home(g)], Home(g), {other_id}, ToVM(g, e)) = Append(u[Home(g)], p)
    <2>1. is_tunnel_id(other_id) /\ other_id # main_id
        BY Ids, Zenon DEF is_tunnel_id
    <2>2. {d \in {other_id} : is_tunnel_id(d) /\ d # main_id} = {other_id}
        BY ONLY <2>1, Zenon
    <2> QED
        BY ONLY <2>2, Zenon DEF tunnel_forward
<1>3. p \in UpPackage
    BY <1>1, PackageTypes, InnerTypes, Zenon
<1>4. (About(p, g) <=> e # Nothing) /\ p.inner.event = e /\ \A h \in Gid \ {g} : ~About(p, h)
    BY ONLY TRUE, Zenon DEF About, ToVM
<1> HIDE DEF p
<1>5. u2[Home(g)] = Append(u[Home(g)], p)
    BY <1>1, <1>2, Zenon DEF Tells
<1>6. EventsIn(u2[Home(g)], g) = IF e = Nothing THEN EventsIn(u[Home(g)], g)
                                 ELSE Append(EventsIn(u[Home(g)], g), e)
    <2>1. CASE e = Nothing
        <3>1. EventsIn(Append(u[Home(g)], p), g) = EventsIn(u[Home(g)], g)
            BY ONLY <1>1, <1>3, <1>4, <2>1, EventsAppend, SMTT(30)
        <3> QED
            BY ONLY <1>5, <2>1, <3>1, Zenon
    <2>2. CASE e # Nothing
        <3>1. EventsIn(Append(u[Home(g)], p), g) = Append(EventsIn(u[Home(g)], g), e)
            BY ONLY <1>1, <1>3, <1>4, <2>2, EventsAppend, SMTT(30)
        <3> QED
            BY ONLY <1>5, <2>2, <3>1, Zenon
    <2> QED
        BY ONLY <2>1, <2>2, Zenon
<1>7. ASSUME NEW h \in Gid \ {g} PROVE EventsIn(u2[Home(h)], h) = EventsIn(u[Home(h)], h)
    <2>1. CASE Home(h) = Home(g)
        <3>1. EventsIn(Append(u[Home(g)], p), h) = EventsIn(u[Home(g)], h)
            BY ONLY <1>1, <1>3, <1>4, <1>7, EventsAppend
        <3> QED
            BY ONLY <1>5, <2>1, <3>1, Zenon
    <2>2. CASE Home(h) # Home(g)
        <3>1. u2[Home(h)] = u[Home(h)]
            BY <2>2, Ids, Zenon DEF Tells
        <3> QED
            BY ONLY <3>1, Zenon
    <2> QED
        BY ONLY <2>1, <2>2, Zenon
<1> QED
    BY ONLY <1>6, <1>7, Zenon DEF Queued

(* What becomes of the other clients.                                      *)
Others(g, s, c, s2, c2) ==
    \A h \in Gid \ {g} : /\ PackagesIn(s2, h) = PackagesIn(s, h)
                         /\ c2[h] \in Opened <=> c[h] \in Opened
                         /\ c2[h] = "gone" <=> c[h] = "gone"

(* An event that is queued ends the life of the client as far as it goes.  *)
LEMMA ViewTell ==
    ASSUME NEW u, NEW d, NEW s, NEW r, NEW c, State(u, d, s, r, c), NEW v, View(v, d, u, s, c),
           NEW g \in Gid, NEW e \in Int, NEW u2, NEW d2, NEW s2, NEW c2, d2[other_id] = d[other_id],
           Tells(g, e, u, u2), e # Nothing,
           LifeOf(s2, c2, g) = Append(LifeOf(s, c, g), e),
           Others(g, s, c, s2, c2)
    PROVE  View(v, d2, u2, s2, c2)
<1>1. /\ v[g] \in Seq(Int) /\ EventsIn(d[other_id], g) \in Seq(Int)
      /\ EventsIn(u[Home(g)], g) \in Seq(Int) /\ u \in [Thread -> Seq(UpPackage)]
    BY ONLY ViewTypes, State(u, d, s, r, c), View(v, d, u, s, c), g \in Gid, Zenon
<1>2. /\ EventsIn(u2[Home(g)], g) = Append(EventsIn(u[Home(g)], g), e)
      /\ \A h \in Gid \ {g} : EventsIn(u2[Home(h)], h) = EventsIn(u[Home(h)], h)
    <2>1. Queued(g, e, u, u2)
        BY ONLY <1>1, TellVM, g \in Gid, e \in Int, Tells(g, e, u, u2), Zenon
    <2> QED
        BY ONLY <2>1, e # Nothing, Zenon DEF Queued
<1>3. Told(v, d2, u2, g) = LifeOf(s2, c2, g)
    <2> DEFINE x == v[g] \o EventsIn(d[other_id], g)
               b == EventsIn(u[Home(g)], g)
    <2>1. x \in Seq(Int) /\ b \in Seq(Int)
        <3>1. \A y, z \in Seq(Int) : y \o z \in Seq(Int)
            OBVIOUS
        <3> QED
            BY ONLY <1>1, <3>1, Zenon
    <2>2. Told(v, d2, u2, g) = x \o Append(b, e)
        BY ONLY <1>2, d2[other_id] = d[other_id], Zenon DEF Told
    <2>3. Told(v, d, u, g) = x \o b
        BY ONLY TRUE, Zenon DEF Told
    <2>4. Told(v, d, u, g) = LifeOf(s, c, g)
        BY Zenon DEF View
    <2> HIDE DEF x, b
    <2>5. x \o Append(b, e) = Append(x \o b, e)
        BY ONLY <2>1, PutOn, e \in Int, Zenon
    <2> QED
        BY ONLY <2>2, <2>3, <2>4, <2>5, LifeOf(s2, c2, g) = Append(LifeOf(s, c, g), e), Zenon
<1>4. ASSUME NEW h \in Gid \ {g} PROVE Told(v, d2, u2, h) = LifeOf(s2, c2, h)
    <2>1. Apart(h, v, d, u, s, c, v, d2, u2, s2, c2)
        BY <1>2, <1>4, Zenon DEF Apart, Others
    <2> QED
        BY ONLY <1>4, <2>1, ViewApart, View(v, d, u, s, c)
<1>5. v \in [Gid -> Seq(Int)]
    BY Zenon DEF View
<1> QED
    BY ONLY <1>3, <1>4, <1>5, Zenon DEF View

(* A step that tells the VM nothing.                                       *)
LEMMA ViewQuiet ==
    ASSUME NEW v, NEW d, NEW u, NEW s, NEW c, View(v, d, u, s, c), NEW u2, NEW d2, NEW s2, NEW c2,
           \A h \in Gid : Apart(h, v, d, u, s, c, v, d2, u2, s2, c2)
    PROVE  View(v, d2, u2, s2, c2)
<1>1. ASSUME NEW h \in Gid PROVE Told(v, d2, u2, h) = LifeOf(s2, c2, h)
    <2>1. Apart(h, v, d, u, s, c, v, d2, u2, s2, c2)
        BY <1>1, Zenon
    <2> QED
        BY ONLY <1>1, <2>1, ViewApart, View(v, d, u, s, c)
<1>2. v \in [Gid -> Seq(Int)]
    BY Zenon DEF View
<1> QED
    BY ONLY <1>1, <1>2, Zenon DEF View

(* The life of a client goes on.                                           *)
LEMMA LifeOpens ==
    ASSUME NEW s \in Seq(Message), NEW c, NEW c2, NEW g, Engaged(s, c), g \in Gid,
           c[g] = "handed", c2[g] = "open"
    PROVE  LifeOf(s, c2, g) = Append(LifeOf(s, c, g), NewEvent)
<1>1. c[g] \notin Opened /\ c2[g] \in Opened /\ c[g] # "gone" /\ c2[g] # "gone"
    BY Zenon DEF Opened
<1>2. \A m \in DOMAIN s : s[m].source # g
    BY <1>1, Zenon DEF Engaged
<1>3. PackagesIn(s, g) = <<>>
    BY <1>2, PackagesNone, Zenon
<1>4. LifeOf(s, c, g) = (<<>> \o <<>>) \o <<>> /\ LifeOf(s, c2, g) = (<<NewEvent>> \o <<>>) \o <<>>
    BY ONLY <1>1, <1>3, Zenon DEF LifeOf
<1>5. (<<NewEvent>> \o <<>>) \o <<>> = Append((<<>> \o <<>>) \o <<>>, NewEvent)
    OBVIOUS
<1> QED
    BY ONLY <1>4, <1>5, Zenon

LEMMA LifeSends ==
    ASSUME NEW s \in Seq(Message), NEW s2, NEW c, NEW g, NEW m \in Int, c[g] = "open",
           PackagesIn(s2, g) = Append(PackagesIn(s, g), m)
    PROVE  LifeOf(s2, c, g) = Append(LifeOf(s, c, g), m)
<1> DEFINE x == <<NewEvent>>
           b == PackagesIn(s, g)
<1>1. c[g] \in Opened /\ c[g] # "gone"
    BY Zenon DEF Opened
<1>2. LifeOf(s, c, g) = (x \o b) \o <<>> /\ LifeOf(s2, c, g) = (x \o Append(b, m)) \o <<>>
    BY ONLY <1>1, PackagesIn(s2, g) = Append(PackagesIn(s, g), m), Zenon DEF LifeOf
<1>3. x \in Seq(Int)
    BY DEF NewEvent
<1>4. b \in Seq(Int)
    BY PackagesType, Zenon
<1> HIDE DEF x, b
<1>5. x \o b \in Seq(Int) /\ x \o Append(b, m) \in Seq(Int)
    BY ONLY <1>3, <1>4, m \in Int
<1>6. (x \o b) \o <<>> = x \o b /\ (x \o Append(b, m)) \o <<>> = x \o Append(b, m)
    BY ONLY <1>5, NoMore, Zenon
<1>7. x \o Append(b, m) = Append(x \o b, m)
    BY ONLY <1>3, <1>4, PutOn, m \in Int, Zenon
<1> QED
    BY ONLY <1>2, <1>6, <1>7, Zenon

LEMMA LifeEnds ==
    ASSUME NEW s \in Seq(Message), NEW c, NEW c2, NEW g, c[g] = "closing", c2[g] = "gone"
    PROVE  LifeOf(s, c2, g) = Append(LifeOf(s, c, g), CloseEvent)
<1> DEFINE x == <<NewEvent>>
           b == PackagesIn(s, g)
           e == CloseEvent
<1>1. c[g] \in Opened /\ c[g] # "gone" /\ c2[g] \in Opened
    BY Zenon DEF Opened
<1>2. LifeOf(s, c, g) = (x \o b) \o <<>> /\ LifeOf(s, c2, g) = (x \o b) \o <<e>>
    BY ONLY <1>1, c2[g] = "gone", Zenon DEF LifeOf
<1>3. x \in Seq(Int)
    BY DEF NewEvent
<1>4. b \in Seq(Int)
    BY PackagesType, Zenon
<1>5. e \in Int
    BY DEF CloseEvent
<1> HIDE DEF x, b, e
<1> DEFINE y == x \o b
<1>6. y \in Seq(Int)
    BY ONLY <1>3, <1>4
<1> HIDE DEF y
<1>7. y \o <<>> = y
    BY ONLY <1>6, NoMore, Zenon
<1>8. y \o <<e>> = Append(y, e)
    BY ONLY <1>5, <1>6, AppendIsConcat, Zenon
<1>9. LifeOf(s, c2, g) = Append(LifeOf(s, c, g), e)
    BY ONLY <1>2, <1>7, <1>8, Zenon DEF y
<1> QED
    BY ONLY <1>9, Zenon DEF e

-----------------------------------------------------------------------------
(* The steps, seen from the VM.                                            *)

LEMMA RouteView ==
    ASSUME State(up, down, sent, received, client), View(seen, down, up, sent, client),
           NEW t \in Thread, route(t)
    PROVE  View(seen', down', up', sent', client')
<1> DEFINE p == Head(up[t])
           c == [source |-> p.source, inner |-> p.inner]
<1>1. Routed(t, p, c, up, down, up', down')
    BY Zenon DEF route, Routed
<1>2. sent' = sent /\ client' = client /\ seen' = seen
    BY Zenon DEF route
<1> HIDE DEF p, c
<1>3. View(seen, down', up', sent, client)
    BY ONLY <1>1, ViewRoute, State(up, down, sent, received, client), View(seen, down, up, sent, client), t \in Thread, Zenon
<1> QED
    BY ONLY <1>2, <1>3, Zenon

LEMMA OtherView ==
    ASSUME State(up, down, sent, received, client), View(seen, down, up, sent, client),
           other_on_tunnel_process
    PROVE  View(seen', down', up', sent', client')
<1> DEFINE p == Head(down[other_id])
<1>1. /\ Dropped(other_id, down, down') /\ up' = up /\ sent' = sent /\ client' = client
      /\ seen' = IF p.inner.event = Nothing THEN seen
                 ELSE [seen EXCEPT ![p.inner.gid] = Append(@, p.inner.event)]
    BY Zenon DEF other_on_tunnel_process, on_other_tunnel, Dropped
<1>2. p = Head(down[other_id])
    BY Zenon
<1> HIDE DEF p
<1>3. View(seen', down', up, sent, client)
    BY ONLY <1>1, <1>2, ViewTold, State(up, down, sent, received, client), View(seen, down, up, sent, client), Zenon
<1> QED
    BY ONLY <1>1, <1>3, Zenon

(* Where the steps of the workers and the clients leave the VM's queue.    *)
LEMMA HomeApart ==
    ASSUME NEW g \in Gid
    PROVE  Home(g) # other_id /\ Home(g) \in Thread /\ other_id \in Thread /\ g # other_id /\ {g} # {other_id}
BY Ids, Zenon

LEMMA ListenView ==
    ASSUME State(up, down, sent, received, client), View(seen, down, up, sent, client),
           NEW g \in Gid, on_listen_event(g)
    PROVE  View(seen', down', up', sent', client')
<1>1. /\ Announced(g, down, down') /\ client[g] = "unborn"
      /\ client' = [client EXCEPT ![g] = "handed"]
      /\ sent' = sent /\ up' = up /\ seen' = seen
    BY Zenon DEF on_listen_event, Announced, Home
<1>2. down \in [Thread -> Seq(DownPackage)] /\ client \in [Gid -> Stage]
    BY Zenon DEF State, Good, Typed
<1>3. down'[other_id] = down[other_id]
    BY ONLY <1>1, <1>2, HomeApart, g \in Gid, Zenon DEF Announced
<1>4. \A h \in Gid : /\ client'[h] \in Opened <=> client[h] \in Opened
                     /\ client'[h] = "gone" <=> client[h] = "gone"
    BY ONLY <1>1, <1>2, g \in Gid, Zenon DEF Opened
<1>5. \A h \in Gid : Apart(h, seen, down, up, sent, client, seen, down', up, sent, client')
    BY ONLY <1>3, <1>4, Zenon DEF Apart
<1>6. View(seen, down', up, sent, client')
    BY ONLY <1>5, ViewQuiet, View(seen, down, up, sent, client), Zenon
<1> QED
    BY ONLY <1>1, <1>6, Zenon

LEMMA SetCloseView ==
    ASSUME State(up, down, sent, received, client), View(seen, down, up, sent, client),
           NEW g \in Gid, set_is_close(g)
    PROVE  View(seen', down', up', sent', client')
<1>1. /\ client[g] = "open" /\ client' = [client EXCEPT ![g] = "closing"]
      /\ sent' = sent /\ up' = up /\ seen' = seen /\ down' = down
    BY Zenon DEF set_is_close
<1>2. client \in [Gid -> Stage]
    BY Zenon DEF State
<1>3. \A h \in Gid : /\ client'[h] \in Opened <=> client[h] \in Opened
                     /\ client'[h] = "gone" <=> client[h] = "gone"
    BY ONLY <1>1, <1>2, g \in Gid, Zenon DEF Opened
<1>4. \A h \in Gid : Apart(h, seen, down, up, sent, client, seen, down, up, sent, client')
    BY ONLY <1>3, Zenon DEF Apart
<1>5. View(seen, down, up, sent, client')
    BY ONLY <1>4, ViewQuiet, View(seen, down, up, sent, client), Zenon
<1> QED
    BY ONLY <1>1, <1>5, Zenon

LEMMA CloseView ==
    ASSUME State(up, down, sent, received, client), View(seen, down, up, sent, client),
           NEW g \in Gid, close_client_fd(g)
    PROVE  View(seen', down', up', sent', client')
<1>1. /\ client[g] = "closing" /\ client' = [client EXCEPT ![g] = "gone"]
      /\ Tells(g, CloseEvent, up, up')
      /\ sent' = sent /\ seen' = seen /\ down' = down
    BY Zenon DEF close_client_fd, Tells, Home
<1>2. client \in [Gid -> Stage] /\ sent \in Seq(Message)
    BY Zenon DEF State, Good, Typed
<1>3. client'[g] = "gone"
    BY ONLY <1>1, <1>2, g \in Gid, Zenon
<1>4. LifeOf(sent, client', g) = Append(LifeOf(sent, client, g), CloseEvent)
    BY ONLY <1>1, <1>2, <1>3, LifeEnds, Zenon
<1>5. Others(g, sent, client, sent, client')
    BY ONLY <1>1, <1>2, Zenon DEF Others
<1>6. CloseEvent \in Int /\ CloseEvent # Nothing
    BY DEF CloseEvent, Nothing
<1>7. View(seen, down, up', sent, client')
    BY ONLY <1>1, <1>4, <1>5, <1>6, ViewTell, State(up, down, sent, received, client),
            View(seen, down, up, sent, client), g \in Gid, Zenon
<1> QED
    BY ONLY <1>1, <1>7, Zenon

LEMMA RecvView ==
    ASSUME State(up, down, sent, received, client), View(seen, down, up, sent, client),
           NEW g \in Gid, NEW e \in Int, on_recv_package(g, e)
    PROVE  View(seen', down', up', sent', client')
<1> DEFINE x == [source |-> g, to |-> {other_id}, reach |-> {}, event |-> e]
<1>1. /\ client[g] = "open" /\ client' = client /\ seen' = seen /\ down' = down
      /\ sent' = Append(sent, x) /\ Tells(g, e, up, up')
    BY Zenon DEF on_recv_package, Tells, Home
<1>2. sent \in Seq(Message) /\ up \in [Thread -> Seq(UpPackage)]
    BY Zenon DEF State, Good, Typed
<1>3. x \in Message
    BY DEF Message, other_id
<1>4. (ToTheVM(x, g) <=> e # Nothing) /\ x.event = e /\ \A h \in Gid \ {g} : ~ToTheVM(x, h)
    BY ONLY TRUE, Zenon DEF ToTheVM
<1> HIDE DEF x
<1>5. \A h \in Gid \ {g} : PackagesIn(sent', h) = PackagesIn(sent, h)
    BY ONLY <1>1, <1>2, <1>3, <1>4, PackagesGrow, Zenon
<1>6. CASE e # Nothing
    <2>1. PackagesIn(sent', g) = Append(PackagesIn(sent, g), e)
        BY ONLY <1>1, <1>2, <1>3, <1>4, <1>6, PackagesGrow, Zenon
    <2>2. LifeOf(sent', client, g) = Append(LifeOf(sent, client, g), e)
        <3> DEFINE s == sent
                   s2 == sent'
        <3>1. s \in Seq(Message) /\ PackagesIn(s2, g) = Append(PackagesIn(s, g), e)
            BY ONLY <1>2, <2>1, Zenon
        <3> HIDE DEF s, s2
        <3>2. LifeOf(s2, client, g) = Append(LifeOf(s, client, g), e)
            BY ONLY <1>1, <3>1, e \in Int, LifeSends, SMTT(30)
        <3> QED
            BY ONLY <3>2, Zenon DEF s, s2
    <2>3. Others(g, sent, client, sent', client)
        BY ONLY <1>5, Zenon DEF Others
    <2>4. View(seen, down, up', sent', client)
        BY ONLY <1>1, <1>6, <2>2, <2>3, ViewTell, State(up, down, sent, received, client),
                View(seen, down, up, sent, client), g \in Gid, e \in Int, Zenon
    <2> QED
        BY ONLY <1>1, <2>4, Zenon
<1>7. CASE e = Nothing
    <2>1. PackagesIn(sent', g) = PackagesIn(sent, g)
        BY ONLY <1>1, <1>2, <1>3, <1>4, <1>7, PackagesGrow, Zenon
    <2>2. Queued(g, e, up, up')
        BY ONLY <1>1, <1>2, TellVM, g \in Gid, e \in Int, Zenon
    <2>3. \A h \in Gid : Apart(h, seen, down, up, sent, client, seen, down, up', sent', client)
        BY ONLY <1>5, <1>7, <2>1, <2>2, Zenon DEF Apart, Queued
    <2>4. View(seen, down, up', sent', client)
        BY ONLY <2>3, ViewQuiet, View(seen, down, up, sent, client), Zenon
    <2> QED
        BY ONLY <1>1, <2>4, Zenon
<1> QED
    BY ONLY <1>6, <1>7, Zenon

(* A message that the VM sends, or that goes to clients, is no package for *)
(* the VM.                                                                 *)
LEMMA SentApart ==
    ASSUME NEW s \in Seq(Message), NEW x \in Message, NEW s2, s2 = Append(s, x),
           x.source = other_id \/ x.event = Nothing
    PROVE  \A h \in Gid : PackagesIn(s2, h) = PackagesIn(s, h)
<1>1. \A h \in Gid : ~ToTheVM(x, h)
    BY HomeApart, Zenon DEF ToTheVM
<1> QED
    BY ONLY <1>1, PackagesGrow, s \in Seq(Message), x \in Message, s2 = Append(s, x), Zenon

LEMMA LuaView ==
    ASSUME State(up, down, sent, received, client), View(seen, down, up, sent, client),
           NEW g \in Gid, lua_sends(g) \/ lua_closes(g)
    PROVE  View(seen', down', up', sent', client')
<1>1. /\ client' = client /\ seen' = seen /\ down' = down
      /\ \E q : up' = [up EXCEPT ![other_id] = q]
    BY Zenon DEF lua_sends, lua_closes
<1>2. /\ up \in [Thread -> Seq(UpPackage)] /\ sent \in Seq(Message)
    BY Zenon DEF State, Good, Typed
<1>3. PICK x \in Message : sent' = Append(sent, x) /\ x.source = other_id
    <2> DEFINE y == [source |-> other_id, to |-> {g}, reach |-> Reach({g}), event |-> Nothing]
               z == [source |-> other_id, to |-> {}, reach |-> {}, event |-> Nothing]
    <2>1. y \in Message /\ z \in Message
        BY RouterAssumption, Events, SMTT(30) DEF Message, Reach
    <2>2. sent' = Append(sent, y) \/ sent' = Append(sent, z)
        BY Zenon DEF lua_sends, lua_closes
    <2>3. y.source = other_id /\ z.source = other_id
        BY ONLY TRUE, Zenon
    <2> HIDE DEF y, z
    <2> QED
        BY ONLY <2>1, <2>2, <2>3, Zenon
<1>4. \A h \in Gid : PackagesIn(sent', h) = PackagesIn(sent, h)
    BY ONLY <1>2, <1>3, SentApart, Zenon
<1>5. \A h \in Gid : up'[Home(h)] = up[Home(h)]
    BY ONLY <1>1, <1>2, HomeApart, Zenon
<1>6. \A h \in Gid : Apart(h, seen, down, up, sent, client, seen, down, up', sent', client)
    BY ONLY <1>4, <1>5, Zenon DEF Apart
<1>7. View(seen, down, up', sent', client)
    BY ONLY <1>6, ViewQuiet, View(seen, down, up, sent, client), Zenon
<1> QED
    BY ONLY <1>1, <1>7, Zenon

(* What send_client_forward_message queues and does to the connections.    *)
LEMMA SendApart ==
    ASSUME State(up, down, sent, received, client), NEW w \in Worker, NEW gids, NEW m, NEW ps, NEW full,
           Sends(w, gids, m, ps, full)
    PROVE  \A h \in Gid : /\ EventsIn(up'[Home(h)], h) = EventsIn(up[Home(h)], h)
                          /\ client'[h] \in Opened <=> client[h] \in Opened
                          /\ client'[h] = "gone" <=> client[h] = "gone"
<1>1. /\ Spread(w, m, gids, ps) /\ Pushed(w, ps, up, up') /\ full \subseteq Addressed(w, gids)
      /\ client' = [g \in Gid |-> IF g \in full THEN "closing" ELSE client[g]]
    BY Zenon DEF Sends
<1>2. up \in [Thread -> Seq(UpPackage)] /\ w \in Thread
    BY Ids, Zenon DEF State, Good, Typed
<1>3. \A h \in full : client[h] = "open"
    BY <1>1, Zenon DEF Addressed
<1> SUFFICES ASSUME NEW h \in Gid
             PROVE  /\ EventsIn(up'[Home(h)], h) = EventsIn(up[Home(h)], h)
                    /\ client'[h] \in Opened <=> client[h] \in Opened
                    /\ client'[h] = "gone" <=> client[h] = "gone"
    BY Zenon
<1>4. /\ client'[h] \in Opened <=> client[h] \in Opened
      /\ client'[h] = "gone" <=> client[h] = "gone"
    BY ONLY <1>1, <1>3, h \in Gid, Zenon DEF Opened
<1>5. CASE Home(h) = w
    <2>1. up'[Home(h)] = up[Home(h)] \o ps /\ up[Home(h)] \in Seq(UpPackage) /\ ps \in Seq(UpPackage)
        BY ONLY <1>1, <1>2, <1>5, Zenon DEF Pushed
    <2>2. \A i \in DOMAIN ps : ~About(ps[i], h)
        BY ONLY <1>1, Zenon DEF Spread, About
    <2>3. EventsIn(up[Home(h)] \o ps, h) = EventsIn(up[Home(h)], h)
        BY ONLY <2>1, <2>2, EventsConcat, Zenon
    <2> QED
        BY ONLY <1>4, <2>1, <2>3, Zenon
<1>6. CASE Home(h) # w
    <2>1. up'[Home(h)] = up[Home(h)]
        BY ONLY <1>1, <1>2, <1>6, HomeApart, h \in Gid, Zenon DEF Pushed
    <2> QED
        BY ONLY <1>4, <2>1, Zenon
<1> QED
    BY ONLY <1>5, <1>6, Zenon


LEMMA ForwardView ==
    ASSUME State(up, down, sent, received, client), View(seen, down, up, sent, client), start \in Start,
           NEW g \in Gid, NEW gids \in SUBSET start.named, client_forwards(g, gids)
    PROVE  View(seen', down', up', sent', client')
<1> DEFINE m == Len(sent) + 1
           x == [source |-> g, to |-> gids, reach |-> Reach(gids), event |-> Nothing]
           w == Home(g)
<1>1. Good(up, down, sent, received) /\ sent \in Seq(Message)
    BY Zenon DEF State, Good, Typed
<1>2. gids \in SUBSET Nat
    BY RouterAssumption, Zenon
<1>3. x \in Message /\ m \in Nat
    BY <1>1, <1>2, Events, SMTT(30) DEF Message, Reach
<1>4. /\ down' = down /\ seen' = seen /\ sent' = Append(sent, x)
      /\ send_client_forward_message(w, g, gids, m)
    BY Zenon DEF client_forwards, Home
<1>5. x.event = Nothing /\ w \in Worker
    BY ONLY Ids, g \in Gid, Zenon
<1> HIDE DEF x, w, m
<1>6. \A h \in Gid : PackagesIn(sent', h) = PackagesIn(sent, h)
    BY ONLY <1>1, <1>3, <1>4, <1>5, SentApart, Zenon
<1>7. PICK ps, full : Sends(w, gids, m, ps, full)
    BY ONLY <1>1, <1>2, <1>3, <1>4, <1>5, SendFacts, Zenon
<1>8. \A h \in Gid : /\ EventsIn(up'[Home(h)], h) = EventsIn(up[Home(h)], h)
                     /\ client'[h] \in Opened <=> client[h] \in Opened
                     /\ client'[h] = "gone" <=> client[h] = "gone"
    BY ONLY <1>5, <1>7, SendApart, State(up, down, sent, received, client), Zenon
<1>9. \A h \in Gid : Apart(h, seen, down, up, sent, client, seen, down, up', sent', client')
    BY ONLY <1>6, <1>8, Zenon DEF Apart
<1>10. View(seen, down, up', sent', client')
    BY ONLY <1>9, ViewQuiet, View(seen, down, up, sent, client), Zenon
<1> QED
    BY ONLY <1>4, <1>10, Zenon

(* on_new_client_fd: the VM is told of the connection, or there is none.   *)
LEMMA NewClientView ==
    ASSUME State(up, down, sent, received, client), View(seen, down, up, sent, client),
           NEW w \in Worker, NEW p, Taken(w, p), down'[other_id] = down[other_id],
           p.inner.cmd = "MAIN2WORKER_NEW_CLIENT", on_new_client_fd(w, p.inner.gid)
    PROVE  View(seen, down', up', sent, client')
<1> DEFINE g == p.inner.gid
<1>1. g \in Gid /\ w = Home(g) /\ w \in Thread
    BY ONLY Taken(w, p), w \in Worker, Ids, p.inner.cmd = "MAIN2WORKER_NEW_CLIENT", Zenon DEF Taken, DownFits, Fits
<1>2. client \in [Gid -> Stage] /\ sent \in Seq(Message) /\ Engaged(sent, client)
    BY Zenon DEF State, Good, Typed
<1>3. client[g] = "handed"
    <2>1. down[w] \in Seq(DownPackage) /\ down[w] # <<>> /\ p = Head(down[w]) /\ Waiting(down, client)
        BY <1>1, Zenon DEF State, Good, Typed, Taken, Dropped
    <2>2. p = down[w][1] /\ 1 \in DOMAIN down[w]
        BY ONLY <2>1, TailFacts, SMTT(30)
    <2>3. IsNew(down[w][1])
        BY ONLY <2>2, p.inner.cmd = "MAIN2WORKER_NEW_CLIENT", Zenon DEF IsNew
    <2> QED
        BY ONLY <1>1, <2>1, <2>2, <2>3, ZenonT(30) DEF Waiting
<1>4. CASE client' = [client EXCEPT ![g] = "refused"] /\ up' = up
    <2>1. \A h \in Gid : /\ client'[h] \in Opened <=> client[h] \in Opened
                         /\ client'[h] = "gone" <=> client[h] = "gone"
        BY ONLY <1>1, <1>2, <1>3, <1>4, Zenon DEF Opened
    <2>2. \A h \in Gid : Apart(h, seen, down, up, sent, client, seen, down', up', sent, client')
        BY ONLY <1>4, <2>1, down'[other_id] = down[other_id], Zenon DEF Apart
    <2> QED
        BY ONLY <2>2, ViewQuiet, View(seen, down, up, sent, client), Zenon
<1>5. CASE /\ client' = [client EXCEPT ![g] = "open"]
           /\ up' = [up EXCEPT ![w] = tunnel_forward(@, w, {other_id}, ToVM(g, NewEvent))]
    <2>1. client'[g] = "open" /\ \A h \in Gid \ {g} : client'[h] = client[h]
        BY ONLY <1>1, <1>2, <1>5, Zenon
    <2>2. Tells(g, NewEvent, up, up')
        BY ONLY <1>1, <1>5, Zenon DEF Tells
    <2> HIDE DEF g
    <2>3. LifeOf(sent, client', g) = Append(LifeOf(sent, client, g), NewEvent)
        BY ONLY <1>1, <1>2, <1>3, <2>1, LifeOpens, ZenonT(30)
    <2>4. Others(g, sent, client, sent, client')
        BY ONLY <2>1, Zenon DEF Others
    <2>5. NewEvent \in Int /\ NewEvent # Nothing
        BY DEF NewEvent, Nothing
    <2> QED
        BY ONLY <1>1, <2>2, <2>3, <2>4, <2>5, ViewTell, State(up, down, sent, received, client),
                View(seen, down, up, sent, client), down'[other_id] = down[other_id], Zenon
<1> QED
    BY ONLY <1>4, <1>5, on_new_client_fd(w, p.inner.gid), Zenon DEF on_new_client_fd


LEMMA WorkerView ==
    ASSUME State(up, down, sent, received, client), View(seen, down, up, sent, client),
           NEW w \in Worker, worker_on_tunnel_process(w)
    PROVE  View(seen', down', up', sent', client')
<1> DEFINE p == Head(down[w])
<1>1. /\ down[w] # <<>> /\ down' = [down EXCEPT ![w] = Tail(@)] /\ sent' = sent /\ seen' = seen
    BY Zenon DEF worker_on_tunnel_process
<1>2. /\ w \in Thread /\ w # other_id /\ other_id \in Thread /\ Good(up, down, sent, received)
      /\ down \in [Thread -> Seq(DownPackage)] /\ client \in [Gid -> Stage] /\ sent \in Seq(Message)
    BY Ids, Zenon DEF State, Good, Typed
<1>3. Taken(w, p) /\ down'[other_id] = down[other_id]
    BY ONLY <1>1, <1>2, TakenFacts, State(up, down, sent, received, client), Zenon
<1>4. \/ p.inner.cmd = "MAIN2WORKER_NEW_CLIENT" /\ on_new_client_fd(w, p.inner.gid)
      \/ /\ p.inner.cmd = "CLIENT_FORWARD_MESSAGE" /\ up' = up
         /\ \E full \in SUBSET Addressed(w, p.inner.targetgid) :
               HandOut(p.inner.id, Addressed(w, p.inner.targetgid), full)
      \/ p.inner.cmd \in {"OTHERLUAVM2WORKERCONN", "OTHERLUAVM2WORKER_CLOSE"} /\ on_worker_tunnel(w, p.inner)
    BY Zenon DEF worker_on_tunnel_process
<1> HIDE DEF p
<1>5. ASSUME \A h \in Gid : /\ EventsIn(up'[Home(h)], h) = EventsIn(up[Home(h)], h)
                            /\ client'[h] \in Opened <=> client[h] \in Opened
                            /\ client'[h] = "gone" <=> client[h] = "gone"
      PROVE  View(seen', down', up', sent', client')
    <2>1. \A h \in Gid : Apart(h, seen, down, up, sent, client, seen, down', up', sent, client')
        BY ONLY <1>3, <1>5, Zenon DEF Apart
    <2>2. View(seen, down', up', sent, client')
        BY ONLY <2>1, ViewQuiet, View(seen, down, up, sent, client), Zenon
    <2> QED
        BY ONLY <1>1, <2>2, Zenon
<1>6. CASE p.inner.cmd = "MAIN2WORKER_NEW_CLIENT" /\ on_new_client_fd(w, p.inner.gid)
    <2>1. View(seen, down', up', sent, client')
        BY ONLY <1>3, <1>6, NewClientView, State(up, down, sent, received, client),
                View(seen, down, up, sent, client), w \in Worker, Zenon
    <2> QED
        BY ONLY <1>1, <2>1, Zenon
<1>7. CASE up' = up /\ \E full \in SUBSET Addressed(w, p.inner.targetgid) :
                          HandOut(p.inner.id, Addressed(w, p.inner.targetgid), full)
    <2>1. PICK full \in SUBSET Addressed(w, p.inner.targetgid) :
                  client' = [g \in Gid |-> IF g \in full THEN "closing" ELSE client[g]]
        BY ONLY <1>7, Zenon DEF HandOut
    <2>2. \A h \in full : client[h] = "open"
        BY ONLY <2>1, Zenon DEF Addressed
    <2>3. \A h \in Gid : /\ client'[h] \in Opened <=> client[h] \in Opened
                         /\ client'[h] = "gone" <=> client[h] = "gone"
        BY ONLY <2>1, <2>2, Zenon DEF Opened
    <2> QED
        BY ONLY <1>5, <1>7, <2>3, Zenon
<1>8. CASE p.inner.cmd = "OTHERLUAVM2WORKERCONN" /\ on_worker_tunnel(w, p.inner)
    <2>1. send_client_forward_message(w, p.inner.gid, {p.inner.gid}, p.inner.id)
        BY ONLY <1>8, Zenon DEF on_worker_tunnel
    <2>2. p.inner.gid \in Gid /\ p.inner.id \in DOMAIN sent
        BY ONLY <1>2, <1>3, <1>8, Ids, Zenon DEF Taken, DownFits, Fits
    <2>3. p.inner.id \in Nat
        BY ONLY <1>2, <2>2, ReachFacts, Zenon
    <2>4. {p.inner.gid} \in SUBSET Nat
        BY ONLY <2>2, Ids, Zenon
    <2>5. PICK ps, full : Sends(w, {p.inner.gid}, p.inner.id, ps, full)
        BY ONLY <1>2, <2>1, <2>3, <2>4, SendFacts, w \in Worker, Zenon
    <2>6. \A h \in Gid : /\ EventsIn(up'[Home(h)], h) = EventsIn(up[Home(h)], h)
                         /\ client'[h] \in Opened <=> client[h] \in Opened
                         /\ client'[h] = "gone" <=> client[h] = "gone"
        BY ONLY <2>5, SendApart, State(up, down, sent, received, client), w \in Worker, Zenon
    <2> QED
        BY ONLY <1>5, <2>6, Zenon
<1>9. CASE p.inner.cmd = "OTHERLUAVM2WORKER_CLOSE" /\ on_worker_tunnel(w, p.inner)
    <2>1. /\ client' = [client EXCEPT ![p.inner.gid] = IF @ = "open" THEN "closing" ELSE @]
          /\ up' = up
        BY ONLY <1>9, Zenon DEF on_worker_tunnel
    <2>2. \A h \in Gid : /\ client'[h] \in Opened <=> client[h] \in Opened
                         /\ client'[h] = "gone" <=> client[h] = "gone"
        BY ONLY <1>2, <2>1, Zenon DEF Opened
    <2> QED
        BY ONLY <1>5, <2>1, <2>2, Zenon
<1> QED
    BY ONLY <1>4, <1>6, <1>7, <1>8, <1>9, Zenon

-----------------------------------------------------------------------------
(* The view of the VM is exact in every state.                             *)

LEMMA InitView ==
    ASSUME Init
    PROVE  View(seen, down, up, sent, client)
<1>1. /\ \A t \in Thread : up[t] = <<>> /\ down[t] = <<>>
      /\ sent = <<>> /\ sent \in Seq(Message)
      /\ seen = [g \in Gid |-> IF g \in start.connected THEN <<NewEvent>> ELSE <<>>]
      /\ client = [g \in Gid |-> IF g \in start.connected THEN "open"
                                 ELSE IF g \in start.refused THEN "refused" ELSE "unborn"]
    <2>1. <<>> \in Seq(Message)
        OBVIOUS
    <2> QED
        BY <2>1, Zenon DEF Init
<1>2. NewEvent \in Int
    BY DEF NewEvent
<1>3. <<NewEvent>> \in Seq(Int) /\ <<>> \in Seq(Int)
    BY ONLY <1>2
<1>4. seen \in [Gid -> Seq(Int)]
    BY ONLY <1>1, <1>3, Zenon
<1>5. ASSUME NEW g \in Gid PROVE Told(seen, down, up, g) = LifeOf(sent, client, g)
    <2>1. EventsIn(down[other_id], g) = <<>> /\ EventsIn(up[Home(g)], g) = <<>>
        BY ONLY <1>1, <1>5, HomeApart, EventsEmpty, Zenon
    <2>2. DOMAIN sent = {}
        BY ONLY <1>1
    <2>3. PackagesIn(sent, g) = <<>>
        BY ONLY <1>1, <2>2, PackagesNone, Zenon
    <2>4. client[g] # "gone" /\ (client[g] \in Opened <=> g \in start.connected)
        BY ONLY <1>1, <1>5, Zenon DEF Opened
    <2>5. seen[g] = IF client[g] \in Opened THEN <<NewEvent>> ELSE <<>>
        BY ONLY <1>1, <1>5, <2>4, Zenon
    <2> QED
        BY ONLY <2>1, <2>3, <2>4, <2>5, Zenon DEF Told, LifeOf
<1> QED
    BY ONLY <1>4, <1>5, Zenon DEF View


LEMMA NextView ==
    ASSUME IInv, View(seen, down, up, sent, client), [Next]_vars
    PROVE  View(seen', down', up', sent', client')
<1>1. State(up, down, sent, received, client) /\ start \in Start
    BY Zenon DEF IInv
<1> DEFINE Goal == View(seen', down', up', sent', client')
<1>2. View(seen, down, up, sent, client)
    BY Zenon
<1>3. ASSUME NEW t \in Thread, route(t) PROVE Goal
    BY ONLY <1>1, <1>2, <1>3, RouteView, Zenon
<1>4. ASSUME NEW w \in Worker, worker_on_tunnel_process(w) PROVE Goal
    BY ONLY <1>1, <1>2, <1>4, WorkerView, Zenon
<1>5. ASSUME other_on_tunnel_process PROVE Goal
    BY ONLY <1>1, <1>2, <1>5, OtherView, Zenon
<1>6. ASSUME NEW g \in Gid, on_listen_event(g) PROVE Goal
    BY ONLY <1>1, <1>2, <1>6, ListenView, Zenon
<1>7. ASSUME NEW g \in Gid, NEW gids \in SUBSET start.named, client_forwards(g, gids) PROVE Goal
    BY ONLY <1>1, <1>2, <1>7, ForwardView, Zenon
<1>8. ASSUME NEW g \in Gid, NEW e \in Meanings, on_recv_package(g, e) PROVE Goal
    BY ONLY <1>1, <1>2, <1>8, RecvView, MeaningsType, Zenon
<1>9. ASSUME NEW g \in Gid, set_is_close(g) PROVE Goal
    BY ONLY <1>1, <1>2, <1>9, SetCloseView, Zenon
<1>10. ASSUME NEW g \in Gid, close_client_fd(g) PROVE Goal
    BY ONLY <1>1, <1>2, <1>10, CloseView, Zenon
<1>11. ASSUME NEW g \in Gid, lua_sends(g) \/ lua_closes(g) PROVE Goal
    BY ONLY <1>1, <1>2, <1>11, LuaView, Zenon
<1>12. CASE UNCHANGED vars
    BY ONLY <1>2, <1>12, Zenon DEF vars
<1> QED
    BY ONLY <1>3, <1>4, <1>5, <1>6, <1>7, <1>8, <1>9, <1>10, <1>11, <1>12, [Next]_vars, Zenon DEF Next

(* However many workers and clients there are, the Lua VM has been told of *)
(* each client, in order, what its worker and its packages say, and the    *)
(* rest is in the tunnels in the right order: on_new_client_fd and         *)
(* close_client_fd each put one event into the worker's tunnel, before and *)
(* after the client's packages; on_recv_package puts one package there,    *)
(* which on_other_tunnel drops if the VM does not know it, and nothing     *)
(* else; and neither main's routing nor what the VM sends back disturbs    *)
(* the order.                                                              *)
THEOREM VMViewSafety == Spec => []VMViewExact
<1> DEFINE Exact == IInv /\ View(seen, down, up, sent, client)
<1>1. Init => Exact
    BY InitState, InitView, Zenon
<1>2. Exact /\ [Next]_vars => Exact'
    <2> SUFFICES ASSUME Exact, [Next]_vars PROVE Exact'
        BY Zenon
    <2>1. IInv'
        BY NextState, Zenon
    <2>2. View(seen', down', up', sent', client')
        BY NextView, Zenon
    <2> QED
        BY ONLY <2>1, <2>2, Zenon
<1>3. Exact => VMViewExact
    <2> SUFFICES ASSUME Exact, NEW g \in Gid
                 PROVE  seen[g] \o EventsIn(down[other_id], g)
                                \o EventsIn(up[hash_gid_2_worker_tunnel_id(g)], g) = EventsOf(g)
        BY Zenon DEF VMViewExact
    <2>1. Told(seen, down, up, g) = LifeOf(sent, client, g)
        BY Zenon DEF View
    <2>2. PackagesOf(g) = PackagesIn(sent, g)
        BY ONLY TRUE, Zenon DEF PackagesOf, PackagesIn, OwnIn, OwnAt, ToTheVM
    <2> QED
        BY ONLY <2>1, <2>2, Zenon DEF Told, Home, LifeOf, EventsOf, Opened
<1> QED
    BY <1>1, <1>2, <1>3, PTL DEF Spec
=============================================================================
