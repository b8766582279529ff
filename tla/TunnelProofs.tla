----------------------------- MODULE TunnelProofs -----------------------------
(***************************************************************************)
(* Proofs about one direction of a tunnel, for packages of any length and  *)
(* any capacity of the socket and of the scratch buffer.                   *)
(***************************************************************************)
EXTENDS Tunnel, SequenceTheorems, TLAPS

(* A whole copy of package q begins at position b of s.                    *)
Copy(s, q, b) == /\ b + size[q] - 1 <= Len(s)
                 /\ \A j \in 1 .. size[q] : s[b + j - 1] = [pkg |-> q, at |-> j]

(* Every unit of s stands in a whole copy of a package.                    *)
InPackages(s) ==
    \A i \in 1 .. Len(s) :
        \E q \in Package, b \in 1 .. i : i <= b + size[q] - 1 /\ Copy(s, q, b)

(* The inductive invariant.  Framing alone is not inductive: what makes    *)
(* the next header come right after a package is the shape of the whole    *)
(* stream, wherever its bytes are at the moment.                           *)
IInv == TypeOK /\ NoStall /\ InPackages(stream)

(* Concatenation is associative.                                          *)
LEMMA Assoc ==
    ASSUME NEW a \in Seq(Unit), NEW b \in Seq(Unit), NEW c \in Seq(Unit)
    PROVE  (a \o b) \o c = a \o (b \o c)
BY SMT

(* Splitting a buffer.                                                     *)
LEMMA SplitSeq ==
    ASSUME NEW s \in Seq(Unit), NEW n \in 1 .. Len(s)
    PROVE  /\ First(n, s) \in Seq(Unit) /\ Rest(n, s) \in Seq(Unit)
           /\ Len(First(n, s)) = n /\ Len(Rest(n, s)) = Len(s) - n
           /\ First(n, s) \o Rest(n, s) = s
           /\ \A i \in 1 .. Len(s) - n : Rest(n, s)[i] = s[n + i]
           /\ \A i \in 1 .. n : First(n, s)[i] = s[i]
<1>1. \A i \in 1 .. Len(s) : s[i] \in Unit
    BY ElementOfSeq
<1>2. /\ First(n, s) \in Seq(Unit) /\ Len(First(n, s)) = n
      /\ \A i \in 1 .. n : First(n, s)[i] = s[i]
    BY <1>1, SubSeqProperties DEF First
<1>3. /\ Rest(n, s) \in Seq(Unit) /\ Len(Rest(n, s)) = Len(s) - n
      /\ \A i \in 1 .. Len(s) - n : Rest(n, s)[i] = s[n + i]
    <2>1. \A i \in n + 1 .. Len(s) : s[i] \in Unit
        BY <1>1
    <2> QED
        BY <2>1, SubSeqProperties DEF Rest
<1>4. First(n, s) \o Rest(n, s) = SubSeq(s, 1, Len(s))
    BY ConcatAdjacentSubSeq DEF First, Rest
<1> QED
    BY <1>2, <1>3, <1>4, SubSeqFull

(* Bytes that move from one buffer into the next leave both, read as one,  *)
(* as they were.                                                           *)
LEMMA MoveKeepsStream ==
    ASSUME NEW r \in Seq(Unit), NEW k \in Seq(Unit), NEW n \in 1 .. Len(k)
    PROVE  (r \o First(n, k)) \o Rest(n, k) = r \o k
<1>1. PICK f \in Seq(Unit), t \in Seq(Unit) :
          f = First(n, k) /\ t = Rest(n, k) /\ f \o t = k
    BY SplitSeq
<1>2. (r \o f) \o t = r \o (f \o t)
    BY Assoc, ZenonT(60)
<1> QED
    BY <1>1, <1>2

(* Taking bytes off the front of a buffer takes them off the stream.       *)
LEMMA RestOfConcat ==
    ASSUME NEW r \in Seq(Unit), NEW v \in Seq(Unit), NEW k \in 1 .. Len(r)
    PROVE  Rest(k, r \o v) = Rest(k, r) \o v
<1>1. PICK w \in Seq(Unit) : w = r \o v
    BY ConcatProperties, Zenon
<1>2. PICK m \in Nat, l \in Nat : m = Len(r) /\ l = Len(v)
    BY LenProperties
<1>3. /\ Len(w) = m + l
      /\ \A i \in 1 .. m + l : w[i] = IF i <= m THEN r[i] ELSE v[i - m]
    BY <1>1, <1>2, ConcatProperties
<1>4. k \in 1 .. m /\ k \in 1 .. Len(w)
    BY <1>2, <1>3
<1>5. PICK a \in Seq(Unit), t \in Seq(Unit) : a = Rest(k, w) /\ t = Rest(k, r)
    BY <1>4, SplitSeq
<1>6. Len(a) = m + l - k /\ \A i \in 1 .. m + l - k : a[i] = w[k + i]
    <2>1. Len(a) = Len(w) - k /\ \A i \in 1 .. Len(w) - k : a[i] = w[k + i]
        BY <1>4, <1>5, SplitSeq, Zenon
    <2> QED
        BY <1>3, <2>1
<1>7. Len(t) = m - k /\ \A i \in 1 .. m - k : t[i] = r[k + i]
    BY <1>2, <1>5, SplitSeq, Zenon
<1>8. PICK b \in Seq(Unit) : b = t \o v
    BY ConcatProperties, Zenon
<1>9. /\ Len(b) = Len(t) + Len(v)
      /\ \A i \in 1 .. Len(t) + Len(v) : b[i] = IF i <= Len(t) THEN t[i] ELSE v[i - Len(t)]
    BY <1>8, ConcatProperties
<1>10. /\ Len(b) = m - k + l
       /\ \A i \in 1 .. m - k + l : b[i] = IF i <= m - k THEN t[i] ELSE v[i - (m - k)]
    BY <1>2, <1>7, <1>9
<1>11. ASSUME NEW i \in 1 .. m + l - k PROVE a[i] = b[i]
    <2>1. CASE i <= m - k
        <3>1. i \in 1 .. m - k /\ i \in 1 .. m - k + l /\ k + i \in 1 .. m + l /\ k + i <= m
            BY <1>4, <2>1
        <3>2. w[k + i] = r[k + i]
            BY <1>3, <3>1, Zenon
        <3>3. b[i] = t[i]
            BY <1>10, <3>1
        <3> QED
            BY <1>6, <1>7, <3>1, <3>2, <3>3, Zenon
    <2>2. CASE i > m - k
        <3>1. (k + i) - m = i - (m - k) /\ k + i \in 1 .. m + l /\ ~(k + i <= m)
            BY <1>4, <2>2
        <3>2. w[k + i] = v[(k + i) - m]
            BY <1>3, <3>1, Zenon
        <3>3. b[i] = v[i - (m - k)]
            BY <1>4, <1>10, <2>2, SMTT(30)
        <3> QED
            BY <1>6, <3>1, <3>2, <3>3
    <2> QED
        BY <1>4, <2>1, <2>2
<1>12. Len(a) = Len(b)
    BY <1>4, <1>6, <1>10
<1>13. a = b
    BY <1>6, <1>11, <1>12, SeqEqual, SMTT(30)
<1> QED
    BY <1>1, <1>5, <1>8, <1>13

(* A package on its own.                                                   *)
LEMMA OnePackage ==
    ASSUME NEW p \in Package
    PROVE  /\ pack_package(p) \in Seq(Unit) /\ Len(pack_package(p)) = size[p]
           /\ \A i \in 1 .. size[p] : pack_package(p)[i] = [pkg |-> p, at |-> i]
           /\ size[p] \in Nat \ {0}
<1>1. size[p] \in Nat \ {0}
    BY SizeAssumption
<1>2. \A i \in 1 .. size[p] : [pkg |-> p, at |-> i] \in Unit
    BY <1>1 DEF Unit
<1>3. pack_package(p) \in Seq(Unit) /\ Len(pack_package(p)) = size[p]
    BY <1>1, <1>2, IsASeq DEF pack_package
<1> QED
    BY <1>1, <1>3 DEF pack_package

(* A package appended to whole packages.                                   *)
LEMMA AppendPackage ==
    ASSUME NEW s \in Seq(Unit), InPackages(s), NEW p \in Package
    PROVE  InPackages(s \o pack_package(p))
<1> DEFINE b == pack_package(p)
           t == s \o b
<1>1. /\ b \in Seq(Unit) /\ Len(b) = size[p] /\ size[p] \in Nat \ {0}
      /\ \A i \in 1 .. size[p] : b[i] = [pkg |-> p, at |-> i]
    BY OnePackage
<1> HIDE DEF b
<1>2. /\ Len(t) = Len(s) + size[p] /\ Len(s) \in Nat
      /\ \A i \in 1 .. Len(s) : t[i] = s[i]
      /\ \A i \in 1 .. size[p] : t[Len(s) + i] = b[i]
    BY <1>1, ConcatProperties, LenProperties
<1> HIDE DEF t
<1>3. Copy(t, p, Len(s) + 1)
    <2>1. (Len(s) + 1) + size[p] - 1 <= Len(t)
        BY <1>1, <1>2
    <2>2. \A j \in 1 .. size[p] : (Len(s) + 1) + j - 1 = Len(s) + j
        BY <1>1, <1>2
    <2> QED
        BY <1>1, <1>2, <2>1, <2>2, SMTT(30) DEF Copy
<1>4. ASSUME NEW i \in 1 .. Len(t)
      PROVE  \E q \in Package, c \in 1 .. i : i <= c + size[q] - 1 /\ Copy(t, q, c)
    <2>1. CASE i <= Len(s)
        <3>1. PICK q \in Package, c \in 1 .. i : i <= c + size[q] - 1 /\ Copy(s, q, c)
            BY <1>2, <2>1 DEF InPackages
        <3>2. size[q] \in Nat
            BY SizeAssumption
        <3>3. Copy(t, q, c)
            <4>1. c \in Nat \ {0} /\ c + size[q] - 1 <= Len(s)
                BY <1>1, <1>2, <3>1 DEF Copy
            <4>2. \A j \in 1 .. size[q] : c + j - 1 \in 1 .. Len(s)
                BY <1>2, <3>2, <4>1
            <4>3. \A j \in 1 .. size[q] : t[c + j - 1] = [pkg |-> q, at |-> j]
                BY <1>2, <3>1, <4>2 DEF Copy
            <4> QED
                BY <1>1, <1>2, <3>2, <4>1, <4>3, SMTT(30) DEF Copy
        <3> QED
            BY <3>1, <3>3
    <2>2. CASE i > Len(s)
        <3>1. Len(s) + 1 \in 1 .. i /\ i <= (Len(s) + 1) + size[p] - 1
            BY <1>1, <1>2, <2>2
        <3> QED
            BY <1>3, <3>1
    <2> QED
        BY <1>2, <2>1, <2>2
<1> QED
    BY <1>4 DEF InPackages, t, b

(* The first package taken off whole packages.                             *)
LEMMA DropPackage ==
    ASSUME NEW s \in Seq(Unit), InPackages(s), s # <<>>
    PROVE  /\ s[1].at = 1 /\ s[1].pkg \in Package
           /\ size[s[1].pkg] \in 1 .. Len(s)
           /\ InPackages(Rest(size[s[1].pkg], s))
           /\ First(size[s[1].pkg], s) = pack_package(s[1].pkg)
<1>1. Len(s) \in Nat \ {0}
    BY LenProperties, EmptySeq
<1>2. PICK p \in Package : Copy(s, p, 1)
    BY <1>1 DEF InPackages
<1>3. size[p] \in Nat \ {0}
    BY SizeAssumption
<1>4. \A j \in 1 .. size[p] : s[j] = [pkg |-> p, at |-> j]
    BY <1>2, <1>3 DEF Copy
<1>5. s[1] = [pkg |-> p, at |-> 1]
    BY <1>3, <1>4
<1>6. size[p] \in 1 .. Len(s)
    BY <1>1, <1>2, <1>3 DEF Copy
<1> DEFINE k == size[p]
           t == Rest(k, s)
<1>7. Len(t) = Len(s) - k /\ \A i \in 1 .. Len(s) - k : t[i] = s[k + i]
    BY <1>6, SplitSeq, Zenon
<1> HIDE DEF t
<1>8. ASSUME NEW i \in 1 .. Len(t)
      PROVE  \E q \in Package, c \in 1 .. i : i <= c + size[q] - 1 /\ Copy(t, q, c)
    <2>1. k + i \in 1 .. Len(s) /\ i \in Nat \ {0}
        BY <1>1, <1>3, <1>6, <1>7
    <2>2. PICK q \in Package, b \in 1 .. k + i : k + i <= b + size[q] - 1 /\ Copy(s, q, b)
        BY <2>1 DEF InPackages
    <2>3. size[q] \in Nat \ {0}
        BY SizeAssumption
    <2>4. b > k
        <3> SUFFICES ASSUME b <= k PROVE FALSE
            BY <1>3
        <3>1. s[b] = [pkg |-> q, at |-> 1]
            <4>1. s[b + 1 - 1] = [pkg |-> q, at |-> 1]
                BY <2>2, <2>3 DEF Copy
            <4> QED
                BY <4>1
        <3>2. s[b] = [pkg |-> p, at |-> b]
            BY <1>3, <1>4
        <3>3. b = 1 /\ q = p
            BY <3>1, <3>2
        <3> QED
            BY <1>3, <2>2, <3>3
    <2>5. b - k \in 1 .. i /\ i <= (b - k) + size[q] - 1
        <3>1. b \in Nat /\ b <= k + i /\ k \in Nat
            BY <1>3, <2>1
        <3> HIDE DEF k
        <3> QED
            BY <2>1, <2>2, <2>3, <2>4, <3>1
    <2>6. Copy(t, q, b - k)
        <3>1. (b - k) + size[q] - 1 <= Len(t)
            <4>1. b + size[q] - 1 <= Len(s)
                BY <2>2 DEF Copy
            <4>2. b \in Nat /\ k \in Nat /\ size[q] \in Nat /\ Len(s) \in Nat
                BY <1>1, <1>3, <2>1, <2>3
            <4>3. Len(t) = Len(s) - k
                BY <1>7
            <4> HIDE DEF k
            <4> QED
                BY <4>1, <4>2, <4>3
        <3>2. ASSUME NEW j \in 1 .. size[q]
              PROVE  t[(b - k) + j - 1] = [pkg |-> q, at |-> j]
            <4>1. s[b + j - 1] = [pkg |-> q, at |-> j]
                BY <2>2 DEF Copy
            <4>2. (b - k) + j - 1 \in 1 .. Len(s) - k
                <5>1. b \in Nat /\ k \in Nat /\ j \in Nat \ {0} /\ j <= size[q]
                    BY <1>3, <2>1, <2>3
                <5> HIDE DEF k
                <5> QED
                    BY <1>1, <1>7, <2>3, <2>4, <3>1, <5>1
            <4>3. k + ((b - k) + j - 1) = b + j - 1
                BY <1>3
            <4> QED
                BY <1>7, <4>1, <4>2, <4>3
        <3> QED
            BY <3>1, <3>2 DEF Copy
    <2> QED
        BY <2>5, <2>6
<1>9. InPackages(t)
    BY <1>8 DEF InPackages
<1>10. First(k, s) = pack_package(p)
    <2>1. PICK f \in Seq(Unit) : f = First(k, s) /\ Len(f) = k /\ \A i \in 1 .. k : f[i] = s[i]
        BY <1>6, SplitSeq, Zenon
    <2>2. PICK g \in Seq(Unit) : /\ g = pack_package(p) /\ Len(g) = k
                                 /\ \A i \in 1 .. k : g[i] = [pkg |-> p, at |-> i]
        BY OnePackage
    <2>3. \A i \in 1 .. Len(f) : f[i] = g[i]
        <3> SUFFICES ASSUME NEW i \in 1 .. Len(f) PROVE f[i] = g[i]
            BY Zenon
        <3>1. i \in 1 .. size[p]
            BY ONLY <2>1, i \in 1 .. Len(f), Zenon
        <3>2. f[i] = s[i] /\ g[i] = [pkg |-> p, at |-> i] /\ s[i] = [pkg |-> p, at |-> i]
            BY ONLY <1>4, <2>1, <2>2, <3>1, Zenon
        <3> QED
            BY ONLY <3>2, Zenon
    <2> QED
        BY <2>1, <2>2, <2>3, SeqEqual
<1> QED
    BY <1>5, <1>6, <1>9, <1>10 DEF t

(* The invariant holds when the tunnel is created.                         *)
LEMMA InitIInv == Init => IInv
<1> SUFFICES ASSUME Init PROVE IInv
    OBVIOUS
<1>1. TypeOK /\ NoStall
    <2>1. <<>> \in Seq(Unit) /\ Len(<<>>) = 0
        BY EmptySeq
    <2> QED
        <3>1. Len(socket) <= socket_capacity /\ buffer_len \in 0 .. buffer_size
            BY <2>1, CapacityAssumption DEF Init
        <3> QED
            BY <2>1, <3>1, Zenon DEF Init, TypeOK, NoStall
<1>2. stream = <<>>
    BY DEF Init, stream
<1> QED
    BY <1>1, <1>2 DEF IInv, InPackages

(* tunnel_forward appends one whole package to the stream.                 *)
LEMMA ForwardStep ==
    ASSUME IInv, NEW p \in Package, tunnel_forward(p) \/ tunnel_forward_later(p)
    PROVE  /\ IInv'
           /\ stream' = stream \o pack_package(p) /\ stream \in Seq(Unit)
           /\ latest' = latest
<1>1. /\ send_buffer' = send_buffer \o pack_package(p)
      /\ UNCHANGED <<socket, receiverVars>>
      /\ sender' \in {"loop", "flush"} /\ (sender' = "loop" => write_registered')
      /\ write_registered' \in BOOLEAN
    BY Zenon DEF tunnel_forward, tunnel_forward_later, IInv, TypeOK
<1>2. send_buffer' \in Seq(Unit)
    BY <1>1, OnePackage, ConcatProperties DEF IInv, TypeOK
<1>3. TypeOK' /\ NoStall'
    BY <1>1, <1>2 DEF IInv, TypeOK, NoStall, receiverVars
<1>4. PICK v \in Seq(Unit) : v = recv_buffer \o socket
    BY ConcatProperties, Zenon DEF IInv, TypeOK
<1>5. stream' = v \o (send_buffer \o pack_package(p)) /\ stream = v \o send_buffer
    BY <1>1, <1>4 DEF stream, receiverVars
<1>6. PICK b \in Seq(Unit) : b = pack_package(p)
    BY OnePackage
<1>7. (v \o send_buffer) \o b = v \o (send_buffer \o b)
    BY Assoc, ZenonT(60) DEF IInv, TypeOK
<1>8. stream' = stream \o pack_package(p) /\ stream \in Seq(Unit)
    BY <1>5, <1>6, <1>7, ConcatProperties DEF IInv, TypeOK
<1>9. InPackages(stream)'
    <2>1. InPackages(stream \o pack_package(p))
        BY <1>8, AppendPackage DEF IInv
    <2>2. ASSUME NEW t, t = stream', InPackages(t) PROVE InPackages(stream)'
        BY <2>2 DEF InPackages, Copy
    <2> QED
        BY <1>8, <2>1, <2>2
<1> QED
    BY <1>1, <1>3, <1>8, <1>9 DEF IInv, receiverVars

(* A step that leaves the stream as it is keeps its packages whole.        *)
LEMMA SameStream ==
    ASSUME InPackages(stream), stream' = stream
    PROVE  InPackages(stream)'
BY SMTT(30) DEF InPackages, Copy

(* The sender's other steps.                                               *)
LEMMA SenderStep ==
    ASSUME IInv, Sender
    PROVE  IInv' /\ UNCHANGED <<stream, latest>>
<1>1. CASE write_event \/ send_again \/ flushed
    <2>1. stream' = stream /\ latest' = latest
        BY <1>1, SMTT(30) DEF write_event, send_again, flushed, stream, receiverVars
    <2>2. TypeOK' /\ NoStall'
        BY <1>1, Zenon DEF write_event, send_again, flushed, IInv, TypeOK, NoStall, receiverVars
    <2> QED
        BY <2>1, <2>2, SameStream DEF IInv
<1>2. ASSUME NEW n \in Amount, send(n) PROVE IInv' /\ UNCHANGED <<stream, latest>>
    <2>1. n \in 1 .. Len(send_buffer) /\ Len(send_buffer) \in Nat /\ Len(socket) \in Nat
        BY <1>2, CapacityAssumption, LenProperties DEF send, Amount, IInv, TypeOK
    <2>2. PICK f \in Seq(Unit), t \in Seq(Unit) :
              f = First(n, send_buffer) /\ t = Rest(n, send_buffer) /\ Len(f) = n
        BY <2>1, SplitSeq DEF IInv, TypeOK
    <2>3. socket' = socket \o f /\ send_buffer' = t
          /\ UNCHANGED <<write_registered, sender, receiverVars>>
          /\ sender = "flush" /\ Len(socket) + n <= socket_capacity
        BY <1>2, <2>2 DEF send
    <2>4. socket' \in Seq(Unit) /\ Len(socket') = Len(socket) + n
        BY <2>2, <2>3, ConcatProperties DEF IInv, TypeOK
    <2>5. TypeOK' /\ NoStall'
        BY <2>3, <2>4 DEF IInv, TypeOK, NoStall, receiverVars
    <2>6. stream' = stream
        <3>1. recv_buffer \o (socket \o f) = (recv_buffer \o socket) \o f
            BY Assoc, ZenonT(60) DEF IInv, TypeOK
        <3>2. PICK v \in Seq(Unit) : v = recv_buffer \o socket
            BY ConcatProperties, Zenon DEF IInv, TypeOK
        <3>3. (v \o f) \o t = v \o send_buffer
            BY <2>1, <2>2, MoveKeepsStream, Zenon DEF IInv, TypeOK
        <3>4. stream' = (recv_buffer \o (socket \o f)) \o t
            BY <2>3 DEF stream, receiverVars
        <3> QED
            BY <3>1, <3>2, <3>3, <3>4, Zenon DEF stream
    <2> QED
        BY <2>3, <2>5, <2>6, SameStream DEF IInv, receiverVars
<1> QED
    BY <1>1, <1>2 DEF Sender, Send

(* The receiver's steps; parse takes the first package off the stream.     *)
LEMMA ReceiverStep ==
    ASSUME IInv, Receiver
    PROVE  /\ IInv'
           /\ \/ UNCHANGED <<stream, latest>>
              \/ \E p \in Package : /\ stream = pack_package(p) \o stream' /\ latest' = p
                                    /\ stream' \in Seq(Unit)
<1>1. CASE read_event \/ recv_end \/ parse_end
    <2>1. stream' = stream /\ latest' = latest
        BY <1>1, SMTT(30) DEF read_event, recv_end, parse_end, stream, senderVars
    <2>2. TypeOK' /\ NoStall'
        BY <1>1, CapacityAssumption DEF read_event, recv_end, parse_end, IInv, TypeOK, NoStall, senderVars
    <2> QED
        BY <2>1, <2>2, SameStream DEF IInv
<1>2. ASSUME NEW n \in Amount, recv(n) PROVE IInv' /\ UNCHANGED <<stream, latest>>
    <2>1. n \in 1 .. Len(socket) /\ Len(socket) \in Nat
        BY <1>2, CapacityAssumption, LenProperties DEF recv, Amount, IInv, TypeOK
    <2>2. PICK f \in Seq(Unit), t \in Seq(Unit) :
              f = First(n, socket) /\ t = Rest(n, socket) /\ Len(t) = Len(socket) - n
        BY <2>1, SplitSeq DEF IInv, TypeOK
    <2>3. recv_buffer' = recv_buffer \o f /\ socket' = t
          /\ UNCHANGED <<senderVars, receiver, latest>>
          /\ buffer_len' = buffer_len + n /\ buffer_len + n <= buffer_size
        BY <1>2, <2>2 DEF recv
    <2>4. recv_buffer' \in Seq(Unit)
        BY <2>2, <2>3, ConcatProperties DEF IInv, TypeOK
    <2>5. Len(socket') <= socket_capacity /\ buffer_len' \in 0 .. buffer_size
        BY <2>1, <2>2, <2>3, CapacityAssumption DEF IInv, TypeOK
    <2>6. TypeOK' /\ NoStall'
        BY <2>2, <2>3, <2>4, <2>5 DEF IInv, TypeOK, NoStall, senderVars
    <2>7. stream' = stream
        <3>1. (recv_buffer \o f) \o t = recv_buffer \o socket
            BY <2>1, <2>2, MoveKeepsStream, Zenon DEF IInv, TypeOK
        <3> QED
            BY <2>3, <3>1 DEF stream, senderVars
    <2> QED
        BY <2>3, <2>6, <2>7, SameStream DEF IInv
<1>3. CASE parse
    <2> DEFINE k == size[Head(recv_buffer).pkg]
    <2>1. recv_buffer \in Seq(Unit) /\ recv_buffer # <<>> /\ k <= Len(recv_buffer)
        BY <1>3 DEF parse, HasPackage, IInv, TypeOK
    <2>2. PICK v \in Seq(Unit) : v = socket \o send_buffer
        BY ConcatProperties, Zenon DEF IInv, TypeOK
    <2>3. stream = recv_buffer \o v /\ stream \in Seq(Unit)
        <3>1. stream = recv_buffer \o v
            BY <2>2, Assoc, ZenonT(60) DEF stream, IInv, TypeOK
        <3> QED
            BY <2>1, <3>1, ConcatProperties
    <2>4. Len(recv_buffer) \in Nat \ {0} /\ Len(v) \in Nat
        BY <2>1, LenProperties, EmptySeq
    <2>5. stream # <<>> /\ stream[1] = Head(recv_buffer)
        <3>1. Len(stream) = Len(recv_buffer) + Len(v) /\ stream[1] = recv_buffer[1]
            BY <2>1, <2>3, <2>4, ConcatProperties
        <3>2. Head(recv_buffer) = recv_buffer[1]
            BY <2>1
        <3> QED
            BY <2>3, <2>4, <3>1, <3>2, EmptySeq
    <2>6. /\ Head(recv_buffer).pkg \in Package /\ k \in 1 .. Len(stream)
          /\ InPackages(Rest(k, stream))
          /\ First(k, stream) = pack_package(Head(recv_buffer).pkg)
        BY <2>3, <2>5, DropPackage, Zenon DEF IInv
    <2>7. k \in 1 .. Len(recv_buffer)
        BY <2>1, <2>4, <2>6
    <2>8. PICK f \in Seq(Unit), t \in Seq(Unit) :
              f = First(k, recv_buffer) /\ t = Rest(k, recv_buffer)
        BY <2>1, <2>7, SplitSeq, Zenon
    <2>9. Rest(k, stream) = t \o v
        <3>1. Rest(k, recv_buffer \o v) = Rest(k, recv_buffer) \o v
            BY <2>1, <2>7, RestOfConcat, Zenon
        <3> QED
            BY <2>3, <2>8, <3>1
    <2>10. /\ recv_buffer' = t /\ latest' = Head(recv_buffer).pkg
           /\ UNCHANGED <<senderVars, socket, receiver, buffer_len>>
        BY <1>3, <2>8 DEF parse
    <2>11. TypeOK' /\ NoStall'
        BY <2>6, <2>10 DEF IInv, TypeOK, NoStall, senderVars
    <2>12. stream' = t \o v
        <3>1. stream' = (t \o socket) \o send_buffer
            BY <2>10 DEF stream, senderVars
        <3>2. (t \o socket) \o send_buffer = t \o (socket \o send_buffer)
            BY Assoc, ZenonT(60) DEF IInv, TypeOK
        <3> QED
            BY <2>2, <3>1, <3>2
    <2>13. InPackages(stream)'
        <3>1. PICK w \in Seq(Unit) : w = t \o v
            BY ConcatProperties, Zenon
        <3>2. InPackages(w)
            BY <2>6, <2>9, <3>1
        <3>3. stream' = w
            BY <2>12, <3>1
        <3> QED
            BY <3>2, <3>3 DEF InPackages, Copy
    <2>14. stream = pack_package(Head(recv_buffer).pkg) \o stream' /\ stream' \in Seq(Unit)
        <3>1. First(k, stream) \o Rest(k, stream) = stream /\ Rest(k, stream) \in Seq(Unit)
            BY <2>3, <2>6, SplitSeq, Zenon
        <3> QED
            BY <2>6, <2>9, <2>12, <3>1
    <2> QED
        BY <2>6, <2>10, <2>11, <2>13, <2>14, Zenon DEF IInv
<1> QED
    BY <1>1, <1>2, <1>3 DEF Receiver, Recv

(* Every reachable state satisfies the inductive invariant.                *)
THEOREM Invariance == Spec => []IInv
<1>1. IInv /\ [Next]_vars => IInv'
    <2> SUFFICES ASSUME IInv, [Next]_vars PROVE IInv'
        OBVIOUS
    <2>1. CASE UNCHANGED vars
        <3>1. stream' = stream
            BY <2>1 DEF vars, senderVars, receiverVars, stream
        <3>2. TypeOK' /\ NoStall'
            BY <2>1 DEF vars, senderVars, receiverVars, IInv, TypeOK, NoStall
        <3> QED
            BY <3>1, <3>2, SameStream DEF IInv
    <2>2. CASE Next
        BY <2>2, ForwardStep, SenderStep, ReceiverStep DEF Next, Forward
    <2> QED
        BY <2>1, <2>2
<1> QED
    BY InitIInv, <1>1, PTL DEF Spec

(* However send and recv split the packages, the parse loop finds every    *)
(* header, and unsent bytes never wait without a write event to come.      *)
THEOREM TunnelSafety == Spec => [](TypeOK /\ NoStall /\ Framing)
<1>1. IInv => TypeOK /\ NoStall /\ Framing
    <2> SUFFICES ASSUME IInv, recv_buffer # <<>> PROVE Head(recv_buffer).at = 1
        BY DEF IInv, Framing
    <2>1. PICK v \in Seq(Unit) : v = socket \o send_buffer
        BY ConcatProperties, Zenon DEF IInv, TypeOK
    <2>2. stream = recv_buffer \o v
        BY <2>1, Assoc, ZenonT(60) DEF stream, IInv, TypeOK
    <2>3. Len(recv_buffer) \in Nat \ {0} /\ Len(v) \in Nat
        BY LenProperties, EmptySeq DEF IInv, TypeOK
    <2>4. Len(stream) = Len(recv_buffer) + Len(v) /\ stream[1] = recv_buffer[1]
          /\ stream \in Seq(Unit)
        BY <2>2, <2>3, ConcatProperties DEF IInv, TypeOK
    <2>5. stream # <<>>
        BY <2>3, <2>4, EmptySeq
    <2>6. stream[1].at = 1
        BY <2>4, <2>5, DropPackage DEF IInv
    <2> QED
        BY <2>4, <2>6 DEF IInv, TypeOK
<1> QED
    BY Invariance, <1>1, PTL

-----------------------------------------------------------------------------
(* The tunnel implements the channel.                                      *)
(*                                                                         *)
(* Packages is a recursive function: that there is one, and what it        *)
(* computes, is shown by induction over a set of numbers, for which the    *)
(* least number outside of it serves.                                      *)
INSTANCE WellFoundedInduction

LEMMA SetInduction ==
    ASSUME NEW S, 0 \in S, \A n \in Nat : n \in S => n + 1 \in S
    PROVE  Nat \subseteq S
<1> DEFINE R == OpToRel(<, Nat)
           T == Nat \ S
<1>1. SUFFICES ASSUME T # {} PROVE FALSE
    BY Zenon
<1>2. IsWellFoundedOn(R, Nat)
    BY NatLessThanWellFounded, Zenon
<1>3. \A x \in Nat : x # 0 => x - 1 \in Nat /\ <<x - 1, x>> \in R
    BY DEF OpToRel
<1> HIDE DEF R
<1>4. PICK x \in T : \A y \in T : ~(<<y, x>> \in R)
    <2>1. T \subseteq Nat
        BY Zenon
    <2> HIDE DEF T
    <2> QED
        BY <1>1, <1>2, <2>1, WFMin, Zenon
<1>5. x - 1 \in Nat /\ x - 1 \in S /\ x \in Nat
    BY <1>3, <1>4, Zenon
<1> QED
    BY <1>5

(* f[k] is what the first k units of s complete.                           *)
Completed(f, s, k) ==
    IF k = 0 THEN <<>> ELSE IF Ends(s[k]) THEN Append(f[k - 1], s[k].pkg) ELSE f[k - 1]

Completes(f, n, s) == f = [k \in 0 .. n |-> Completed(f, s, k)]

LEMMA CompletesExists ==
    ASSUME NEW n \in Nat, NEW s
    PROVE  \E f : Completes(f, n, s)
<1> DEFINE S == {j \in Nat : \E f : Completes(f, j, s)}
<1>1. 0 \in S
    <2>1. Completes([k \in 0 .. 0 |-> <<>>], 0, s)
        BY DEF Completes, Completed
    <2> QED
        BY ONLY <2>1, Zenon
<1>2. ASSUME NEW j \in Nat, j \in S PROVE j + 1 \in S
    <2>1. PICK f : Completes(f, j, s)
        BY ONLY <1>2, Zenon
    <2> DEFINE h == [k \in 0 .. j + 1 |-> IF k = j + 1 THEN Completed(f, s, j + 1) ELSE f[k]]
    <2>2. /\ \A k \in 0 .. j : h[k] = f[k]
          /\ h[j + 1] = Completed(f, s, j + 1)
          /\ h = [k \in 0 .. j + 1 |-> h[k]]
        BY ONLY j \in Nat
    <2>3. \A k \in 0 .. j : f[k] = Completed(f, s, k)
        BY ONLY <2>1, Zenon DEF Completes
    <2> HIDE DEF h
    <2>4. ASSUME NEW k \in 0 .. j + 1 PROVE h[k] = Completed(h, s, k)
        <3>1. CASE k = j + 1
            <4>1. k - 1 = j /\ k # 0 /\ j \in 0 .. j
                BY ONLY <3>1, j \in Nat
            <4> QED
                BY ONLY <2>2, <3>1, <4>1, Zenon DEF Completed
        <3>2. CASE k # j + 1 /\ k # 0
            <4>1. k \in 0 .. j /\ k - 1 \in 0 .. j
                BY ONLY <3>2, k \in 0 .. j + 1, j \in Nat
            <4> QED
                BY ONLY <2>2, <2>3, <4>1, Zenon DEF Completed
        <3>3. CASE k = 0
            <4>1. k \in 0 .. j
                BY ONLY <3>3, j \in Nat
            <4> QED
                BY ONLY <2>2, <2>3, <3>3, <4>1, Zenon DEF Completed
        <3> QED
            BY ONLY <3>1, <3>2, <3>3, Zenon
    <2>5. Completes(h, j + 1, s)
        BY ONLY <2>2, <2>4, Zenon DEF Completes
    <2>6. j + 1 \in Nat
        BY ONLY j \in Nat
    <2> QED
        BY ONLY <2>5, <2>6, Zenon
<1>3. Nat \subseteq S
    <2> HIDE DEF S
    <2> QED
        BY ONLY <1>1, <1>2, SetInduction, Zenon
<1> QED
    BY ONLY <1>3, n \in Nat, Zenon

(* The same, unit by unit.                                                 *)
Follows(f, n, s) ==
    /\ f[0] = <<>>
    /\ \A k \in Nat : k + 1 <= n => /\ Ends(s[k + 1]) => f[k + 1] = Append(f[k], s[k + 1].pkg)
                                    /\ ~Ends(s[k + 1]) => f[k + 1] = f[k]

LEMMA PackagesFollow ==
    ASSUME NEW s, Len(s) \in Nat
    PROVE  \E f : Follows(f, Len(s), s) /\ Packages(s) = f[Len(s)]
<1> DEFINE n == Len(s)
<1>1. n \in Nat
    OBVIOUS
<1>2. PICK f : Completes(f, n, s) /\ Packages(s) = f[n]
    <2>1. \E f : Completes(f, n, s)
        BY ONLY <1>1, CompletesExists, Zenon
    <2> QED
        BY ONLY <2>1, Zenon DEF Packages, Completes, Completed
<1> HIDE DEF n
<1>3. \A k \in 0 .. n : f[k] = Completed(f, s, k)
    BY ONLY <1>2, Zenon DEF Completes
<1>4. 0 \in 0 .. n /\ \A k \in Nat : k + 1 <= n => k + 1 \in 0 .. n /\ k + 1 # 0 /\ (k + 1) - 1 = k
    BY ONLY <1>1
<1>5. Follows(f, n, s)
    BY ONLY <1>3, <1>4, Zenon DEF Completed, Follows
<1> QED
    BY ONLY <1>2, <1>5, Zenon DEF n

(* What is complete depends on the units alone, and consists of packages.  *)
Alike(n, s, t) == \A k \in Nat : k + 1 <= n => s[k + 1] = t[k + 1]

LEMMA FollowsAlike ==
    ASSUME NEW n \in Nat, NEW m \in Nat, n <= m, NEW s, NEW t, Alike(n, s, t),
           NEW f, Follows(f, n, s), NEW g, Follows(g, m, t)
    PROVE  f[n] = g[n]
<1> DEFINE S == {k \in Nat : k <= n => f[k] = g[k]}
<1>1. 0 \in S
    BY ONLY Follows(f, n, s), Follows(g, m, t), Zenon DEF Follows
<1>2. ASSUME NEW k \in Nat, k \in S PROVE k + 1 \in S
    <2>1. k + 1 \in Nat /\ (k + 1 <= n => k <= n /\ k + 1 <= m)
        BY ONLY k \in Nat, n \in Nat, m \in Nat, n <= m
    <2>2. ASSUME k + 1 <= n PROVE f[k + 1] = g[k + 1]
        <3>1. f[k] = g[k] /\ k + 1 <= m /\ s[k + 1] = t[k + 1]
            BY ONLY <1>2, <2>1, <2>2, Alike(n, s, t), Zenon DEF Alike
        <3>2. /\ Ends(s[k + 1]) => f[k + 1] = Append(f[k], s[k + 1].pkg)
              /\ ~Ends(s[k + 1]) => f[k + 1] = f[k]
            BY ONLY <2>2, k \in Nat, Follows(f, n, s), Zenon DEF Follows
        <3>3. /\ Ends(t[k + 1]) => g[k + 1] = Append(g[k], t[k + 1].pkg)
              /\ ~Ends(t[k + 1]) => g[k + 1] = g[k]
            BY ONLY <3>1, k \in Nat, Follows(g, m, t), Zenon DEF Follows
        <3> QED
            BY ONLY <3>1, <3>2, <3>3, Zenon
    <2> QED
        BY ONLY <2>1, <2>2, Zenon
<1>3. Nat \subseteq S
    <2> HIDE DEF S
    <2> QED
        BY ONLY <1>1, <1>2, SetInduction, Zenon
<1>4. n <= n
    BY ONLY n \in Nat
<1> QED
    BY ONLY <1>3, <1>4, n \in Nat, Zenon

LEMMA FollowsType ==
    ASSUME NEW n \in Nat, NEW s, \A k \in Nat : k + 1 <= n => s[k + 1] \in Unit,
           NEW f, Follows(f, n, s)
    PROVE  \A k \in Nat : k <= n => f[k] \in Seq(Package)
<1> DEFINE S == {k \in Nat : k <= n => f[k] \in Seq(Package)}
<1>1. 0 \in S
    <2>1. <<>> \in Seq(Package) /\ 0 \in Nat
        OBVIOUS
    <2> QED
        BY ONLY <2>1, Follows(f, n, s), Zenon DEF Follows
<1>2. ASSUME NEW k \in Nat, k \in S PROVE k + 1 \in S
    <2>1. k + 1 \in Nat /\ (k + 1 <= n => k <= n)
        BY ONLY k \in Nat, n \in Nat
    <2>2. \A a \in Seq(Package), p \in Package : Append(a, p) \in Seq(Package)
        OBVIOUS
    <2>3. \A u \in Unit : u.pkg \in Package
        BY DEF Unit
    <2> QED
        BY ONLY <1>2, <2>1, <2>2, <2>3, Follows(f, n, s),
                \A j \in Nat : j + 1 <= n => s[j + 1] \in Unit, Zenon DEF Follows
<1>3. Nat \subseteq S
    <2> HIDE DEF S
    <2> QED
        BY ONLY <1>1, <1>2, SetInduction, Zenon
<1> QED
    BY ONLY <1>3, Zenon

LEMMA AppendLast ==
    \A d, s \in Seq(Package) : \A p \in Package : Append(d \o s, p) = d \o Append(s, p)
<1> SUFFICES ASSUME NEW d \in Seq(Package), NEW s \in Seq(Package), NEW p \in Package
             PROVE  Append(d \o s, p) = d \o Append(s, p)
    BY Zenon
<1> DEFINE x == Append(d \o s, p)
           y == d \o Append(s, p)
<1>1. Len(d) \in Nat /\ Len(s) \in Nat
    OBVIOUS
<1>2. x \in Seq(Package) /\ Len(x) = Len(d) + Len(s) + 1
    OBVIOUS
<1>3. y \in Seq(Package) /\ Len(y) = Len(d) + Len(s) + 1
    OBVIOUS
<1>4. \A i \in 1 .. Len(d) + Len(s) + 1 : x[i] = y[i]
    OBVIOUS
<1> HIDE DEF x, y
<1>5. x = y
    BY ONLY <1>1, <1>2, <1>3, <1>4
<1> QED
    BY ONLY <1>5, Zenon DEF x, y

(* What two streams complete one after the other.                          *)
LEMMA PackagesConcat ==
    ASSUME NEW a \in Seq(Unit), NEW b \in Seq(Unit)
    PROVE  /\ Packages(a \o b) = Packages(a) \o Packages(b)
           /\ Packages(a) \in Seq(Package)
<1> DEFINE n == Len(a)
           m == Len(b)
           t == a \o b
<1>1. n \in Nat /\ m \in Nat /\ t \in Seq(Unit) /\ Len(t) = n + m
    BY ConcatProperties, LenProperties
<1>2. \A k \in Nat : k + 1 <= n => a[k + 1] = t[k + 1] /\ a[k + 1] \in Unit
    OBVIOUS
<1>3. \A k \in Nat : k + 1 <= m => t[(n + k) + 1] = b[k + 1] /\ b[k + 1] \in Unit
    OBVIOUS
<1>4. PICK f : Follows(f, n, a) /\ Packages(a) = f[n]
    BY ONLY <1>1, PackagesFollow, Zenon
<1>5. PICK g : Follows(g, m, b) /\ Packages(b) = g[m]
    BY ONLY <1>1, PackagesFollow, Zenon
<1>6. PICK h : Follows(h, n + m, t) /\ Packages(t) = h[n + m]
    <2>1. Len(t) \in Nat
        BY ONLY <1>1
    <2>2. \E h : Follows(h, Len(t), t) /\ Packages(t) = h[Len(t)]
        BY ONLY <2>1, PackagesFollow, Zenon
    <2> QED
        BY ONLY <1>1, <2>2, Zenon
<1> HIDE DEF n, m, t
<1>7. n + m \in Nat /\ n <= n + m /\ n <= n /\ m <= m
    BY ONLY <1>1
<1>8. f[n] = h[n]
    <2>1. Alike(n, a, t)
        BY ONLY <1>2, Zenon DEF Alike
    <2> QED
        BY ONLY <1>1, <1>4, <1>6, <1>7, <2>1, FollowsAlike
<1>9. f[n] \in Seq(Package)
    <2>1. \A k \in Nat : k <= n => f[k] \in Seq(Package)
        BY ONLY <1>1, <1>2, <1>4, FollowsType, Zenon
    <2> QED
        BY ONLY <1>1, <1>7, <2>1, Zenon
<1>10. \A k \in Nat : k <= m => g[k] \in Seq(Package)
    BY ONLY <1>1, <1>3, <1>5, FollowsType, Zenon
<1>11. PICK d \in Seq(Package) : d = f[n]
    BY ONLY <1>9, Zenon
<1> DEFINE S == {k \in Nat : k <= m => h[n + k] = d \o g[k]}
<1>12. 0 \in S
    <2>1. n + 0 = n /\ 0 \in Nat
        BY ONLY <1>1
    <2>2. d \o <<>> = d
        BY ONLY d \in Seq(Package)
    <2> QED
        BY ONLY <1>5, <1>8, <1>11, <2>1, <2>2, Zenon DEF Follows
<1>13. ASSUME NEW k \in Nat, k \in S PROVE k + 1 \in S
    <2>1. /\ k + 1 \in Nat /\ n + k \in Nat /\ (n + k) + 1 = n + (k + 1)
          /\ (k + 1 <= m => k <= m /\ (n + k) + 1 <= n + m)
        BY ONLY <1>1, k \in Nat
    <2>2. \A s \in Seq(Package), p \in Package : Append(d \o s, p) = d \o Append(s, p)
        BY ONLY AppendLast, d \in Seq(Package), Zenon
    <2>3. ASSUME k + 1 <= m PROVE h[n + (k + 1)] = d \o g[k + 1]
        <3>1. /\ t[(n + k) + 1] = b[k + 1] /\ b[k + 1].pkg \in Package
              /\ h[n + k] = d \o g[k] /\ g[k] \in Seq(Package)
            <4>1. \A u \in Unit : u.pkg \in Package
                BY DEF Unit
            <4> QED
                BY ONLY <1>3, <1>10, <1>13, <2>1, <2>3, <4>1, Zenon
        <3>2. /\ Ends(t[(n + k) + 1]) => h[(n + k) + 1] = Append(h[n + k], t[(n + k) + 1].pkg)
              /\ ~Ends(t[(n + k) + 1]) => h[(n + k) + 1] = h[n + k]
            BY ONLY <1>6, <2>1, <2>3, Zenon DEF Follows
        <3>3. /\ Ends(b[k + 1]) => g[k + 1] = Append(g[k], b[k + 1].pkg)
              /\ ~Ends(b[k + 1]) => g[k + 1] = g[k]
            BY ONLY <1>5, <2>3, k \in Nat, Zenon DEF Follows
        <3> QED
            BY ONLY <2>1, <2>2, <3>1, <3>2, <3>3, Zenon
    <2> QED
        BY ONLY <2>1, <2>3, Zenon
<1>14. Nat \subseteq S
    <2> HIDE DEF S
    <2> QED
        BY ONLY <1>12, <1>13, SetInduction, Zenon
<1>15. h[n + m] = f[n] \o g[m]
    BY ONLY <1>1, <1>7, <1>11, <1>14, Zenon
<1> QED
    BY ONLY <1>4, <1>5, <1>6, <1>9, <1>15, Zenon DEF t

(* A package on its own completes with its last unit.                      *)
LEMMA PackagesOne ==
    ASSUME NEW p \in Package
    PROVE  Packages(pack_package(p)) = <<p>>
<1> DEFINE s == pack_package(p)
           n == size[p]
<1>1. /\ Len(s) = n /\ n \in Nat \ {0}
      /\ \A i \in 1 .. n : s[i] = [pkg |-> p, at |-> i]
    BY OnePackage
<1>2. PICK f : Follows(f, n, s) /\ Packages(s) = f[n]
    <2>1. Len(s) \in Nat
        BY ONLY <1>1
    <2>2. \E f : Follows(f, Len(s), s) /\ Packages(s) = f[Len(s)]
        BY ONLY <2>1, PackagesFollow, Zenon
    <2> QED
        BY ONLY <1>1, <2>2, Zenon
<1> HIDE DEF s
<1>3. \A i \in 1 .. n : s[i].pkg = p /\ (Ends(s[i]) <=> i = n)
    <2> SUFFICES ASSUME NEW i \in 1 .. n PROVE s[i].pkg = p /\ (Ends(s[i]) <=> i = n)
        BY Zenon
    <2>1. s[i].pkg = p /\ s[i].at = i
        <3>1. s[i] = [pkg |-> p, at |-> i]
            BY ONLY <1>1, i \in 1 .. n, Zenon
        <3> QED
            BY ONLY <3>1
    <2> QED
        BY ONLY <2>1 DEF Ends
<1> HIDE DEF n
<1> DEFINE S == {k \in Nat : k < n => f[k] = <<>>}
<1>4. 0 \in S
    <2>1. f[0] = <<>> /\ 0 \in Nat
        BY ONLY <1>2, Zenon DEF Follows
    <2> QED
        BY ONLY <2>1, Zenon
<1>5. ASSUME NEW k \in Nat, k \in S PROVE k + 1 \in S
    <2>1. k + 1 \in Nat /\ (k + 1 < n => k < n /\ k + 1 <= n /\ k + 1 \in 1 .. n /\ k + 1 # n)
        BY ONLY <1>1, k \in Nat
    <2> QED
        BY ONLY <1>2, <1>3, <1>5, <2>1, Zenon DEF Follows
<1>6. Nat \subseteq S
    <2> HIDE DEF S
    <2> QED
        BY ONLY <1>4, <1>5, SetInduction, Zenon
<1>7. PICK k \in Nat : k + 1 = n /\ k < n /\ k + 1 <= n /\ k + 1 \in 1 .. n
    <2>1. n - 1 \in Nat /\ (n - 1) + 1 = n /\ n - 1 < n /\ n <= n /\ n \in 1 .. n
        BY ONLY <1>1
    <2> QED
        BY ONLY <2>1, Zenon
<1>8. f[k] = <<>> /\ Ends(s[k + 1]) /\ s[k + 1].pkg = p
    BY ONLY <1>3, <1>6, <1>7, Zenon
<1>9. f[k + 1] = Append(<<>>, p)
    BY ONLY <1>2, <1>7, <1>8, Zenon DEF Follows
<1>10. Append(<<>>, p) = <<p>>
    OBVIOUS
<1> QED
    BY ONLY <1>2, <1>7, <1>9, <1>10, Zenon DEF s

(* The abstract channel's queue when a package is forwarded and when one   *)
(* is processed.                                                           *)
LEMMA QueueGrows ==
    ASSUME NEW s \in Seq(Unit), NEW p \in Package
    PROVE  Packages(s \o pack_package(p)) = Append(Packages(s), p)
<1>1. pack_package(p) \in Seq(Unit)
    BY OnePackage
<1>2. Packages(s \o pack_package(p)) = Packages(s) \o <<p>> /\ Packages(s) \in Seq(Package)
    BY ONLY <1>1, PackagesConcat, PackagesOne, s \in Seq(Unit), p \in Package, Zenon
<1>3. \A a \in Seq(Package) : a \o <<p>> = Append(a, p)
    OBVIOUS
<1> QED
    BY ONLY <1>2, <1>3, Zenon

LEMMA QueueShrinks ==
    ASSUME NEW s \in Seq(Unit), NEW p \in Package
    PROVE  /\ Packages(pack_package(p) \o s) # <<>>
           /\ Head(Packages(pack_package(p) \o s)) = p
           /\ Tail(Packages(pack_package(p) \o s)) = Packages(s)
<1>1. pack_package(p) \in Seq(Unit) /\ <<>> \in Seq(Unit)
    BY OnePackage
<1>2. /\ Packages(pack_package(p) \o s) = <<p>> \o Packages(s)
      /\ Packages(s) \in Seq(Package)
    BY ONLY <1>1, PackagesConcat, PackagesOne, s \in Seq(Unit), p \in Package, Zenon
<1>3. \A a \in Seq(Package) : /\ <<p>> \o a # <<>>
                              /\ Head(<<p>> \o a) = p
                              /\ Tail(<<p>> \o a) = a
    OBVIOUS
<1> QED
    BY ONLY <1>2, <1>3, Zenon

(* Every step of the tunnel is a step of the channel or leaves it alone:   *)
(* tunnel_forward puts its package at the end of the queue, parse takes    *)
(* the first one, and sending and receiving bytes change nothing.          *)
LEMMA StepImplements ==
    ASSUME IInv, [Next]_vars
    PROVE  [C!Next]_<<Packages(stream), latest>>
<1>1. CASE UNCHANGED vars
    BY <1>1 DEF vars, senderVars, receiverVars, stream
<1>2. ASSUME NEW p \in Package, tunnel_forward(p) \/ tunnel_forward_later(p)
      PROVE  C!Forward(p)
    <2>1. stream' = stream \o pack_package(p) /\ stream \in Seq(Unit) /\ latest' = latest
        BY ONLY <1>2, IInv, ForwardStep, Zenon
    <2>2. Packages(stream') = Append(Packages(stream), p)
        BY ONLY <1>2, <2>1, QueueGrows, Zenon
    <2> QED
        BY ONLY <2>1, <2>2 DEF C!Forward
<1>3. CASE Sender
    BY <1>3, SenderStep
<1>4. CASE Receiver
    <2>1. CASE UNCHANGED <<stream, latest>>
        BY ONLY <2>1
    <2>2. ASSUME NEW p \in Package, stream = pack_package(p) \o stream', latest' = p,
                 stream' \in Seq(Unit)
          PROVE  C!Process
        <3>1. /\ Packages(stream) # <<>>
              /\ Head(Packages(stream)) = p
              /\ Tail(Packages(stream)) = Packages(stream')
            BY ONLY <2>2, QueueShrinks, Zenon
        <3> QED
            BY ONLY <2>2, <3>1 DEF C!Process
    <2> QED
        BY <1>4, <2>1, <2>2, ReceiverStep DEF C!Next
<1> QED
    BY <1>1, <1>2, <1>3, <1>4 DEF Next, Forward, C!Next

(* However the bytes are split, delayed and buffered on their way, the     *)
(* receiver processes the packages that were forwarded, each once and in   *)
(* the order of the tunnel_forward calls.                                  *)
THEOREM TunnelImplementsChannel == Spec => C!Spec
<1>1. Init => C!Init
    <2> SUFFICES ASSUME Init PROVE C!Init
        OBVIOUS
    <2>1. stream = <<>> /\ latest = None
        BY DEF Init, stream
    <2>2. Len(<<>>) = 0 /\ 0 \in Nat
        OBVIOUS
    <2>3. \E f : Follows(f, 0, <<>>) /\ Packages(<<>>) = f[0]
        BY ONLY <2>2, PackagesFollow, Zenon
    <2>4. Packages(stream) = <<>>
        BY ONLY <2>1, <2>3, Zenon DEF Follows
    <2> QED
        BY ONLY <2>1, <2>4 DEF C!Init
<1>2. IInv /\ [Next]_vars => [C!Next]_<<Packages(stream), latest>>
    BY StepImplements
<1> QED
    BY Invariance, <1>1, <1>2, PTL DEF Spec, C!Spec
=============================================================================
