------------------------- MODULE ConnectionMgrProofs -------------------------
(***************************************************************************)
(* Proofs about connection_mgr, for pools of every capacity and for any    *)
(* sets of descriptors and gids.                                           *)
(***************************************************************************)
EXTENDS ConnectionMgr, FiniteSetTheorems, TLAPS

USE DEF Index, maps, vars

(* The inductive invariant: no part is preserved without the others.  The  *)
(* free slots of NoResidue, for instance, stay clean only because          *)
(* release_connection resets the slot gid2index names, which MapsAgree and *)
(* PoolPartition tie to using_set.                                         *)
IInv == TypeOK /\ MapsAgree /\ PoolPartition /\ LookupSound /\ NoResidue

(* The state before init satisfies the invariant.                          *)
LEMMA InitIInv == Init => IInv
<1> SUFFICES ASSUME Init PROVE IInv
    OBVIOUS
<1>1. TypeOK
    <2>1. NewConnection \in Connection
        BY DEF NewConnection, Connection
    <2>2. connection_pool \in [Index -> Connection]
        BY <2>1 DEF Init
    <2>3. /\ fd2gid \in [Fd -> Gid \cup {Absent}]
          /\ gid2fd \in [Gid -> Fd \cup {Absent}]
          /\ gid2index \in [Gid -> Index \cup {Absent}]
        BY DEF Init
    <2>4. ret \in -5 .. 0
        BY DEF Init
    <2>5. inited \in BOOLEAN
        BY DEF Init
    <2> QED
        BY <2>2, <2>3, <2>4, <2>5 DEF Init, TypeOK
<1>2. MapsAgree
    BY DEF Init, MapsAgree, Live, LiveGid
<1>3. PoolPartition
    BY DEF Init, PoolPartition, LiveGid
<1>4. LookupSound
    BY DEF Init, LookupSound, Live
<1>5. NoResidue
    BY DEF Init, NoResidue, NewConnection
<1> QED
    BY <1>1, <1>2, <1>3, <1>4, <1>5 DEF IInv

(* init fills the pool and preserves the invariant.                        *)
LEMMA InitStep == ASSUME IInv, init PROVE IInv'
<1> USE CapacityAssumption, AbsentAssumption DEF IInv
<1>0. using_set = {} /\ unused_set = {} /\ LiveGid = {}
    BY DEF init, PoolPartition
<1>1. TypeOK'
    <2>1. NewConnection \in Connection
        BY DEF NewConnection, Connection
    <2> QED
        BY <2>1 DEF init, TypeOK
<1>2. MapsAgree'
    BY DEF init, MapsAgree, Live, LiveGid
<1>3. PoolPartition'
    BY <1>0 DEF init, PoolPartition, LiveGid
<1>4. LookupSound'
    BY <1>0 DEF init, LookupSound, Live, LiveGid, MapsAgree, TypeOK
<1>5. NoResidue'
    BY <1>0 DEF init, NoResidue, NewConnection
<1> QED
    BY <1>1, <1>2, <1>3, <1>4, <1>5

(* A refused call changes nothing but ret.                                 *)
LEMMA RefusedStep ==
    ASSUME IInv, UNCHANGED <<inited, maps, connection_pool>>, ret' \in -5 .. 0
    PROVE  IInv'
BY DEF IInv, TypeOK, MapsAgree, PoolPartition, LookupSound, NoResidue,
       Live, LiveGid, Slot, get_conn, get_conn_by_gid

(* The guards of a successful alloc_connection and its effect.             *)
LEMMA AllocStep ==
    ASSUME IInv, NEW fd \in Fd, NEW gid \in Gid, alloc_connection(fd, gid)
    PROVE  IInv'
<1> USE CapacityAssumption, AbsentAssumption
<1>1. CASE ret' # 0
    <2>1. ret' \in -5 .. 0
        BY <1>1 DEF alloc_connection, alloc_error
    <2> QED
        BY <1>1, <2>1, RefusedStep DEF alloc_connection
<1>2. CASE ret' = 0
    <2>1. /\ inited /\ fd2gid[fd] = Absent /\ gid2fd[gid] = Absent
          /\ gid2index[gid] = Absent
        BY <1>2 DEF alloc_connection, alloc_error
    <2>2. PICK new_index \in unused_set :
              /\ unused_set' = unused_set \ {new_index}
              /\ using_set' = using_set \cup {new_index}
              /\ fd2gid' = [fd2gid EXCEPT ![fd] = gid]
              /\ gid2fd' = [gid2fd EXCEPT ![gid] = fd]
              /\ gid2index' = [gid2index EXCEPT ![gid] = new_index]
              /\ connection_pool' =
                   [connection_pool EXCEPT
                      ![new_index] = on_alloc(connection_pool[new_index], fd, gid)]
        BY <1>2 DEF alloc_connection
    <2>3. UNCHANGED inited
        BY DEF alloc_connection
    <2>4. new_index \in Index /\ new_index \notin using_set /\ new_index # Absent
        BY <2>2 DEF IInv, TypeOK, PoolPartition
    <2>5. LiveGid' = LiveGid \cup {gid} /\ Live' = Live \cup {fd}
        BY <2>1, <2>2 DEF IInv, TypeOK, LiveGid, Live
    <2>6. TypeOK'
        <3>1. on_alloc(connection_pool[new_index], fd, gid) \in Connection
            BY <2>4, ZenonT(60) DEF IInv, TypeOK, on_alloc, Connection
        <3>2. connection_pool' \in [Index -> Connection]
            BY <3>1, <2>2, <2>4 DEF IInv, TypeOK
        <3> QED
            BY <3>2, <1>2, <2>2, <2>3, <2>4 DEF IInv, TypeOK
    <2>7. \A g \in LiveGid : gid2index'[g] = gid2index[g] /\ gid2index[g] # new_index
        BY <2>1, <2>2, <2>4 DEF IInv, TypeOK, LiveGid, PoolPartition
    <2>8. MapsAgree'
        BY <2>1, <2>2, <2>4, <2>5, <2>7 DEF IInv, TypeOK, MapsAgree, Live, LiveGid
    <2>9. PoolPartition'
        BY <2>1, <2>2, <2>3, <2>4, <2>5, <2>7 DEF IInv, TypeOK, PoolPartition
    <2>10. LookupSound'
        BY <2>1, <2>2, <2>4, <2>5, <2>7 DEF IInv, TypeOK, LookupSound, MapsAgree, Live,
           LiveGid, Slot, get_conn, get_conn_by_gid, on_alloc, Connection
    <2>11. NoResidue'
        BY <2>2, <2>4 DEF IInv, TypeOK, NoResidue, on_alloc, Connection
    <2> QED
        BY <2>6, <2>8, <2>9, <2>10, <2>11 DEF IInv
<1> QED
    BY <1>1, <1>2

(* release_connection frees the slot of the connection it removes.         *)
LEMMA ReleaseStep ==
    ASSUME IInv, NEW fd \in Fd, release_connection(fd)
    PROVE  IInv'
<1> USE CapacityAssumption, AbsentAssumption
<1>1. CASE ret' # 0
    <2>1. ret' \in -5 .. 0
        BY <1>1 DEF release_connection, release_error
    <2> QED
        BY <1>1, <2>1, RefusedStep DEF release_connection
<1>2. CASE ret' = 0
    <2> DEFINE gid == fd2gid[fd]
               index == gid2index[gid]
    <2>1. /\ fd \in Live /\ gid \in LiveGid
          /\ index \in Index /\ index \in using_set /\ gid2fd[gid] = fd
        BY <1>2 DEF release_connection, release_error, IInv, TypeOK, MapsAgree,
           PoolPartition, Live, LiveGid
    <2>2. /\ fd2gid' = [fd2gid EXCEPT ![fd] = Absent]
          /\ gid2fd' = [gid2fd EXCEPT ![gid] = Absent]
          /\ gid2index' = [gid2index EXCEPT ![gid] = Absent]
          /\ using_set' = using_set \ {index}
          /\ unused_set' = unused_set \cup {index}
          /\ connection_pool' =
               [connection_pool EXCEPT ![index] = on_release(connection_pool[index])]
        BY <1>2 DEF release_connection, erase_entries, free_index
    <2>3. UNCHANGED inited
        BY DEF release_connection
    <2> HIDE DEF gid, index
    <2>5. LiveGid' = LiveGid \ {gid} /\ Live' = Live \ {fd}
        BY <2>1, <2>2 DEF IInv, TypeOK, LiveGid, Live
    <2>6. TypeOK'
        <3>1. on_release(connection_pool[index]) \in Connection
            BY <2>1, ZenonT(60) DEF IInv, TypeOK, on_release, Connection
        <3>2. connection_pool' \in [Index -> Connection]
            BY <3>1, <2>1, <2>2 DEF IInv, TypeOK
        <3>3. ret' \in -5 .. 0 /\ using_set' \subseteq Index /\ unused_set' \subseteq Index
            BY <1>2, <2>1, <2>2 DEF IInv, TypeOK
        <3> QED
            BY <3>2, <3>3, <2>2, <2>3 DEF IInv, TypeOK
    <2>7. \A g \in LiveGid \ {gid} : gid2index'[g] = gid2index[g] /\ gid2index[g] # index
        BY <2>1, <2>2 DEF IInv, TypeOK, LiveGid, MapsAgree, index
    <2>8. MapsAgree'
        BY <2>1, <2>2, <2>5, <2>7 DEF IInv, TypeOK, MapsAgree, Live, LiveGid
    <2>9. PoolPartition'
        BY <2>1, <2>2, <2>3, <2>5, <2>7 DEF IInv, TypeOK, PoolPartition, index
    <2>10. LookupSound'
        BY <2>1, <2>2, <2>5, <2>7 DEF IInv, TypeOK, LookupSound, MapsAgree, Live,
           LiveGid, Slot, get_conn, get_conn_by_gid
    <2>11. NoResidue'
        BY <2>1, <2>2 DEF IInv, TypeOK, NoResidue, on_release, Connection
    <2> QED
        BY <2>6, <2>8, <2>9, <2>10, <2>11 DEF IInv
<1> QED
    BY <1>1, <1>2

(* A context that keeps the identity of its connection preserves the       *)
(* invariant, whatever else it does to the connection.                     *)
LEMMA UseStep ==
    ASSUME IInv, NEW fd \in Fd, NEW conn \in Connection, UseSlot(fd, conn),
           conn.fd = Slot(fd).fd, conn.gid = Slot(fd).gid, ~conn.closed_flag,
           conn.buffer \subseteq {conn.gid}
    PROVE  IInv'
<1> USE CapacityAssumption, AbsentAssumption
<1> DEFINE index == get_conn(fd)
<1>1. fd \in Live /\ fd2gid[fd] \in LiveGid /\ index \in Index /\ index \in using_set
      /\ index = gid2index[fd2gid[fd]]
    BY DEF UseSlot, get_conn, IInv, TypeOK, MapsAgree, PoolPartition, Live, LiveGid
<1>2. connection_pool' = [connection_pool EXCEPT ![index] = conn]
      /\ UNCHANGED <<inited, maps, ret>>
    BY DEF UseSlot
<1>3. \A f \in Live \ {fd} : get_conn(f) \in Index /\ get_conn(f) # index
    BY <1>1 DEF get_conn, IInv, TypeOK, MapsAgree, Live, LiveGid
<1>4. \A f \in Live : get_conn(f)' = get_conn(f)
    BY <1>2 DEF get_conn
<1>5. conn.fd = fd /\ conn.gid = fd2gid[fd]
    BY <1>1 DEF IInv, LookupSound
<1> HIDE DEF index
<1>6. TypeOK' /\ MapsAgree' /\ PoolPartition'
    BY <1>1, <1>2 DEF IInv, TypeOK, MapsAgree, PoolPartition, Live, LiveGid
<1>7. LookupSound'
    <2> SUFFICES ASSUME NEW f \in Live'
                 PROVE  (/\ get_conn(f) = get_conn_by_gid(fd2gid[f])
                         /\ Slot(f).fd = f
                         /\ Slot(f).gid = fd2gid[f]
                         /\ ~Slot(f).closed_flag)'
        BY DEF LookupSound
    <2>1. f \in Live /\ get_conn(f)' = get_conn(f)
        BY <1>2, <1>4 DEF Live
    <2>2. get_conn(f)' = (get_conn_by_gid(fd2gid[f]))'
        BY <1>2, <2>1 DEF IInv, LookupSound, get_conn_by_gid
    <2>3. CASE f = fd
        <3>1. Slot(f)' = conn
            BY <1>1, <1>2, <2>1, <2>3 DEF Slot, IInv, TypeOK, index
        <3> QED
            BY <3>1, <1>2, <1>5, <2>2, <2>3
    <2>4. CASE f # fd
        <3>1. Slot(f)' = Slot(f)
            BY <1>1, <1>2, <1>3, <2>1, <2>4 DEF Slot, IInv, TypeOK
        <3> QED
            BY <3>1, <1>2, <2>1, <2>2 DEF IInv, LookupSound
    <2> QED
        BY <2>3, <2>4
<1>8. NoResidue'
    BY <1>1, <1>2 DEF IInv, TypeOK, NoResidue
<1> QED
    BY <1>6, <1>7, <1>8 DEF IInv

(* Every operation on a connection keeps its identity.                     *)
LEMMA UseStepAll ==
    ASSUME IInv, NEW fd \in Fd,
           set_is_ready(fd) \/ set_is_close(fd) \/ append(fd) \/ keep_alive(fd)
    PROVE  IInv'
<1>1. get_conn(fd) # Absent
    BY DEF set_is_ready, set_is_close, append, keep_alive, UseSlot
<1>2. fd \in Live /\ fd2gid[fd] \in Gid /\ get_conn(fd) \in Index
      /\ get_conn(fd) \in using_set
    BY <1>1, AbsentAssumption DEF get_conn, IInv, TypeOK, MapsAgree, PoolPartition, Live, LiveGid
<1>3. /\ Slot(fd) \in Connection /\ Slot(fd).fd = fd /\ Slot(fd).gid = fd2gid[fd]
      /\ ~Slot(fd).closed_flag /\ Slot(fd).buffer \subseteq {Slot(fd).gid}
    BY <1>2 DEF IInv, TypeOK, LookupSound, NoResidue, Slot
<1>4. CASE set_is_ready(fd)
    <2> DEFINE conn == [Slot(fd) EXCEPT !.is_ready = TRUE]
    <2>1. conn \in Connection /\ conn.fd = Slot(fd).fd /\ conn.gid = Slot(fd).gid
          /\ ~conn.closed_flag /\ conn.buffer \subseteq {conn.gid}
        BY <1>2, <1>3 DEF Connection
    <2>2. UseSlot(fd, conn)
        BY <1>4 DEF set_is_ready
    <2> QED
        BY <2>1, <2>2, UseStep
<1>5. CASE set_is_close(fd)
    <2> DEFINE conn == [Slot(fd) EXCEPT !.is_close = TRUE]
    <2>1. conn \in Connection /\ conn.fd = Slot(fd).fd /\ conn.gid = Slot(fd).gid
          /\ ~conn.closed_flag /\ conn.buffer \subseteq {conn.gid}
        BY <1>2, <1>3 DEF Connection
    <2>2. UseSlot(fd, conn)
        BY <1>5 DEF set_is_close
    <2> QED
        BY <2>1, <2>2, UseStep
<1>6. CASE append(fd)
    <2> DEFINE conn == [Slot(fd) EXCEPT !.buffer = @ \cup {Slot(fd).gid}]
    <2>1. conn \in Connection /\ conn.fd = Slot(fd).fd /\ conn.gid = Slot(fd).gid
          /\ ~conn.closed_flag /\ conn.buffer \subseteq {conn.gid}
        BY <1>2, <1>3 DEF Connection
    <2>2. UseSlot(fd, conn)
        BY <1>6 DEF append
    <2> QED
        BY <2>1, <2>2, UseStep
<1>7. CASE keep_alive(fd)
    <2> DEFINE conn == on_alloc(Slot(fd), Slot(fd).fd, Slot(fd).gid)
    <2>1. conn \in Connection /\ conn.fd = Slot(fd).fd /\ conn.gid = Slot(fd).gid
          /\ ~conn.closed_flag /\ conn.buffer \subseteq {conn.gid}
        BY <1>2, <1>3 DEF Connection, on_alloc
    <2>2. UseSlot(fd, conn)
        BY <1>7 DEF keep_alive
    <2> QED
        BY <2>1, <2>2, UseStep
<1> QED
    BY <1>4, <1>5, <1>6, <1>7

(* IInv is an invariant of connection_mgr.                                 *)
THEOREM Invariance == Spec => []IInv
<1>1. IInv /\ [Next]_vars => IInv'
    <2> SUFFICES ASSUME IInv, [Next]_vars PROVE IInv'
        OBVIOUS
    <2>1. CASE init
        BY <2>1, InitStep
    <2>2. ASSUME NEW fd \in Fd, NEW gid \in Gid, alloc_connection(fd, gid) PROVE IInv'
        BY <2>2, AllocStep
    <2>3. ASSUME NEW fd \in Fd, release_connection(fd) PROVE IInv'
        BY <2>3, ReleaseStep
    <2>4. ASSUME NEW fd \in Fd,
                 set_is_ready(fd) \/ set_is_close(fd) \/ append(fd) \/ keep_alive(fd)
          PROVE  IInv'
        BY <2>4, UseStepAll
    <2>5. CASE UNCHANGED vars
        <3>1. ret' \in -5 .. 0
            BY <2>5 DEF IInv, TypeOK
        <3> QED
            BY <2>5, <3>1, RefusedStep
    <2> QED
        BY <2>1, <2>2, <2>3, <2>4, <2>5 DEF Next
<1> QED
    BY InitIInv, <1>1, PTL DEF Spec

(* The maps agree, no slot is lost or shared, and a look-up by descriptor  *)
(* or by gid finds the slot of that connection, in every reachable state.  *)
THEOREM PoolSafety == Spec => [](MapsAgree /\ PoolPartition /\ LookupSound)
BY Invariance, PTL DEF IInv

(* A slot that alloc_connection hands out again carries nothing over from  *)
(* the connection that had it before.                                      *)
THEOREM SlotHygiene == Spec => []NoResidue
BY Invariance, PTL DEF IInv

-----------------------------------------------------------------------------
(* The pool implements the abstract table. *)

LiveTable == {<<fd, fd2gid[fd]>> : fd \in Live}

(* The free slots are finitely many.                                       *)
LEMMA UnusedFinite ==
    ASSUME IInv
    PROVE  /\ IsFiniteSet(unused_set)
           /\ Cardinality(unused_set) \in Nat
           /\ Cardinality(unused_set) > 0 <=> unused_set # {}
<1>1. IsFiniteSet(Index)
    BY CapacityAssumption, FS_Interval
<1>2. IsFiniteSet(unused_set)
    BY <1>1, FS_Subset DEF IInv, TypeOK
<1> QED
    BY <1>2, FS_CardinalityType, FS_EmptySet

(* Looking a descriptor up in the maps is looking it up in the table.      *)
LEMMA LookupFd ==
    ASSUME NEW fd \in Fd
    PROVE  (\E c \in LiveTable : c[1] = fd) <=> fd2gid[fd] # Absent
<1>1. ASSUME fd \in Live PROVE \E c \in LiveTable : c[1] = fd
    <2>1. <<fd, fd2gid[fd]>> \in LiveTable
        BY <1>1 DEF LiveTable
    <2> QED
        BY <2>1
<1>2. ASSUME NEW c \in LiveTable, c[1] = fd PROVE fd \in Live
    BY <1>2 DEF LiveTable
<1> QED
    BY <1>1, <1>2 DEF Live

(* And so is looking a gid up.                                             *)
LEMMA LookupGid ==
    ASSUME IInv, NEW gid \in Gid
    PROVE  (\E c \in LiveTable : c[2] = gid) <=> gid2fd[gid] # Absent
<1>1. ASSUME NEW f \in Live, fd2gid[f] = gid PROVE \E c \in LiveTable : c[2] = gid
    <2>1. <<f, gid>> \in LiveTable
        BY <1>1 DEF LiveTable
    <2> QED
        BY <2>1
<1>2. ASSUME NEW c \in LiveTable, c[2] = gid PROVE \E f \in Live : fd2gid[f] = gid
    BY <1>2 DEF LiveTable
<1>3. (\E f \in Live : fd2gid[f] = gid) <=> gid2fd[gid] # Absent
    BY AbsentAssumption DEF Live, LiveGid, IInv, TypeOK, MapsAgree
<1> QED
    BY <1>1, <1>2, <1>3

(* A successful or refused alloc_connection is an Open of the table.       *)
LEMMA AllocOpens ==
    ASSUME IInv, NEW fd \in Fd, NEW gid \in Gid, alloc_connection(fd, gid)
    PROVE  Table!Open(fd, gid)
<1> USE AbsentAssumption
<1>1. Table!CanOpen(fd, gid)
        <=> fd2gid[fd] = Absent /\ gid2fd[gid] = Absent /\ unused_set # {}
    BY LookupFd, LookupGid, UnusedFinite DEF Table!CanOpen, LiveTable
<1>2. unused_set # {} => inited
    BY DEF IInv, PoolPartition
<1>3. ret' = 0 <=> Table!CanOpen(fd, gid)
    BY <1>1, <1>2 DEF alloc_connection, alloc_error, IInv, MapsAgree
<1>4. CASE ret' = 0
    <2>1. PICK i \in unused_set : unused_set' = unused_set \ {i}
        BY <1>4 DEF alloc_connection
    <2>2. Cardinality(unused_set') = Cardinality(unused_set) - 1
        BY <2>1, UnusedFinite, FS_RemoveElement
    <2>3. fd2gid' = [fd2gid EXCEPT ![fd] = gid] /\ fd2gid[fd] = Absent
        BY <1>1, <1>3, <1>4 DEF alloc_connection
    <2>4. LiveTable' = LiveTable \cup {<<fd, gid>>}
        BY <2>3 DEF LiveTable, Live, IInv, TypeOK
    <2> QED
        BY <1>3, <1>4, <2>2, <2>4 DEF Table!Open, LiveTable, alloc_connection
<1>5. CASE ret' # 0
    <2>1. UNCHANGED <<maps, inited>>
        BY <1>5 DEF alloc_connection
    <2>2. UNCHANGED <<LiveTable, Cardinality(unused_set)>>
        BY <2>1 DEF LiveTable, Live
    <2> QED
        BY <1>3, <1>5, <2>1, <2>2 DEF Table!Open, LiveTable
<1> QED
    BY <1>4, <1>5

(* A successful or refused release_connection is a Close of the table.     *)
LEMMA ReleaseCloses ==
    ASSUME IInv, NEW fd \in Fd, release_connection(fd)
    PROVE  Table!Close(fd)
<1> USE AbsentAssumption
<1>1. ret' = 0 <=> fd2gid[fd] # Absent
    BY DEF release_connection, release_error, IInv, TypeOK, MapsAgree, Live, LiveGid
<1>2. (\E c \in LiveTable : c[1] = fd) <=> fd2gid[fd] # Absent
    BY LookupFd
<1>3. CASE ret' = 0
    <2>1. PICK i \in Index : i \notin unused_set /\ unused_set' = unused_set \cup {i}
        BY <1>1, <1>3 DEF release_connection, free_index, IInv, TypeOK, MapsAgree,
           PoolPartition, Live, LiveGid
    <2>2. Cardinality(unused_set') = Cardinality(unused_set) + 1
        BY <2>1, UnusedFinite, FS_AddElement
    <2>3. fd2gid' = [fd2gid EXCEPT ![fd] = Absent]
        BY <1>3 DEF release_connection, erase_entries
    <2>4. LiveTable' = {c \in LiveTable : c[1] # fd}
        BY <2>3 DEF LiveTable, Live, IInv, TypeOK
    <2> QED
        BY <1>1, <1>2, <1>3, <2>2, <2>4 DEF Table!Close, LiveTable, release_connection
<1>4. CASE ret' # 0
    <2>1. UNCHANGED <<maps, inited>>
        BY <1>4 DEF release_connection
    <2>2. UNCHANGED <<LiveTable, Cardinality(unused_set)>>
        BY <2>1 DEF LiveTable, Live
    <2> QED
        BY <1>1, <1>2, <1>4, <2>1, <2>2 DEF Table!Close, LiveTable
<1> QED
    BY <1>3, <1>4

(* connection_mgr implements ConnTable: it opens and closes what the       *)
(* table opens and closes and refuses exactly what the table refuses.      *)
THEOREM Refinement == Spec => ImplementsTable
<1>1. Init => Table!Init
    BY FS_EmptySet DEF Init, Table!Init, Live
<1>2. IInv /\ [Next]_vars => [Table!Next]_(Table!vars)
    <2> SUFFICES ASSUME IInv, [Next]_vars PROVE [Table!Next]_(Table!vars)
        OBVIOUS
    <2>1. CASE init
        <3>1. Cardinality(Index) = pool_capacity + 1
            BY CapacityAssumption, FS_Interval
        <3>2. unused_set' = Index
            BY <2>1 DEF init, IInv, PoolPartition
        <3>3. Table!Create
            BY <2>1, <3>1, <3>2 DEF init, Table!Create, Live
        <3> QED
            BY <3>3 DEF Table!Next
    <2>2. ASSUME NEW fd \in Fd, NEW gid \in Gid, alloc_connection(fd, gid)
          PROVE  Table!Next
        BY <2>2, AllocOpens DEF Table!Next
    <2>3. ASSUME NEW fd \in Fd, release_connection(fd)
          PROVE  Table!Next
        BY <2>3, ReleaseCloses DEF Table!Next
    <2>4. ASSUME NEW fd \in Fd,
                 set_is_ready(fd) \/ set_is_close(fd) \/ append(fd) \/ keep_alive(fd)
          PROVE  UNCHANGED Table!vars
        <3>1. UNCHANGED <<inited, maps, ret>>
            BY <2>4 DEF set_is_ready, set_is_close, append, keep_alive, UseSlot
        <3> QED
            BY <3>1 DEF Table!vars, Live
    <2>5. CASE UNCHANGED vars
        BY <2>5 DEF Table!vars, Live
    <2> QED
        BY <2>1, <2>2, <2>3, <2>4, <2>5 DEF Next
<1> QED
    BY <1>1, <1>2, Invariance, PTL DEF Spec, ImplementsTable, Table!Spec

(* A live connection keeps its slot and a step touches one connection: the *)
(* raw pointers the contexts keep stay good for as long as it lives.       *)
THEOREM PointerStability == Spec => PointersStable
<1> DEFINE Stable ==
        /\ \A gid \in Gid : gid2index[gid] # Absent /\ gid2index'[gid] # Absent
                               => gid2index'[gid] = gid2index[gid]
        /\ inited => \A i, j \in Index :
               /\ connection_pool'[i] # connection_pool[i]
               /\ connection_pool'[j] # connection_pool[j]
               => i = j
<1>1. IInv /\ [Next]_vars => [Stable]_vars
    <2> SUFFICES ASSUME IInv, Next PROVE Stable
        BY DEF IInv
    <2>1. CASE init
        BY <2>1 DEF init
    <2>2. ASSUME NEW fd \in Fd, NEW gid \in Gid, alloc_connection(fd, gid)
          PROVE  Stable
        <3>1. CASE ret' = 0
            <4>1. gid2index[gid] = Absent
                BY <2>2, <3>1 DEF alloc_connection, alloc_error
            <4>2. PICK i \in unused_set :
                      /\ gid2index' = [gid2index EXCEPT ![gid] = i]
                      /\ connection_pool' =
                           [connection_pool EXCEPT ![i] = on_alloc(connection_pool[i], fd, gid)]
                BY <2>2, <3>1 DEF alloc_connection
            <4> QED
                BY <4>1, <4>2 DEF IInv, TypeOK
        <3>2. CASE ret' # 0
            BY <2>2, <3>2 DEF alloc_connection
        <3> QED
            BY <3>1, <3>2
    <2>3. ASSUME NEW fd \in Fd, release_connection(fd)
          PROVE  Stable
        BY <2>3 DEF release_connection, release_error, erase_entries, IInv, TypeOK
    <2>4. ASSUME NEW fd \in Fd,
                 set_is_ready(fd) \/ set_is_close(fd) \/ append(fd) \/ keep_alive(fd)
          PROVE  Stable
        BY <2>4 DEF set_is_ready, set_is_close, append, keep_alive, UseSlot, IInv, TypeOK
    <2> QED
        BY <2>1, <2>2, <2>3, <2>4 DEF Next
<1> QED
    BY <1>1, Invariance, PTL DEF Spec, PointersStable
=============================================================================
