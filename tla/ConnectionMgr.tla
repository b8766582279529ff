---------------------------- MODULE ConnectionMgr ----------------------------
(***************************************************************************)
(* connection_mgr: a fixed pool of connection objects and the three hash   *)
(* maps that find one by descriptor or by gid (src/connection/             *)
(* connection_mgr.cpp), with the part of connection (connection.cpp) that  *)
(* the pool resets on reuse.                                               *)
(*                                                                         *)
(* A hash map is a total function whose value is Absent where the map has  *)
(* no entry.  The content of the receive and send buffers of a slot is     *)
(* abstracted to the set of gids of the connections whose bytes it holds.  *)
(***************************************************************************)
EXTENDS Integers, FiniteSets

CONSTANTS Fd,             \* descriptors a thread may hand to the pool
          Gid,            \* connection ids a thread may hand to the pool
          pool_capacity,  \* argument of connection_mgr::init
          Absent          \* no entry in a map; fd and gid of a released slot

ASSUME CapacityAssumption == pool_capacity \in Nat
ASSUME AbsentAssumption == Absent \notin Fd \cup Gid \cup Int

VARIABLES inited,           \* connection_pool is not null
          unused_set, using_set,
          fd2gid, gid2fd, gid2index,
          connection_pool,  \* slot index -> connection
          ret               \* return code of the last call

maps == <<fd2gid, gid2fd, gid2index, using_set, unused_set>>
vars == <<inited, maps, connection_pool, ret>>

Index == 0 .. pool_capacity

Connection == [fd : Fd \cup {Absent}, gid : Gid \cup {Absent},
               closed_flag : BOOLEAN, is_close : BOOLEAN, is_ready : BOOLEAN,
               buffer : SUBSET Gid]

-----------------------------------------------------------------------------
(* connection objects *)

NewConnection == [fd |-> Absent, gid |-> Absent, closed_flag |-> FALSE,
                  is_close |-> FALSE, is_ready |-> FALSE, buffer |-> {}]

on_alloc_stays_closed(conn, fd, gid) ==     \* mutant
    [conn EXCEPT !.fd = fd, !.gid = gid,
                 !.is_close = FALSE, !.is_ready = FALSE, !.buffer = {}]

on_alloc(conn, fd, gid) ==
    [conn EXCEPT !.fd = fd, !.gid = gid, !.closed_flag = FALSE,
                 !.is_close = FALSE, !.is_ready = FALSE, !.buffer = {}]

on_release_keeps_ready(conn) ==             \* mutant
    [conn EXCEPT !.fd = Absent, !.gid = Absent, !.closed_flag = TRUE,
                 !.is_close = FALSE, !.buffer = {}]

on_release(conn) ==
    [conn EXCEPT !.fd = Absent, !.gid = Absent, !.closed_flag = TRUE,
                 !.is_close = FALSE, !.is_ready = FALSE, !.buffer = {}]

(* get_conn and get_conn_by_gid return a pointer into the pool: an index,  *)
(* or Absent for the null pointer.                                         *)
get_conn_by_gid(gid) == gid2index[gid]

get_conn(fd) == IF fd2gid[fd] = Absent THEN Absent ELSE gid2index[fd2gid[fd]]

-----------------------------------------------------------------------------
(* operations *)

init == /\ ~inited
        /\ inited' = TRUE
        /\ connection_pool' = [i \in Index |-> NewConnection]
        /\ unused_set' = unused_set \cup Index
        /\ ret' = 0
        /\ UNCHANGED <<using_set, fd2gid, gid2fd, gid2index>>

alloc_error_skips_fd(fd, gid) ==            \* mutant
    IF ~inited THEN -1
    ELSE IF gid2fd[gid] # Absent THEN -3
    ELSE IF gid2index[gid] # Absent THEN -4
    ELSE IF unused_set = {} THEN -5
    ELSE 0

alloc_error_skips_gid(fd, gid) ==           \* mutant
    IF ~inited THEN -1
    ELSE IF fd2gid[fd] # Absent THEN -2
    ELSE IF unused_set = {} THEN -5
    ELSE 0

(* The early returns of alloc_connection, in the order it tests them.      *)
alloc_error(fd, gid) ==
    IF ~inited THEN -1
    ELSE IF fd2gid[fd] # Absent THEN -2
    ELSE IF gid2fd[gid] # Absent THEN -3
    ELSE IF gid2index[gid] # Absent THEN -4
    ELSE IF unused_set = {} THEN -5
    ELSE 0

(* The slot is *unused_set.begin() of an unordered_set: any unused index.  *)
alloc_connection(fd, gid) ==
    /\ ret' = alloc_error(fd, gid)
    /\ \/ /\ ret' # 0
          /\ UNCHANGED <<maps, connection_pool>>
       \/ /\ ret' = 0
          /\ \E new_index \in unused_set :
                /\ unused_set' = unused_set \ {new_index}
                /\ using_set' = using_set \cup {new_index}
                /\ fd2gid' = [fd2gid EXCEPT ![fd] = gid]
                /\ gid2fd' = [gid2fd EXCEPT ![gid] = fd]
                /\ gid2index' = [gid2index EXCEPT ![gid] = new_index]
                /\ connection_pool' =
                     [connection_pool EXCEPT
                        ![new_index] = on_alloc(connection_pool[new_index], fd, gid)]
    /\ UNCHANGED inited

release_error(fd) ==
    IF fd2gid[fd] = Absent THEN -1
    ELSE IF gid2fd[fd2gid[fd]] = Absent THEN -2
    ELSE IF gid2index[fd2gid[fd]] = Absent THEN -3
    ELSE 0

erase_entries(fd, gid) ==
    /\ fd2gid' = [fd2gid EXCEPT ![fd] = Absent]
    /\ gid2fd' = [gid2fd EXCEPT ![gid] = Absent]
    /\ gid2index' = [gid2index EXCEPT ![gid] = Absent]

free_index(index) ==
    /\ using_set' = using_set \ {index}
    /\ unused_set' = unused_set \cup {index}

release_connection(fd) ==
    /\ ret' = release_error(fd)
    /\ \/ /\ ret' # 0
          /\ UNCHANGED <<maps, connection_pool>>
       \/ /\ ret' = 0
          /\ LET gid   == fd2gid[fd]
                 index == gid2index[gid]
             IN  /\ erase_entries(fd, gid)
                 /\ free_index(index)
                 /\ connection_pool' =
                      [connection_pool EXCEPT
                         ![index] = on_release(connection_pool[index])]
    /\ UNCHANGED inited

(* What the contexts do to a connection they found with get_conn: raise    *)
(* is_ready or is_close, put bytes into its buffers, and (HTTP keep-alive) *)
(* reset it for the next request under the same descriptor and gid.        *)
Slot(fd) == connection_pool[get_conn(fd)]

UseSlot(fd, conn) ==
    /\ get_conn(fd) # Absent
    /\ connection_pool' = [connection_pool EXCEPT ![get_conn(fd)] = conn]
    /\ UNCHANGED <<inited, maps, ret>>

set_is_ready(fd) == UseSlot(fd, [Slot(fd) EXCEPT !.is_ready = TRUE])

set_is_close(fd) == UseSlot(fd, [Slot(fd) EXCEPT !.is_close = TRUE])

append(fd) == UseSlot(fd, [Slot(fd) EXCEPT !.buffer = @ \cup {Slot(fd).gid}])

keep_alive(fd) == UseSlot(fd, on_alloc(Slot(fd), Slot(fd).fd, Slot(fd).gid))

-----------------------------------------------------------------------------

Init == /\ inited = FALSE
        /\ unused_set = {} /\ using_set = {}
        /\ fd2gid = [fd \in Fd |-> Absent]
        /\ gid2fd = [gid \in Gid |-> Absent]
        /\ gid2index = [gid \in Gid |-> Absent]
        /\ connection_pool = [i \in Index |-> NewConnection]
        /\ ret = 0

Next == \/ init
        \/ \E fd \in Fd : \/ \E gid \in Gid : alloc_connection(fd, gid)
                          \/ release_connection(fd)
                          \/ set_is_ready(fd)
                          \/ set_is_close(fd)
                          \/ append(fd)
                          \/ keep_alive(fd)

Spec == Init /\ [][Next]_vars

-----------------------------------------------------------------------------
(* properties *)

Live == {fd \in Fd : fd2gid[fd] # Absent}

LiveGid == {gid \in Gid : gid2fd[gid] # Absent}

(* Types of the maps, the index sets, the slots and the return codes.      *)
TypeOK ==
    /\ inited \in BOOLEAN
    /\ unused_set \subseteq Index
    /\ using_set \subseteq Index
    /\ fd2gid \in [Fd -> Gid \cup {Absent}]
    /\ gid2fd \in [Gid -> Fd \cup {Absent}]
    /\ gid2index \in [Gid -> Index \cup {Absent}]
    /\ connection_pool \in [Index -> Connection]
    /\ ret \in -5 .. 0

(* The three maps describe one bijection: the descriptor and the gid of a  *)
(* live connection lead to each other and to a slot nobody else has.       *)
MapsAgree ==
    /\ \A fd \in Live : gid2fd[fd2gid[fd]] = fd
    /\ \A gid \in LiveGid : fd2gid[gid2fd[gid]] = gid
    /\ \A gid \in Gid : gid2index[gid] = Absent <=> gid2fd[gid] = Absent
    /\ \A g, h \in LiveGid : gid2index[g] = gid2index[h] => g = h

(* No slot is lost and none is handed out twice: every slot of the pool is *)
(* either free or the slot of exactly one live connection.                 *)
PoolPartition ==
    /\ using_set \cap unused_set = {}
    /\ using_set \cup unused_set = IF inited THEN Index ELSE {}
    /\ using_set = {gid2index[gid] : gid \in LiveGid}

(* get_conn(fd) returns the connection that was allocated for fd and not   *)
(* one that has been released or belongs to another descriptor.            *)
LookupSound ==
    \A fd \in Live : /\ get_conn(fd) = get_conn_by_gid(fd2gid[fd])
                     /\ Slot(fd).fd = fd
                     /\ Slot(fd).gid = fd2gid[fd]
                     /\ ~Slot(fd).closed_flag

(* A reused slot carries nothing over from the connection that had it      *)
(* before: its buffers hold only bytes of the connection it belongs to,    *)
(* and a free slot is empty and neither ready nor closing.                 *)
NoResidue ==
    \A i \in Index :
        LET c == connection_pool[i]
        IN  IF i \in using_set THEN c.buffer \subseteq {c.gid}
            ELSE c.buffer = {} /\ ~c.is_ready /\ ~c.is_close

(* The contexts keep raw pointers to their connection: a live connection   *)
(* never moves to another slot, and a step never changes the slots of two  *)
(* connections.                                                            *)
PointersStable ==
    [][/\ \A gid \in Gid : gid2index[gid] # Absent /\ gid2index'[gid] # Absent
                              => gid2index'[gid] = gid2index[gid]
       /\ inited => \A i, j \in Index :
              /\ connection_pool'[i] # connection_pool[i]
              /\ connection_pool'[j] # connection_pool[j]
              => i = j]_vars

(* alloc_connection and release_connection implement the abstract table,   *)
(* refusals included: the codes -4, and -2 and -3 of release, never occur. *)
Table == INSTANCE ConnTable WITH
            Slots <- pool_capacity + 1,
            created <- inited,
            table   <- {<<fd, fd2gid[fd]>> : fd \in Live},
            free    <- Cardinality(unused_set),
            ok      <- ret = 0

ImplementsTable == Table!Spec
=============================================================================
