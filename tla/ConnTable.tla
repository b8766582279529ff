------------------------------ MODULE ConnTable ------------------------------
(***************************************************************************)
(* What connection_mgr promises to the threads that own one (the main      *)
(* thread, every worker, the "other" thread): a table of live connections, *)
(* each a pair of a descriptor and a gid, neither of which occurs twice,   *)
(* with a fixed number of slots.  A connection takes a free slot and gives *)
(* it back.  An allocation is refused exactly when the descriptor or the   *)
(* gid is live or no slot is free; a release is refused exactly when the   *)
(* descriptor is not live.                                                 *)
(***************************************************************************)
EXTENDS Integers

CONSTANTS Fd, Gid,
          Slots     \* the size of the table once it is created

VARIABLES created,  \* before, every allocation is refused
          table,    \* the live connections, a set of <<fd, gid>> pairs
          free,     \* number of free slots
          ok        \* whether the last operation was carried out

vars == <<created, table, free, ok>>

Create == /\ ~created
          /\ created' = TRUE
          /\ free' = Slots
          /\ ok' = TRUE
          /\ UNCHANGED table

CanOpen(fd, gid) == /\ \A c \in table : c[1] # fd /\ c[2] # gid
                    /\ free > 0

Open(fd, gid) == /\ IF CanOpen(fd, gid)
                    THEN /\ ok' = TRUE
                         /\ table' = table \cup {<<fd, gid>>}
                         /\ free' = free - 1
                    ELSE /\ ok' = FALSE
                         /\ UNCHANGED <<table, free>>
                 /\ UNCHANGED created

Close(fd) == /\ IF \E c \in table : c[1] = fd
                THEN /\ ok' = TRUE
                     /\ table' = {c \in table : c[1] # fd}
                     /\ free' = free + 1
                ELSE /\ ok' = FALSE
                     /\ UNCHANGED <<table, free>>
             /\ UNCHANGED created

Init == /\ ~created
        /\ table = {}
        /\ free = 0
        /\ ok = TRUE

Next == Create \/ \E fd \in Fd : Close(fd) \/ \E gid \in Gid : Open(fd, gid)

Spec == Init /\ [][Next]_vars
=============================================================================
