-------------------------------- MODULE Gid --------------------------------
(***************************************************************************)
(* The number a connection goes by: 32 bits of the second main was in,     *)
(* 23 bits of a sequence number and 9 bits for the worker, which           *)
(* on_listen_event adds once it has chosen one.  A shift is a              *)
(* multiplication, a mask a remainder, and an `or' of bits that do not     *)
(* overlap a sum, all of uint64_t.                                         *)
(***************************************************************************)
EXTENDS Integers

SeqRange == 8388608                     \* 0x7FFFFF + 1
WorkerRange == 512                      \* 0x1FF + 1, 1 << 9
SecondUnit == SeqRange * WorkerRange    \* 1 << 32

(* The clock of a process that runs before 2106.                           *)
Tick == 0 .. SecondUnit - 1

server_gen_gid(m_latest_tick_time, m_gid_seq) ==
    m_latest_tick_time * SecondUnit + (m_gid_seq % SeqRange) * WorkerRange

real_gid(gid, target_worker_idx) == gid + (target_worker_idx % WorkerRange)

hash_gid_2_worker_tunnel_id(gid) == gid % WorkerRange
=============================================================================
