-------------------------- MODULE StopProtocolProofs --------------------------
(***************************************************************************)
(* Proofs about the end of the process, for any number of workers and any  *)
(* capacity of the self-pipe.                                              *)
(***************************************************************************)
EXTENDS StopProtocol, TLAPS

USE DEF channel, flags, local, vars

(* The types the argument needs.                                           *)
Types == /\ handler \in [Signal -> {"idle", "stored", "write"}]
         /\ is_stoped \in [Thread -> BOOLEAN]
         /\ thread \in [Thread -> {"none", "loop", "left", "hook", "done"}]

(* No thread exists before start_threads.                                  *)
NotStarted == main \in {"init", "setup", "start"}
                  => \A t \in Thread : thread[t] = "none"

(* is_stoped is the promise that the thread has left its loop.             *)
StoppedLeft == \A t \in Thread : is_stoped[t] => thread[t] \in {"hook", "done"}

(* Only an open write end is published.                                    *)
PublishedOpen == g_signal_pipe_wr => wr_open

(* The inductive invariant.                                                *)
IInv == Types /\ NotStarted /\ StoppedLeft /\ PublishedOpen /\ ExitAfterLoops /\ WriteHitsPipe

(* Before main() has run, no thread is started and nothing is published.   *)
LEMMA InitIInv == Init => IInv
BY DEF Init, IInv, Types, NotStarted, StoppedLeft, PublishedOpen, ExitAfterLoops, WriteHitsPipe

(* A signal handler leaves the threads alone and loads the write end only  *)
(* while it is published.                                                  *)
LEMMA HandlerStep ==
    ASSUME IInv, NEW s \in Signal, signal(s) \/ Handler(s)
    PROVE  IInv'
<1>1. Types'
    BY DEF signal, Handler, load_pipe_wr, write_pipe, IInv, Types
<1>2. (NotStarted /\ StoppedLeft /\ PublishedOpen /\ ExitAfterLoops)'
    BY DEF signal, Handler, load_pipe_wr, write_pipe, IInv, NotStarted, StoppedLeft,
       PublishedOpen, ExitAfterLoops
<1>3. WriteHitsPipe'
    BY DEF signal, Handler, load_pipe_wr, write_pipe, IInv, Types, PublishedOpen, WriteHitsPipe
<1> QED
    BY <1>1, <1>2, <1>3 DEF IInv

(* Start-up: threads appear when the loop of the main thread begins.       *)
LEMMA StartStep ==
    ASSUME IInv, Starting
    PROVE  IInv'
<1> USE DEF IInv, Types, NotStarted, StoppedLeft, PublishedOpen, ExitAfterLoops, WriteHitsPipe
<1>1. CASE system_init
    BY <1>1 DEF system_init
<1>2. CASE setup_signal_pipe
    BY <1>2 DEF setup_signal_pipe
<1>3. CASE start_threads
    <2>1. StoppedLeft'
        BY <1>3 DEF start_threads
    <2> QED
        BY <1>3, <2>1 DEF start_threads
<1>4. CASE start_fails
    BY <1>4 DEF start_fails
<1> QED
    BY <1>1, <1>2, <1>3, <1>4 DEF Starting

(* The loop of the main thread ends only with every thread out of its own. *)
LEMMA LoopStep ==
    ASSUME IInv, Looping \/ Waiting
    PROVE  IInv'
<1>1. /\ UNCHANGED <<handler, g_signal_pipe_wr, wr_open, is_stoped, thread>>
      /\ main' \notin {"init", "setup", "start", "left", "close", "gone"}
      /\ main' = "ended" => AllStopped
    BY DEF Looping, Waiting, process_stop, process_reload, cmd_reload, tick, drain_signal_pipe,
       wait_returns, wait_interrupted, main_fails
<1>2. ExitAfterLoops'
    BY <1>1 DEF IInv, StoppedLeft, AllStopped, ExitAfterLoops
<1> QED
    BY <1>1, <1>2 DEF IInv, Types, NotStarted, StoppedLeft, PublishedOpen, WriteHitsPipe

(* The tear-down keeps the write end open.                                 *)
LEMMA EndStep ==
    ASSUME IInv, Ending
    PROVE  IInv'
BY DEF Ending, on_main_stop, system_gone, close_signal_pipe, IInv, Types, NotStarted,
   StoppedLeft, PublishedOpen, ExitAfterLoops, WriteHitsPipe

(* A thread never returns to its loop.                                     *)
LEMMA ThreadStep ==
    ASSUME IInv, NEW t \in Thread, Stopping(t) \/ wait_fails(t) \/ stop_itself(t)
    PROVE  IInv'
<1>1. PICK p \in {"left", "hook", "done"} :
          /\ UNCHANGED <<channel, main>>
          /\ \/ UNCHANGED <<thread, is_stoped>>
             \/ /\ thread[t] \in {"loop", "left", "hook"}
                /\ p = "left" => thread[t] = "loop"
                /\ thread' = [thread EXCEPT ![t] = p]
                /\ \/ is_stoped' = is_stoped
                   \/ p = "hook" /\ is_stoped' = [is_stoped EXCEPT ![t] = TRUE]
    BY DEF Stopping, leave_loop, set_stoped, stop_hook, wait_fails, stop_itself, Go
<1>2. Types' /\ (PublishedOpen /\ WriteHitsPipe)'
    BY <1>1 DEF IInv, Types, PublishedOpen, WriteHitsPipe
<1>3. StoppedLeft'
    <2> SUFFICES ASSUME NEW u \in Thread, is_stoped'[u]
                 PROVE  thread'[u] \in {"hook", "done"}
        BY DEF StoppedLeft
    <2>1. is_stoped[u] => thread[u] \in {"hook", "done"}
        BY DEF IInv, StoppedLeft
    <2>2. CASE u = t
        BY <1>1, <2>1, <2>2 DEF IInv, Types
    <2>3. CASE u # t
        BY <1>1, <2>1, <2>3 DEF IInv, Types
    <2> QED
        BY <2>2, <2>3
<1>4. (NotStarted /\ ExitAfterLoops)'
    BY <1>1 DEF IInv, Types, NotStarted, ExitAfterLoops
<1> QED
    BY <1>2, <1>3, <1>4 DEF IInv

(* Every reachable state satisfies the inductive invariant.                *)
THEOREM Invariance == Spec => []IInv
<1>1. IInv /\ [Next]_vars => IInv'
    <2> SUFFICES ASSUME IInv, [Next]_vars PROVE IInv'
        OBVIOUS
    <2>1. CASE UNCHANGED vars
        BY <2>1 DEF IInv, Types, NotStarted, StoppedLeft, PublishedOpen, ExitAfterLoops,
           WriteHitsPipe
    <2>2. CASE Next
        BY <2>2, HandlerStep, StartStep, LoopStep, EndStep, ThreadStep DEF Next
    <2> QED
        BY <2>1, <2>2
<1> QED
    BY InitIInv, <1>1, PTL DEF Spec

(* Whatever threads stop on their own, whatever waits fail and whenever    *)
(* the signals come: the main thread outlives every event loop.            *)
THEOREM OrderlyEnd == Spec => []ExitAfterLoops
<1>1. IInv => ExitAfterLoops
    BY DEF IInv
<1> QED
    BY Invariance, <1>1, PTL

(* A handler that is delayed past the end of the server writes into the    *)
(* self-pipe or not at all.                                                *)
THEOREM HandlerSafety == Spec => []WriteHitsPipe
<1>1. IInv => WriteHitsPipe
    BY DEF IInv
<1> QED
    BY Invariance, <1>1, PTL
=============================================================================
