----------------------------- MODULE StopProtocol -----------------------------
(***************************************************************************)
(* From a signal to the end of the process.  A signal handler records the  *)
(* request in a flag and writes one byte into the self-pipe                *)
(* (system::signal_*, async_signal_notify).  The main thread acts on the   *)
(* flags at the top of its loop and when the pipe is readable              *)
(* (server::process_signal_requests), passes a stop on to the workers and  *)
(* the other thread, leaves its loop once all of them report is_stoped,    *)
(* and tears the server down (server::on_start, ~system, ~server).         *)
(*                                                                         *)
(* The handlers run concurrently with the main thread: a thread that has   *)
(* not yet masked the signals may be the one interrupted.                  *)
(***************************************************************************)
EXTENDS Naturals, FiniteSets

CONSTANTS Worker, Other,    \* the worker threads and the other thread
          pipe_capacity,    \* bytes the self-pipe holds
          drain_limit       \* bytes one drain_signal_pipe reads at most

ASSUME ThreadAssumption == Other \notin Worker
ASSUME PipeAssumption == pipe_capacity \in Nat \ {0} /\ drain_limit \in Nat \ {0}

VARIABLES g_system_alive, g_stop_request, g_reload_request,
          g_signal_pipe_wr,   \* the self-pipe is published to the handlers
          wr_open,            \* the descriptor of its write end is open
          pipe,               \* bytes in the self-pipe
          handler,            \* signal -> progress of its handler
          main,               \* position of the main thread
          stop_requested,     \* its local of process_signal_requests
          readable,           \* the last wait reported the self-pipe
          stop_flag,
          to_stop, is_stoped, \* thread -> flags shared with the main thread
          thread,             \* thread -> its position
          unserved            \* a reload was requested since the last one began

channel == <<g_system_alive, g_stop_request, g_reload_request, g_signal_pipe_wr,
             wr_open, pipe, handler, unserved>>
flags == <<stop_flag, to_stop, is_stoped, thread>>
local == <<stop_requested, readable>>
vars == <<channel, flags, local, main>>

Thread == Worker \cup {Other}
Signal == {"stop", "reload"}

-----------------------------------------------------------------------------
(* signal handlers *)

(* SIGTERM, SIGINT (unless a daemon) or SIGUSR1: the request is stored.    *)
signal(s) ==
    /\ handler[s] = "idle"
    /\ g_system_alive
    /\ handler' = [handler EXCEPT ![s] = "stored"]
    /\ g_stop_request' = (g_stop_request \/ s = "stop")
    /\ g_reload_request' = (g_reload_request \/ s = "reload")
    /\ unserved' = (unserved \/ s = "reload")
    /\ UNCHANGED <<g_system_alive, g_signal_pipe_wr, wr_open, pipe, flags, local, main>>

load_pipe_wr(s) ==
    /\ handler[s] = "stored"
    /\ handler' = [handler EXCEPT ![s] = IF g_signal_pipe_wr THEN "write" ELSE "idle"]
    /\ UNCHANGED <<g_system_alive, g_stop_request, g_reload_request, g_signal_pipe_wr,
                   wr_open, pipe, unserved, flags, local, main>>

(* The write end is non-blocking: a byte that does not fit is dropped.     *)
write_pipe(s) ==
    /\ handler[s] = "write"
    /\ handler' = [handler EXCEPT ![s] = "idle"]
    /\ pipe' = IF pipe < pipe_capacity THEN pipe + 1 ELSE pipe
    /\ UNCHANGED <<g_system_alive, g_stop_request, g_reload_request, g_signal_pipe_wr,
                   wr_open, unserved, flags, local, main>>

-----------------------------------------------------------------------------
(* main thread: start *)

system_init ==
    /\ main = "init"
    /\ g_system_alive' = TRUE
    /\ main' = "setup"
    /\ UNCHANGED <<g_stop_request, g_reload_request, g_signal_pipe_wr, wr_open, pipe,
                   handler, unserved, flags, local>>

setup_signal_pipe ==
    /\ main = "setup"
    /\ g_signal_pipe_wr' = TRUE /\ wr_open' = TRUE
    /\ main' = "start"
    /\ UNCHANGED <<g_system_alive, g_stop_request, g_reload_request, pipe, handler,
                   unserved, flags, local>>

start_threads ==
    /\ main = "start"
    /\ thread' = [t \in Thread |-> "loop"]
    /\ main' = "top"
    /\ UNCHANGED <<channel, stop_flag, to_stop, is_stoped, local>>

(* on_start returns an error before the threads are started.               *)
start_fails ==
    /\ main \in {"setup", "start"}
    /\ main' = "left"
    /\ UNCHANGED <<channel, flags, local>>

-----------------------------------------------------------------------------
(* main thread: event loop *)

to_stop_all_but_workers ==                  \* mutant
    /\ stop_flag' = TRUE
    /\ to_stop' = [to_stop EXCEPT ![Other] = TRUE]

(* server::to_stop *)
to_stop_all == /\ stop_flag' = TRUE
               /\ to_stop' = [t \in Thread |-> TRUE]

(* process_signal_requests is called at the top of the loop and from the   *)
(* event of the self-pipe; it loads g_stop_request first ...               *)
process_stop ==
    /\ main \in {"top", "pipe"}
    /\ stop_requested' = g_stop_request
    /\ IF g_stop_request THEN to_stop_all ELSE UNCHANGED <<stop_flag, to_stop>>
    /\ main' = IF main = "top" THEN "top_reload" ELSE "pipe_reload"
    /\ UNCHANGED <<channel, is_stoped, thread, readable>>

(* ... then g_reload_request, which it clears, ...                         *)
process_reload ==
    /\ main \in {"top_reload", "pipe_reload"}
    /\ g_reload_request' = FALSE
    /\ unserved' = (unserved /\ (~g_reload_request \/ stop_requested))
    /\ main' = IF g_reload_request /\ ~stop_requested
               THEN IF main = "top_reload" THEN "top_hook" ELSE "pipe_hook"
               ELSE IF main = "top_reload" THEN "wait" ELSE "top"
    /\ UNCHANGED <<g_system_alive, g_stop_request, g_signal_pipe_wr, wr_open, pipe,
                   handler, flags, local>>

cmd_reload_clears_request ==                \* mutant
    /\ main \in {"top_hook", "pipe_hook"}
    /\ main' = IF main = "top_hook" THEN "wait" ELSE "top"
    /\ g_reload_request' = FALSE
    /\ UNCHANGED <<g_system_alive, g_stop_request, g_signal_pipe_wr, wr_open, pipe,
                   handler, unserved, flags, local>>

(* ... and runs the hook.                                                  *)
cmd_reload ==
    /\ main \in {"top_hook", "pipe_hook"}
    /\ main' = IF main = "top_hook" THEN "wait" ELSE "top"
    /\ UNCHANGED <<channel, flags, local>>

wait_returns ==
    /\ main = "wait"
    /\ readable' = (pipe > 0)
    /\ main' = "tick"
    /\ UNCHANGED <<channel, flags, stop_requested>>

wait_interrupted ==
    /\ main = "wait"
    /\ main' = "top"
    /\ UNCHANGED <<channel, flags, local>>

(* epoll_wait fails, or the main end of a tunnel breaks: the loop goes on. *)
main_fails ==
    /\ main = "wait"
    /\ to_stop_all
    /\ main' = "top"
    /\ UNCHANGED <<channel, is_stoped, thread, local>>

AllStopped_forgets_other == \A w \in Worker : is_stoped[w]     \* mutant

AllStopped == \A t \in Thread : is_stoped[t]

(* The checks after a wait: the other thread is told to stop (again) when  *)
(* the workers have, and the loop ends when all have.                      *)
tick ==
    /\ main = "tick"
    /\ to_stop' = IF stop_flag /\ \A w \in Worker : is_stoped[w]
                  THEN [to_stop EXCEPT ![Other] = TRUE] ELSE to_stop
    /\ main' = IF stop_flag /\ AllStopped THEN "ended"
               ELSE IF readable THEN "drain" ELSE "top"
    /\ UNCHANGED <<channel, stop_flag, is_stoped, thread, local>>

drain_signal_pipe ==
    /\ main = "drain"
    /\ pipe' = IF pipe > drain_limit THEN pipe - drain_limit ELSE 0
    /\ main' = "pipe"
    /\ UNCHANGED <<g_system_alive, g_stop_request, g_reload_request, g_signal_pipe_wr,
                   wr_open, handler, unserved, flags, local>>

-----------------------------------------------------------------------------
(* main thread: end *)

on_main_stop == /\ main = "ended"
                /\ main' = "left"
                /\ UNCHANGED <<channel, flags, local>>

(* ~system *)
system_gone == /\ main = "left"
               /\ g_system_alive' = FALSE
               /\ main' = "close"
               /\ UNCHANGED <<g_stop_request, g_reload_request, g_signal_pipe_wr, wr_open,
                              pipe, handler, unserved, flags, local>>

close_signal_pipe_both_ends ==              \* mutant
    /\ main = "close"
    /\ g_signal_pipe_wr' = FALSE /\ wr_open' = FALSE
    /\ main' = "gone"
    /\ UNCHANGED <<g_system_alive, g_stop_request, g_reload_request, pipe, handler,
                   unserved, flags, local>>

(* ~server: close_signal_pipe keeps the write end open, then the workers   *)
(* and the other thread's object are destroyed.                            *)
close_signal_pipe == /\ main = "close"
                     /\ g_signal_pipe_wr' = FALSE
                     /\ main' = "gone"
                     /\ UNCHANGED <<g_system_alive, g_stop_request, g_reload_request,
                                    wr_open, pipe, handler, unserved, flags, local>>

-----------------------------------------------------------------------------
(* worker threads and other thread *)

Go(t, position) == thread' = [thread EXCEPT ![t] = position]

(* A turn of the loop sees to_stop, or its wait fails.                     *)
leave_loop(t) == /\ thread[t] = "loop"
                 /\ to_stop[t]
                 /\ Go(t, "left")
                 /\ UNCHANGED <<channel, stop_flag, to_stop, is_stoped, local, main>>

wait_fails(t) == /\ thread[t] = "loop"
                 /\ Go(t, "left")
                 /\ UNCHANGED <<channel, stop_flag, to_stop, is_stoped, local, main>>

(* Its end of the tunnel breaks or, in the other thread, an event comes    *)
(* for a descriptor it does not know.                                      *)
stop_itself(t) == /\ thread[t] = "loop" /\ ~to_stop[t]
                  /\ to_stop' = [to_stop EXCEPT ![t] = TRUE]
                  /\ UNCHANGED <<channel, stop_flag, is_stoped, thread, local, main>>

set_stoped(t) == /\ thread[t] = "left"
                 /\ to_stop' = [to_stop EXCEPT ![t] = TRUE]
                 /\ is_stoped' = [is_stoped EXCEPT ![t] = TRUE]
                 /\ Go(t, "hook")
                 /\ UNCHANGED <<channel, stop_flag, local, main>>

(* hooks::stop::on_worker_stop, on_other_stop                              *)
stop_hook(t) == /\ thread[t] = "hook"
                /\ Go(t, "done")
                /\ UNCHANGED <<channel, stop_flag, to_stop, is_stoped, local, main>>

-----------------------------------------------------------------------------

Init == /\ g_system_alive = FALSE /\ g_stop_request = FALSE /\ g_reload_request = FALSE
        /\ g_signal_pipe_wr = FALSE /\ wr_open = FALSE /\ pipe = 0
        /\ handler = [s \in Signal |-> "idle"]
        /\ unserved = FALSE
        /\ stop_flag = FALSE
        /\ to_stop = [t \in Thread |-> FALSE]
        /\ is_stoped = [t \in Thread |-> FALSE]
        /\ thread = [t \in Thread |-> "none"]
        /\ stop_requested = FALSE /\ readable = FALSE
        /\ main = "init"

Handler(s) == load_pipe_wr(s) \/ write_pipe(s)

Starting == system_init \/ setup_signal_pipe \/ start_threads \/ start_fails

Looping == \/ process_stop \/ process_reload \/ cmd_reload
           \/ tick \/ drain_signal_pipe

Waiting == wait_returns \/ wait_interrupted \/ main_fails

Ending == on_main_stop \/ system_gone \/ close_signal_pipe

Stopping(t) == leave_loop(t) \/ set_stoped(t) \/ stop_hook(t)

Next == \/ \E s \in Signal : signal(s) \/ Handler(s)
        \/ Starting \/ Looping \/ Waiting \/ Ending
        \/ \E t \in Thread : Stopping(t) \/ wait_fails(t) \/ stop_itself(t)

Spec == Init /\ [][Next]_vars

(* Every thread is scheduled and its wait has a time-out, which config_mgr *)
(* requires to be positive: a turn of a loop never takes forever.  Failing *)
(* waits and signals may put off a turn of the main loop, not for ever.    *)
FairSpec == /\ Spec
            /\ WF_vars(Starting) /\ WF_vars(Looping) /\ WF_vars(Ending)
            /\ SF_vars(wait_returns)
            /\ \A s \in Signal : WF_vars(Handler(s))
            /\ \A t \in Thread : WF_vars(Stopping(t))

-----------------------------------------------------------------------------
(* properties *)

(* Types of the channel, the flags and the positions.                      *)
TypeOK ==
    /\ {g_system_alive, g_stop_request, g_reload_request, g_signal_pipe_wr, wr_open,
        stop_requested, readable, stop_flag, unserved} \subseteq BOOLEAN
    /\ pipe \in 0 .. pipe_capacity
    /\ handler \in [Signal -> {"idle", "stored", "write"}]
    /\ main \in {"init", "setup", "start", "top", "top_reload", "top_hook", "wait", "tick",
                 "drain", "pipe", "pipe_reload", "pipe_hook", "ended", "left", "close", "gone"}
    /\ to_stop \in [Thread -> BOOLEAN]
    /\ is_stoped \in [Thread -> BOOLEAN]
    /\ thread \in [Thread -> {"none", "loop", "left", "hook", "done"}]

(* When the main thread has left its loop, no other thread is in its own:  *)
(* the tunnels and the pools are torn down with no event loop using them.  *)
ExitAfterLoops ==
    main \in {"ended", "left", "close", "gone"}
        => \A t \in Thread : thread[t] \notin {"loop", "left"}

(* A handler that has loaded the write end and is delayed until after      *)
(* ~server still writes into the pipe, not into a descriptor that reuses   *)
(* the number (the comment in server::close_signal_pipe).                  *)
WriteHitsPipe == \A s \in Signal : handler[s] = "write" => wr_open

(* A stop request ends the process, whatever the state it arrives in.      *)
StopEnds == g_stop_request ~> main = "gone"

(* A reload request is followed by a reload that begins after it, also     *)
(* when it arrives while an earlier reload runs, unless the server stops.  *)
ReloadServed == unserved ~> (~unserved \/ main = "gone")

(* What server::on_start and process_signal_requests say of the end: all   *)
(* threads have stopped, the workers are drained.                          *)
ThreadsFinished ==
    main = "gone" => \A t \in Thread : thread[t] \in {"none", "done"}
=============================================================================
