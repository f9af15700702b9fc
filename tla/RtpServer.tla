----------------------------- MODULE RtpServer -----------------------------
(***************************************************************************)
(* The life cycle of the RTP server, rtp_server.c: rtp_server_init, the    *)
(* thread of its main loop with the error callback, the callbacks of the   *)
(* appsrc, rtp_server_send_buffer, and rtp_server_destroy, which           *)
(* fmmod_destroy, the error callback and the end of the main loop call.    *)
(***************************************************************************)
EXTENDS Integers

\* d initialises the server and runs fmmod_destroy, l runs the main loop.
Threads == {"d", "l"}

\* What rtp_server_init creates and rtp_server_destroy releases, in order.
Resources == {"pipeline", "bus", "pool", "ctl"}

VARIABLES
  place,        \* where d and l are
  error,        \* the local variable of the same name of rtp_server_destroy
  in_cb,        \* l is in the error callback, inside g_main_loop_run
  rtpsrv_state, \* rtpsrv->state
  gst,          \* gst_is_initialized()
  loop,         \* the main loop: none, idle, running or quit
  streaming,    \* the pipeline is playing, so the appsrc asks for data
  live,         \* the resources that exist
  made,         \* those whose pointer was set
  send,         \* where the processing thread is in rtp_server_send_buffer
  freed,        \* resources that were released twice
  deinits,      \* calls of gst_deinit
  raised,       \* SIGTERM was raised
  failed,       \* the error callback was called
  slipped,      \* a thread passed the switch before another had set TERMINATED
  revived       \* a callback replaced the state TERMINATED

objects == <<gst, loop, streaming, live, made>>
srv_history == <<freed, deinits, raised, failed, slipped, revived>>

srv_vars == <<place, error, in_cb, rtpsrv_state, objects, send, srv_history>>

ServerInit ==
  /\ place = [d |-> "init", l |-> "none"]
  /\ error = [t \in Threads |-> FALSE]
  /\ in_cb = FALSE
  /\ rtpsrv_state = "INACTIVE"
  /\ gst = FALSE /\ loop = "none" /\ streaming = FALSE
  /\ live = {} /\ made = {}
  /\ send = "none"
  /\ freed = {} /\ deinits = 0 /\ raised = FALSE
  /\ failed = FALSE /\ slipped = FALSE /\ revived = FALSE

Move(t, from, to) ==
  /\ place[t] = from
  /\ place' = [place EXCEPT ![t] = to]

----------------------------------------------------------------------------
(* rtp_server_init *)

\* The server runs: the state is set before the loop and its thread exist.
InitDone ==
  /\ place["d"] = "init"
  /\ place' = [d |-> "idle", l |-> "start"]
  /\ live' = Resources /\ made' = Resources
  /\ gst' = TRUE /\ loop' = "idle" /\ streaming' = TRUE
  /\ rtpsrv_state' = "ACTIVE"
  /\ send' = "idle"
  /\ UNCHANGED <<error, in_cb, srv_history>>

\* A step fails, before or after gst_init and before the pipeline plays; the
\* cleanup is rtp_server_destroy.
InitFails(done) ==
  /\ Move("d", "init", "enter")
  /\ live' = done /\ made' = done
  /\ gst' = (done # {})
  /\ UNCHANGED <<error, in_cb, rtpsrv_state, loop, streaming, send, srv_history>>

\* The pipeline does not play, or there is no thread for the main loop. By
\* then the appsrc may have asked for data.
InitFailsLate(st, lp) ==
  /\ Move("d", "init", "enter")
  /\ live' = Resources /\ made' = Resources
  /\ gst' = TRUE /\ loop' = lp /\ streaming' = TRUE
  /\ rtpsrv_state' = st
  /\ UNCHANGED <<error, in_cb, send, srv_history>>

rtp_server_init ==
  \/ InitDone
  \/ \E done \in {{}, {"ctl"}, {"ctl", "pipeline", "bus"}, Resources} :
       InitFails(done)
  \/ \E st \in {"INACTIVE", "ACTIVE"} : InitFailsLate(st, "none")
  \/ InitFailsLate("ACTIVE", "idle")

----------------------------------------------------------------------------
(* rtp_server_send_buffer and the callbacks of the appsrc *)

SendEnter ==
  /\ send = "idle"
  /\ rtpsrv_state = "ACTIVE"
  /\ send' = "push"
  /\ UNCHANGED <<place, error, in_cb, rtpsrv_state, objects, srv_history>>

\* The buffer is pushed, or the pool has none or one of a wrong size.
SendPush ==
  /\ send = "push"
  /\ send' = "idle"
  /\ UNCHANGED <<place, error, in_cb, rtpsrv_state, objects, srv_history>>

\* What a callback does to the state, without looking at it.
Store(st) ==
  /\ rtpsrv_state' = st
  /\ revived' = (revived \/ rtpsrv_state = "TERMINATED")

\* A push that fills the queue calls rtp_server_queue_full.
rtp_server_queue_full ==
  /\ send = "push"
  /\ streaming
  /\ Store("QUEUE_FULL")
  /\ send' = "idle"
  /\ UNCHANGED <<place, error, in_cb, objects, freed, deinits, raised, failed, slipped>>

rtp_server_queue_ready ==
  /\ streaming
  /\ Store("ACTIVE")
  /\ UNCHANGED <<place, error, in_cb, objects, send, freed, deinits, raised, failed, slipped>>

----------------------------------------------------------------------------
(* rtp_server_main_loop *)

\* g_main_loop_run marks the loop as running, whatever came before.
LoopRun ==
  /\ Move("l", "start", "run")
  /\ loop' = "running"
  /\ UNCHANGED <<error, in_cb, rtpsrv_state, gst, streaming, live, made, send, srv_history>>

\* The statistics, the other source of the loop, are in RtpReceivers.
rtp_server_error_cb ==
  /\ loop = "running" /\ streaming
  /\ Move("l", "run", "enter")
  /\ in_cb' = TRUE
  /\ Store("FAILED")
  /\ failed' = TRUE
  /\ UNCHANGED <<error, objects, send, freed, deinits, raised, slipped>>

\* Mutant of LoopExit: the server's thread does not wait for the loop to end.
LoopExitEarly ==
  /\ Move("l", "run", "enter")
  /\ UNCHANGED <<error, in_cb, rtpsrv_state, objects, send, srv_history>>

\* The loop has been quit, and rtp_server_destroy follows.
LoopExit ==
  /\ loop = "quit"
  /\ Move("l", "run", "enter")
  /\ UNCHANGED <<error, in_cb, rtpsrv_state, objects, send, srv_history>>

----------------------------------------------------------------------------
(* rtp_server_destroy, in thread t *)

\* fmmod_destroy: the processing thread has stopped (NoUseAfterRelease of
\* Fmmod), and is never back.
CallDestroy ==
  /\ Move("d", "idle", "enter")
  /\ send \in {"none", "idle"}
  /\ send' = "gone"
  /\ UNCHANGED <<error, in_cb, rtpsrv_state, objects, srv_history>>

\* Back in fmmod_destroy, in rtp_server_init, in g_main_loop_run or at the end
\* of the server's thread. SIGTERM has no handler yet in rtp_server_init.
ReturnTo(t) ==
  CASE t = "d" /\ send = "gone" -> "done"
    [] t = "d" /\ send # "gone" -> IF error[t] THEN "killed" ELSE "idle"
    [] t = "l" -> IF in_cb THEN "run" ELSE "ended"

Leave(t) ==
  /\ place' = [place EXCEPT ![t] = ReturnTo(t)]
  /\ in_cb' = (in_cb /\ t # "l")

\* Threads that are past the switch and have not set the state yet.
Entering == {"eos", "quit", "mark"}

\* Mutant of DestroySkip: nothing to do for a server that never ran.
DestroySkipInactive(t) ==
  /\ place[t] = "enter"
  /\ ~gst \/ rtpsrv_state \in {"TERMINATED", "INACTIVE"}
  /\ Leave(t)
  /\ UNCHANGED <<error, rtpsrv_state, objects, send, srv_history>>

\* GStreamer is not initialised or the state is TERMINATED: nothing to do.
DestroySkip(t) ==
  /\ place[t] = "enter"
  /\ ~gst \/ rtpsrv_state = "TERMINATED"
  /\ Leave(t)
  /\ UNCHANGED <<error, rtpsrv_state, objects, send, srv_history>>

\* Mutant of DestroyEnter: a failed server is not an error.
DestroyEnterQuiet(t) ==
  /\ gst /\ rtpsrv_state # "TERMINATED"
  /\ Move(t, "enter", CASE rtpsrv_state = "FAILED" -> "quit"
                        [] rtpsrv_state = "INACTIVE" -> "mark"
                        [] OTHER -> "eos")
  /\ error' = [error EXCEPT ![t] = rtpsrv_state = "INACTIVE"]
  /\ slipped' = (slipped \/ \E u \in Threads \ {t} : place[u] \in Entering)
  /\ UNCHANGED <<in_cb, rtpsrv_state, objects, send, freed, deinits, raised, failed, revived>>

\* A failed server gets no EOS, one that never ran has no loop to quit.
DestroyEnter(t) ==
  /\ gst /\ rtpsrv_state # "TERMINATED"
  /\ Move(t, "enter", CASE rtpsrv_state = "FAILED" -> "quit"
                        [] rtpsrv_state = "INACTIVE" -> "mark"
                        [] OTHER -> "eos")
  /\ error' = [error EXCEPT ![t] = rtpsrv_state \in {"FAILED", "INACTIVE"}]
  /\ slipped' = (slipped \/ \E u \in Threads \ {t} : place[u] \in Entering)
  /\ UNCHANGED <<in_cb, rtpsrv_state, objects, send, freed, deinits, raised, failed, revived>>

\* The EOS comes out of the pipeline, which then asks for no more data, or it
\* does not within three seconds.
DestroyEos(t, arrived) ==
  /\ Move(t, "eos", "quit")
  /\ streaming' = (streaming /\ ~arrived)
  /\ UNCHANGED <<error, in_cb, rtpsrv_state, gst, loop, live, made, send, srv_history>>

\* Mutant of DestroyQuit: the loop is only unreferenced.
DestroyQuitNot(t) ==
  /\ Move(t, "quit", "mark")
  /\ UNCHANGED <<error, in_cb, rtpsrv_state, objects, send, srv_history>>

DestroyQuit(t) ==
  /\ Move(t, "quit", "mark")
  /\ loop' = IF loop = "none" THEN "none" ELSE "quit"
  /\ UNCHANGED <<error, in_cb, rtpsrv_state, gst, streaming, live, made, send, srv_history>>

\* Mutant of DestroyMark: the state stays as it is.
DestroyMarkNone(t) ==
  /\ Move(t, "mark", "pipeline")
  /\ UNCHANGED <<error, in_cb, rtpsrv_state, objects, send, srv_history>>

DestroyMark(t) ==
  /\ Move(t, "mark", "pipeline")
  /\ rtpsrv_state' = "TERMINATED"
  /\ UNCHANGED <<error, in_cb, objects, send, srv_history>>

\* A pointer is not reset: a second release is one of a dangling pointer.
Release(r) ==
  /\ live' = live \ {r}
  /\ freed' = IF r \in made \ live THEN freed \cup {r} ELSE freed

DestroyPipeline(t) ==
  /\ Move(t, "pipeline", "bus")
  /\ Release("pipeline")
  /\ streaming' = FALSE
  /\ UNCHANGED <<error, in_cb, rtpsrv_state, gst, loop, made, send, deinits, raised, failed,
                 slipped, revived>>

DestroyBus(t) ==
  /\ Move(t, "bus", "pool")
  /\ Release("bus")
  /\ UNCHANGED <<error, in_cb, rtpsrv_state, gst, loop, streaming, made, send, deinits, raised,
                 failed, slipped, revived>>

DestroyPool(t) ==
  /\ Move(t, "pool", "ctl")
  /\ Release("pool")
  /\ UNCHANGED <<error, in_cb, rtpsrv_state, gst, loop, streaming, made, send, deinits, raised,
                 failed, slipped, revived>>

\* ctl_map is reset, so that a second call does nothing.
DestroyCtl(t) ==
  /\ Move(t, "ctl", "deinit")
  /\ live' = live \ {"ctl"}
  /\ UNCHANGED <<error, in_cb, rtpsrv_state, gst, loop, streaming, made, send, srv_history>>

\* gst_deinit, and SIGTERM for the parent in case of an error.
DestroyDeinit(t) ==
  /\ place[t] = "deinit"
  /\ gst' = FALSE
  /\ deinits' = deinits + 1
  /\ raised' = (raised \/ error[t])
  /\ Leave(t)
  /\ UNCHANGED <<error, rtpsrv_state, loop, streaming, live, made, send, freed, failed,
                 slipped, revived>>

rtp_server_destroy(t) ==
  \/ DestroySkip(t) \/ DestroyEnter(t)
  \/ \E arrived \in BOOLEAN : DestroyEos(t, arrived)
  \/ DestroyQuit(t) \/ DestroyMark(t)
  \/ DestroyPipeline(t) \/ DestroyBus(t) \/ DestroyPool(t)
  \/ DestroyCtl(t) \/ DestroyDeinit(t)

----------------------------------------------------------------------------

rtp_server_main_loop == LoopRun \/ LoopExit

ServerNext ==
  \/ rtp_server_init
  \/ SendEnter \/ SendPush
  \/ rtp_server_queue_full \/ rtp_server_queue_ready
  \/ rtp_server_main_loop \/ rtp_server_error_cb
  \/ CallDestroy
  \/ \E t \in Threads : rtp_server_destroy(t)

ServerSpec == ServerInit /\ [][ServerNext]_srv_vars

\* A caller of rtp_server_destroy keeps running.
DestroyFair(t) == WF_srv_vars(rtp_server_destroy(t))

\* Threads that can run do; nothing is assumed of the pipeline's callbacks
\* and of the call of fmmod_destroy.
FairSpec ==
  /\ ServerSpec
  /\ WF_srv_vars(SendPush)
  /\ WF_srv_vars(LoopRun) /\ WF_srv_vars(LoopExit)
  /\ \A t \in Threads : DestroyFair(t)

\* Nothing in rtp_server_destroy waits for another thread, and g_main_loop_run
\* returns when the loop was quit: there the fair actions are enabled.
DestroyReady(t) ==
  place[t] \in {"enter", "pipeline", "bus", "pool", "ctl", "deinit"} \cup Entering

DestroyCan(t) == DestroyReady(t) => ENABLED <<rtp_server_destroy(t)>>_srv_vars

CanMove ==
  /\ place["l"] = "run" /\ loop = "quit" => ENABLED <<LoopExit>>_srv_vars
  /\ \A t \in Threads : DestroyCan(t)

----------------------------------------------------------------------------
(* Properties *)

\* Three callers share rtp_server_destroy, two of them in the server's own
\* thread. Nothing is released twice, and gst_deinit is called once, unless
\* two threads pass the switch before one of them has set TERMINATED or a
\* callback replaces that state.
ReleasedOnce ==
  ~slipped /\ ~revived => freed = {} /\ deinits <= 1

\* As long as GStreamer reports no error, rtp_server_send_buffer is never in
\* the middle of a push when the pool or the pipeline is released.
SendSafe == ~failed /\ send = "push" => {"pool", "pipeline"} \subseteq live

\* Wherever rtp_server_init fails, also after the pipeline has called back,
\* nothing is left behind once fmmod_destroy is through, nor when the SIGTERM
\* of rtp_server_destroy has ended the process before.
InitFailureClean ==
  place["d"] \in {"done", "killed"} /\ place["l"] = "none" => live = {} /\ ~gst

\* "Stop the main loop": when rtp_server_destroy stops a loop that runs, the
\* server's thread comes to its end, wherever it is, the error callback
\* included. On a thread that has not entered the loop yet the quit is lost.
StopLoop == place["d"] = "quit" /\ place["l"] # "start" ~> place["l"] \in {"none", "ended"}

\* "Signal the parent it's game over, in case we ended up here due to an
\* error": SIGTERM is raised unless fmmod_destroy is called anyway or a
\* callback of the appsrc overwrites the state FAILED.
GameOver ==
  rtpsrv_state = "FAILED" ~> raised \/ place["d"] # "idle" \/ rtpsrv_state \in {"ACTIVE", "QUEUE_FULL"}
============================================================================
