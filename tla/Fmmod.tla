------------------------------- MODULE Fmmod -------------------------------
(***************************************************************************)
(* The FM modulator of fmmod.c with the main loop and the signal handler   *)
(* of main.c, from the moment fmmod_initialize has returned.               *)
(*                                                                         *)
(* Four threads share one struct fmmod_instance:                           *)
(*   cb    JACK's process callback, fmmod_process_cb                       *)
(*   proc  the processing thread, fmmod_process_loop / fmmod_process       *)
(*   main  the main loop, then fmmod_destroy(fmmod, 0)                     *)
(*   jack  JACK's shutdown callback: fmmod_destroy(fmmod, 1)               *)
(*                                                                         *)
(* A buffer holds the number of the JACK period it was computed from, or   *)
(* Torn while it is being overwritten.                                     *)
(***************************************************************************)
EXTENDS Integers

CONSTANT MaxPeriods   \* periods from MaxPeriods on share that number

ASSUME MaxPeriodsAssumption == MaxPeriods \in Nat \ {0}

VARIABLES
  active,    \* fmmod->active
  keep,      \* main.c's static active: no termination signal was handled yet
  status,    \* the process: "running", "exited" (exit(0)) or "killed"
  client,    \* the JACK client: "activated", "dropped" by JACK or "closed"
  owner,     \* the thread that holds each mutex, or Nobody
  cb,        \* where the process callback is
  proc,      \* where the processing thread is
  main,      \* where the main loop is
  teardown,  \* what each caller of fmmod_destroy does next
  released,  \* how many times each resource has been released
  period,    \* the last period JACK delivered
  buf,       \* the period each buffer holds
  sent       \* the last period written to the socket and to the RTP server

vars == <<active, keep, status, client, owner, cb, proc, main, teardown,
          released, period, buf, sent>>

Nobody == "nobody"
Torn   == -1
Mutexes == {"proc_mutex", "inbuf_mutex", "uaudio_buf_mutex", "mpx_buf_mutex"}
Buffers == {"inbuf", "uaudio_buf", "umpxbuf", "outbuf"}
Destroyers == {"main", "jack"}

\* What fmmod_destroy releases, each resource with what comes after it.
After == [ctl_map |-> "rds_enc", rds_enc |-> "rtpsrv", rtpsrv |-> "rsmpl",
          rsmpl |-> "flts", flts |-> "locks", locks |-> "buffers",
          buffers |-> "outsock", outsock |-> "done"]
Resources == {"ctl_map", "rds_enc", "rtpsrv", "rsmpl", "flts", "locks",
              "buffers", "outsock"}

\* The body of fmmod_process, entered and left with proc_mutex held.
Processing == {"start", "upsample", "generate", "downsample", "send"}

Init ==
  /\ active = TRUE
  /\ keep = TRUE
  /\ status = "running"
  /\ client = "activated"
  /\ owner = [m \in Mutexes |-> Nobody]
  /\ cb = "idle"
  /\ proc = "loop"
  /\ main = "loop"
  /\ teardown = [d \in Destroyers |-> "idle"]
  /\ released = [r \in Resources |-> 0]
  /\ period = 0
  /\ buf = [b \in Buffers |-> 0]
  /\ sent = 0

----------------------------------------------------------------------------
(* Signals *)

\* signal_handler for a termination signal: the first one ends the main loop,
\* a later one unlinks the shared memory and kills the process.
Terminate ==
  IF keep
  THEN keep' = FALSE /\ UNCHANGED status
  ELSE status' = "killed" /\ UNCHANGED keep

\* SIGQUIT, SIGTERM, SIGHUP or SIGINT from outside, or raise(SIGTERM) in the
\* RDS encoder or in the RTP server.
Signal ==
  /\ Terminate
  /\ UNCHANGED <<active, client, owner, cb, proc, main, teardown, released,
                 period, buf, sent>>

----------------------------------------------------------------------------
(* fmmod_process_cb *)

\* The period is skipped: inactive, too few or too many samples, or the
\* processing thread has the input buffers.
CbSkip ==
  /\ client = "activated"
  /\ cb = "idle"
  /\ period' = IF period < MaxPeriods THEN period + 1 ELSE period
  /\ UNCHANGED <<active, keep, status, client, owner, cb, proc, main,
                 teardown, released, buf, sent>>

\* The lock is taken and the copy of the JACK buffers begins.
CbBegin ==
  /\ client = "activated"
  /\ cb = "idle"
  /\ active
  /\ owner["inbuf_mutex"] = Nobody
  /\ owner' = [owner EXCEPT !["inbuf_mutex"] = "cb"]
  /\ period' = IF period < MaxPeriods THEN period + 1 ELSE period
  /\ buf' = [buf EXCEPT !["inbuf"] = Torn]
  /\ cb' = "fill"
  /\ UNCHANGED <<active, keep, status, client, proc, main, teardown, released,
                 sent>>

\* The input is in place, with pre-emphasis and gain applied.
CbFill ==
  /\ cb = "fill"
  /\ buf' = [buf EXCEPT !["inbuf"] = period]
  /\ owner' = [owner EXCEPT !["inbuf_mutex"] = Nobody]
  /\ cb' = "trigger"
  /\ UNCHANGED <<active, keep, status, client, proc, main, teardown, released,
                 period, sent>>

\* Mutant of CbTrigger: the signal is forgotten.
CbTriggerSilent ==
  /\ cb = "trigger"
  /\ cb' = "idle"
  /\ UNCHANGED <<active, keep, status, client, owner, proc, main, teardown,
                 released, period, buf, sent>>

\* pthread_cond_signal(&fmmod->proc_trigger), which proc_mutex does not
\* cover: it is lost unless the processing thread is waiting.
WakeProc == proc' = IF proc = "wait" THEN "woken" ELSE proc

CbTrigger ==
  /\ cb = "trigger"
  /\ WakeProc
  /\ cb' = "idle"
  /\ UNCHANGED <<active, keep, status, client, owner, main, teardown, released,
                 period, buf, sent>>

----------------------------------------------------------------------------
(* fmmod_process_loop *)

ProcLoop ==
  /\ proc = "loop"
  /\ proc' = IF active THEN "lock" ELSE "ended"
  /\ UNCHANGED <<active, keep, status, client, owner, cb, main, teardown,
                 released, period, buf, sent>>

\* Takes proc_mutex and gives it back in pthread_cond_wait.
ProcWait ==
  /\ proc = "lock"
  /\ owner["proc_mutex"] = Nobody
  /\ proc' = "wait"
  /\ UNCHANGED <<active, keep, status, client, owner, cb, main, teardown,
                 released, period, buf, sent>>

\* pthread_cond_wait may return without a signal.
ProcSpuriousWakeup ==
  /\ proc = "wait"
  /\ proc' = "woken"
  /\ UNCHANGED <<active, keep, status, client, owner, cb, main, teardown,
                 released, period, buf, sent>>

\* pthread_cond_wait returns with proc_mutex held; active is read again.
ProcWake ==
  /\ proc = "woken"
  /\ owner["proc_mutex"] = Nobody
  /\ \/ /\ active
        /\ owner' = [owner EXCEPT !["proc_mutex"] = "proc"]
        /\ proc' = "start"
     \/ /\ ~active
        /\ proc' = "ended"
        /\ UNCHANGED owner
  /\ UNCHANGED <<active, keep, status, client, cb, main, teardown, released,
                 period, buf, sent>>

----------------------------------------------------------------------------
(* fmmod_process *)

\* Mutant of ProcReturn: an error path that forgets to unlock its buffer.
ProcReturnLeaking(held) ==
  /\ proc' = "loop"
  /\ owner' = [owner EXCEPT !["proc_mutex"] = Nobody]

\* Back to the loop, which gives proc_mutex up with the mutexes in held.
ProcReturn(held) ==
  /\ proc' = "loop"
  /\ owner' = [m \in Mutexes |->
                 IF m \in held \cup {"proc_mutex"} THEN Nobody ELSE owner[m]]

\* The callback is filling the input buffers: the period is skipped.
ProcSkip ==
  /\ proc = "start"
  /\ owner["inbuf_mutex"] # Nobody
  /\ ProcReturn({})
  /\ UNCHANGED <<active, keep, status, client, cb, main, teardown, released,
                 period, buf, sent>>

\* Mutant of ProcStart: the input buffers are used without their mutex.
ProcStartUnlocked ==
  /\ proc = "start"
  /\ proc' = "upsample"
  /\ UNCHANGED <<active, keep, status, client, owner, cb, main, teardown,
                 released, period, buf, sent>>

\* The trylock succeeds and the audio low-pass filter runs in place.
ProcStart ==
  /\ proc = "start"
  /\ owner["inbuf_mutex"] = Nobody
  /\ owner' = [owner EXCEPT !["inbuf_mutex"] = "proc"]
  /\ proc' = "upsample"
  /\ UNCHANGED <<active, keep, status, client, cb, main, teardown, released,
                 period, buf, sent>>

\* resampler_upsample_audio: it fails, yields nothing, or fills uaudio_buf_*.
ProcUpsample ==
  /\ proc = "upsample"
  /\ owner["uaudio_buf_mutex"] = Nobody
  /\ buf' = [buf EXCEPT !["uaudio_buf"] = buf["inbuf"]]
  /\ \/ ProcReturn({"inbuf_mutex"}) /\ Terminate
     \/ ProcReturn({"inbuf_mutex"}) /\ UNCHANGED <<keep, status>>
     \/ /\ owner' = [owner EXCEPT !["inbuf_mutex"] = Nobody,
                                  !["uaudio_buf_mutex"] = "proc"]
        /\ proc' = "generate"
        /\ UNCHANGED <<keep, status>>
  /\ UNCHANGED <<active, client, cb, main, teardown, released, period, sent>>

\* L+R and L-R, then the generator of the chosen stereo modulation.
ProcGenerate ==
  /\ proc = "generate"
  /\ owner["mpx_buf_mutex"] = Nobody
  /\ buf' = [buf EXCEPT !["umpxbuf"] = buf["uaudio_buf"]]
  /\ owner' = [owner EXCEPT !["uaudio_buf_mutex"] = Nobody,
                            !["mpx_buf_mutex"] = "proc"]
  /\ proc' = "downsample"
  /\ UNCHANGED <<active, keep, status, client, cb, main, teardown, released,
                 period, sent>>

\* resampler_downsample_mpx: it fails, yields too few frames, or fills outbuf.
ProcDownsample ==
  /\ proc = "downsample"
  /\ buf' = [buf EXCEPT !["outbuf"] = buf["umpxbuf"]]
  /\ \/ ProcReturn({"mpx_buf_mutex"}) /\ Terminate
     \/ ProcReturn({"mpx_buf_mutex"}) /\ UNCHANGED <<keep, status>>
     \/ proc' = "send" /\ UNCHANGED <<owner, keep, status>>
  /\ UNCHANGED <<active, client, cb, main, teardown, released, period, sent>>

\* write_to_sock and rtp_server_send_buffer.
ProcSend ==
  /\ proc = "send"
  /\ sent' = buf["outbuf"]
  /\ ProcReturn({"mpx_buf_mutex"})
  /\ UNCHANGED <<active, keep, status, client, cb, main, teardown, released,
                 period, buf>>

----------------------------------------------------------------------------
(* main *)

\* while (active && fmmod_instance.active) sleep(1);
MainLoop ==
  /\ main = "loop"
  /\ ~keep \/ ~active
  /\ main' = "check"
  /\ UNCHANGED <<active, keep, status, client, owner, cb, proc, teardown,
                 released, period, buf, sent>>

\* Mutant of MainCheck: fmmod_instance.active is not read again.
MainCheckAlways ==
  /\ main = "check"
  /\ main' = "destroy"
  /\ teardown' = [teardown EXCEPT !["main"] = "deactivate"]
  /\ UNCHANGED <<active, keep, status, client, owner, cb, proc, released,
                 period, buf, sent>>

\* if (fmmod_instance.active) fmmod_destroy(&fmmod_instance, 0);
MainCheck ==
  /\ main = "check"
  /\ \/ /\ active
        /\ main' = "destroy"
        /\ teardown' = [teardown EXCEPT !["main"] = "deactivate"]
     \/ /\ ~active
        /\ main' = "exit"
        /\ UNCHANGED teardown
  /\ UNCHANGED <<active, keep, status, client, owner, cb, proc, released,
                 period, buf, sent>>

\* exit(0), whatever the other threads are doing.
MainExit ==
  /\ main = "exit" \/ teardown["main"] = "done"
  /\ status' = "exited"
  /\ UNCHANGED <<active, keep, client, owner, cb, proc, main, teardown,
                 released, period, buf, sent>>

----------------------------------------------------------------------------
(* fmmod_destroy *)

\* JACK drops the client and calls fmmod_shutdown. It does so on the thread
\* of the process callback, hence between two periods and after the last.
JackShutdown ==
  /\ client = "activated"
  /\ cb = "idle"
  /\ client' = "dropped"
  /\ teardown' = [teardown EXCEPT !["jack"] = "clear"]
  /\ UNCHANGED <<active, keep, status, owner, cb, proc, main, released, period,
                 buf, sent>>

\* jack_deactivate waits for a running process callback; afterwards JACK
\* calls neither callback again.
Deactivate ==
  /\ teardown["main"] = "deactivate"
  /\ cb = "idle"
  /\ client' = "closed"
  /\ teardown' = [teardown EXCEPT !["main"] = "clear"]
  /\ UNCHANGED <<active, keep, status, owner, cb, proc, main, released, period,
                 buf, sent>>

\* fmmod->active = 0;
ClearActive(d) ==
  /\ teardown[d] = "clear"
  /\ active' = FALSE
  /\ teardown' = [teardown EXCEPT ![d] = "flush"]
  /\ UNCHANGED <<keep, status, client, owner, cb, proc, main, released, period,
                 buf, sent>>

\* Mutant of Flush: the trigger is sent without taking proc_mutex.
FlushUnlocked(d) ==
  /\ teardown[d] = "flush"
  /\ WakeProc
  /\ teardown' = [teardown EXCEPT ![d] = "ctl_map"]
  /\ UNCHANGED <<active, keep, status, client, owner, cb, main, released,
                 period, buf, sent>>

\* Mutant of Flush: no trigger is sent.
FlushSilent(d) ==
  /\ teardown[d] = "flush"
  /\ owner["proc_mutex"] = Nobody
  /\ teardown' = [teardown EXCEPT ![d] = "ctl_map"]
  /\ UNCHANGED <<active, keep, status, client, owner, cb, proc, main, released,
                 period, buf, sent>>

\* The processing thread is triggered with proc_mutex held.
Flush(d) ==
  /\ teardown[d] = "flush"
  /\ owner["proc_mutex"] = Nobody
  /\ WakeProc
  /\ teardown' = [teardown EXCEPT ![d] = "ctl_map"]
  /\ UNCHANGED <<active, keep, status, client, owner, cb, main, released,
                 period, buf, sent>>

\* The resources, in the order of the calls. Destroying proc_trigger (part of
\* "locks") while the processing thread waits on it is undefined.
Release(d) ==
  /\ teardown[d] \in Resources
  /\ released' = [released EXCEPT ![teardown[d]] = @ + 1]
  /\ teardown' = [teardown EXCEPT ![d] = After[teardown[d]]]
  /\ UNCHANGED <<active, keep, status, client, owner, cb, proc, main, period,
                 buf, sent>>

----------------------------------------------------------------------------

Callback == CbBegin \/ CbFill \/ CbTrigger

Process ==
  \/ ProcLoop \/ ProcWait \/ ProcWake
  \/ ProcSkip \/ ProcStart \/ ProcUpsample \/ ProcGenerate \/ ProcDownsample
  \/ ProcSend

Destroy(d) == ClearActive(d) \/ Flush(d) \/ Release(d)

MainThread == MainLoop \/ MainCheck \/ MainExit \/ Deactivate

Next ==
  /\ status = "running"
  /\ \/ Signal
     \/ JackShutdown
     \/ CbSkip
     \/ Callback
     \/ Process
     \/ ProcSpuriousWakeup
     \/ MainThread
     \/ \E d \in Destroyers : Destroy(d)

Spec == Init /\ [][Next]_vars

\* Where glibc's pthread_cond_destroy blocks: a waiter is left.
Blocked(d) == teardown[d] = "locks" /\ proc = "wait"

\* A caller of fmmod_destroy keeps running.
DestroyFair(d) == WF_vars(status = "running" /\ ~Blocked(d) /\ Destroy(d))

\* Every thread keeps running and JACK keeps delivering full periods; nobody
\* has to send a signal, drop the client or wake the processing thread
\* spuriously.
Fairness ==
  /\ WF_vars(status = "running" /\ Callback)
  /\ WF_vars(status = "running" /\ Process)
  /\ WF_vars(status = "running" /\ MainThread)
  /\ \A d \in Destroyers : DestroyFair(d)

FairSpec == Spec /\ Fairness

\* Where the callback, the processing thread and a caller of fmmod_destroy can
\* go on: not at a mutex that is taken, and the processing thread not while it
\* waits for a trigger.
CbReady ==
  \/ cb \in {"fill", "trigger"}
  \/ cb = "idle" /\ client = "activated" /\ active
       /\ owner["inbuf_mutex"] = Nobody

ProcReady ==
  \/ proc \in {"loop", "start", "downsample", "send"}
  \/ proc \in {"lock", "woken"} /\ owner["proc_mutex"] = Nobody
  \/ proc = "upsample" /\ owner["uaudio_buf_mutex"] = Nobody
  \/ proc = "generate" /\ owner["mpx_buf_mutex"] = Nobody

DestroyReady(d) ==
  \/ teardown[d] \in Resources \cup {"clear"} /\ ~Blocked(d)
  \/ teardown[d] = "flush" /\ owner["proc_mutex"] = Nobody

\* There the fair actions are enabled.
DestroyCan(d) ==
  status = "running" /\ DestroyReady(d)
    => ENABLED <<status = "running" /\ ~Blocked(d) /\ Destroy(d)>>_vars

CanMove ==
  /\ status = "running" /\ CbReady
       => ENABLED <<status = "running" /\ Callback>>_vars
  /\ status = "running" /\ ProcReady
       => ENABLED <<status = "running" /\ Process>>_vars
  /\ \A d \in Destroyers : DestroyCan(d)

----------------------------------------------------------------------------
(* Properties *)

TypeOK ==
  /\ active \in BOOLEAN
  /\ keep \in BOOLEAN
  /\ status \in {"running", "exited", "killed"}
  /\ client \in {"activated", "dropped", "closed"}
  /\ owner \in [Mutexes -> {Nobody, "cb", "proc"}]
  /\ cb \in {"idle", "fill", "trigger"}
  /\ proc \in {"loop", "lock", "wait", "woken", "ended"} \cup Processing
  /\ main \in {"loop", "check", "destroy", "exit"}
  /\ teardown \in [Destroyers -> {"idle", "deactivate", "clear", "flush", "done"}
                                  \cup Resources]
  /\ released \in [Resources -> Nat]
  /\ period \in 0..MaxPeriods
  /\ buf \in [Buffers -> Torn..MaxPeriods]
  /\ sent \in Torn..MaxPeriods

\* fmmod_destroy never takes a resource away from a thread that is using it:
\* while fmmod_process runs, or a process callback is in progress, nothing has
\* been released, although the processing thread is never joined.
NoUseAfterRelease ==
  proc \in Processing \/ cb # "idle" => \A r \in Resources : released[r] = 0

\* The two trylocks of inbuf_mutex keep a half-copied period out of the
\* pipeline: no later buffer, and nothing sent, ever comes from a torn input.
NoTornPeriod ==
  sent # Torn /\ \A b \in Buffers \ {"inbuf"} : buf[b] # Torn

\* Every return path of fmmod_process gives back every mutex it took, so the
\* callback can take inbuf_mutex and fmmod_destroy proc_mutex again.
LocksReturned ==
  proc \notin Processing => \A m \in Mutexes : owner[m] # "proc"

\* Unless a termination signal and JACK's shutdown meet, no resource is
\* released twice; and an exit that JACK did not cause released each of them.
TeardownOnce ==
  /\ keep \/ teardown["jack"] = "idle" => \A r \in Resources : released[r] <= 1
  /\ status = "exited" /\ teardown["jack"] = "idle" =>
       \A r \in Resources : released[r] = 1

\* The trigger is sent without proc_mutex and is lost on a busy processing
\* thread, yet a waiting thread never waits forever while fmmod is active: a
\* later callback wakes it.
TriggerIsHeard ==
  proc = "wait" /\ active
    ~> proc \in Processing \/ ~active \/ status # "running"

\* "Let the process thread run for one last time": the one trigger of
\* fmmod_destroy gets the processing thread out of its loop, whether it waits
\* or is busy. Only when it is between its test of active and
\* pthread_cond_wait the trigger is lost, and it waits forever.
LastRun ==
  (\E d \in Destroyers : teardown[d] = "flush") /\ proc # "lock"
    ~> proc = "ended" \/ status # "running"
============================================================================
