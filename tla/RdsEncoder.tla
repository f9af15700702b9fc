----------------------------- MODULE RdsEncoder -----------------------------
(***************************************************************************)
(* The RDS encoder of rds_encoder.c: its double buffer, the trigger of its *)
(* main loop, and its life from rds_encoder_init to rds_encoder_destroy.   *)
(*                                                                         *)
(*   c  the consumer, fmmod's processing thread in rds_get_next_sample     *)
(*   g  the generator, rds_main_loop                                       *)
(*   d  the thread that calls rds_encoder_init and rds_encoder_destroy     *)
(*                                                                         *)
(* Module Fmmod shows that c has left fmmod_process for good before d calls*)
(* rds_encoder_destroy; here that is a guard. Only g ever takes            *)
(* rds_process_mutex, so the mutex orders nothing and is left out. What is *)
(* in a group is the matter of RdsScheduler.                               *)
(***************************************************************************)
EXTENDS Integers

CONSTANT WaveLen        \* samples that fit into a waveform buffer

ASSUME WaveLenAssumption == WaveLen \in Nat \ {0}

VARIABLES
  at,           \* where each thread is
  status,       \* enc->status
  enabled,      \* enc->state->enabled, in shared memory
  curr,         \* curr_outbuf_idx
  samples,      \* waveform_samples of the two outbufs
  samples_out,  \* the static counter of rds_get_next_sample
  out,          \* the outbuf g works on
  live,         \* which of the resources exist
  freed,        \* resources that were freed while they did not exist
  error,        \* threads whose rds_encoder_destroy saw RDS_ENC_FAILED
  failed,       \* a group could not be generated
  raised        \* raise(SIGTERM) was called

buffers == <<curr, samples, samples_out, out>>
life == <<live, freed, error, failed, raised>>
vars == <<at, status, enabled, buffers, life>>

Idx == {0, 1}
Threads == {"c", "g", "d"}

\* enc->state_map, the mutex with its condition, and the two waveforms.
Resources == {"state", "locks", "wave0", "wave1"}
Waves == {"wave0", "wave1"}

\* In rds_get_next_sample, in the loop of rds_main_loop, in rds_encoder_destroy,
\* there from the label inactive on, and there without having to stop the loop.
Consuming == {"idle", "enabled", "check", "signal", "read"}
Looping == {"loop", "lock", "wait", "woken", "next", "write"}
Cleaning == {"state", "locks", "test", "free"}
Leaving == {"enter", "raise"} \cup Cleaning
Destroying == {"stop", "trigger", "join"} \cup Leaving

Move(t, p) == at' = [at EXCEPT ![t] = p]

Init ==
  /\ at = [c |-> "idle", g |-> "none", d |-> "init"]
  /\ status = "INACTIVE"
  /\ enabled = FALSE
  /\ curr = 0
  /\ samples = [i \in Idx |-> 0]
  /\ samples_out = 0
  /\ out = 0
  /\ live = {}
  /\ freed = {}
  /\ error = {}
  /\ failed = FALSE
  /\ raised = FALSE

----------------------------------------------------------------------------
(* rds_encoder_init *)

\* The shared memory, a waveform or the thread may be missing. Without the
\* shared memory it returns at once; later failures go through
\* rds_encoder_destroy.
InitEncoder ==
  /\ at["d"] = "init"
  /\ \/ /\ live' = {"locks"}
        /\ Move("d", "idle")
        /\ UNCHANGED status
     \/ /\ live' \in {{"locks", "state"}, {"locks", "state", "wave0"}}
        /\ Move("d", "enter")
        /\ UNCHANGED status
     \/ /\ live' = Resources
        /\ status' = "FAILED"
        /\ Move("d", "enter")
     \/ /\ live' = Resources
        /\ status' = "ACTIVE"
        /\ at' = [at EXCEPT !["d"] = "idle", !["g"] = "loop"]
  /\ UNCHANGED <<enabled, buffers, freed, error, failed, raised>>

\* Another process switches the encoder on or off through the shared memory.
Toggle ==
  /\ "state" \in live
  /\ enabled' = ~enabled
  /\ UNCHANGED <<at, status, buffers, life>>

----------------------------------------------------------------------------
(* rds_get_next_sample *)

\* if (enc->status != RDS_ENC_ACTIVE || !st->enabled) return 0;
SampleEnter ==
  /\ at["c"] = "idle"
  /\ at["d"] = "idle"
  /\ status = "ACTIVE"
  /\ Move("c", "enabled")
  /\ UNCHANGED <<status, enabled, buffers, life>>

SampleEnabled ==
  /\ at["c"] = "enabled"
  /\ Move("c", IF enabled THEN "check" ELSE "idle")
  /\ UNCHANGED <<status, enabled, buffers, life>>

\* Mutant of HasSample: one sample too many.
HasSampleMore == samples_out <= samples[curr]

HasSample == samples_out < samples[curr]

SampleCheck ==
  /\ at["c"] = "check"
  /\ HasSample
  /\ Move("c", "read")
  /\ UNCHANGED <<status, enabled, buffers, life>>

\* The last group was sent: go for the other buffer.
SampleFlip ==
  /\ at["c"] = "check"
  /\ ~HasSample
  /\ curr' = 1 - curr
  /\ Move("c", "signal")
  /\ UNCHANGED <<status, enabled, samples, samples_out, out, life>>

\* Mutant of SampleSignal: no new group is asked for.
SampleSilent ==
  /\ at["c"] = "signal"
  /\ at' = [at EXCEPT !["c"] = "read"]
  /\ samples_out' = 0
  /\ UNCHANGED <<status, enabled, curr, samples, out, life>>

\* What a signal does to g: it is lost unless g waits.
Triggered == IF at["g"] = "wait" THEN "woken" ELSE at["g"]

SampleSignal ==
  /\ at["c"] = "signal"
  /\ at' = [at EXCEPT !["c"] = "read", !["g"] = Triggered]
  /\ samples_out' = 0
  /\ UNCHANGED <<status, enabled, curr, samples, out, life>>

\* outbuf->waveform[samples_out++]
SampleRead ==
  /\ at["c"] = "read"
  /\ samples_out' = samples_out + 1
  /\ Move("c", "idle")
  /\ UNCHANGED <<status, enabled, curr, samples, out, life>>

----------------------------------------------------------------------------
(* rds_main_loop and rds_get_next_upsampled_group *)

GenLoop ==
  /\ at["g"] = "loop"
  /\ Move("g", IF status = "ACTIVE" THEN "lock" ELSE "enter")
  /\ UNCHANGED <<status, enabled, buffers, life>>

\* pthread_cond_wait
GenWait ==
  /\ at["g"] = "lock"
  /\ Move("g", "wait")
  /\ UNCHANGED <<status, enabled, buffers, life>>

\* pthread_cond_wait may return without a signal.
GenSpuriousWakeup ==
  /\ at["g"] = "wait"
  /\ Move("g", "woken")
  /\ UNCHANGED <<status, enabled, buffers, life>>

GenWake ==
  /\ at["g"] = "woken"
  /\ Move("g", IF status = "ACTIVE" THEN "next" ELSE "enter")
  /\ UNCHANGED <<status, enabled, buffers, life>>

\* The status is read once more. When it is not active the function returns
\* NULL, and rds_main_loop reads outbuf->result: the process crashes.
GenNext ==
  /\ at["g"] = "next"
  /\ \/ /\ status = "ACTIVE"
        /\ out' = 1 - curr
        /\ Move("g", "write")
     \/ /\ status # "ACTIVE"
        /\ Move("g", "crashed")
        /\ UNCHANGED out
  /\ UNCHANGED <<status, enabled, curr, samples, samples_out, life>>

\* The group is generated and resampled; how many samples that yields is the
\* resampler's business, up to the length rds_encoder_init has computed.
GenDone ==
  /\ at["g"] = "write"
  /\ \E n \in 0..WaveLen : samples' = [samples EXCEPT ![out] = n]
  /\ Move("g", "loop")
  /\ UNCHANGED <<status, enabled, curr, samples_out, out, life>>

\* Either of the two steps fails; only a failed resampling leaves no samples.
GenFail ==
  /\ at["g"] = "write"
  /\ samples' \in {samples, [samples EXCEPT ![out] = 0]}
  /\ status' = "FAILED"
  /\ failed' = TRUE
  /\ Move("g", "loop")
  /\ UNCHANGED <<enabled, curr, samples_out, out, live, freed, error, raised>>

----------------------------------------------------------------------------
(* rds_encoder_destroy, called by fmmod_destroy in d and by rds_main_loop in
   g; d may call it any number of times, and before rds_encoder_init *)

CallDestroy ==
  /\ at["d"] \in {"init", "idle"}
  /\ at["c"] = "idle"
  /\ Move("d", "enter")
  /\ UNCHANGED <<status, enabled, buffers, life>>

Return(t) == IF t = "g" THEN "ended" ELSE "idle"

\* Mutant of DestroyEnter: the error is not remembered.
DestroyEnterQuiet(t) ==
  /\ at[t] = "enter"
  /\ Move(t, CASE status \in {"INACTIVE", "FAILED"} -> "state"
               [] status = "TERMINATED" -> Return(t)
               [] status = "ACTIVE" -> "stop")
  /\ UNCHANGED <<status, enabled, buffers, life>>

\* switch (enc->status)
DestroyEnter(t) ==
  /\ at[t] = "enter"
  /\ Move(t, CASE status \in {"INACTIVE", "FAILED"} -> "state"
               [] status = "TERMINATED" -> Return(t)
               [] status = "ACTIVE" -> "stop")
  /\ error' = IF status = "FAILED" THEN error \cup {t} ELSE error \ {t}
  /\ UNCHANGED <<status, enabled, buffers, live, freed, failed, raised>>

DestroyStop(t) ==
  /\ at[t] = "stop"
  /\ status' = "INACTIVE"
  /\ Move(t, "trigger")
  /\ UNCHANGED <<enabled, buffers, life>>

\* pthread_cond_signal, without the mutex.
DestroyTrigger(t) ==
  /\ at[t] = "trigger"
  /\ at' = [at EXCEPT ![t] = "join", !["g"] = Triggered]
  /\ UNCHANGED <<status, enabled, buffers, life>>

\* Mutant of DestroyJoin: pthread_join is left out.
DestroyNoJoin(t) ==
  /\ at[t] = "join"
  /\ Move(t, "state")
  /\ UNCHANGED <<status, enabled, buffers, life>>

\* pthread_join
DestroyJoin(t) ==
  /\ at[t] = "join"
  /\ at["g"] = "ended"
  /\ Move(t, "state")
  /\ UNCHANGED <<status, enabled, buffers, life>>

\* Both callers get here, d after it has joined g: state_map is NULL then.
DestroyState(t) ==
  /\ at[t] = "state"
  /\ status' = "TERMINATED"
  /\ live' = live \ {"state"}
  /\ Move(t, "locks")
  /\ UNCHANGED <<enabled, buffers, freed, error, failed, raised>>

DestroyLocks(t) ==
  /\ at[t] = "locks"
  /\ live' = live \ {"locks"}
  /\ Move(t, "test")
  /\ UNCHANGED <<status, enabled, buffers, freed, error, failed, raised>>

\* A waveform is freed when its pointer is not NULL; the two are tested and
\* freed together here.
DestroyTest(t) ==
  /\ at[t] = "test"
  /\ Move(t, IF live \cap Waves # {} THEN "free" ELSE "raise")
  /\ UNCHANGED <<status, enabled, buffers, life>>

DestroyFree(t) ==
  /\ at[t] = "free"
  /\ freed' = freed \cup (IF live \cap Waves = {} THEN Waves ELSE {})
  /\ live' = live \ Waves
  /\ Move(t, "raise")
  /\ UNCHANGED <<status, enabled, buffers, error, failed, raised>>

\* if (error) raise(SIGTERM);
DestroyRaise(t) ==
  /\ at[t] = "raise"
  /\ raised' = (raised \/ t \in error)
  /\ Move(t, Return(t))
  /\ UNCHANGED <<status, enabled, buffers, live, freed, error, failed>>

----------------------------------------------------------------------------

Consumer ==
  \/ SampleEnter \/ SampleEnabled \/ SampleCheck \/ SampleFlip \/ SampleSignal
  \/ SampleRead

Generator == GenLoop \/ GenWait \/ GenWake \/ GenNext \/ GenDone \/ GenFail

Destroy(t) ==
  \/ DestroyEnter(t) \/ DestroyStop(t) \/ DestroyTrigger(t) \/ DestroyJoin(t)
  \/ DestroyState(t) \/ DestroyLocks(t) \/ DestroyTest(t) \/ DestroyFree(t)
  \/ DestroyRaise(t)

Running == at["g"] # "crashed"

Next ==
  /\ Running
  /\ \/ InitEncoder \/ Toggle \/ CallDestroy
     \/ Consumer
     \/ Generator \/ GenSpuriousWakeup
     \/ \E t \in {"g", "d"} : Destroy(t)

Spec == Init /\ [][Next]_vars

\* A caller of rds_encoder_destroy keeps running.
DestroyFair(t) == WF_vars(Running /\ Destroy(t))

\* The threads keep running; nobody has to toggle the encoder, destroy it or
\* wake g spuriously.
Fairness ==
  /\ WF_vars(Running /\ Consumer)
  /\ WF_vars(Running /\ Generator)
  /\ \A t \in {"g", "d"} : DestroyFair(t)

FairSpec == Spec /\ Fairness

\* Where rds_main_loop and rds_encoder_destroy can go on: not while the one
\* waits for a signal, or the other for g to end.
GenReady == at["g"] \in Looping \ {"wait"}
DestroyReady(t) ==
  \/ at[t] \in Destroying \ {"join"}
  \/ at[t] = "join" /\ at["g"] = "ended"

\* There the fair actions are enabled.
DestroyCan(t) ==
  Running /\ DestroyReady(t) => ENABLED <<Running /\ Destroy(t)>>_vars

CanMove ==
  /\ Running /\ GenReady => ENABLED <<Running /\ Generator>>_vars
  /\ \A t \in {"g", "d"} : DestroyCan(t)

----------------------------------------------------------------------------
(* Properties *)

TypeOK ==
  /\ at \in [Threads -> {"init", "none", "ended", "crashed"}
                         \cup Consuming \cup Looping \cup Destroying]
  /\ at["c"] \in Consuming
  /\ at["g"] \in {"none", "ended", "crashed"} \cup Looping \cup Leaving
  /\ at["d"] \in {"init", "idle"} \cup Destroying
  /\ status \in {"INACTIVE", "ACTIVE", "TERMINATED", "FAILED"}
  /\ enabled \in BOOLEAN
  /\ curr \in Idx
  /\ samples \in [Idx -> 0..WaveLen]
  /\ samples_out \in 0..WaveLen
  /\ out \in Idx
  /\ live \in SUBSET Resources
  /\ freed \in SUBSET Waves
  /\ error \in SUBSET {"g", "d"}
  /\ failed \in BOOLEAN
  /\ raised \in BOOLEAN

\* rds_encoder_destroy is called by both threads at every shutdown and each call
\* cleans up. As long as every group can be generated, signal and join order
\* that: the shared memory, the condition and the waveforms are there whenever
\* rds_get_next_sample or rds_main_loop works with them, the two never clean up
\* at the same time, and no waveform is freed twice.
OrderedCleanup ==
  ~failed => /\ at["c"] # "idle" \/ at["g"] \in Looping => live = Resources
             /\ freed = {}
             /\ ~(at["g"] \in Cleaning /\ at["d"] \in Cleaning)

\* The consumer never reads behind the end of a waveform, although the
\* generator may change waveform_samples between the check and the read, and
\* although the consumer reads sample 0 of a new buffer without a check.
ReadInBounds == at["c"] = "read" => samples_out < WaveLen

\* Lost signals are made up for: while the encoder is enabled, a waiting
\* generator is eventually asked for a group.
GroupOnDemand ==
  at["g"] = "wait" ~> \/ at["g"] # "wait"
                      \/ status # "ACTIVE" \/ ~enabled \/ at["d"] # "idle"

\* "Signal the parent it's game over, in case we ended up here due to an
\* error": after a failed group SIGTERM is raised, unless fmmod_destroy is
\* already calling rds_encoder_destroy.
GameOver == status = "FAILED" ~> raised \/ at["d"] # "idle"

\* "Trigger main loop so that it gets un-stuck and can properly exit": a thread
\* in pthread_join is not left waiting for a generator that never ends.
UnStuck == at["d"] = "join" ~> at["g"] \in {"ended", "crashed"}
============================================================================
