-------------------------- MODULE RdsEncoderProofs --------------------------
(***************************************************************************)
(* Proofs about the three modules on the sending side of the RDS encoder.  *)
(*   RdsEncoder: signal, join and the status make the cleanup of           *)
(*     rds_encoder_destroy safe for every length of a waveform, as long as *)
(*     no group fails; if one fails, that is told in the end.              *)
(*   RdsScheduler: what rds_get_next_group puts into a cycle, for every    *)
(*     number of groups a minute.                                          *)
(*   RadioText: what rds_set_rt and rds_generate_group_2 make of a text of *)
(*     1 to 64 characters, for every set of texts, and that a text that    *)
(*     stays is shown in the end.                                          *)
(***************************************************************************)
EXTENDS RdsEncoder, RdsScheduler, RadioText, TLAPS

\* The generator is started once and leaves its loop only when the encoder is
\* no longer active.
StartInv ==
  /\ at["d"] = "init" => at["g"] = "none"
  /\ at["g"] = "enter" => status # "ACTIVE"

\* How far the destroying thread can be while the generator is where it is.
PhaseInv ==
  /\ at["g"] = "none" =>
       status # "ACTIVE" /\ at["d"] \in {"init", "idle"} \cup Leaving
  /\ at["g"] \in Looping =>
       /\ live = Resources
       /\ \/ status = "ACTIVE" /\ at["d"] \in {"idle", "enter", "stop"}
          \/ status = "INACTIVE" /\ at["d"] \in {"trigger", "join"}
  /\ at["g"] \in Leaving =>
       /\ at["d"] \in {"trigger", "join"}
       /\ status = IF at["g"] \in {"enter", "state"} THEN "INACTIVE"
                                                     ELSE "TERMINATED"
  /\ at["g"] = "ended" =>
       status = "TERMINATED" /\ at["d"] \in {"idle", "trigger", "join"} \cup Leaving
  /\ at["c"] # "idle" =>
       at["g"] \in Looping /\ status = "ACTIVE" /\ at["d"] = "idle"

\* Whoever is about to free the waveforms finds one.
FreeInv ==
  /\ freed = {}
  /\ \A t \in {"g", "d"} : at[t] = "free" => live \cap Waves # {}

IInv ==
  TypeOK /\ StartInv /\ ReadInBounds /\ (~failed => PhaseInv /\ FreeInv)

USE WaveLenAssumption
    DEF Idx, Threads, Resources, Waves, Consuming, Looping, Cleaning, Leaving,
        Destroying, Move, Return, Triggered, buffers, life

----------------------------------------------------------------------------

\* The inductive invariant holds initially.
LEMMA InitInv == Init => IInv
  <1> SUFFICES ASSUME Init PROVE IInv
    BY Zenon
  <1>1. /\ at = [i \in Threads |-> at[i]]
        /\ at["c"] = "idle" /\ at["g"] = "none" /\ at["d"] = "init"
    BY Zenon DEF Init
  <1>2. at \in [Threads -> {"idle", "none", "init"}]
    BY <1>1, Zenon
  <1>3. TypeOK
    <2>1. at \in [Threads -> {"init", "none", "ended", "crashed"}
                              \cup Consuming \cup Looping \cup Destroying]
      BY <1>2
    <2>2. samples \in [Idx -> 0..WaveLen]
      BY DEF Init
    <2>3. /\ status = "INACTIVE" /\ curr = 0 /\ samples_out = 0 /\ out = 0
          /\ live = {} /\ freed = {} /\ error = {}
          /\ enabled \in BOOLEAN /\ failed \in BOOLEAN /\ raised \in BOOLEAN
      BY Zenon DEF Init
    <2> QED
      BY <1>1, <2>1, <2>2, <2>3 DEF TypeOK
  <1> QED
    BY <1>1, <1>3, Zenon DEF Init, IInv, StartInv, ReadInBounds, PhaseInv, FreeInv

\* rds_encoder_init, the switch in shared memory and the call of
\* rds_encoder_destroy preserve it.
LEMMA CallerStep ==
  ASSUME IInv, InitEncoder \/ Toggle \/ CallDestroy PROVE IInv'
  <1> USE DEF IInv, TypeOK, StartInv, ReadInBounds, PhaseInv, FreeInv
  <1>1. CASE InitEncoder
    BY <1>1 DEF InitEncoder
  <1>2. CASE Toggle
    BY <1>2 DEF Toggle
  <1>3. CASE CallDestroy
    BY <1>3 DEF CallDestroy
  <1> QED
    BY <1>1, <1>2, <1>3, Zenon

\* rds_get_next_sample preserves it.
LEMMA ConsumerStep ==
  ASSUME IInv, Running, Consumer PROVE IInv'
  <1> USE DEF IInv, TypeOK, StartInv, ReadInBounds, PhaseInv, FreeInv
  <1>1. CASE SampleEnter
    BY <1>1 DEF SampleEnter, Running
  <1>2. CASE SampleEnabled
    BY <1>2 DEF SampleEnabled
  <1>3. CASE SampleCheck
    BY <1>3 DEF SampleCheck, HasSample
  <1>4. CASE SampleFlip
    BY <1>4 DEF SampleFlip
  <1>5. CASE SampleSignal
    BY <1>5 DEF SampleSignal
  <1>6. CASE SampleRead
    BY <1>6 DEF SampleRead
  <1> QED
    BY <1>1, <1>2, <1>3, <1>4, <1>5, <1>6, Zenon DEF Consumer

\* rds_main_loop preserves it; a failed group ends its second half.
LEMMA GeneratorStep ==
  ASSUME IInv, Generator \/ GenSpuriousWakeup PROVE IInv'
  <1> USE DEF IInv, TypeOK, StartInv, ReadInBounds, PhaseInv, FreeInv
  <1>1. CASE GenLoop
    BY <1>1 DEF GenLoop
  <1>2. CASE GenWait
    BY <1>2 DEF GenWait
  <1>3. CASE GenSpuriousWakeup
    BY <1>3 DEF GenSpuriousWakeup
  <1>4. CASE GenWake
    BY <1>4 DEF GenWake
  <1>5. CASE GenNext
    BY <1>5 DEF GenNext
  <1>6. CASE GenDone
    BY <1>6 DEF GenDone
  <1>7. CASE GenFail
    BY <1>7 DEF GenFail
  <1> QED
    BY <1>1, <1>2, <1>3, <1>4, <1>5, <1>6, <1>7, Zenon DEF Generator

\* rds_encoder_destroy preserves it in either thread.
LEMMA DestroyStep ==
  ASSUME IInv, NEW t \in {"g", "d"}, Destroy(t) PROVE IInv'
  <1> USE DEF IInv, TypeOK, StartInv, ReadInBounds, PhaseInv, FreeInv
  <1>1. CASE DestroyEnter(t)
    BY <1>1 DEF DestroyEnter
  <1>2. CASE DestroyStop(t)
    BY <1>2 DEF DestroyStop
  <1>3. CASE DestroyTrigger(t)
    BY <1>3 DEF DestroyTrigger
  <1>4. CASE DestroyJoin(t)
    BY <1>4 DEF DestroyJoin
  <1>5. CASE DestroyState(t)
    BY <1>5 DEF DestroyState
  <1>6. CASE DestroyLocks(t)
    BY <1>6 DEF DestroyLocks
  <1>7. CASE DestroyTest(t)
    BY <1>7 DEF DestroyTest
  <1>8. CASE DestroyFree(t)
    BY <1>8 DEF DestroyFree
  <1>9. CASE DestroyRaise(t)
    BY <1>9 DEF DestroyRaise
  <1> QED
    BY <1>1, <1>2, <1>3, <1>4, <1>5, <1>6, <1>7, <1>8, <1>9, Zenon DEF Destroy

\* The inductive invariant holds in every reachable state.
THEOREM Invariance == Spec => []IInv
  <1>1. IInv /\ [Next]_vars => IInv'
    <2>1. IInv /\ UNCHANGED vars => IInv'
      BY DEF vars, IInv, TypeOK, StartInv, ReadInBounds, PhaseInv, FreeInv
    <2> QED
      BY <2>1, CallerStep, ConsumerStep, GeneratorStep, DestroyStep, Zenon DEF Next
  <1> QED
    BY <1>1, InitInv, PTL DEF Spec

\* Every variable of the encoder stays within its type; samples_out never
\* passes the length of a waveform.
THEOREM TypeCorrect == Spec => []TypeOK
  <1>1. IInv => TypeOK
    BY Zenon DEF IInv
  <1> QED
    BY <1>1, Invariance, PTL

\* rds_get_next_sample reads inside the waveform, also when a group fails.
THEOREM BoundedRead == Spec => []ReadInBounds
  <1>1. IInv => ReadInBounds
    BY Zenon DEF IInv
  <1> QED
    BY <1>1, Invariance, PTL

\* rds_encoder_destroy takes nothing away from the two other threads, and the two
\* cleanups of every shutdown come one after the other.
THEOREM CleanupSafety == Spec => []OrderedCleanup
  <1>1. IInv => OrderedCleanup
    BY Zenon DEF IInv, TypeOK, PhaseInv, FreeInv, OrderedCleanup
  <1> QED
    BY <1>1, Invariance, PTL

----------------------------------------------------------------------------
(* Liveness of the encoder, under the fairness of FairSpec. What enables the fair
   actions is a hypothesis, CanMove: ENABLED is beyond the provers. *)

\* After a failure g is on its way from the test at the head of its loop to
\* raise(SIGTERM), if d does not clean up: g works on a group only while the
\* status was never anything but active, or was set to inactive by a d that has
\* not joined it yet, and d returns from a cleanup with the status terminated.
FailInv ==
  /\ at["d"] = "init" => status = "INACTIVE"
  /\ status = "FAILED" => at["g"] \notin Looping \ {"loop"}
  /\ at["d"] \in Cleaning \cup {"raise"} => at["g"] \notin Looping \ {"loop"}
  /\ at["d"] \in {"trigger", "join", "raise"} \cup Cleaning => status # "ACTIVE"
  /\ at["d"] \in {"init", "idle", "enter"} /\ status = "INACTIVE" => at["g"] = "none"
  /\ at["d"] \in {"locks", "test", "free", "raise"} => status = "TERMINATED"
  /\ status = "FAILED" /\ at["d"] = "idle" =>
       at["g"] \in {"loop", "enter"} \/ (at["g"] = "state" /\ "g" \in error)

\* No step of the three threads leaves that relation of the status to where they
\* are.
LEMMA FailStep == ASSUME IInv, FailInv, [Next]_vars PROVE FailInv'
  <1> USE DEF IInv, TypeOK, StartInv, FailInv
  <1>1. CASE InitEncoder
    <2>1. /\ at["d"] = "init" /\ error' = error
          /\ \/ Move("d", "idle") /\ status' = status
             \/ Move("d", "enter") /\ status' \in {status, "FAILED"}
             \/ status' = "ACTIVE" /\ at' = [at EXCEPT !["d"] = "idle", !["g"] = "loop"]
      BY <1>1, Zenon DEF InitEncoder
    <2> QED
      BY <2>1
  <1>2. CASE Toggle \/ CallDestroy
    BY <1>2 DEF Toggle, CallDestroy
  <1>3. CASE Consumer
    BY <1>3 DEF Consumer, SampleEnter, SampleEnabled, SampleCheck, SampleFlip,
                SampleSignal, SampleRead
  <1>4. CASE GenLoop \/ GenWait \/ GenWake \/ GenSpuriousWakeup
    BY <1>4 DEF GenLoop, GenWait, GenWake, GenSpuriousWakeup
  <1>5. CASE GenNext \/ GenDone \/ GenFail
    BY <1>5 DEF GenNext, GenDone, GenFail
  <1>6. ASSUME NEW t \in {"g", "d"}, DestroyEnter(t) PROVE FailInv'
    BY <1>6 DEF DestroyEnter
  <1>7. ASSUME NEW t \in {"g", "d"}, DestroyStop(t) \/ DestroyTrigger(t) \/ DestroyJoin(t)
        PROVE  FailInv'
    BY <1>7 DEF DestroyStop, DestroyTrigger, DestroyJoin
  <1>8. ASSUME NEW t \in {"g", "d"}, DestroyState(t) \/ DestroyLocks(t) PROVE FailInv'
    BY <1>8 DEF DestroyState, DestroyLocks
  <1>9. ASSUME NEW t \in {"g", "d"}, DestroyTest(t) \/ DestroyFree(t) \/ DestroyRaise(t)
        PROVE  FailInv'
    BY <1>9 DEF DestroyTest, DestroyFree, DestroyRaise
  <1>10. CASE UNCHANGED vars
    BY <1>10, Zenon DEF vars
  <1> QED
    BY <1>1, <1>2, <1>3, <1>4, <1>5, <1>6, <1>7, <1>8, <1>9, <1>10, Zenon
       DEF Next, Generator, Destroy

\* It holds in every reachable state.
LEMMA FailInvariance == Spec => []FailInv
  <1>1. ASSUME Init PROVE FailInv
    <2>1. at["g"] = "none" /\ at["d"] = "init" /\ status = "INACTIVE"
      BY <1>1, Zenon DEF Init
    <2> QED
      BY <2>1 DEF FailInv
  <1> QED
    BY <1>1, FailStep, Invariance, PTL DEF Spec

\* g is at p, on its way from a failed group to raise(SIGTERM), and d is not in
\* rds_encoder_destroy.
Erring(p) ==
  /\ at["d"] = "idle" /\ at["g"] = p
  /\ IF p \in {"loop", "enter"} THEN status = "FAILED" ELSE "g" \in error

\* SIGTERM was raised, or d is in rds_encoder_destroy.
Told == raised \/ at["d"] # "idle"

\* On this way g stays where it is or goes on, and every step of its own takes it
\* on.
LEMMA ErringStep ==
  ASSUME IInv, [Next]_vars, NEW p \in {"loop", "enter", "state", "locks", "test", "free", "raise"},
         Erring(p)
  PROVE  /\ Running
         /\ Erring(p)' \/ Told' \/ Generator \/ Destroy("g")
         /\ Generator => p = "loop" /\ (Erring("enter")' \/ Told')
         /\ Destroy("g") =>
              /\ p # "loop"
              /\ \/ Told'
                 \/ p = "enter" /\ Erring("state")'
                 \/ p = "state" /\ Erring("locks")'
                 \/ p = "locks" /\ Erring("test")'
                 \/ p = "test" /\ (Erring("free")' \/ Erring("raise")')
                 \/ p = "free" /\ Erring("raise")'
  <1> USE DEF IInv, TypeOK, Erring, Told
  <1>1. Running
    BY Zenon DEF Running
  <1>2. Erring(p)' \/ Told' \/ Generator \/ Destroy("g")
    <2>1. CASE InitEncoder \/ Toggle \/ CallDestroy
      BY <2>1 DEF InitEncoder, Toggle, CallDestroy
    <2>2. CASE Consumer
      BY <2>2 DEF Consumer, SampleEnter, SampleEnabled, SampleCheck, SampleFlip,
                  SampleSignal, SampleRead
    <2>3. ~GenSpuriousWakeup
      BY DEF GenSpuriousWakeup
    <2>4. ~Destroy("d")
      BY DEF Destroy, DestroyEnter, DestroyStop, DestroyTrigger, DestroyJoin, DestroyState,
             DestroyLocks, DestroyTest, DestroyFree, DestroyRaise
    <2>5. CASE UNCHANGED vars
      BY <2>5, Zenon DEF vars
    <2> QED
      BY <2>1, <2>2, <2>3, <2>4, <2>5, Zenon DEF Next
  <1>3. ASSUME Generator PROVE p = "loop" /\ Erring("enter")'
    BY <1>3 DEF Generator, GenLoop, GenWait, GenWake, GenNext, GenDone, GenFail
  <1>4. ASSUME Destroy("g")
        PROVE  /\ p # "loop"
               /\ \/ Told'
                  \/ p = "enter" /\ Erring("state")'
                  \/ p = "state" /\ Erring("locks")'
                  \/ p = "locks" /\ Erring("test")'
                  \/ p = "test" /\ (Erring("free")' \/ Erring("raise")')
                  \/ p = "free" /\ Erring("raise")'
    BY <1>4, Zenon
       DEF Destroy, DestroyEnter, DestroyStop, DestroyTrigger, DestroyJoin, DestroyState,
           DestroyLocks, DestroyTest, DestroyFree, DestroyRaise
  <1> QED
    BY <1>1, <1>2, <1>3, <1>4, Zenon

\* "Signal the parent it's game over, in case we ended up here due to an error":
\* after a failed group rds_main_loop leaves its loop and, through
\* rds_encoder_destroy, raises SIGTERM, unless fmmod_destroy calls that first.
THEOREM FailureIsTold == FairSpec /\ []CanMove => GameOver
  <1> DEFINE A == <<Running /\ Generator>>_vars
             B == <<Running /\ Destroy("g")>>_vars
  <1>1. FailInv /\ status = "FAILED" =>
          Told \/ Erring("loop") \/ Erring("enter") \/ Erring("state")
    BY Zenon DEF FailInv, Told, Erring
  <1>2. ASSUME IInv, [Next]_vars
        PROVE  /\ Erring("loop") => Erring("loop")' \/ Erring("enter")' \/ Told'
               /\ Erring("enter") => Erring("enter")' \/ Erring("state")' \/ Told'
               /\ Erring("state") => Erring("state")' \/ Erring("locks")' \/ Told'
               /\ Erring("locks") => Erring("locks")' \/ Erring("test")' \/ Told'
               /\ Erring("test") =>
                    Erring("test")' \/ Erring("free")' \/ Erring("raise")' \/ Told'
               /\ Erring("free") => Erring("free")' \/ Erring("raise")' \/ Told'
               /\ Erring("raise") => Erring("raise")' \/ Told'
    BY <1>2, ErringStep
  <1>3. ASSUME IInv, [Next]_vars, A
        PROVE  Erring("loop") => Erring("enter")' \/ Told'
    BY <1>3, ErringStep
  <1>4. ASSUME IInv, [Next]_vars, B
        PROVE  /\ Erring("enter") => Erring("state")' \/ Told'
               /\ Erring("state") => Erring("locks")' \/ Told'
               /\ Erring("locks") => Erring("test")' \/ Told'
               /\ Erring("test") => Erring("free")' \/ Erring("raise")' \/ Told'
               /\ Erring("free") => Erring("raise")' \/ Told'
               /\ Erring("raise") => Told'
    BY <1>4, ErringStep
  <1>5. /\ Erring("loop") => Running /\ GenReady
        /\ Erring("enter") \/ Erring("state") \/ Erring("locks") \/ Erring("test")
             \/ Erring("free") \/ Erring("raise") => Running /\ DestroyReady("g")
    BY Zenon DEF Erring, Running, GenReady, DestroyReady
  <1>6. /\ (\A t \in {"g", "d"} : DestroyFair(t)) => DestroyFair("g")
        /\ (\A t \in {"g", "d"} : DestroyCan(t)) => DestroyCan("g")
    BY Zenon
  <1> QED
    BY <1>1, <1>2, <1>3, <1>4, <1>5, <1>6, Invariance, FailInvariance, PTL
       DEF Spec, FairSpec, Fairness, CanMove, DestroyFair, DestroyCan, GameOver, Told

----------------------------------------------------------------------------
(* The scheduler, module RdsScheduler, for every RDS_GROUPS_PER_MIN *)

\* The slots of the cycle so far are filled in the order of the scheduler.
CycleInv ==
  /\ basics = IF sec < 4 THEN sec ELSE 4
  /\ sec <= 4 => ptyns = 0 /\ rts = 0
  /\ sec >= 4 => ptyns + rts <= sec - 4
  /\ sec >= 7 => ptyns <= 3

\* The segments sent so far are the ones just before ps_idx.
SegInv ==
  "ps" \in held =>
    segs = {i \in 0..3 : \E k \in 1..basics :
                           i = IF k <= ps_idx THEN ps_idx - k
                                              ELSE ps_idx + 4 - k}

\* A field that was set throughout the cycle has had its slots.
HeldInv ==
  /\ held \subseteq flags \cup {"ps"}
  /\ "rt" \in held /\ sec >= 7 => rts >= sec - 7
  /\ "ptyn" \in held => /\ sec \in 5..7 => ptyns >= sec - 5
                        /\ sec >= 7 => ptyns >= 2

\* groups_per_min_counter counts the groups, and one more for each restart,
\* of which there is at most one in four groups.
CountInv ==
  /\ sinceCT <= min /\ sinceCT <= GroupsPerMin
  /\ sinceCT > 0 => sec >= 1
  /\ 4 * (min - sinceCT) <= sinceCT + 4 - (IF sec < 4 THEN sec ELSE 4)

SchedulerInv == SchedulerTypeOK /\ CycleInv /\ SegInv /\ HeldInv /\ CountInv

USE DEF RDS_GROUPS_PER_SEC, Flags, cycle

----------------------------------------------------------------------------

\* The inductive invariant holds before the first group.
LEMMA SchedulerStart ==
  ASSUME GroupsPerMin \in Nat \ {0}, SchedulerInit PROVE SchedulerInv
  BY DEF SchedulerInit, SchedulerInv, SchedulerTypeOK, CycleInv, SegInv, HeldInv, CountInv

\* The setters touch the flags, the segment counter and what was held.
LEMMA SetterStep ==
  ASSUME GroupsPerMin \in Nat \ {0}, SchedulerInv,
         SetPs \/ \E f \in Flags \ {"ps"} : SetFlag(f) \/ ClearFlag(f)
  PROVE  SchedulerInv'
  <1> USE DEF SchedulerInv, SchedulerTypeOK
  <1>1. CASE SetPs
    <2>1. SchedulerTypeOK'
      BY <1>1 DEF SetPs
    <2>2. CycleInv' /\ SegInv' /\ HeldInv' /\ CountInv'
      BY <1>1, Zenon DEF SetPs, CycleInv, SegInv, HeldInv, CountInv
    <2> QED
      BY <2>1, <2>2, Zenon
  <1>2. ASSUME NEW f \in Flags \ {"ps"}, SetFlag(f) PROVE SchedulerInv'
    BY <1>2 DEF SetFlag, CycleInv, SegInv, HeldInv, CountInv
  <1>3. ASSUME NEW f \in Flags \ {"ps"}, ClearFlag(f) PROVE SchedulerInv'
    <2>1. SchedulerTypeOK'
      BY <1>3, Zenon DEF ClearFlag
    <2>2. CycleInv' /\ SegInv' /\ HeldInv' /\ CountInv'
      BY <1>3 DEF ClearFlag, CycleInv, SegInv, HeldInv, CountInv
    <2> QED
      BY <2>1, <2>2, Zenon
  <1> QED
    BY <1>1, <1>2, <1>3, Zenon

\* One call of the scheduler.
LEMMA GroupStep ==
  ASSUME GroupsPerMin \in Nat \ {0}, SchedulerInv, rds_get_next_group PROVE SchedulerInv'
  <1> USE DEF SchedulerInv, SchedulerTypeOK, CycleInv, HeldInv, CountInv
  <1>1. CASE ClockTime
    BY <1>1 DEF ClockTime, SegInv
  <1>2. CASE BasicGroup
    <2> USE <1>2 DEF BasicGroup, NextSegment, PtynCount, Sent
    <2>1. SchedulerTypeOK' /\ CycleInv' /\ HeldInv' /\ CountInv'
      OBVIOUS
    <2>2. SegInv'
      BY DEF SegInv
    <2> QED
      BY <2>1, <2>2, Zenon
  <1>3. CASE LabelGroup
    BY <1>3 DEF LabelGroup, PtynCount, Sent, Due, SegInv
  <1>4. CASE PtynGroup
    BY <1>4 DEF PtynGroup, PtynDue, PtynCount, Sent, Due, SegInv
  <1>5. CASE RtGroup
    BY <1>5 DEF RtGroup, RtDue, PtynDue, PtynCount, Sent,
                Due, SegInv
  <1>6. CASE Restart
    <2> USE <1>6 DEF Restart, NextSegment, PtynCount, Sent
    <2>1. SchedulerTypeOK' /\ CycleInv' /\ HeldInv' /\ CountInv'
      OBVIOUS
    <2>2. SegInv'
      BY DEF SegInv
    <2> QED
      BY <2>1, <2>2, Zenon
  <1> QED
    BY <1>1, <1>2, <1>3, <1>4, <1>5, <1>6, Zenon DEF rds_get_next_group

\* The inductive invariant holds in every reachable state.
THEOREM SchedulerInvariance == SchedulerSpec => []SchedulerInv
  <1> USE GroupsPerMinAssumption
  <1>1. SchedulerInv /\ [SchedulerNext]_scheduler_vars => SchedulerInv'
    <2>1. SchedulerInv /\ UNCHANGED scheduler_vars => SchedulerInv'
      BY DEF scheduler_vars, SchedulerInv, SchedulerTypeOK, CycleInv, SegInv, HeldInv, CountInv
    <2> QED
      BY <2>1, SetterStep, GroupStep, Zenon DEF SchedulerNext
  <1>2. SchedulerInit => SchedulerInv
    BY SchedulerStart, Zenon
  <1> QED
    BY <1>1, <1>2, PTL DEF SchedulerSpec

\* No counter of the scheduler ever leaves its range, so the int8_t and the
\* uint16_t never wrap for the code's 720 groups per minute.
THEOREM SchedulerTypes == SchedulerSpec => []SchedulerTypeOK
  <1> USE GroupsPerMinAssumption
  <1>1. SchedulerInv => SchedulerTypeOK
    BY Zenon DEF SchedulerInv
  <1> QED
    BY <1>1, SchedulerInvariance, PTL

\* Only the branch that restarts groups_per_sec_counter ends a cycle, and it is
\* taken when no slot of the cycle is left for a field that was set.
LEMMA CycleEnd ==
  ASSUME GroupsPerMin \in Nat \ {0}, SchedulerInv, [SchedulerNext]_scheduler_vars, CycleEnds
  PROVE  /\ basics = 4
         /\ "ps" \in held => segs = 0..3
         /\ "rt" \in held => rts >= 5
         /\ "ptyn" \in held => ptyns >= 2
  <1> USE DEF SchedulerInv, SchedulerTypeOK, CycleEnds
  <1>1. Restart
    <2>1. sec' < sec
      BY Zenon
    <2>2. ~UNCHANGED scheduler_vars
      BY <2>1 DEF scheduler_vars
    <2>3. ~SetPs /\ \A f \in Flags \ {"ps"} : ~SetFlag(f) /\ ~ClearFlag(f)
      BY <2>1 DEF SetPs, SetFlag, ClearFlag
    <2>4. /\ ~ClockTime /\ ~BasicGroup /\ ~LabelGroup
          /\ ~PtynGroup /\ ~RtGroup
      BY <2>1 DEF ClockTime, BasicGroup, LabelGroup, PtynGroup,
                  RtGroup
    <2> QED
      BY <2>2, <2>3, <2>4, Zenon DEF SchedulerNext, rds_get_next_group
  <1>2. basics = 4
    BY <1>1 DEF Restart, CycleInv
  <1>3. "ps" \in held => segs = 0..3
    <2>1. \A i \in 0..3 : \E k \in 1..4 :
            i = IF k <= ps_idx THEN ps_idx - k ELSE ps_idx + 4 - k
      <3> SUFFICES ASSUME NEW i \in 0..3
                   PROVE  \E k \in 1..4 :
                            i = IF k <= ps_idx THEN ps_idx - k
                                               ELSE ps_idx + 4 - k
        BY Zenon
      <3>1. CASE i < ps_idx
        <4>1. ps_idx - i \in 1..4
          BY <3>1
        <4> QED
          BY <3>1, <4>1
      <3>2. CASE i >= ps_idx
        <4>1. ps_idx + 4 - i \in 1..4
          BY <3>2
        <4>2. i = IF ps_idx + 4 - i <= ps_idx THEN ps_idx - (ps_idx + 4 - i)
                  ELSE ps_idx + 4 - (ps_idx + 4 - i)
          BY <3>2
        <4> QED
          BY <4>1, <4>2, Zenon
      <3> QED
        BY <3>1, <3>2
    <2> QED
      BY <1>2, <2>1, Zenon DEF SegInv
  <1>4. "rt" \in held => rts >= 5
    BY <1>1 DEF Restart, RtDue, Due, HeldInv
  <1>5. "ptyn" \in held => ptyns >= 2
    <2>1. "ptyn" \in held => "ptyn" \in flags
      BY Zenon DEF HeldInv
    <2>2. "ptyn" \in flags => sec >= 7
      BY <1>1 DEF Restart, PtynDue, Due
    <2> QED
      BY <2>1, <2>2, Zenon DEF HeldInv
  <1> QED
    BY <1>2, <1>3, <1>4, <1>5, Zenon

\* Every cycle carries four basic tuning groups with the four segments of PS and
\* DI, five 2A groups of a RadioText and both halves of a PTYN that stay set.
THEOREM CycleContents == SchedulerSpec => EveryCycle
  <1> USE GroupsPerMinAssumption
  <1> DEFINE Contents == sec' < sec => /\ basics = 4
                                       /\ "ps" \in held => segs = 0..3
                                       /\ "rt" \in held => rts >= 5
                                       /\ "ptyn" \in held => ptyns >= 2
  <1>1. SchedulerInv /\ [SchedulerNext]_scheduler_vars => [Contents]_scheduler_vars
    BY CycleEnd, Zenon DEF CycleEnds
  <1> QED
    BY <1>1, SchedulerInvariance, PTL DEF SchedulerSpec, EveryCycle, CycleEnds

\* 4A comes after at most GroupsPerMin other groups and not before about 4/5
\* of them, for every value of RDS_GROUPS_PER_MIN.
THEOREM ClockTimeInterval == SchedulerSpec => ClockTimeRate
  <1> USE GroupsPerMinAssumption
  <1> DEFINE Rate == /\ sinceCT' <= GroupsPerMin
                     /\ sinceCT' < sinceCT => 5 * sinceCT >= 4 * GroupsPerMin - 3
  <1>1. ASSUME SchedulerInv, SchedulerNext PROVE Rate
    <2> USE DEF SchedulerInv, SchedulerTypeOK, CountInv
    <2>1. CASE ClockTime
      BY <1>1, <2>1 DEF ClockTime
    <2>2. CASE \/ BasicGroup \/ LabelGroup \/ PtynGroup
               \/ RtGroup \/ Restart
      BY <1>1, <2>2 DEF BasicGroup, LabelGroup, PtynGroup, RtGroup,
                        Restart, Sent
    <2>3. CASE SetPs \/ \E f \in Flags \ {"ps"} : SetFlag(f) \/ ClearFlag(f)
      <3>1. sinceCT' = sinceCT
        BY <2>3, Zenon DEF SetPs, SetFlag, ClearFlag
      <3> QED
        BY <1>1, <3>1
    <2> QED
      BY <1>1, <2>1, <2>2, <2>3, Zenon DEF SchedulerNext, rds_get_next_group
  <1>2. SchedulerInv /\ [SchedulerNext]_scheduler_vars => [Rate]_scheduler_vars
    BY <1>1, Zenon
  <1> QED
    BY <1>2, SchedulerInvariance, PTL DEF SchedulerSpec, ClockTimeRate

----------------------------------------------------------------------------
(* RadioText, module RadioText, for every set of texts of 1 to 64 characters *)

\* The arithmetic of rds_set_rt: up to 60 characters, rt_segments is the
\* number of segments that hold characters; above, it still fits its field.
LEMMA SegmentCount ==
  ASSUME NEW n \in 1..64
  PROVE  /\ Filled(n) \in 1..16
         /\ Segments(n) \in Index
         /\ n <= 60 => Segments(n) = Filled(n) /\ Filled(n) <= 15
  <1>1. Filled(n) \in 1..16
    BY DEF Filled
  <1>2. Segments(n) \in Index
    BY DEF Segments, Index, Padded, RDS_RT_LENGTH
  <1>3. ASSUME n <= 60 PROVE Padded(n) \div 4 = (n + 3) \div 4
    BY <1>3 DEF Padded, RDS_RT_LENGTH
  <1>4. ASSUME n <= 60 PROVE Segments(n) = Filled(n) /\ Filled(n) <= 15
    <2>1. (n + 3) \div 4 \in 1..15
      BY <1>4
    <2> QED
      BY <2>1, <1>3, <1>4 DEF Segments, Filled
  <1> QED
    BY <1>1, <1>2, <1>4, Zenon

\* What rds_set_rt has written so far; the encoder writes none of it.
BufferInv ==
  /\ setter \in {"clear", "copy", "arm"} => text \in Texts
  /\ setter = "wipe" => text = Blank
  /\ setter = "clear" => pos = 0
  /\ setter = "copy" =>
       /\ pos <= Filled(text[2])
       /\ \A i \in Index : rt[i] = IF i < pos THEN text ELSE Blank
  /\ setter = "arm" \/ (setter = "idle" /\ text # Blank) =>
       /\ text \in Texts
       /\ rt_segments = Segments(text[2])
       /\ \A i \in Index : rt[i] = IF i < Filled(text[2]) THEN text ELSE Blank

\* Where rds_generate_group_2 is in a text of at most 60 characters.
OrderInv ==
  LET n == Filled(text[2]) IN
  Settled =>
    /\ rt_set = 1
    /\ sent <= n
    /\ enc = "idle" => rt_idx < n /\ (sent < n => rt_idx = sent)
    /\ enc \in {"load", "store"} => rt_idx < n /\ (sent < n => rt_idx = sent - 1)
    /\ enc = "store" => byte = <<1, rt_idx>>
    /\ enc = "test" => rt_idx <= n /\ (sent < n => rt_idx = sent)
    /\ enc = "zero" => byte[1] = 1 /\ sent = n
    /\ ~missed => /\ sent > 0 => rx_flag = rt_flush
                  /\ \A i \in Index : i < sent => display[i] = text

\* A call without a race starts from a clean slate.
QuietInv ==
  ~raced /\ setter # "idle" => enc = "idle" /\ sent = 0 /\ ~missed

\* A receiver that has seen the flipped flag has seen only the new text.
FlushInv ==
  ~raced /\ flipped =>
    /\ setter # "idle" => rx_flag # rt_flush
    /\ rx_flag = rt_flush => \A i \in Index : display[i] \in {text, Blank}
    /\ text # Blank

RadioTextInv == RtTypeOK /\ BufferInv /\ OrderInv /\ QuietInv /\ FlushInv

\* Segments are counted from 0.
LEMMA NoneBefore == \A i \in Index : ~(i < 0)
  BY DEF Index

\* The lengths of the texts are in the range of SegmentCount.
LEMMA TextLength ==
  ASSUME Lens \subseteq 1..64, NEW t \in Texts
  PROVE  /\ t[2] \in 1..64
         /\ Filled(t[2]) \in 1..16
         /\ Segments(t[2]) \in Index
         /\ t # Blank
         /\ t[2] <= 60 => Segments(t[2]) = Filled(t[2]) /\ Filled(t[2]) <= 15
  <1>1. t[2] \in 1..64
    BY Zenon DEF Texts
  <1>2. t # Blank
    BY DEF Texts, Blank
  <1> QED
    BY <1>1, <1>2, SegmentCount, Zenon

\* The inductive invariant holds initially.
LEMMA RadioTextStart == RtInit => RadioTextInv
  <1> SUFFICES ASSUME RtInit PROVE RadioTextInv
    BY Zenon
  <1>1. RtTypeOK
    <2>1. Empty \in [Index -> Segment] /\ Blank \in Segment
      BY Zenon DEF Empty, Segment
    <2>2. byte \in (0..1) \X Index /\ 0 \in Index
      BY DEF RtInit, Index
    <2>3. raced \in BOOLEAN /\ flipped \in BOOLEAN /\ missed \in BOOLEAN
      BY Zenon DEF RtInit
    <2>4. /\ rt \in [Index -> Segment] /\ display \in [Index -> Segment]
          /\ text \in Segment
      BY <2>1, Zenon DEF RtInit
    <2>5. /\ rt_set \in 0..1 /\ rt_flush \in 0..1 /\ rx_flag \in 0..1
          /\ pos \in 0..16 /\ sent \in 0..16
          /\ rt_idx \in Index /\ rt_segments \in Index
      BY DEF RtInit, Index
    <2>6. setter = "idle" /\ enc = "idle"
      BY Zenon DEF RtInit
    <2> QED
      BY <2>2, <2>3, <2>4, <2>5, <2>6, Zenon DEF RtTypeOK
  <1>2. ~Settled /\ ~flipped
    BY Zenon DEF RtInit, Settled
  <1>3. BufferInv /\ QuietInv
    BY Zenon DEF RtInit, BufferInv, QuietInv
  <1> QED
    BY <1>1, <1>2, <1>3, Zenon DEF RadioTextInv, OrderInv, FlushInv

\* No step of rds_set_rt or of the encoder leaves the types.
LEMMA TextTypeStep ==
  ASSUME Lens \subseteq 1..64 PROVE RtTypeOK /\ BufferInv /\ [RtNext]_rt_vars => RtTypeOK'
  <1> SUFFICES ASSUME RtTypeOK, BufferInv, [RtNext]_rt_vars PROVE RtTypeOK'
    BY Zenon
  <1> USE DEF RtTypeOK, Segment, Empty, Index, shared, setting,
              receiver, history
  <1>1. ASSUME NEW t \in Texts, NEW flush \in BOOLEAN, SetBegin(t, flush)
        PROVE  RtTypeOK'
    <2>1. raced' \in BOOLEAN /\ flipped' \in BOOLEAN /\ missed' \in BOOLEAN
      BY <1>1, Zenon DEF SetBegin, Begin
    <2> QED
      BY <1>1, <2>1 DEF SetBegin, Begin
  <1>2. CASE SetClear
    BY <1>2, Zenon DEF SetClear
  <1>3. CASE SetCopy
    <2>1. text \in Texts /\ Filled(text[2]) \in 1..16
      BY <1>3, TextLength, Zenon DEF SetCopy, BufferInv
    <2> QED
      BY <1>3, <2>1 DEF SetCopy
  <1>4. CASE SetSegments
    <2>1. Segments(text[2]) \in Index
      BY <1>4, TextLength, Zenon DEF SetSegments, BufferInv
    <2> QED
      BY <1>4, <2>1, Zenon DEF SetSegments
  <1>5. CASE SetArm
    BY <1>5 DEF SetArm
  <1>6. CASE Remove
    <2>1. raced' \in BOOLEAN /\ flipped' \in BOOLEAN /\ missed' \in BOOLEAN
      BY <1>6, Zenon DEF Remove, Begin
    <2> QED
      BY <1>6, <2>1 DEF Remove, Begin
  <1>7. CASE Wipe
    BY <1>7, Zenon DEF Wipe
  <1>8. CASE SendReceived \/ SendMissed
    <2>1. text # Blank => Filled(text[2]) \in 1..16
      BY TextLength, Zenon
    <2>2. raced' \in BOOLEAN /\ flipped' \in BOOLEAN /\ missed' \in BOOLEAN
      BY <1>8, Zenon DEF SendReceived, SendMissed, Send
    <2> QED
      BY <1>8, <2>1, <2>2 DEF SendReceived, SendMissed, Send, Receive
  <1>9. CASE Advance
    BY <1>9 DEF Advance, IncLoad, IncStore, Wrap, WrapStore
  <1>10. CASE UNCHANGED rt_vars
    BY <1>10 DEF rt_vars
  <1> QED
    BY <1>1, <1>2, <1>3, <1>4, <1>5, <1>6, <1>7, <1>8, <1>9, <1>10, ZenonT(30)
       DEF RtNext, rds_set_rt, rds_generate_group_2

\* Each step of rds_set_rt leaves what it has written in shape.
LEMMA BufferStep ==
  ASSUME Lens \subseteq 1..64 PROVE RtTypeOK /\ BufferInv /\ [RtNext]_rt_vars => BufferInv'
  <1> SUFFICES ASSUME RtTypeOK, BufferInv, [RtNext]_rt_vars PROVE BufferInv'
    BY Zenon
  <1> USE DEF BufferInv, Index, shared, setting, receiver, history
  <1>1. ASSUME NEW t \in Texts, NEW flush \in BOOLEAN, SetBegin(t, flush)
        PROVE  BufferInv'
    BY <1>1, ZenonT(30) DEF SetBegin, Begin
  <1>2. CASE SetClear
    <2>1. 0 <= Filled(text[2])
      BY <1>2, TextLength DEF SetClear
    <2>2. /\ setter' = "copy" /\ text' = text /\ pos' = 0 /\ text \in Texts
          /\ \A i \in Index : rt'[i] = Blank
      BY <1>2, Zenon DEF SetClear, Empty
    <2> QED
      BY <2>1, <2>2, NoneBefore, Zenon
  <1>3. CASE SetCopy
    <2>1. Filled(text[2]) \in 1..16
      BY <1>3, TextLength, Zenon DEF SetCopy
    <2> QED
      BY <1>3, <2>1 DEF SetCopy, RtTypeOK
  <1>4. CASE SetSegments
    BY <1>4, Zenon DEF SetSegments
  <1>5. CASE SetArm
    BY <1>5, Zenon DEF SetArm
  <1>6. CASE Remove
    BY <1>6, Zenon DEF Remove, Begin
  <1>7. CASE Wipe
    BY <1>7, Zenon DEF Wipe
  <1>8. CASE SendReceived \/ SendMissed
    BY <1>8, Zenon DEF SendReceived, SendMissed, Send
  <1>9. CASE Advance
    BY <1>9, Zenon DEF Advance, IncLoad, IncStore, Wrap, WrapStore
  <1>10. CASE UNCHANGED rt_vars
    BY <1>10, Zenon DEF rt_vars
  <1> QED
    BY <1>1, <1>2, <1>3, <1>4, <1>5, <1>6, <1>7, <1>8, <1>9, <1>10, Zenon
       DEF RtNext, rds_set_rt, rds_generate_group_2

\* A group that starts during a call, and a call that starts during a group,
\* are counted as races.
LEMMA QuietStep == RtTypeOK /\ QuietInv /\ [RtNext]_rt_vars => QuietInv'
  <1> SUFFICES ASSUME RtTypeOK, QuietInv, [RtNext]_rt_vars PROVE QuietInv'
    BY Zenon
  <1> USE DEF QuietInv, shared, setting, receiver, history
  <1>1. ASSUME NEW t \in Texts, NEW flush \in BOOLEAN, SetBegin(t, flush)
        PROVE  QuietInv'
    BY <1>1, Zenon DEF SetBegin, Begin
  <1>2. CASE SetClear \/ SetCopy \/ SetSegments \/ SetArm \/ Wipe
    BY <1>2, Zenon DEF SetClear, SetCopy, SetSegments, SetArm, Wipe
  <1>3. CASE Remove
    BY <1>3, Zenon DEF Remove, Begin
  <1>4. CASE SendReceived \/ SendMissed
    BY <1>4, Zenon DEF SendReceived, SendMissed, Send
  <1>5. CASE Advance
    BY <1>5, Zenon DEF Advance, IncLoad, IncStore, Wrap, WrapStore
  <1>6. CASE UNCHANGED rt_vars
    BY <1>6, Zenon DEF rt_vars
  <1> QED
    BY <1>1, <1>2, <1>3, <1>4, <1>5, <1>6, Zenon
       DEF RtNext, rds_set_rt, rds_generate_group_2

\* The flag flipped by rds_set_rt empties the receiver's buffer before the
\* first segment of the new text is stored in it.
LEMMA FlushStep ==
  ASSUME Lens \subseteq 1..64
  PROVE  RtTypeOK /\ BufferInv /\ QuietInv /\ FlushInv /\ [RtNext]_rt_vars => FlushInv'
  <1> SUFFICES ASSUME RtTypeOK, BufferInv, QuietInv, FlushInv, [RtNext]_rt_vars
               PROVE  FlushInv'
    BY Zenon
  <1> USE DEF FlushInv, shared, setting, receiver, history
  <1>1. ASSUME NEW t \in Texts, NEW flush \in BOOLEAN, SetBegin(t, flush)
        PROVE  FlushInv'
    <2>1. flipped' => flush /\ rt_set = 1 /\ rx_flag = rt_flush
      BY <1>1, Zenon DEF SetBegin
    <2>2. flush /\ rt_set = 1 => rt_flush' = 1 - rt_flush
      BY <1>1, Zenon DEF SetBegin
    <2>3. flipped' => rx_flag' # rt_flush'
      BY <1>1, <2>1, <2>2 DEF SetBegin, RtTypeOK
    <2> QED
      BY <1>1, <2>3, TextLength, Zenon DEF SetBegin, Begin
  <1>2. CASE SetClear \/ SetCopy \/ SetSegments \/ SetArm \/ Wipe
    BY <1>2, Zenon DEF SetClear, SetCopy, SetSegments, SetArm, Wipe
  <1>3. CASE Remove
    BY <1>3, Zenon DEF Remove, Begin
  <1>4. CASE SendReceived
    <2> SUFFICES ASSUME ~raced', flipped' PROVE FlushInv'
      BY Zenon
    <2>1. ~raced /\ flipped /\ setter = "idle" /\ text # Blank
      BY <1>4, Zenon DEF SendReceived, Send
    <2>2. rt[rt_idx] \in {text, Blank}
      BY <2>1, Zenon DEF BufferInv, RtTypeOK
    <2>3. \A i \in Index : display'[i] \in {text, Blank}
      BY <1>4, <2>1, <2>2, Zenon DEF SendReceived, Receive, RtTypeOK, Empty
    <2> QED
      BY <1>4, <2>1, <2>3, Zenon DEF SendReceived, Send
  <1>5. CASE SendMissed
    BY <1>5, Zenon DEF SendMissed, Send
  <1>6. CASE Advance
    BY <1>6, Zenon DEF Advance, IncLoad, IncStore, Wrap, WrapStore
  <1>7. CASE UNCHANGED rt_vars
    BY <1>7, Zenon DEF rt_vars
  <1> QED
    BY <1>1, <1>2, <1>3, <1>4, <1>5, <1>6, <1>7, Zenon
       DEF RtNext, rds_set_rt, rds_generate_group_2

\* The encoder runs through the segments of a text in order, in step with the
\* number of groups sent.
LEMMA OrderStep ==
  ASSUME Lens \subseteq 1..64 PROVE RadioTextInv /\ [RtNext]_rt_vars => OrderInv'
  <1> SUFFICES ASSUME RtTypeOK, BufferInv, OrderInv, QuietInv, [RtNext]_rt_vars, Settled'
               PROVE  OrderInv'
    BY Zenon DEF RadioTextInv, OrderInv
  <1> USE DEF shared, setting, receiver, history
  <1>1. ASSUME NEW t \in Texts, NEW flush \in BOOLEAN, SetBegin(t, flush)
        PROVE  FALSE
    BY <1>1, Zenon DEF SetBegin, Settled
  <1>2. ASSUME SetClear \/ SetCopy \/ SetSegments \/ Remove \/ Wipe
        PROVE  FALSE
    BY <1>2, Zenon DEF SetClear, SetCopy, SetSegments, Remove, Begin, Wipe,
                Settled, BufferInv
  <1>3. CASE SetArm
    <2>1. text' = text /\ text \in Texts /\ Filled(text[2]) \in 1..16
      BY <1>3, TextLength, Zenon DEF SetArm, BufferInv
    <2>2. enc' = "idle" /\ sent' = 0 /\ ~missed' /\ rt_set' = 1 /\ rt_idx' = 0
      BY <1>3, Zenon DEF SetArm, QuietInv, Settled
    <2>3. Filled(text'[2]) \in 1..16
      BY <2>1, Zenon
    <2> QED
      BY <2>2, <2>3 DEF OrderInv, Index
  <1>4. ASSUME Settled, text' = text
        PROVE  LET n == Filled(text[2]) IN
               /\ text \in Texts /\ n \in 1..15 /\ rt_segments = n
               /\ Filled(text'[2]) = n
               /\ \A i \in Index : i < n => rt[i] = text
    <2>1. text \in Texts /\ rt_segments = Segments(text[2])
      BY <1>4, Zenon DEF BufferInv, Settled
    <2> QED
      BY <1>4, <2>1, TextLength DEF BufferInv, Settled
  <1>5. CASE SendReceived
    <2>1. Settled /\ text' = text /\ enc = "idle" /\ enc' = "load"
      BY <1>5, Zenon DEF SendReceived, Send, Settled
    <2> DEFINE n == Filled(text[2])
    <2>2. /\ n \in 1..15 /\ rt_idx < n /\ sent <= n
          /\ sent < n => rt_idx = sent
          /\ Filled(text'[2]) = n
          /\ rt[rt_idx] = text
      BY <1>4, <2>1, Zenon DEF OrderInv, RtTypeOK, Index
    <2>3. sent' = IF sent < n THEN sent + 1 ELSE sent
      BY <1>5, <2>1, Zenon DEF SendReceived, Send, Settled
    <2>4. /\ rt_set' = rt_set /\ rt_idx' = rt_idx /\ rt_flush' = rt_flush
          /\ rx_flag' = rt_flush /\ missed' = missed
      BY <1>5, Zenon DEF SendReceived, Send, Receive
    <2>5. ASSUME ~missed, NEW i \in Index, i < sent'
          PROVE  display'[i] = text
      <3>1. CASE i = rt_idx
        BY <1>5, <2>2, <3>1, Zenon DEF SendReceived, Receive, RtTypeOK, Empty
      <3>2. CASE i # rt_idx
        <4>1. i < sent /\ sent > 0
          BY <2>2, <2>3, <2>5, <3>2 DEF RtTypeOK, Index
        <4>2. rx_flag = rt_flush /\ display[i] = text
          BY <4>1, <2>1, <2>5, Zenon DEF OrderInv
        <4> QED
          BY <1>5, <4>2, <3>2, Zenon DEF SendReceived, Receive, RtTypeOK
      <3> QED
        BY <3>1, <3>2, Zenon
    <2>6. rt_set = 1
      BY <2>1, Zenon DEF OrderInv
    <2> QED
      BY <2>1, <2>2, <2>3, <2>4, <2>5, <2>6 DEF OrderInv, RtTypeOK, Index
  <1>6. CASE SendMissed
    <2>1. Settled /\ text' = text /\ enc = "idle" /\ enc' = "load" /\ missed'
      BY <1>6, Zenon DEF SendMissed, Send, Settled
    <2> DEFINE n == Filled(text[2])
    <2>2. /\ n \in 1..15 /\ rt_set = 1 /\ rt_idx < n /\ sent <= n
          /\ sent < n => rt_idx = sent
          /\ Filled(text'[2]) = n
      BY <1>4, <2>1, Zenon DEF OrderInv
    <2>3. /\ sent' = IF sent < n THEN sent + 1 ELSE sent
          /\ rt_set' = rt_set /\ rt_idx' = rt_idx
      BY <1>6, <2>1, Zenon DEF SendMissed, Send, Settled
    <2> QED
      BY <2>1, <2>2, <2>3 DEF OrderInv, RtTypeOK, Index
  <1>7. CASE Advance
    <2>1. Settled /\ text' = text
      BY <1>7 DEF Advance, IncLoad, IncStore, Wrap, WrapStore, Settled
    <2> DEFINE n == Filled(text[2])
    <2>2. n \in 1..15 /\ rt_segments = n /\ Filled(text'[2]) = n
      BY <1>4, <2>1, Zenon
    <2>3. CASE IncLoad
      BY <2>1, <2>2, <2>3, Zenon DEF IncLoad, OrderInv
    <2>4. CASE IncStore
      BY <2>1, <2>2, <2>4, SMTT(30) DEF IncStore, OrderInv, RtTypeOK, Index
    <2>5. CASE Wrap
      <3>1. /\ rt_idx <= n /\ sent <= n /\ rt_set = 1 /\ (sent < n => rt_idx = sent)
            /\ byte'[1] = rt_set /\ enc' = IF rt_idx >= n THEN "zero" ELSE "idle"
            /\ UNCHANGED <<rt_idx, rt_set, rt_flush, sent, missed, rx_flag, display>>
        BY <2>1, <2>2, <2>5, Zenon
           DEF Wrap, AtEnd, OrderInv, shared, setting, receiver, history
      <3>2. (rt_idx >= n => sent = n) /\ (~(rt_idx >= n) => rt_idx < n)
        BY <2>2, <3>1 DEF RtTypeOK, Index
      <3> HIDE DEF n
      <3> QED
        BY <2>1, <2>2, <3>1, <3>2, Zenon DEF OrderInv, n
    <2>6. CASE WrapStore
      <3>1. /\ rt_set' = 1 /\ rt_idx' = 0 /\ enc' = "idle" /\ sent = n
            /\ UNCHANGED <<rt_flush, sent, missed, rx_flag, display>>
        BY <2>1, <2>2, <2>6, Zenon
           DEF WrapStore, OrderInv, setting, receiver, history
      <3>2. 0 < n /\ n <= n /\ ~(n < n)
        BY <2>2
      <3> QED
        BY <2>1, <2>2, <3>1, <3>2, Zenon DEF OrderInv
    <2> QED
      BY <1>7, <2>3, <2>4, <2>5, <2>6, Zenon DEF Advance
  <1>8. CASE UNCHANGED rt_vars
    BY <1>8, Zenon DEF rt_vars, OrderInv, Settled
  <1> QED
    BY <1>1, <1>2, <1>3, <1>5, <1>6, <1>7, <1>8, Zenon
       DEF RtNext, rds_set_rt, rds_generate_group_2

----------------------------------------------------------------------------

\* The invariant is inductive, for every set of texts.
THEOREM RadioTextInvariance == RtSpec => []RadioTextInv
  <1> USE LensAssumption
  <1>1. RtInit => RadioTextInv
    BY RadioTextStart, Zenon
  <1>2. RadioTextInv /\ [RtNext]_rt_vars => RadioTextInv'
    BY TextTypeStep, BufferStep, QuietStep, FlushStep, OrderStep, Zenon DEF RadioTextInv
  <1> QED
    BY <1>1, <1>2, PTL DEF RtSpec

\* No field of the shared state leaves its width, races included.
THEOREM RadioTextTypes == RtSpec => []RtTypeOK
  <1> USE LensAssumption
  <1>1. RadioTextInv => RtTypeOK
    BY Zenon DEF RadioTextInv
  <1> QED
    BY <1>1, RadioTextInvariance, PTL

\* A text of up to 60 characters reaches the receiver from its start and in
\* order, whatever text and index rds_set_rt has found.
THEOREM InOrder == RtSpec => []TextInOrder
  <1> USE LensAssumption
  <1>1. RadioTextInv => TextInOrder
    BY Zenon DEF RadioTextInv, OrderInv, TextInOrder
  <1> QED
    BY <1>1, RadioTextInvariance, PTL

\* After an effective flip of the A/B flag nothing of an older text is shown.
THEOREM Flushed == RtSpec => []FlushedText
  <1> USE LensAssumption
  <1>1. RadioTextInv => FlushedText
    BY Zenon DEF RadioTextInv, FlushInv, FlushedText, Settled
  <1> QED
    BY <1>1, RadioTextInvariance, PTL

\* rds_generate_group_2 sends nothing but segments of the text that was set.
THEOREM NoStraySegment == RtSpec => OnlyText
  <1> USE LensAssumption
  <1>1. RadioTextInv /\ [RtNext]_rt_vars =>
          [Settled /\ enc = "idle" /\ enc' # "idle" => rt[rt_idx] = text]_rt_vars
    <2> SUFFICES ASSUME RadioTextInv, Settled, enc = "idle" PROVE rt[rt_idx] = text
      BY Zenon
    <2>1. text \in Texts /\ rt_idx < Filled(text[2]) /\ rt_idx \in Index
      BY Zenon DEF RadioTextInv, BufferInv, OrderInv, RtTypeOK, Settled
    <2> QED
      BY <2>1, Zenon DEF RadioTextInv, BufferInv, Settled
  <1> QED
    BY <1>1, RadioTextInvariance, PTL DEF RtSpec, OnlyText

----------------------------------------------------------------------------
(* RadioText is finally shown, under the fairness of FairRtSpec. What enables
   the fair actions is a hypothesis, RtCanMove: ENABLED is beyond the provers. *)

\* The text t is set and stays; the encoder is at e, with segment k.
Stays(t) == Settled /\ text = t
Turn(t, e, k) == Stays(t) /\ enc = e /\ rt_idx = k

\* While it stays only the encoder moves.
LEMMA OnlyGroups ==
  ASSUME [RtNext]_rt_vars, NEW t, Stays(t), Stays(t)'
  PROVE  rds_generate_group_2 \/ UNCHANGED rt_vars
  <1>1. setter = "idle" /\ setter' = "idle"
    BY DEF Stays, Settled
  <1>2. ~rds_set_rt
    BY <1>1 DEF rds_set_rt, SetBegin, SetClear, SetCopy, SetSegments, SetArm, Remove, Wipe
  <1> QED
    BY <1>2, Zenon DEF RtNext

\* A step of the encoder is one of these, with the index within the text.
LEMMA TurnStep ==
  ASSUME RadioTextInv, NEW t \in Texts, Stays(t), rds_generate_group_2
  PROVE  /\ \/ enc = "idle" /\ enc' = "load" /\ rt_idx' = rt_idx
            \/ enc = "load" /\ enc' = "store" /\ rt_idx' = rt_idx
            \/ enc = "store" /\ enc' = "test" /\ rt_idx' = rt_idx + 1
            \/ /\ enc = "test" /\ rt_idx' = rt_idx
               /\ enc' = IF rt_idx < Filled(t[2]) THEN "idle" ELSE "zero"
            \/ enc = "zero" /\ enc' = "idle" /\ rt_idx' = 0
         /\ rt_flush' = rt_flush
  <1>1. /\ Filled(t[2]) \in 1..15 /\ Segments(t[2]) = Filled(t[2])
        /\ rt_segments = Segments(t[2]) /\ rt_idx \in Index
        /\ enc = "store" => byte = <<1, rt_idx>> /\ rt_idx < Filled(t[2])
    <2>1. text = t /\ t[2] <= 60 /\ Settled
      BY Zenon DEF Stays, Settled
    <2>2. t # Blank /\ Filled(t[2]) \in 1..16 /\ Segments(t[2]) = Filled(t[2]) /\ Filled(t[2]) <= 15
      BY <2>1, LensAssumption, TextLength, Zenon
    <2>3. rt_segments = Segments(t[2]) /\ rt_idx \in Index
      BY <2>1, <2>2, Zenon DEF RadioTextInv, BufferInv, RtTypeOK, Settled
    <2>4. enc = "store" => byte = <<1, rt_idx>> /\ rt_idx < Filled(t[2])
      BY <2>1, Zenon DEF RadioTextInv, OrderInv
    <2> QED
      BY <2>2, <2>3, <2>4
  <1>2. CASE SendReceived \/ SendMissed
    BY <1>2, Zenon DEF SendReceived, SendMissed, Send, shared
  <1>3. CASE IncLoad
    BY <1>3, Zenon DEF IncLoad, shared
  <1>4. CASE IncStore
    <2>1. enc = "store" /\ enc' = "test" /\ rt_flush' = rt_flush /\ rt_idx' = (byte[2] + 1) % 16
      BY <1>4, Zenon DEF IncStore
    <2>2. byte[2] = rt_idx /\ rt_idx \in 0..14
      BY <1>1, <2>1 DEF Index
    <2> QED
      BY <2>1, <2>2
  <1>5. CASE Wrap
    <2>1. /\ enc = "test" /\ rt_idx' = rt_idx /\ rt_flush' = rt_flush
          /\ enc' = IF rt_idx >= rt_segments THEN "zero" ELSE "idle"
      BY <1>5, Zenon DEF Wrap, AtEnd, shared
    <2> QED
      BY <1>1, <2>1 DEF Index
  <1>6. CASE WrapStore
    BY <1>6, Zenon DEF WrapStore
  <1> QED
    BY <1>2, <1>3, <1>4, <1>5, <1>6, Zenon DEF rds_generate_group_2, Advance

\* The way of the encoder around the text: with every group on to the next
\* segment, and after the last to the first.
LEMMA TurnOn ==
  ASSUME RadioTextInv, [RtNext]_rt_vars, NEW t \in Texts, NEW k, Stays(t)'
  PROVE  /\ Turn(t, "idle", k) => Turn(t, "idle", k)' \/ Turn(t, "load", k)'
         /\ Turn(t, "load", k) => Turn(t, "load", k)' \/ Turn(t, "store", k)'
         /\ Turn(t, "store", k) => Turn(t, "store", k)' \/ Turn(t, "test", k + 1)'
         /\ Turn(t, "test", k) =>
              \/ Turn(t, "test", k)'
              \/ Turn(t, IF k < Filled(t[2]) THEN "idle" ELSE "zero", k)'
         /\ Turn(t, "zero", k) => Turn(t, "zero", k)' \/ Turn(t, "idle", 0)'
         /\ <<rds_generate_group_2>>_rt_vars /\ Stays(t) => enc' # enc
  <1>1. CASE ~Stays(t)
    BY <1>1, Zenon DEF Turn
  <1>2. CASE Stays(t) /\ UNCHANGED rt_vars
    BY <1>2, Zenon DEF Turn, rt_vars, shared
  <1>3. CASE Stays(t) /\ rds_generate_group_2
    BY <1>3, TurnStep, Zenon DEF Turn
  <1> QED
    BY <1>1, <1>2, <1>3, OnlyGroups, Zenon

\* The encoder can go on all the time; from segment k it comes to the next one.
RtMoving == FairRtSpec /\ []RtCanMove
Succ(t, k) == IF k + 1 < Filled(t[2]) THEN k + 1 ELSE 0
Rotates(t, k) == Turn(t, "idle", k) ~> Turn(t, "idle", Succ(t, k)) \/ ~Stays(t)
Recurs(t, k) == []<>Turn(t, "idle", k) \/ []<>~Stays(t)

\* A group is generated to its end, and the index is then that of the next.
LEMMA Rotation ==
  ASSUME NEW t \in Texts, NEW k
  PROVE  RtMoving => Rotates(t, k)
  <1> DEFINE T(e, j) == Turn(t, e, j)
             Z == Turn(t, "zero", k + 1) /\ ~(k + 1 < Filled(t[2]))
             S == Stays(t)
             A == <<rds_generate_group_2>>_rt_vars
             B == \/ T("idle", k) \/ T("load", k) \/ T("store", k) \/ T("test", k + 1) \/ Z
  <1>1. RadioTextInv /\ [RtNext]_rt_vars /\ S' =>
          /\ T("idle", k) => T("idle", k)' \/ T("load", k)'
          /\ T("load", k) => T("load", k)' \/ T("store", k)'
          /\ T("store", k) => T("store", k)' \/ T("test", k + 1)'
          /\ T("test", k + 1) =>
               T("test", k + 1)' \/ T("idle", Succ(t, k))' \/ Z'
          /\ Z => Z' \/ T("idle", Succ(t, k))'
    <2> SUFFICES ASSUME RadioTextInv, [RtNext]_rt_vars, S'
                 PROVE  /\ T("idle", k) => T("idle", k)' \/ T("load", k)'
                        /\ T("load", k) => T("load", k)' \/ T("store", k)'
                        /\ T("store", k) => T("store", k)' \/ T("test", k + 1)'
                        /\ T("test", k + 1) =>
                             T("test", k + 1)' \/ T("idle", Succ(t, k))' \/ Z'
                        /\ Z => Z' \/ T("idle", Succ(t, k))'
      OBVIOUS
    <2> QED
      BY TurnOn, Zenon DEF Succ
  <1>2. RadioTextInv /\ B => enc # "idle" \/ rt_set = 1
    BY Zenon DEF RadioTextInv, OrderInv, Stays, Turn
  <1>3. RadioTextInv /\ [RtNext]_rt_vars /\ S' /\ A =>
          /\ ~(T("idle", k) /\ T("idle", k)') /\ ~(T("load", k) /\ T("load", k)')
          /\ ~(T("store", k) /\ T("store", k)')
          /\ ~(T("test", k + 1) /\ T("test", k + 1)')
          /\ ~(Z /\ Z')
    <2>1. RadioTextInv /\ [RtNext]_rt_vars /\ S' /\ A /\ S => enc' # enc
      BY TurnOn, Zenon
    <2> QED
      BY <2>1, Zenon DEF Turn
  <1> QED
    BY <1>1, <1>2, <1>3, RadioTextInvariance, PTL
       DEF RtMoving, Rotates, FairRtSpec, RtSpec, RtCanMove

\* The same, as far as it is needed to come back to the first segment, and to go
\* on from segment j to k.
Rewinds(t, j, k) ==
  Turn(t, "idle", j) ~> Turn(t, "idle", k) \/ Turn(t, "idle", 0) \/ ~Stays(t)

\* The index goes up by one or back to the first segment.
LEMMA Homeward ==
  ASSUME NEW t \in Texts, NEW j, NEW k, k = j + 1
  PROVE  RtMoving => Rewinds(t, j, k)
  <1>1. Turn(t, "idle", Succ(t, j)) => Turn(t, "idle", k) \/ Turn(t, "idle", 0)
    BY Zenon DEF Succ
  <1>2. RtMoving => Rotates(t, j)
    BY Rotation, Zenon
  <1> QED
    BY <1>1, <1>2, PTL DEF Rotates, Rewinds

\* A segment's successor comes as often as the segment.
LEMMA Onward ==
  ASSUME NEW t \in Texts, NEW j, NEW k, k = j + 1, k < Filled(t[2])
  PROVE  RtMoving => (Recurs(t, j) => Recurs(t, k))
  <1>1. Turn(t, "idle", Succ(t, j)) => Turn(t, "idle", k)
    BY Zenon DEF Succ
  <1>2. RtMoving => Rotates(t, j)
    BY Rotation, Zenon
  <1> QED
    BY <1>1, <1>2, PTL DEF Rotates, Recurs

\* The encoder is between two groups again and again, with a segment of the text.
LEMMA Pauses ==
  ASSUME NEW t \in Texts
  PROVE  RtMoving => []<>((Stays(t) /\ enc = "idle") \/ ~Stays(t))
  <1> DEFINE P(e) == Stays(t) /\ enc = e
             A == <<rds_generate_group_2>>_rt_vars
  <1>1. RadioTextInv /\ Stays(t) => P("idle") \/ P("load") \/ P("store") \/ P("test") \/ P("zero")
    BY Zenon DEF RadioTextInv, RtTypeOK
  <1>2. RadioTextInv /\ [RtNext]_rt_vars /\ Stays(t)' =>
          /\ P("load") => P("load")' \/ P("store")'
          /\ P("store") => P("store")' \/ P("test")'
          /\ P("test") => P("test")' \/ P("idle")' \/ P("zero")'
          /\ P("zero") => P("zero")' \/ P("idle")'
    <2>1. CASE Stays(t) /\ UNCHANGED rt_vars
      BY <2>1, Zenon DEF rt_vars
    <2>2. CASE Stays(t) /\ rds_generate_group_2
      BY <2>2, TurnStep, Zenon
    <2> QED
      BY <2>1, <2>2, OnlyGroups, Zenon
  <1>3. P("load") \/ P("store") \/ P("test") \/ P("zero") => enc # "idle" \/ rt_set = 1
    BY Zenon
  <1>4. RadioTextInv /\ [RtNext]_rt_vars /\ Stays(t)' /\ A =>
          /\ ~(P("load") /\ P("load")') /\ ~(P("store") /\ P("store")')
          /\ ~(P("test") /\ P("test")') /\ ~(P("zero") /\ P("zero")')
    <2>1. RadioTextInv /\ [RtNext]_rt_vars /\ Stays(t)' /\ A /\ Stays(t) => enc' # enc
      BY TurnOn, Zenon
    <2> QED
      BY <2>1, Zenon
  <1> QED
    BY <1>1, <1>2, <1>3, <1>4, RadioTextInvariance, PTL DEF RtMoving, FairRtSpec, RtSpec, RtCanMove

\* A text of at most 60 characters has at most 15 segments, and the successors of
\* the first ones are these.
LEMMA SmallNumbers ==
  /\ 1 = 0 + 1 /\ 2 = 1 + 1 /\ 3 = 2 + 1 /\ 4 = 3 + 1 /\ 5 = 4 + 1 /\ 6 = 5 + 1
  /\ 7 = 6 + 1 /\ 8 = 7 + 1 /\ 9 = 8 + 1 /\ 10 = 9 + 1 /\ 11 = 10 + 1 /\ 12 = 11 + 1
  /\ 13 = 12 + 1 /\ 14 = 13 + 1 /\ 15 = 14 + 1
OBVIOUS

\* So the encoder is at the first segment again and again,
LEMMA FirstRecurs ==
  ASSUME NEW t \in Texts
  PROVE  RtMoving => Recurs(t, 0)
  <1> DEFINE H(k) == Turn(t, "idle", k)
  <1>1. RtMoving =>
          /\ Rewinds(t, 0, 1) /\ Rewinds(t, 1, 2) /\ Rewinds(t, 2, 3)
          /\ Rewinds(t, 3, 4) /\ Rewinds(t, 4, 5) /\ Rewinds(t, 5, 6)
          /\ Rewinds(t, 6, 7) /\ Rewinds(t, 7, 8) /\ Rewinds(t, 8, 9)
          /\ Rewinds(t, 9, 10) /\ Rewinds(t, 10, 11) /\ Rewinds(t, 11, 12)
          /\ Rewinds(t, 12, 13) /\ Rewinds(t, 13, 14) /\ Rewinds(t, 14, 15)
    BY Homeward, SmallNumbers, Zenon
  <1>2. RadioTextInv /\ Stays(t) /\ enc = "idle" =>
          \/ H(0) \/ H(1) \/ H(2) \/ H(3) \/ H(4) \/ H(5) \/ H(6) \/ H(7) \/ H(8)
          \/ H(9) \/ H(10) \/ H(11) \/ H(12) \/ H(13) \/ H(14)
    <2> SUFFICES ASSUME RadioTextInv, Stays(t), enc = "idle" PROVE rt_idx \in 0..14
      BY SMT DEF Turn
    <2>1. text = t /\ t[2] <= 60 /\ Settled
      BY Zenon DEF Stays, Settled
    <2>2. Filled(t[2]) \in 1..16 /\ Filled(t[2]) <= 15
      BY <2>1, LensAssumption, TextLength, Zenon
    <2>3. rt_idx \in Index /\ rt_idx < Filled(t[2])
      BY <2>1, Zenon DEF RadioTextInv, OrderInv, RtTypeOK
    <2> QED
      BY <2>2, <2>3 DEF Index
  <1>3. RadioTextInv => ~H(15)
    <2> SUFFICES ASSUME RadioTextInv, H(15) PROVE FALSE
      OBVIOUS
    <2>1. text = t /\ t[2] <= 60 /\ Settled /\ enc = "idle" /\ rt_idx = 15
      BY Zenon DEF Stays, Settled, Turn
    <2>2. Filled(t[2]) \in 1..16 /\ Filled(t[2]) <= 15
      BY <2>1, LensAssumption, TextLength, Zenon
    <2>3. 15 < Filled(t[2])
      BY <2>1, Zenon DEF RadioTextInv, OrderInv
    <2> QED
      BY <2>2, <2>3
  <1> QED
    BY <1>1, <1>2, <1>3, Pauses, RadioTextInvariance, PTL
       DEF RtMoving, FairRtSpec, Recurs, Rewinds

\* and from there at every other one.
LEMMA AllRecur ==
  ASSUME NEW t \in Texts, NEW i \in 0..14, i < Filled(t[2]), t[2] <= 60
  PROVE  RtMoving => Recurs(t, i)
  <1> DEFINE n == Filled(t[2])
             R(k) == RtMoving => Recurs(t, k)
  <1>1. n \in Nat
    BY LensAssumption, TextLength
  <1>2. R(0)
    BY FirstRecurs, Zenon
  <1>3. ASSUME 1 < n PROVE R(1)
    BY <1>2, <1>3, Onward, SmallNumbers, Zenon
  <1>4. ASSUME 2 < n PROVE R(2)
    <2>1. 1 < n
      BY <1>1, <1>4
    <2> QED
      BY <1>3, <1>4, <2>1, Onward, SmallNumbers, Zenon
  <1>5. ASSUME 3 < n PROVE R(3)
    <2>1. 2 < n
      BY <1>1, <1>5
    <2> QED
      BY <1>4, <1>5, <2>1, Onward, SmallNumbers, Zenon
  <1>6. ASSUME 4 < n PROVE R(4)
    <2>1. 3 < n
      BY <1>1, <1>6
    <2> QED
      BY <1>5, <1>6, <2>1, Onward, SmallNumbers, Zenon
  <1>7. ASSUME 5 < n PROVE R(5)
    <2>1. 4 < n
      BY <1>1, <1>7
    <2> QED
      BY <1>6, <1>7, <2>1, Onward, SmallNumbers, Zenon
  <1>8. ASSUME 6 < n PROVE R(6)
    <2>1. 5 < n
      BY <1>1, <1>8
    <2> QED
      BY <1>7, <1>8, <2>1, Onward, SmallNumbers, Zenon
  <1>9. ASSUME 7 < n PROVE R(7)
    <2>1. 6 < n
      BY <1>1, <1>9
    <2> QED
      BY <1>8, <1>9, <2>1, Onward, SmallNumbers, Zenon
  <1>10. ASSUME 8 < n PROVE R(8)
    <2>1. 7 < n
      BY <1>1, <1>10
    <2> QED
      BY <1>9, <1>10, <2>1, Onward, SmallNumbers, Zenon
  <1>11. ASSUME 9 < n PROVE R(9)
    <2>1. 8 < n
      BY <1>1, <1>11
    <2> QED
      BY <1>10, <1>11, <2>1, Onward, SmallNumbers, Zenon
  <1>12. ASSUME 10 < n PROVE R(10)
    <2>1. 9 < n
      BY <1>1, <1>12
    <2> QED
      BY <1>11, <1>12, <2>1, Onward, SmallNumbers, Zenon
  <1>13. ASSUME 11 < n PROVE R(11)
    <2>1. 10 < n
      BY <1>1, <1>13
    <2> QED
      BY <1>12, <1>13, <2>1, Onward, SmallNumbers, Zenon
  <1>14. ASSUME 12 < n PROVE R(12)
    <2>1. 11 < n
      BY <1>1, <1>14
    <2> QED
      BY <1>13, <1>14, <2>1, Onward, SmallNumbers, Zenon
  <1>15. ASSUME 13 < n PROVE R(13)
    <2>1. 12 < n
      BY <1>1, <1>15
    <2> QED
      BY <1>14, <1>15, <2>1, Onward, SmallNumbers, Zenon
  <1>16. ASSUME 14 < n PROVE R(14)
    <2>1. 13 < n
      BY <1>1, <1>16
    <2> QED
      BY <1>15, <1>16, <2>1, Onward, SmallNumbers, Zenon
  <1> HIDE DEF R
  <1> QED
    BY <1>2, <1>3, <1>4, <1>5, <1>6, <1>7, <1>8, <1>9, <1>10, <1>11, <1>12, <1>13, <1>14, <1>15, <1>16 DEF R

\* The receiver has seen the flag and segment i of the text that stays.
Got(t, i) == Stays(t) /\ display[i] = t /\ rx_flag = rt_flush
Arrives(t, i) == <>[]Stays(t) => <>[](i < Filled(t[2]) => Got(t, i))

\* A group that is received puts its segment on the display, and no later one
\* takes it away.
LEMMA GotStep ==
  ASSUME RadioTextInv, [RtNext]_rt_vars, NEW t \in Texts, NEW i \in Index, Stays(t), Stays(t)'
  PROVE  /\ Got(t, i) => Got(t, i)'
         /\ SendReceived /\ rt_idx = i => Got(t, i)'
  <1>1. display \in [Index -> Segment] /\ Empty \in [Index -> Segment] /\ rt_idx \in Index
    BY Zenon DEF RadioTextInv, RtTypeOK, Empty, Segment
  <1>2. CASE SendReceived
    <2>1. /\ Receive(rt_idx, rt_flush, rt[rt_idx]) /\ rt_flush' = rt_flush /\ enc = "idle"
      BY <1>2, Zenon DEF SendReceived, Send, shared
    <2>2. rt[rt_idx] = t
      <3>1. text = t /\ t # Blank /\ Settled
        BY Zenon DEF Stays, Settled
      <3>2. rt_idx < Filled(t[2])
        BY <2>1, <3>1, Zenon DEF RadioTextInv, OrderInv
      <3> QED
        BY <1>1, <3>1, <3>2, Zenon DEF RadioTextInv, BufferInv, Settled
    <2>3. rx_flag' = rt_flush
      BY <2>1, Zenon DEF Receive
    <2>4. rt_idx = i => display'[i] = t
      BY <1>1, <2>1, <2>2, Zenon DEF Receive
    <2>5. rt_idx # i /\ rx_flag = rt_flush => display'[i] = display[i]
      BY <1>1, <2>1, Zenon DEF Receive
    <2> QED
      BY <2>1, <2>3, <2>4, <2>5, Zenon DEF Got
  <1>3. CASE SendMissed \/ Advance \/ UNCHANGED rt_vars
    <2>1. UNCHANGED <<display, rx_flag, rt_flush>>
      BY <1>3, Zenon DEF SendMissed, Send, Advance, IncLoad, IncStore, Wrap, WrapStore,
                         receiver, shared, rt_vars
    <2>2. SendReceived /\ rt_idx = i => Got(t, i)'
      BY <1>2, Zenon
    <2> QED
      BY <2>1, <2>2, Zenon DEF Got
  <1> QED
    BY <1>2, <1>3, OnlyGroups, Zenon DEF rds_generate_group_2

\* A segment that comes again and again is not missed for ever.
LEMMA Arrival ==
  ASSUME NEW t \in Texts, NEW s \in 0..14, t[2] <= 60
  PROVE  RtMoving => Arrives(t, s)
  <1>1. CASE ~(s < Filled(t[2]))
    <2>1. s < Filled(t[2]) => Got(t, s)
      BY <1>1
    <2> QED
      BY <2>1, PTL DEF Arrives
  <1>2. CASE s < Filled(t[2])
    <2>1. s \in Index /\ s \in Sendable
      <3>1. s \in Index
        BY DEF Index
      <3>2. t[2] \in Lens
        BY Zenon DEF Texts
      <3> QED
        BY <1>2, <3>1, <3>2, Zenon DEF Sendable
    <2>2. (\A i \in Sendable : ReceiveFair(i)) => ReceiveFair(s)
      BY <2>1, Zenon
    <2>3. (\A i \in Sendable : ReceiveCan(i)) => ReceiveCan(s)
      BY <2>1, Zenon
    <2>4. RtMoving => ReceiveFair(s)
      BY <2>2, PTL DEF RtMoving, FairRtSpec
    <2>5. RtMoving => []ReceiveCan(s)
      BY <2>3, PTL DEF RtMoving, RtCanMove
    <2>6. RtMoving => RtSpec
      BY PTL DEF RtMoving, FairRtSpec
    <2>7. RtMoving => Recurs(t, s)
      BY <1>2, AllRecur, Zenon
    <2>8. RadioTextInv /\ Turn(t, "idle", s) => enc = "idle" /\ rt_set = 1 /\ rt_idx = s
      BY Zenon DEF RadioTextInv, OrderInv, Stays, Turn
    <2>9. RadioTextInv /\ [RtNext]_rt_vars /\ Stays(t) /\ Stays(t)' =>
            /\ Got(t, s) => Got(t, s)'
            /\ <<SendReceived /\ rt_idx = s>>_rt_vars => Got(t, s)'
      BY <2>1, GotStep, Zenon
    <2> QED
      BY <2>4, <2>5, <2>6, <2>7, <2>8, <2>9, RadioTextInvariance, PTL
         DEF RtSpec, ReceiveFair, ReceiveCan, Recurs, Arrives
  <1> QED
    BY <1>1, <1>2, Zenon

\* Whatever the texts, one of at most 60 characters that stays is finally complete
\* on the display of a receiver that misses groups, but no segment for ever.
THEOREM FinallyShown == FairRtSpec /\ []RtCanMove => TextShown
  <1>1. ASSUME NEW t \in Texts, t[2] <= 60 PROVE RtMoving => ShownFinally(t)
    <2> DEFINE n == Filled(t[2])
               D(s) == s < n => Got(t, s)
               First == D(0) /\ D(1) /\ D(2) /\ D(3) /\ D(4)
               Middle == D(5) /\ D(6) /\ D(7) /\ D(8) /\ D(9)
               Last == D(10) /\ D(11) /\ D(12) /\ D(13) /\ D(14)
               Whole == \A i \in Index : i < Filled(t[2]) => display[i] = t
               A(s) == RtMoving => Arrives(t, s)
    <2>1. /\ A(0) /\ A(1) /\ A(2) /\ A(3) /\ A(4) /\ A(5) /\ A(6) /\ A(7) /\ A(8) /\ A(9)
          /\ A(10) /\ A(11) /\ A(12) /\ A(13) /\ A(14)
      <3>1. \A s \in 0..14 : A(s)
        BY <1>1, Arrival, Zenon
      <3> HIDE DEF A
      <3> QED
        BY <3>1
    <2>2. RtMoving /\ <>[]Stays(t) => <>[]First
      BY <2>1, PTL DEF Arrives
    <2>3. RtMoving /\ <>[]Stays(t) => <>[]Middle
      BY <2>1, PTL DEF Arrives
    <2>4. RtMoving /\ <>[]Stays(t) => <>[]Last
      BY <2>1, PTL DEF Arrives
    <2>5. First /\ Middle /\ Last => Whole
      <3>1. n \in Nat /\ n <= 15
        BY <1>1, LensAssumption, TextLength
      <3> HIDE DEF n
      <3>2. First /\ Middle /\ Last => \A i \in Index : i < n => display[i] = t
        BY <3>1, SMT DEF Got, Index
      <3> QED
        BY <3>2, Zenon DEF n
    <2> HIDE DEF First, Middle, Last
    <2> QED
      BY <2>2, <2>3, <2>4, <2>5, PTL DEF ShownFinally, Stays
  <1>2. ASSUME NEW t \in Texts, ~(t[2] <= 60) PROVE RtMoving => ShownFinally(t)
    <2>1. ~(Settled /\ text = t)
      BY <1>2, Zenon DEF Settled
    <2> QED
      BY <2>1, PTL DEF ShownFinally
  <1>3. RtMoving => TextShown
    BY <1>1, <1>2, Zenon DEF TextShown
  <1> QED
    BY <1>3, PTL DEF RtMoving

============================================================================
