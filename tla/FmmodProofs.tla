---------------------------- MODULE FmmodProofs ----------------------------
(***************************************************************************)
(* Proofs about module Fmmod: type correctness, the lock discipline of     *)
(* fmmod_process, that fmmod_destroy releases nothing that is in use, and  *)
(* that both the last run and the next trigger come.                       *)
(***************************************************************************)
EXTENDS Fmmod, TLAPS

\* Which thread holds each mutex follows from where the threads are.
LockInv ==
  /\ owner["proc_mutex"] = IF proc \in Processing THEN "proc" ELSE Nobody
  /\ owner["inbuf_mutex"] = IF proc = "upsample" THEN "proc"
                            ELSE IF cb = "fill" THEN "cb" ELSE Nobody
  /\ ~(proc = "upsample" /\ cb = "fill")
  /\ owner["uaudio_buf_mutex"] = IF proc = "generate" THEN "proc" ELSE Nobody
  /\ owner["mpx_buf_mutex"] = IF proc \in {"downsample", "send"} THEN "proc"
                              ELSE Nobody

\* A torn input buffer is one the callback is filling.
TornInv == NoTornPeriod /\ (buf["inbuf"] = Torn => cb = "fill")

\* The callers of fmmod_destroy that are past the section under proc_mutex.
Flushed == {d \in Destroyers : teardown[d] \in Resources \cup {"done"}}

\* Releasing starts after the section under proc_mutex, hence after active
\* was cleared and the last fmmod_process returned, and after JACK stopped
\* calling.
TeardownInv ==
  /\ \A d \in Destroyers :
       teardown[d] \in {"flush", "done"} \cup Resources => ~active
  /\ Flushed # {} => proc \notin Processing
  /\ (\E r \in Resources : released[r] # 0) => Flushed # {}
  /\ cb # "idle" => client = "activated"
  /\ teardown["main"] \notin {"idle", "deactivate"} => client = "closed"
  /\ teardown["jack"] # "idle" => client # "activated"

\* The place of each stage of fmmod_destroy in the order of the releases.
Rank == [idle |-> 0, deactivate |-> 0, clear |-> 0, flush |-> 0, ctl_map |-> 1,
         rds_enc |-> 2, rtpsrv |-> 3, rsmpl |-> 4, flts |-> 5, locks |-> 6,
         buffers |-> 7, outsock |-> 8, done |-> 9]

\* A resource has been released by the callers that are past it.
CountInv ==
  \A r \in Resources :
    released[r] = (IF Rank[teardown["main"]] > Rank[r] THEN 1 ELSE 0)
                + (IF Rank[teardown["jack"]] > Rank[r] THEN 1 ELSE 0)

\* main calls fmmod_destroy after a signal only, and exits without having
\* called it only if JACK's shutdown callback cleared active.
MainInv ==
  /\ main \in {"loop", "check", "exit"} => teardown["main"] = "idle"
  /\ main = "check" /\ keep => ~active
  /\ teardown["main"] # "idle" => ~keep
  /\ ~active => \/ teardown["main"] \in {"flush", "done"} \cup Resources
                \/ teardown["jack"] # "idle"
  /\ main = "exit" => teardown["jack"] # "idle"
  /\ status = "exited" => teardown["main"] = "done" \/ teardown["jack"] # "idle"

USE DEF Nobody, Torn, Mutexes, Buffers, Destroyers, Resources, Processing

----------------------------------------------------------------------------

\* The modulator starts in a state of the right type.
LEMMA TypeInit == Init => TypeOK
  BY MaxPeriodsAssumption DEF Init, TypeOK

\* The signal handler keeps the types of the two variables it writes.
LEMMA TerminateType ==
  ASSUME TypeOK, Terminate \/ UNCHANGED <<keep, status>>
  PROVE  keep' \in BOOLEAN /\ status' \in {"running", "exited", "killed"}
  BY Zenon DEF TypeOK, Terminate

\* No step of any thread leaves the types, in particular no buffer ever holds
\* a period JACK did not deliver.
LEMMA TypeStep == TypeOK /\ [Next]_vars => TypeOK'
  <1> SUFFICES ASSUME TypeOK, [Next]_vars PROVE TypeOK'
    BY Zenon
  <1> USE MaxPeriodsAssumption DEF TypeOK
  <1>1. CASE Signal
    BY <1>1, TerminateType DEF Signal
  <1>2. CASE JackShutdown
    BY <1>2 DEF JackShutdown
  <1>3. CASE CbSkip
    BY <1>3 DEF CbSkip
  <1>4. CASE Callback
    <2>1. CASE CbBegin
      BY <2>1 DEF CbBegin
    <2>2. CASE CbFill
      BY <2>2 DEF CbFill
    <2>3. CASE CbTrigger
      BY <2>3 DEF CbTrigger, WakeProc
    <2> QED
      BY <1>4, <2>1, <2>2, <2>3, Zenon DEF Callback
  <1>5. CASE Process
    <2>1. CASE ProcLoop \/ ProcWait \/ ProcWake
      BY <2>1 DEF ProcLoop, ProcWait, ProcWake
    <2>2. CASE ProcSkip
      BY <2>2 DEF ProcSkip, ProcReturn
    <2>3. CASE ProcStart
      BY <2>3 DEF ProcStart
    <2>4. CASE ProcUpsample
      <3>1. Terminate \/ UNCHANGED <<keep, status>>
        BY <2>4, Zenon DEF ProcUpsample
      <3> QED
        BY <2>4, <3>1, TerminateType DEF ProcUpsample, ProcReturn
    <2>5. CASE ProcGenerate
      BY <2>5 DEF ProcGenerate
    <2>6. CASE ProcDownsample
      <3>1. Terminate \/ UNCHANGED <<keep, status>>
        BY <2>6, Zenon DEF ProcDownsample
      <3> QED
        BY <2>6, <3>1, TerminateType DEF ProcDownsample, ProcReturn
    <2>7. CASE ProcSend
      BY <2>7 DEF ProcSend, ProcReturn
    <2> QED
      BY <1>5, <2>1, <2>2, <2>3, <2>4, <2>5, <2>6, <2>7, Zenon DEF Process
  <1>6. CASE ProcSpuriousWakeup
    BY <1>6 DEF ProcSpuriousWakeup
  <1>7. CASE MainThread
    BY <1>7 DEF MainThread, MainLoop, MainCheck, MainExit, Deactivate
  <1>8. ASSUME NEW d \in Destroyers, Destroy(d) PROVE TypeOK'
    <2>1. CASE ClearActive(d)
      <3>1. teardown' \in [Destroyers -> {"idle", "deactivate", "clear", "flush", "done"}
                                           \cup Resources]
        BY <2>1 DEF ClearActive
      <3>2. /\ active' \in BOOLEAN
            /\ UNCHANGED <<keep, status, client, owner, cb, proc, main, released, period,
                           buf, sent>>
        BY <2>1, Zenon DEF ClearActive
      <3> QED BY <3>1, <3>2
    <2>2. CASE Flush(d)
      BY <2>2 DEF Flush, WakeProc
    <2>3. CASE Release(d)
      BY <2>3 DEF Release, After
    <2> QED
      BY <1>8, <2>1, <2>2, <2>3, Zenon DEF Destroy
  <1>9. CASE UNCHANGED vars
    BY <1>9 DEF vars
  <1> QED
    BY <1>1, <1>2, <1>3, <1>4, <1>5, <1>6, <1>7, <1>8, <1>9, Zenon DEF Next

\* Type correctness of the FM modulator, for every bound on the periods.
THEOREM TypeCorrect == Spec => []TypeOK
  BY TypeInit, TypeStep, PTL DEF Spec

----------------------------------------------------------------------------

\* Each step keeps the relation between the mutexes and where the threads are.
LEMMA LockStep == TypeOK /\ LockInv /\ [Next]_vars => LockInv'
  <1> SUFFICES ASSUME TypeOK, LockInv, [Next]_vars PROVE LockInv'
    BY Zenon
  <1> USE DEF TypeOK, LockInv
  <1>1. CASE Signal \/ JackShutdown \/ CbSkip \/ MainThread
    BY <1>1 DEF Signal, JackShutdown, CbSkip, MainThread, MainLoop, MainCheck,
                MainExit, Deactivate
  <1>2. CASE CbBegin \/ CbFill \/ CbTrigger
    BY <1>2 DEF CbBegin, CbFill, CbTrigger, WakeProc
  <1>3. CASE ProcLoop \/ ProcWait \/ ProcWake \/ ProcSpuriousWakeup
    BY <1>3 DEF ProcLoop, ProcWait, ProcWake, ProcSpuriousWakeup
  <1>4. CASE ProcSkip \/ ProcStart
    BY <1>4 DEF ProcSkip, ProcStart, ProcReturn
  <1>5. CASE ProcUpsample
    BY <1>5 DEF ProcUpsample, ProcReturn
  <1>6. CASE ProcGenerate
    BY <1>6, Zenon DEF ProcGenerate
  <1>7. CASE ProcDownsample \/ ProcSend
    BY <1>7 DEF ProcDownsample, ProcSend, ProcReturn
  <1>8. ASSUME NEW d \in Destroyers, Destroy(d) PROVE LockInv'
    BY <1>8 DEF Destroy, ClearActive, Flush, Release, WakeProc
  <1>9. CASE UNCHANGED vars
    BY <1>9, Zenon DEF vars
  <1> QED
    BY <1>1, <1>2, <1>3, <1>4, <1>5, <1>6, <1>7, <1>8, <1>9, Zenon
       DEF Next, Callback, Process

\* Only the callback tears the input buffer, and nobody reads it meanwhile.
LEMMA TornStep == TypeOK /\ LockInv /\ TornInv /\ [Next]_vars => TornInv'
  <1> SUFFICES ASSUME TypeOK, LockInv, TornInv, [Next]_vars PROVE TornInv'
    BY Zenon
  <1> USE DEF TypeOK, TornInv, NoTornPeriod
  <1>1. CASE Signal \/ JackShutdown \/ CbSkip \/ MainThread
    BY <1>1, Zenon DEF Signal, JackShutdown, CbSkip, MainThread, MainLoop, MainCheck,
                MainExit, Deactivate
  <1>2. CASE CbBegin \/ CbFill \/ CbTrigger
    BY <1>2 DEF CbBegin, CbFill, CbTrigger
  <1>3. CASE ProcLoop \/ ProcWait \/ ProcWake \/ ProcSpuriousWakeup
    BY <1>3 DEF ProcLoop, ProcWait, ProcWake, ProcSpuriousWakeup
  <1>4. CASE ProcSkip \/ ProcStart
    BY <1>4 DEF ProcSkip, ProcStart
  <1>5. CASE ProcUpsample
    BY <1>5, Zenon DEF ProcUpsample, LockInv
  <1>6. CASE ProcGenerate \/ ProcDownsample
    BY <1>6 DEF ProcGenerate, ProcDownsample
  <1>7. CASE ProcSend
    BY <1>7, Zenon DEF ProcSend
  <1>8. ASSUME NEW d \in Destroyers, Destroy(d) PROVE TornInv'
    BY <1>8 DEF Destroy, ClearActive, Flush, Release
  <1>9. CASE UNCHANGED vars
    BY <1>9, Zenon DEF vars
  <1> QED
    BY <1>1, <1>2, <1>3, <1>4, <1>5, <1>6, <1>7, <1>8, <1>9, Zenon
       DEF Next, Callback, Process

\* Only fmmod_destroy itself gets past that section.
LEMMA FlushedSame ==
  ASSUME teardown' = teardown PROVE Flushed' = Flushed
  BY DEF Flushed

\* Nothing is released before the section under proc_mutex, and fmmod_process
\* is not entered after it.
LEMMA TeardownStep ==
  TypeOK /\ LockInv /\ TeardownInv /\ [Next]_vars => TeardownInv'
  <1> SUFFICES ASSUME TypeOK, LockInv, TeardownInv, [Next]_vars
               PROVE  TeardownInv'
    BY Zenon
  <1> USE DEF TypeOK, TeardownInv, Flushed
  <1>1. CASE Signal \/ CbSkip
    BY <1>1 DEF Signal, CbSkip
  <1>2. CASE JackShutdown
    BY <1>2 DEF JackShutdown
  <1>3. CASE CbBegin \/ CbFill \/ CbTrigger
    BY <1>3 DEF CbBegin, CbFill, CbTrigger, WakeProc
  <1>4. CASE ProcLoop \/ ProcWait \/ ProcWake \/ ProcSpuriousWakeup
    BY <1>4 DEF ProcLoop, ProcWait, ProcWake, ProcSpuriousWakeup
  <1>5. CASE ProcSkip \/ ProcStart \/ ProcUpsample \/ ProcGenerate
             \/ ProcDownsample \/ ProcSend
    BY <1>5 DEF ProcSkip, ProcStart, ProcUpsample, ProcGenerate,
                ProcDownsample, ProcSend, ProcReturn
  <1>6. CASE MainThread
    BY <1>6 DEF MainThread, MainLoop, MainCheck, MainExit, Deactivate
  <1>7. ASSUME NEW d \in Destroyers, Destroy(d) PROVE TeardownInv'
    <2>1. CASE ClearActive(d)
      BY <2>1 DEF ClearActive
    <2>2. CASE Flush(d)
      BY <2>2 DEF Flush, WakeProc, LockInv
    <2>3. CASE Release(d)
      BY <2>3 DEF Release, After
    <2> QED
      BY <1>7, <2>1, <2>2, <2>3, Zenon DEF Destroy
  <1> HIDE DEF TypeOK, TeardownInv, Flushed
  <1>8. CASE UNCHANGED vars
    <2>1. UNCHANGED <<teardown, active, proc, released, cb, client>>
      BY <1>8, Zenon DEF vars
    <2>2. Flushed' = Flushed
      BY <2>1, FlushedSame, Zenon
    <2> QED
      BY <2>1, <2>2, ZenonT(30) DEF TeardownInv
  <1> QED
    BY <1>1, <1>2, <1>3, <1>4, <1>5, <1>6, <1>7, <1>8, Zenon
       DEF Next, Callback, Process

\* Every release is counted once for the caller that made it.
LEMMA CountStep ==
  TypeOK /\ TeardownInv /\ MainInv /\ CountInv /\ [Next]_vars => CountInv'
  <1> SUFFICES ASSUME TypeOK, TeardownInv, MainInv, CountInv, [Next]_vars
               PROVE  CountInv'
    BY Zenon
  <1>1. CASE UNCHANGED <<teardown, released>>
    BY <1>1, Zenon DEF CountInv
  <1> USE DEF TypeOK, CountInv, Rank
  <1>2. CASE JackShutdown
    BY <1>2 DEF JackShutdown, TeardownInv
  <1>3. CASE MainCheck
    BY <1>3 DEF MainCheck, MainInv
  <1>4. CASE Deactivate
    BY <1>4 DEF Deactivate
  <1>5. ASSUME NEW d \in Destroyers, ClearActive(d) \/ Flush(d)
        PROVE  CountInv'
    BY <1>5 DEF ClearActive, Flush
  <1>6. ASSUME NEW d \in Destroyers, Release(d) PROVE CountInv'
    BY <1>6 DEF Release, After
  <1>7. CASE Signal \/ CbSkip \/ Callback \/ MainLoop \/ MainExit
    BY <1>1, <1>7, Zenon DEF Signal, CbSkip, Callback, CbBegin, CbFill, CbTrigger,
                      MainLoop, MainExit
  <1>8. CASE Process \/ ProcSpuriousWakeup
    BY <1>1, <1>8, Zenon DEF Process, ProcLoop, ProcWait, ProcWake, ProcSkip,
                      ProcStart, ProcUpsample, ProcGenerate, ProcDownsample,
                      ProcSend, ProcSpuriousWakeup
  <1>9. CASE UNCHANGED vars
    BY <1>1, <1>9, Zenon DEF vars
  <1> QED
    BY <1>2, <1>3, <1>4, <1>5, <1>6, <1>7, <1>8, <1>9, ZenonT(30)
       DEF Next, MainThread, Destroy

\* When main destroys and when it just exits, as a step leaves it.
LEMMA MainStep ==
  TypeOK /\ TeardownInv /\ MainInv /\ [Next]_vars => MainInv'
  <1> SUFFICES ASSUME TypeOK, TeardownInv, MainInv, [Next]_vars
               PROVE  MainInv'
    BY Zenon
  <1> USE DEF TypeOK, MainInv
  <1>1. ASSUME UNCHANGED <<active, main, teardown>>,
               Terminate \/ UNCHANGED <<keep, status>>
        PROVE  MainInv'
    <2>1. (keep' => keep) /\ (status' = "exited" => status = "exited")
      <3>1. CASE Terminate
        BY <3>1, Zenon DEF Terminate
      <3> QED
        BY <1>1, <3>1
    <2> QED
      BY <1>1, <2>1, Zenon
  <1>2. CASE JackShutdown
    BY <1>2, Zenon DEF JackShutdown
  <1>3. CASE MainLoop
    BY <1>3, Zenon DEF MainLoop
  <1>4. CASE MainCheck
    BY <1>4, Zenon DEF MainCheck
  <1>5. CASE MainExit
    BY <1>5, Zenon DEF MainExit
  <1>6. CASE Deactivate
    BY <1>6, Zenon DEF Deactivate
  <1>7. ASSUME NEW d \in Destroyers, Destroy(d) PROVE MainInv'
    <2>1. CASE ClearActive(d)
      BY <2>1, Zenon DEF ClearActive
    <2>2. CASE Flush(d)
      BY <2>2, Zenon DEF Flush
    <2>3. CASE Release(d)
      BY <2>3 DEF Release, After
    <2> QED
      BY <1>7, <2>1, <2>2, <2>3, Zenon DEF Destroy
  <1>8. CASE Signal \/ CbSkip \/ Callback
    BY <1>1, <1>8, Zenon DEF Signal, CbSkip, Callback, CbBegin, CbFill, CbTrigger
  <1>9. CASE Process \/ ProcSpuriousWakeup
    BY <1>1, <1>9, Zenon
       DEF Process, ProcLoop, ProcWait, ProcWake, ProcSkip, ProcStart,
           ProcUpsample, ProcGenerate, ProcDownsample, ProcSend,
           ProcSpuriousWakeup
  <1>10. CASE UNCHANGED vars
    BY <1>1, <1>10, Zenon DEF vars
  <1> QED
    BY <1>2, <1>3, <1>4, <1>5, <1>6, <1>7, <1>8, <1>9, <1>10, Zenon
       DEF Next, MainThread

----------------------------------------------------------------------------

\* The inductive invariant.
IInv == TypeOK /\ LockInv /\ TornInv /\ TeardownInv /\ MainInv /\ CountInv

\* The inductive invariant holds in every reachable state.
THEOREM Invariance == Spec => []IInv
  <1>1. Init => IInv
    BY TypeInit DEF Init, IInv, LockInv, TornInv, NoTornPeriod, TeardownInv,
                    Flushed, MainInv, CountInv, Rank
  <1>2. IInv /\ [Next]_vars => IInv'
    BY TypeStep, LockStep, TornStep, TeardownStep, MainStep, CountStep, Zenon DEF IInv
  <1> QED
    BY <1>1, <1>2, PTL DEF Spec

\* fmmod_destroy, called by main, by JACK's shutdown callback or by both,
\* releases nothing while fmmod_process or a process callback runs.
THEOREM ReleaseSafety == Spec => []NoUseAfterRelease
  <1>1. IInv => NoUseAfterRelease
    BY Zenon DEF IInv, TypeOK, TeardownInv, Flushed, NoUseAfterRelease
  <1> QED
    BY <1>1, Invariance, PTL

\* No period that was half copied by fmmod_process_cb is processed or sent.
THEOREM PeriodIntegrity == Spec => []NoTornPeriod
  <1>1. IInv => NoTornPeriod
    BY Zenon DEF IInv, TornInv
  <1> QED
    BY <1>1, Invariance, PTL

\* fmmod_process returns every mutex on every path.
THEOREM LockDiscipline == Spec => []LocksReturned
  <1>1. IInv => LocksReturned
    BY Zenon DEF IInv, LockInv, LocksReturned
  <1> QED
    BY <1>1, Invariance, PTL

\* fmmod_destroy runs to completion once, unless a termination signal and
\* JACK's shutdown meet.
THEOREM SingleTeardown == Spec => []TeardownOnce
  <1>1. IInv => TeardownOnce
    BY DEF IInv, TypeOK, MainInv, CountInv, Rank, TeardownOnce
  <1> QED
    BY <1>1, Invariance, PTL
----------------------------------------------------------------------------
(* Liveness, under the fairness of FairSpec. What enables the fair actions is a
   hypothesis, CanMove: ENABLED is beyond the provers. *)

\* The processing thread is at p after active was cleared.
Ending(p) == status = "running" /\ ~active /\ proc = p

\* Its loop has ended, or the process has.
Over == proc = "ended" \/ status # "running"

\* Fairness of fmmod_destroy and what it rests on, for each of its two callers.
LEMMA FairDestroyers ==
  /\ (\A d \in Destroyers : DestroyFair(d)) => DestroyFair("main") /\ DestroyFair("jack")
  /\ (\A d \in Destroyers : DestroyCan(d)) => DestroyCan("main") /\ DestroyCan("jack")
  BY Zenon

\* Once active is cleared nobody sets it again, and the processing thread never
\* comes back to pthread_cond_wait: from the end of its loop or from its wakeup
\* it leaves, and from within fmmod_process it gets to the end of its loop.
LEMMA EndingStep ==
  ASSUME IInv, [Next]_vars, ~active, status' = "running"
  PROVE  /\ ~active'
         /\ \/ proc' = proc
            \/ proc = "wait" /\ proc' = "woken"
            \/ proc = "lock" /\ proc' = "wait"
            \/ proc \in {"loop", "woken"} /\ proc' = "ended"
            \/ proc = "start" /\ proc' \in {"loop", "upsample"}
            \/ proc = "upsample" /\ proc' \in {"loop", "generate"}
            \/ proc = "generate" /\ proc' = "downsample"
            \/ proc = "downsample" /\ proc' \in {"loop", "send"}
            \/ proc = "send" /\ proc' = "loop"
  <1>1. CASE Signal \/ JackShutdown \/ CbSkip \/ MainThread
    BY <1>1, SMT DEF Signal, JackShutdown, CbSkip, MainThread, MainLoop, MainCheck,
                MainExit, Deactivate
  <1>2. CASE Callback
    BY <1>2, SMT DEF Callback, CbBegin, CbFill, CbTrigger, WakeProc
  <1>3. CASE Process \/ ProcSpuriousWakeup
    BY <1>3, SMT DEF Process, ProcLoop, ProcWait, ProcWake, ProcSkip, ProcStart,
                  ProcUpsample, ProcGenerate, ProcDownsample, ProcSend, ProcReturn,
                  ProcSpuriousWakeup
  <1>4. ASSUME NEW d \in Destroyers, Destroy(d)
        PROVE  ~active' /\ (proc' = proc \/ (proc = "wait" /\ proc' = "woken"))
    BY <1>4, SMT DEF Destroy, ClearActive, Flush, Release, WakeProc
  <1>5. CASE UNCHANGED vars
    BY <1>5, Zenon DEF vars
  <1> QED
    BY <1>1, <1>2, <1>3, <1>4, <1>5, Zenon DEF Next

\* A step of the processing thread itself moves it.
LEMMA ProcessMoves == ASSUME Process PROVE proc' # proc
  BY Zenon DEF Process, ProcLoop, ProcWait, ProcWake, ProcSkip, ProcStart, ProcUpsample,
               ProcGenerate, ProcDownsample, ProcSend, ProcReturn

\* After active was cleared the processing thread stays where it is or goes on
\* towards the end of its loop; a step of its own takes it on.
LEMMA EndingOn ==
  ASSUME IInv, [Next]_vars
  PROVE  /\ Ending("loop") => Ending("loop")' \/ Over'
         /\ Ending("woken") => Ending("woken")' \/ Over'
         /\ Ending("send") => Ending("send")' \/ Ending("loop")' \/ Over'
         /\ Ending("downsample") =>
              Ending("downsample")' \/ Ending("send")' \/ Ending("loop")' \/ Over'
         /\ Ending("generate") => Ending("generate")' \/ Ending("downsample")' \/ Over'
         /\ Ending("upsample") =>
              Ending("upsample")' \/ Ending("generate")' \/ Ending("loop")' \/ Over'
         /\ Ending("start") =>
              Ending("start")' \/ Ending("upsample")' \/ Ending("loop")' \/ Over'
  BY EndingStep DEF Ending, Over

\* Each step of the processing thread brings it closer to its end.
LEMMA EndingMoves ==
  ASSUME IInv, [Next]_vars, <<status = "running" /\ Process>>_vars
  PROVE  /\ Ending("loop") => Over'
         /\ Ending("woken") => Over'
         /\ Ending("send") => Ending("loop")' \/ Over'
         /\ Ending("downsample") => Ending("send")' \/ Ending("loop")' \/ Over'
         /\ Ending("generate") => Ending("downsample")' \/ Over'
         /\ Ending("upsample") => Ending("generate")' \/ Ending("loop")' \/ Over'
         /\ Ending("start") => Ending("upsample")' \/ Ending("loop")' \/ Over'
  BY EndingStep, ProcessMoves DEF Ending, Over

\* At none of these places it has to wait for a mutex.
LEMMA EndingReady ==
  ASSUME IInv,
         NEW p \in {"loop", "woken", "send", "downsample", "generate", "upsample", "start"},
         Ending(p)
  PROVE  status = "running" /\ ProcReady
  BY Zenon DEF IInv, LockInv, Ending, ProcReady

\* With active cleared, the loop of the processing thread ends, wherever it is
\* in it: fmmod_process returns on each of its paths and active is read again.
THEOREM LoopEnds ==
  FairSpec /\ []CanMove =>
    (status = "running" /\ ~active /\ proc \in Processing \cup {"loop", "woken"} ~> Over)
  <1> DEFINE A == <<status = "running" /\ Process>>_vars
             B == Ending("start") \/ Ending("upsample") \/ Ending("generate")
                  \/ Ending("downsample") \/ Ending("send") \/ Ending("loop")
                  \/ Ending("woken")
  <1>1. status = "running" /\ ~active /\ proc \in Processing \cup {"loop", "woken"} => B
    BY Zenon DEF Ending
  <1>2. IInv /\ B => status = "running" /\ ProcReady
    BY EndingReady, Zenon
  <1> QED
    BY <1>1, <1>2, EndingOn, EndingMoves, Invariance, PTL
       DEF Spec, FairSpec, Fairness, CanMove

\* The processing thread waits, and d is about to trigger it.
Awaited(d) ==
  status = "running" /\ ~active /\ proc = "wait" /\ teardown[d] = "flush"

\* A waiting thread is there for the trigger of d, unless the other caller's or
\* a spurious wakeup comes first; the trigger itself, for which proc_mutex is
\* free, wakes it.
LEMMA AwaitedStep ==
  ASSUME IInv, [Next]_vars, NEW d \in Destroyers, Awaited(d)
  PROVE  /\ Awaited(d)' \/ Ending("woken")' \/ Over'
         /\ <<status = "running" /\ ~Blocked(d) /\ Destroy(d)>>_vars => Ending("woken")'
         /\ status = "running" /\ DestroyReady(d)
  <1>1. Awaited(d)' \/ Ending("woken")' \/ Over'
    <2> SUFFICES ASSUME status' = "running"
                 PROVE  Awaited(d)' \/ Ending("woken")'
      BY Zenon DEF Over
    <2>1. ~active' /\ proc' \in {"wait", "woken"}
      BY EndingStep DEF Awaited
    <2>2. proc' = "wait" => teardown'[d] = "flush"
      <3> USE DEF Awaited, IInv, TypeOK
      <3>1. CASE UNCHANGED teardown
        BY <3>1
      <3>2. CASE JackShutdown
        BY <3>2, SMT DEF JackShutdown, TeardownInv
      <3>3. CASE MainThread
        BY <3>3, SMT DEF MainThread, MainLoop, MainCheck, MainExit, Deactivate
      <3>4. ASSUME NEW e \in Destroyers, Destroy(e)
            PROVE  proc' = "wait" => teardown'[d] = "flush"
        BY <3>4, SMT DEF Destroy, ClearActive, Flush, Release, WakeProc
      <3> QED
        BY <3>1, <3>2, <3>3, <3>4, Zenon
           DEF Next, vars, Signal, CbSkip, Callback, CbBegin, CbFill, CbTrigger, Process,
               ProcLoop, ProcWait, ProcWake, ProcSkip, ProcStart, ProcUpsample,
               ProcGenerate, ProcDownsample, ProcSend, ProcSpuriousWakeup
    <2> QED
      BY <2>1, <2>2, Zenon DEF Awaited, Ending
  <1>2. ASSUME status = "running", Destroy(d) PROVE Ending("woken")'
    BY <1>2, SMT DEF Destroy, ClearActive, Flush, Release, WakeProc, Awaited, Ending
  <1>3. status = "running" /\ DestroyReady(d)
    BY Zenon DEF IInv, LockInv, Awaited, DestroyReady
  <1> QED
    BY <1>1, <1>2, <1>3, Zenon

\* "Let the process thread run for one last time": fmmod_destroy's one trigger
\* ends the loop of the processing thread, unless that is between its test of
\* active and pthread_cond_wait.
THEOREM LastRunHappens == FairSpec /\ []CanMove => LastRun
  <1> DEFINE P == (\E d \in Destroyers : teardown[d] = "flush") /\ proc # "lock"
             Q == status = "running" /\ ~active /\ proc \in Processing \cup {"loop", "woken"}
  <1>1. IInv /\ P => Over \/ Q \/ Awaited("main") \/ Awaited("jack")
    BY Zenon DEF IInv, TypeOK, TeardownInv, Over, Awaited
  <1>2. Ending("woken") => Q
    BY Zenon DEF Ending
  <1>3. IInv /\ [Next]_vars /\ Awaited("main") =>
          /\ Awaited("main")' \/ Ending("woken")' \/ Over'
          /\ <<status = "running" /\ ~Blocked("main") /\ Destroy("main")>>_vars
               => Ending("woken")'
          /\ status = "running" /\ DestroyReady("main")
    BY AwaitedStep, Zenon
  <1>4. IInv /\ [Next]_vars /\ Awaited("jack") =>
          /\ Awaited("jack")' \/ Ending("woken")' \/ Over'
          /\ <<status = "running" /\ ~Blocked("jack") /\ Destroy("jack")>>_vars
               => Ending("woken")'
          /\ status = "running" /\ DestroyReady("jack")
    BY AwaitedStep, Zenon
  <1>5. P ~> Over => LastRun
    BY PTL DEF LastRun, Over
  <1> QED
    BY <1>1, <1>2, <1>3, <1>4, <1>5, FairDestroyers, LoopEnds, Invariance, PTL
       DEF Spec, FairSpec, Fairness, CanMove, DestroyFair, DestroyCan

\* JACK stops calling only on the way to clearing active.
ClientInv ==
  active /\ client # "activated" => \E d \in Destroyers : teardown[d] = "clear"

\* JACK dropping the client makes its shutdown callback a caller of fmmod_destroy.
LEMMA ClientInvariance == Spec => []ClientInv
  <1>1. Init => ClientInv
    BY Zenon DEF Init, ClientInv
  <1>2. ASSUME IInv, ClientInv, [Next]_vars PROVE ClientInv'
    <2> USE <1>2 DEF IInv, TypeOK, ClientInv
    <2>1. CASE UNCHANGED <<active, client, teardown>>
      BY <2>1, Zenon
    <2>2. CASE JackShutdown
      BY <2>2, SMT DEF JackShutdown
    <2>3. CASE MainThread
      <3>1. CASE MainCheck
        BY <3>1, SMT DEF MainCheck, MainInv
      <3>2. CASE Deactivate
        BY <3>2, SMT DEF Deactivate
      <3> QED
        BY <2>1, <2>3, <3>1, <3>2, Zenon DEF MainThread, MainLoop, MainExit
    <2>4. ASSUME NEW d \in Destroyers, Destroy(d) PROVE ~active'
      BY <2>4, Zenon DEF Destroy, ClearActive, Flush, Release, TeardownInv
    <2> QED
      BY <2>1, <2>2, <2>3, <2>4, Zenon
         DEF Next, vars, Signal, CbSkip, Callback, CbBegin, CbFill, CbTrigger, Process,
             ProcLoop, ProcWait, ProcWake, ProcSkip, ProcStart, ProcUpsample,
             ProcGenerate, ProcDownsample, ProcSend, ProcSpuriousWakeup
  <1> QED
    BY <1>1, <1>2, Invariance, PTL DEF Spec

\* The processing thread waits for a trigger while JACK's callback is at p, or
\* while d is about to clear active; it has been woken; it is heard of.
Waiting(p) ==
  status = "running" /\ active /\ proc = "wait" /\ client = "activated" /\ cb = p
Doomed(d) ==
  status = "running" /\ active /\ proc = "wait" /\ teardown[d] = "clear"
Woken == status = "running" /\ active /\ proc = "woken"
Heard == proc \in Processing \/ ~active \/ status # "running"

\* While the thread waits, a step leaves it waiting or woken, unless it clears
\* active.
LEMMA WaitingStep ==
  ASSUME IInv, [Next]_vars, active, proc = "wait", status' = "running", active'
  PROVE  /\ proc' \in {"wait", "woken"}
         /\ \/ cb' = cb
            \/ cb = "idle" /\ cb' = "fill"
            \/ cb = "fill" /\ cb' = "trigger"
            \/ cb = "trigger" /\ proc' = "woken"
         /\ \/ client' = client
            \/ cb = "idle" /\ \E d \in Destroyers : teardown'[d] = "clear"
         /\ \A d \in Destroyers : teardown[d] = "clear" => teardown'[d] = "clear"
  <1> USE DEF IInv, TypeOK
  <1>1. CASE Signal \/ CbSkip \/ UNCHANGED vars
    BY <1>1, SMT DEF Signal, CbSkip, vars
  <1>2. CASE JackShutdown
    BY <1>2, SMT DEF JackShutdown
  <1>3. CASE Callback
    BY <1>3, SMT DEF Callback, CbBegin, CbFill, CbTrigger, WakeProc
  <1>4. CASE Process \/ ProcSpuriousWakeup
    BY <1>4, SMT DEF Process, ProcLoop, ProcWait, ProcWake, ProcSkip, ProcStart,
                     ProcUpsample, ProcGenerate, ProcDownsample, ProcSend, ProcReturn,
                     ProcSpuriousWakeup
  <1>5. CASE MainThread
    BY <1>5, SMT DEF MainThread, MainLoop, MainCheck, MainExit, Deactivate, MainInv
  <1>6. ASSUME NEW d \in Destroyers, Destroy(d)
        PROVE  /\ proc' \in {"wait", "woken"} /\ cb' = cb /\ client' = client
               /\ \A e \in Destroyers : teardown[e] = "clear" => teardown'[e] = "clear"
    BY <1>6, SMT DEF Destroy, ClearActive, Flush, Release, WakeProc, TeardownInv
  <1> QED
    BY <1>1, <1>2, <1>3, <1>4, <1>5, <1>6, Zenon DEF Next

\* The next callback that finds inbuf_mutex free, as it is while the thread
\* waits, triggers it, unless JACK stops calling first and active is cleared.
LEMMA WaitingOn ==
  ASSUME IInv, ClientInv, [Next]_vars
  PROVE  /\ Waiting("idle") =>
              Waiting("idle")' \/ Waiting("fill")' \/ Doomed("main")' \/ Doomed("jack")'
              \/ Woken' \/ Heard'
         /\ Waiting("fill") => Waiting("fill")' \/ Waiting("trigger")' \/ Woken' \/ Heard'
         /\ Waiting("trigger") => Waiting("trigger")' \/ Woken' \/ Heard'
         /\ \A d \in Destroyers : Doomed(d) => Doomed(d)' \/ Woken' \/ Heard'
         /\ Woken => Woken' \/ Heard'
  <1> SUFFICES ASSUME status = "running", active, proc \in {"wait", "woken"},
                      status' = "running", active'
               PROVE  /\ Waiting("idle") =>
                           Waiting("idle")' \/ Waiting("fill")' \/ Doomed("main")'
                           \/ Doomed("jack")' \/ Woken'
                      /\ Waiting("fill") => Waiting("fill")' \/ Waiting("trigger")' \/ Woken'
                      /\ Waiting("trigger") => Waiting("trigger")' \/ Woken'
                      /\ \A d \in Destroyers : Doomed(d) => Doomed(d)' \/ Woken'
                      /\ Woken => Woken' \/ Heard'
    BY Zenon DEF Waiting, Doomed, Woken, Heard
  <1>1. CASE proc = "wait"
    BY <1>1, WaitingStep DEF Waiting, Doomed, Woken
  <1>2. ASSUME proc = "woken" PROVE Woken' \/ Heard'
    <2>1. CASE Process
      BY <1>2, <2>1, SMT
         DEF Heard, Process, ProcLoop, ProcWait, ProcWake, ProcSkip, ProcStart, ProcUpsample,
             ProcGenerate, ProcDownsample, ProcSend
    <2>2. CASE proc' = proc
      BY <1>2, <2>2, Zenon DEF Woken
    <2> QED
      BY <1>2, <2>1, <2>2
         DEF Next, vars, Signal, JackShutdown, CbSkip, Callback, CbBegin, CbFill, CbTrigger,
             WakeProc, ProcSpuriousWakeup, MainThread, MainLoop, MainCheck, MainExit,
             Deactivate, Destroy, ClearActive, Flush, Release
  <1> QED
    BY <1>1, <1>2, Zenon DEF Waiting, Doomed, Woken

\* The callback's steps lead to its trigger, which wakes the waiting thread.
LEMMA WaitingMoves ==
  ASSUME IInv, ClientInv, [Next]_vars
  PROVE  /\ <<status = "running" /\ Callback>>_vars =>
              /\ Waiting("idle") => Waiting("fill")'
              /\ Waiting("fill") => Waiting("trigger")'
              /\ Waiting("trigger") => Woken'
         /\ \A d \in Destroyers :
              Doomed(d) /\ status = "running" /\ ~Blocked(d) /\ Destroy(d) => Heard'
         /\ <<status = "running" /\ Process>>_vars => (Woken => Heard')
  BY DEF IInv, TypeOK, Callback, CbBegin, CbFill, CbTrigger, WakeProc, Waiting, Doomed, Woken,
         Heard, Destroy, ClearActive, Flush, Release, Process, ProcLoop, ProcWait, ProcWake,
         ProcSkip, ProcStart, ProcUpsample, ProcGenerate, ProcDownsample, ProcSend

\* None of these threads has to wait meanwhile.
LEMMA WaitingReady ==
  ASSUME IInv
  PROVE  /\ Waiting("idle") \/ Waiting("fill") \/ Waiting("trigger") =>
              status = "running" /\ CbReady
         /\ \A d \in Destroyers : Doomed(d) => status = "running" /\ DestroyReady(d)
         /\ Woken => status = "running" /\ ProcReady
  BY DEF IInv, LockInv, Waiting, Doomed, Woken, CbReady, ProcReady, DestroyReady, Blocked

\* The trigger of fmmod_process_cb is sent without proc_mutex and may be lost,
\* yet a thread that waits for it is woken by a later one while fmmod is active.
THEOREM TriggerHeard == FairSpec /\ []CanMove => TriggerIsHeard
  <1>1. IInv /\ ClientInv /\ proc = "wait" /\ active =>
          \/ Waiting("idle") \/ Waiting("fill") \/ Waiting("trigger")
          \/ Doomed("main") \/ Doomed("jack") \/ Heard
    BY Zenon DEF IInv, TypeOK, ClientInv, Waiting, Doomed, Heard
  <1>2. IInv /\ ClientInv /\ [Next]_vars =>
          /\ Doomed("main") => Doomed("main")' \/ Woken' \/ Heard'
          /\ Doomed("jack") => Doomed("jack")' \/ Woken' \/ Heard'
          /\ <<status = "running" /\ ~Blocked("main") /\ Destroy("main")>>_vars
               => (Doomed("main") => Heard')
          /\ <<status = "running" /\ ~Blocked("jack") /\ Destroy("jack")>>_vars
               => (Doomed("jack") => Heard')
          /\ Doomed("main") => status = "running" /\ DestroyReady("main")
          /\ Doomed("jack") => status = "running" /\ DestroyReady("jack")
    BY WaitingOn, WaitingMoves, WaitingReady, Zenon
  <1>3. IInv /\ ClientInv /\ [Next]_vars =>
          /\ Waiting("idle") =>
               Waiting("idle")' \/ Waiting("fill")' \/ Doomed("main")' \/ Doomed("jack")'
               \/ Woken' \/ Heard'
          /\ Waiting("fill") => Waiting("fill")' \/ Waiting("trigger")' \/ Woken' \/ Heard'
          /\ Waiting("trigger") => Waiting("trigger")' \/ Woken' \/ Heard'
          /\ Woken => Woken' \/ Heard'
          /\ <<status = "running" /\ Callback>>_vars =>
               /\ Waiting("idle") => Waiting("fill")'
               /\ Waiting("fill") => Waiting("trigger")'
               /\ Waiting("trigger") => Woken'
          /\ <<status = "running" /\ Process>>_vars => (Woken => Heard')
          /\ Waiting("idle") \/ Waiting("fill") \/ Waiting("trigger") =>
               status = "running" /\ CbReady
          /\ Woken => status = "running" /\ ProcReady
    BY WaitingOn, WaitingMoves, WaitingReady, Zenon
  <1> QED
    BY <1>1, <1>2, <1>3, FairDestroyers, ClientInvariance, Invariance, PTL
       DEF Spec, FairSpec, Fairness, CanMove, DestroyFair, DestroyCan, TriggerIsHeard, Heard
============================================================================
