------------------------------ MODULE Lifecycle ------------------------------
(***************************************************************************)
(* The life of a jmpxrds process: fmmod_initialize with every step that    *)
(* can fail and what each failing step cleans up itself, the handlers of   *)
(* main.c, fmmod_destroy run by main or by JACK's shutdown callback, and   *)
(* the ends a process can come to.  What outlives a process is modelled    *)
(* with it: the three named shared memory segments of utils.c and the      *)
(* fifo.  Several processes run, one after another or at the same time.    *)
(***************************************************************************)
EXTENDS Naturals, FiniteSets

CONSTANTS
    Procs,      \* processes; one may be started again after it ended
    Nobody      \* not a process

ASSUME NobodyAssumption == Nobody \notin Procs

VARIABLES
    at,         \* where the main thread of a process is
    jk,         \* where the shutdown callback is in fmmod_destroy
    sig,        \* what a termination signal meets: "default" action, "active", "inactive"
    live,       \* fmmod->active
    held,       \* what was acquired and not released
    dangling,   \* what was released with its pointer left in place
    twice,      \* what was released a second time
    owner,      \* who created the segment a name stands for
    left,       \* how the creator of a linked segment ended: "none", "orderly", "abrupt"
    fifo        \* the fifo's name exists

vars == <<at, jk, sig, live, held, dangling, twice, owner, left, fifo>>

Segs == {"rds", "rtp", "ctl"}
Jack == {"client", "inL", "inR"}
Filters == {"lpf_l", "lpf_r", "ssb_lpf", "ht"}
Resources == Jack \cup Filters \cup {"buffers", "locks", "rsmpl"} \cup Segs

\* The order of fmmod_initialize, then main's.
InitAfter ==
    [connect |-> "rate", rate |-> "buffers", buffers |-> "rsmpl", rsmpl |-> "flts",
     flts |-> "rds", rds |-> "outsock", outsock |-> "rtp", rtp |-> "ctl",
     ctl |-> "thread", thread |-> "activate", activate |-> "handlers"]

\* The order of fmmod_destroy.
DestroyAfter ==
    [d_ctl |-> "d_rds", d_rds |-> "d_rtp", d_rtp |-> "d_rsmpl", d_rsmpl |-> "d_flts",
     d_flts |-> "d_locks", d_locks |-> "d_buffers", d_buffers |-> "d_outsock",
     d_outsock |-> "end"]

InitSteps == DOMAIN InitAfter
DestroySteps == DOMAIN DestroyAfter

Init ==
    /\ at = [p \in Procs |-> "off"]
    /\ jk = [p \in Procs |-> "idle"]
    /\ sig = [p \in Procs |-> "default"]
    /\ live = [p \in Procs |-> FALSE]
    /\ held = [p \in Procs |-> {}]
    /\ dangling = [p \in Procs |-> {}]
    /\ twice = [p \in Procs |-> {}]
    /\ owner = [s \in Segs |-> Nobody]
    /\ left = [s \in Segs |-> "none"]
    /\ fifo = FALSE

-----------------------------------------------------------------------------
Goto(p, s) == at' = [at EXCEPT ![p] = s]

\* Every failing step of fmmod_initialize goes to its cleanup: fmmod_destroy(fmmod, 0).
Fail(p) == Goto(p, "d_client")

\* shm_unlink removes the name, whoever created the segment.
Unlink(S) ==
    /\ owner' = [s \in Segs |-> IF s \in S THEN Nobody ELSE owner[s]]
    /\ left' = [s \in Segs |-> IF s \in S THEN "none" ELSE left[s]]

\* The process is gone, with its memory, its threads and its JACK client.
Gone(p) ==
    /\ at' = [at EXCEPT ![p] = "off"]
    /\ jk' = [jk EXCEPT ![p] = "idle"]
    /\ sig' = [sig EXCEPT ![p] = "default"]
    /\ live' = [live EXCEPT ![p] = FALSE]
    /\ held' = [held EXCEPT ![p] = {}]
    /\ dangling' = [dangling EXCEPT ![p] = {}]
    /\ twice' = [twice EXCEPT ![p] = {}]
    /\ UNCHANGED fifo

\* It ends; the segments it created and did not unlink stay, but for gone.
End(p, how, gone) ==
    /\ Gone(p)
    /\ owner' = [s \in Segs |-> IF s \in gone THEN Nobody ELSE owner[s]]
    /\ left' = [s \in Segs |-> IF s \in gone THEN "none"
                               ELSE IF owner[s] = p /\ left[s] = "none" THEN how
                               ELSE left[s]]

\* Releases that leave the pointers in place: a second one frees again.
Release(p, R) ==
    /\ held' = [held EXCEPT ![p] = @ \ R]
    /\ dangling' = [dangling EXCEPT ![p] = @ \cup (R \cap held[p])]
    /\ twice' = [twice EXCEPT ![p] = @ \cup (R \cap dangling[p])]

\* A step of fmmod_initialize acquires R.
Acquire(p, s, R) ==
    /\ at[p] = s
    /\ Goto(p, InitAfter[s])
    /\ held' = [held EXCEPT ![p] = @ \cup R]
    /\ UNCHANGED <<jk, sig, live, dangling, twice, owner, left, fifo>>

\* A step fails after it released R itself: it keeps K of what is there by now.
FailAfter(p, s, K, R) ==
    /\ at[p] = s
    /\ Fail(p)
    /\ held' = [held EXCEPT ![p] = (@ \cup K) \ R]
    /\ dangling' = [dangling EXCEPT ![p] = @ \cup R]
    /\ UNCHANGED <<jk, sig, live, twice, owner, left, fifo>>

-----------------------------------------------------------------------------
(* fmmod_initialize *)

\* main starts; fmmod_initialize clears the whole structure.
Start(p) ==
    /\ at[p] = "off"
    /\ Goto(p, "connect")
    /\ UNCHANGED <<jk, sig, live, held, dangling, twice, owner, left, fifo>>

\* The name of the JACK client is taken by another process that JACK has not dropped.
NameTaken(p) == \E q \in Procs \ {p} : "client" \in held[q] /\ jk[q] = "idle"

\* Variant: the name is not looked at.
ConnectAnyway(p) == Acquire(p, "connect", Jack)

Connect(p) == ~NameTaken(p) /\ Acquire(p, "connect", Jack)

\* No client; a client under another name, which is closed; a port that cannot be registered.
ConnectFails(p) ==
    \/ FailAfter(p, "connect", {}, {})
    \/ FailAfter(p, "connect", {}, {"client"})
    \/ ~NameTaken(p) /\ FailAfter(p, "connect", {}, {"client", "inL"})

Rate(p) == Acquire(p, "rate", {}) \/ FailAfter(p, "rate", {}, {})

\* The first allocation fails, or a later one and the buffers so far are freed.
InitBuffers(p) ==
    \/ Acquire(p, "buffers", {"buffers", "locks"})
    \/ \E R \in {{}, {"buffers"}} : FailAfter(p, "buffers", {}, R)

\* Variant: the buffers are freed as well.
InitResamplerFreesBuffers(p) ==
    \/ Acquire(p, "rsmpl", {"rsmpl"})
    \/ \E R \in {{}, {"rsmpl", "buffers"}} : FailAfter(p, "rsmpl", {}, R)

\* The first resampler fails, or a later one and resampler_destroy deletes those so far.
InitResampler(p) ==
    \/ Acquire(p, "rsmpl", {"rsmpl"})
    \/ \E R \in {{}, {"rsmpl"}} : FailAfter(p, "rsmpl", {}, R)

\* A filter that fails has nothing yet, or frees what it has: the pointers stay.
LpfFails(lpf) == {{}, {lpf}}
HilbertFails == {{}, {"ht"}}

\* The filters in turn; the switch at the end frees those before the one that failed, but
\* for an audio filter's failure.
InitFilters(p) ==
    \/ Acquire(p, "flts", Filters)
    \/ \E own \in LpfFails("lpf_l") : FailAfter(p, "flts", {}, own)
    \/ \E own \in LpfFails("lpf_r") : FailAfter(p, "flts", {"lpf_l"}, own)
    \/ \E own \in LpfFails("ssb_lpf") : FailAfter(p, "flts", {}, {"lpf_l", "lpf_r"} \cup own)
    \/ \E own \in HilbertFails : FailAfter(p, "flts", {}, (Filters \ {"ht"}) \cup own)

\* utils_shm_init creates the segment, exclusively, and maps it.
ShmInit(p, s) ==
    /\ at[p] = s
    /\ owner[s] = Nobody
    /\ Goto(p, InitAfter[s])
    /\ held' = [held EXCEPT ![p] = @ \cup {s}]
    /\ owner' = [owner EXCEPT ![s] = p]
    /\ UNCHANGED <<jk, sig, dangling, twice, left, fifo>>

\* The initialisations around the three segments; after the last one the modulator is active.
InitSegment(p) ==
    \E s \in Segs : ShmInit(p, s) /\ live' = [live EXCEPT ![p] = (s = "ctl")]

\* No segment (it exists, or it could not be opened or mapped), or a later failure
\* whose cleanup removes the segment again and returns.
SegmentFails(p) == \E s \in Segs : FailAfter(p, s, {}, {})

\* A failure whose cleanup removes the segment and then raises SIGTERM, before main has
\* its handlers.
Raises(p, s) == at[p] = s /\ owner[s] = Nobody /\ End(p, "abrupt", {})

\* The thread of the encoder cannot be created.
EncoderRaises(p) == Raises(p, "rds")

\* Any step of the RTP server after gst_init but its last one.
ServerRaises(p) == Raises(p, "rtp")

\* ftruncate fails in utils_shm_init: a mapping without memory is returned, and the
\* caller writes through the null pointer.
SegmentCrashes(p) ==
    \E s \in Segs :
        /\ at[p] = s
        /\ owner[s] = Nobody
        /\ Gone(p)
        /\ owner' = [owner EXCEPT ![s] = p]
        /\ left' = [t \in Segs |-> IF t = s THEN "abrupt"
                                   ELSE IF owner[t] = p /\ left[t] = "none" THEN "abrupt"
                                   ELSE left[t]]

\* The same in rds_encoder_init, but no memory for the waveforms either: the cleanup
\* passes over a mapping without memory and leaves the name.
SegmentStays(p) ==
    /\ at[p] = "rds"
    /\ owner["rds"] = Nobody
    /\ Fail(p)
    /\ owner' = [owner EXCEPT !["rds"] = p]
    /\ left' = [left EXCEPT !["rds"] = "abrupt"]
    /\ UNCHANGED <<jk, sig, live, held, dangling, twice, fifo>>

\* mkfifo; a fifo that is there already is taken over.
InitOutsock(p) ==
    /\ at[p] = "outsock"
    /\ \/ Goto(p, "rtp") /\ fifo' = TRUE
       \/ Fail(p) /\ ~fifo /\ UNCHANGED fifo
    /\ UNCHANGED <<jk, sig, live, held, dangling, twice, owner, left>>

\* The processing thread; without it fmmod_initialize returns past its cleanup and
\* main exits.
InitThread(p) ==
    \/ Acquire(p, "thread", {})
    \/ at[p] = "thread" /\ End(p, "abrupt", {})

Activate(p) == Acquire(p, "activate", {}) \/ FailAfter(p, "activate", {}, {})

\* main: active = 1 and the handlers.
Handlers(p) ==
    /\ at[p] = "handlers"
    /\ Goto(p, "running")
    /\ sig' = [sig EXCEPT ![p] = "active"]
    /\ UNCHANGED <<jk, live, held, dangling, twice, owner, left, fifo>>

-----------------------------------------------------------------------------
(* main's loop and fmmod_destroy *)

\* The loop ends when one of the flags is seen cleared.
Leave(p) ==
    /\ at[p] = "running"
    /\ sig[p] = "inactive" \/ ~live[p]
    /\ Goto(p, "leaving")
    /\ UNCHANGED <<jk, sig, live, held, dangling, twice, owner, left, fifo>>

\* Then fmmod->active is read again.
Decide(p) ==
    /\ at[p] = "leaving"
    /\ Goto(p, IF live[p] THEN "d_client" ELSE "end")
    /\ UNCHANGED <<jk, sig, live, held, dangling, twice, owner, left, fifo>>

\* fmmod_destroy(fmmod, 0) leaves JACK and clears the flag.
DestroyClient(p) ==
    /\ at[p] = "d_client"
    /\ Goto(p, "d_ctl")
    /\ live' = [live EXCEPT ![p] = FALSE]
    /\ Release(p, Jack)
    /\ UNCHANGED <<jk, sig, owner, left, fifo>>

\* JACK drops an activated client: fmmod_destroy(fmmod, 1) begins with the flag.
JackShutdown(p) ==
    /\ at[p] \in {"handlers", "running", "leaving", "d_client"}
    /\ sig[p] = "default" => at[p] = "handlers"
    /\ jk[p] = "idle"
    /\ jk' = [jk EXCEPT ![p] = "d_ctl"]
    /\ live' = [live EXCEPT ![p] = FALSE]
    /\ UNCHANGED <<at, sig, held, dangling, twice, owner, left, fifo>>

\* Variant: the name is not removed.
DestroySegmentKept(p, s) ==
    /\ IF s = "ctl" THEN Release(p, {s})
       ELSE held' = [held EXCEPT ![p] = @ \ {s}] /\ UNCHANGED <<dangling, twice>>
    /\ Unlink({s} \cap dangling[p])
    /\ UNCHANGED fifo

\* Variant: the name is removed in any case.
DestroySegmentAlways(p, s) ==
    /\ IF s = "ctl" THEN Release(p, {s})
       ELSE held' = [held EXCEPT ![p] = @ \ {s}] /\ UNCHANGED <<dangling, twice>>
    /\ Unlink({s})
    /\ UNCHANGED fifo

\* The control segment, whose pointer stays; the encoder's and the RTP server's, whose
\* pointers are reset; a segment that is not mapped is passed over.
DestroySegment(p, s) ==
    /\ IF s = "ctl" THEN Release(p, {s})
       ELSE held' = [held EXCEPT ![p] = @ \ {s}] /\ UNCHANGED <<dangling, twice>>
    /\ Unlink({s} \cap (held[p] \cup dangling[p]))
    /\ UNCHANGED fifo

DestroyMemory(p, R) == Release(p, R) /\ UNCHANGED <<owner, left, fifo>>

\* The fifo is removed, whoever created it.
DestroyOutsock == fifo' = FALSE /\ UNCHANGED <<held, dangling, twice, owner, left>>

DestroyStep(p, d) ==
    \/ d = "d_ctl" /\ DestroySegment(p, "ctl")
    \/ d = "d_rds" /\ DestroySegment(p, "rds")
    \/ d = "d_rtp" /\ DestroySegment(p, "rtp")
    \/ d = "d_rsmpl" /\ DestroyMemory(p, {"rsmpl"})
    \/ d = "d_flts" /\ DestroyMemory(p, Filters)
    \/ d = "d_locks" /\ DestroyMemory(p, {"locks"})
    \/ d = "d_buffers" /\ DestroyMemory(p, {"buffers"})
    \/ d = "d_outsock" /\ DestroyOutsock

MainDestroys(p) ==
    /\ at[p] \in DestroySteps
    /\ DestroyStep(p, at[p])
    /\ Goto(p, DestroyAfter[at[p]])
    /\ UNCHANGED <<jk, sig, live>>

JackDestroys(p) ==
    /\ at[p] # "off"
    /\ jk[p] \in DestroySteps
    /\ DestroyStep(p, jk[p])
    /\ jk' = [jk EXCEPT ![p] = DestroyAfter[jk[p]]]
    /\ UNCHANGED <<at, sig, live>>

\* exit, also in the middle of the callback's fmmod_destroy.
Exit(p) ==
    /\ at[p] = "end"
    /\ End(p, IF jk[p] \in DestroySteps THEN "abrupt" ELSE "orderly", {})

-----------------------------------------------------------------------------
(* Signals and crashes *)

\* The handler of SIGINT, SIGTERM and the like: the first one clears active, the next
\* one removes all names and kills.  Before the handlers the default action kills.
Terminate(p, gone) ==
    \/ sig[p] = "default" /\ End(p, "abrupt", gone)
    \/ /\ sig[p] = "active"
       /\ sig' = [sig EXCEPT ![p] = "inactive"]
       /\ Unlink(gone)
       /\ held' = [held EXCEPT ![p] = @ \ gone]
       /\ UNCHANGED <<at, jk, live, dangling, twice, fifo>>
    \/ sig[p] = "inactive" /\ End(p, "orderly", Segs)

Signal(p) == at[p] # "off" /\ Terminate(p, {})

\* The encoder or the RTP server fails, removes its segment and raises SIGTERM.
ComponentFails(p) ==
    /\ at[p] \in InitSteps \cup {"handlers", "running", "leaving"}
    /\ \E s \in {"rds", "rtp"} \cap held[p] : Terminate(p, {s})

\* SIGSEGV and SIGABRT, the latter also from a second free: all names are removed, but
\* not before the handlers are in place.
Fault(p) ==
    /\ at[p] # "off"
    /\ \/ sig[p] = "default" /\ End(p, "abrupt", {})
       \/ sig[p] # "default" /\ End(p, "orderly", Segs)

\* SIGKILL from outside.
Kill(p) == at[p] # "off" /\ End(p, "abrupt", {})

\* A tool attaches to a segment, and cannot map it: it removes the name.
AttachFails ==
    /\ \E s \in Segs : owner[s] # Nobody /\ Unlink({s})
    /\ UNCHANGED <<at, jk, sig, live, held, dangling, twice, fifo>>

Initialize(p) ==
    \/ Start(p) \/ Connect(p) \/ ConnectFails(p) \/ Rate(p) \/ InitBuffers(p)
    \/ InitResampler(p) \/ InitFilters(p) \/ InitSegment(p) \/ SegmentFails(p)
    \/ EncoderRaises(p) \/ ServerRaises(p) \/ SegmentCrashes(p) \/ SegmentStays(p)
    \/ InitOutsock(p) \/ InitThread(p) \/ Activate(p) \/ Handlers(p)

Shutdown(p) ==
    \/ Leave(p) \/ Decide(p) \/ DestroyClient(p) \/ JackShutdown(p) \/ MainDestroys(p)
    \/ JackDestroys(p) \/ Exit(p)

Interrupt(p) == Signal(p) \/ ComponentFails(p) \/ Fault(p) \/ Kill(p)

Next ==
    \/ \E p \in Procs : Initialize(p) \/ Shutdown(p) \/ Interrupt(p)
    \/ AttachFails

Spec == Init /\ [][Next]_vars

-----------------------------------------------------------------------------
TypeOK ==
    /\ at \in [Procs -> InitSteps \cup DestroySteps \cup
                        {"off", "handlers", "running", "leaving", "d_client", "end"}]
    /\ jk \in [Procs -> DestroySteps \cup {"idle", "end"}]
    /\ sig \in [Procs -> {"default", "active", "inactive"}]
    /\ live \in [Procs -> BOOLEAN]
    /\ held \in [Procs -> SUBSET Resources]
    /\ dangling \in [Procs -> SUBSET Resources]
    /\ twice \in [Procs -> SUBSET Resources]
    /\ owner \in [Segs -> Procs \cup {Nobody}]
    /\ left \in [Segs -> {"none", "orderly", "abrupt"}]
    /\ fifo \in BOOLEAN

\* A process that ends through fmmod_destroy, after a failed initialisation or on a
\* signal, or through its own handlers, leaves none of its segments linked: the next start
\* does not meet EEXIST on its account.
SegmentsRemoved == \A s \in Segs : left[s] # "orderly"

\* Whichever step of fmmod_initialize fails, what was acquired is released, and once.
\* What a failing step's own cleanup releases is not released again by fmmod_destroy, but
\* for the pieces of one failed step: the client and a port, the buffers, the resamplers,
\* or the filters; after an initialisation that succeeded it takes a signal that meets
\* JACK's shutdown.  When main is about to exit, with no callback in fmmod_destroy,
\* nothing is held any more; a client that JACK dropped is not closed.
ReleasedExactly ==
    \A p \in Procs :
        /\ IF sig[p] = "default"
           THEN \E R \in {{"client", "inL"}, {"buffers"}, {"rsmpl"}, Filters} : twice[p] \subseteq R
           ELSE twice[p] # {} => sig[p] = "inactive" /\ jk[p] # "idle"
        /\ at[p] = "end" /\ jk[p] \notin DestroySteps =>
               held[p] \subseteq IF jk[p] = "idle" THEN {} ELSE Jack

Serving(p) == at[p] = "running" /\ sig[p] = "active" /\ jk[p] = "idle"

\* While a process serves, the name of a segment stands for its own segment or for none:
\* what the tools attach to is never a dead process's segment nor that of another one.
OwnNames == \A p \in Procs : Serving(p) => \A s \in Segs : owner[s] \in {p, Nobody}

\* A process that is started beside a running one, and fails, however it fails, does not
\* take the running one's segments with it, unless it had created one of the same name
\* before, which a tool or a handler removed.
SecondInstance ==
    [][\A p, q \in Procs : \A s \in Segs :
          /\ Serving(p) /\ owner[s] = p
          /\ sig[q] = "default" /\ at[q] # at'[q] /\ s \notin held[q]
          => owner'[s] = p]_vars

=============================================================================
