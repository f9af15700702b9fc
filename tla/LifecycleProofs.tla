--------------------------- MODULE LifecycleProofs ---------------------------
(***************************************************************************)
(* Proofs about Lifecycle, for any number of processes: the segments are   *)
(* removed by whoever ends in order, the names stand for the segments of   *)
(* the process that serves, a second process leaves them alone, and what   *)
(* fmmod_initialize acquired is released, and once but for the known cases.*)
(***************************************************************************)
EXTENDS Lifecycle, TLAPS

\* With a JACK client, and with all segments.
Ready == {"thread", "activate", "handlers", "running", "leaving"}
Joined == Ready \cup {"rate", "buffers", "rsmpl", "flts", "rds", "outsock", "rtp", "ctl"}

\* Past the creation of a segment, in an initialisation that goes on.
Made(s) ==
    IF s = "rds" THEN Ready \cup {"outsock", "rtp", "ctl"}
    ELSE IF s = "rtp" THEN Ready \cup {"ctl"} ELSE Ready

\* Past the removal of a segment in fmmod_destroy.
AfterRtp == {"d_rsmpl", "d_flts", "d_locks", "d_buffers", "d_outsock", "end"}
AfterRds == AfterRtp \cup {"d_rtp"}
AfterCtl == AfterRds \cup {"d_rds"}

Unheld(R, place) ==
    /\ place \in AfterCtl => "ctl" \notin R
    /\ place \in AfterRds => "rds" \notin R
    /\ place \in AfterRtp => "rtp" \notin R

\* The two threads of a process: JACK's callback starts late and clears the flag that main
\* looks at, so one of the two goes through fmmod_destroy.
Local(p) ==
    /\ jk[p] # "idle" => at[p] \notin InitSteps \cup {"off"}
    /\ at[p] \in Ready /\ jk[p] = "idle" => live[p]
    /\ at[p] \in Joined => "client" \in held[p]
    /\ at[p] # "end" \/ jk[p] = "idle" => Unheld(held[p], at[p])
    /\ Unheld(held[p], jk[p])

\* A pointer to the control segment dangles only where it is not used again.
Dangles(p) ==
    /\ "rds" \notin dangling[p] /\ "rtp" \notin dangling[p]
    /\ sig[p] = "default" /\ jk[p] # "idle" => at[p] = "handlers"
    /\ "ctl" \in dangling[p] /\ jk[p] = "idle" => at[p] \in AfterCtl

\* What a step of fmmod_destroy releases, and what is still to be released at a step.
Frees ==
    [d_ctl |-> {"ctl"}, d_rds |-> {"rds"}, d_rtp |-> {"rtp"}, d_rsmpl |-> {"rsmpl"},
     d_flts |-> Filters, d_locks |-> {"locks"}, d_buffers |-> {"buffers"}, d_outsock |-> {}]

ToFree ==
    [d_client |-> Resources,
     d_ctl |-> Resources \ Jack,
     d_rds |-> {"rds", "rtp", "rsmpl", "locks", "buffers"} \cup Filters,
     d_rtp |-> {"rtp", "rsmpl", "locks", "buffers"} \cup Filters,
     d_rsmpl |-> {"rsmpl", "locks", "buffers"} \cup Filters,
     d_flts |-> {"locks", "buffers"} \cup Filters,
     d_locks |-> {"locks", "buffers"},
     d_buffers |-> {"buffers"},
     d_outsock |-> {},
     end |-> {}]

\* Before main is in fmmod_destroy, and from then on.
Calm == InitSteps \cup {"off", "handlers", "running", "leaving"}
Going == DestroySteps \cup {"d_client", "end"}

\* main's handlers are there when it serves; it is in fmmod_destroy, after an initialisation
\* that succeeded, because of a signal.
Phase(p) ==
    /\ at[p] \in InitSteps \cup {"off", "handlers"} => sig[p] = "default"
    /\ at[p] \in {"running", "leaving"} => sig[p] # "default"
    /\ at[p] = "leaving" /\ jk[p] = "idle" => sig[p] = "inactive"
    /\ at[p] \in Going /\ sig[p] = "active" => at[p] = "end" /\ jk[p] # "idle"
    /\ jk[p] # "idle" => ~live[p]

\* The pieces of one step of fmmod_initialize that its own cleanup may have released.
Pieces == {{"client", "inL"}, {"buffers"}, {"rsmpl"}, Filters}

\* What fmmod_destroy meets: nothing is held that it does not release from here on, and what
\* it will release a second time are the pieces of the step that failed.
MainBooks(p) ==
    /\ at[p] \in Calm => dangling[p] = {} /\ twice[p] = {}
    /\ at[p] \in Going =>
          /\ held[p] \subseteq ToFree[at[p]]
          /\ \E P \in Pieces : twice[p] \subseteq P /\ dangling[p] \cap ToFree[at[p]] \subseteq P
          /\ sig[p] # "default" => twice[p] = {} /\ dangling[p] \cap ToFree[at[p]] = {}

\* The same in JACK's callback, alone in fmmod_destroy unless a signal is under way.
JackBooks(p) ==
    /\ held[p] \subseteq ToFree[jk[p]] \cup Jack
    /\ sig[p] # "inactive" => twice[p] = {} /\ dangling[p] \cap ToFree[jk[p]] = {}

Books(p) == IF jk[p] = "idle" THEN MainBooks(p) ELSE JackBooks(p)

\* JACK gives the name of the client to one process at a time.
Exclusive ==
    \A p, q \in Procs :
        "client" \in held[p] /\ jk[p] = "idle" /\ "client" \in held[q] /\ jk[q] = "idle" => p = q

\* Who created the segment of a name, and has not ended, still has it; and while a process
\* goes on past the creation of a segment, its name is nobody else's.
Owned(p, s) ==
    /\ owner[s] = p /\ left[s] = "none" => s \in held[p]
    /\ at[p] \in Made(s) /\ jk[p] = "idle" => owner[s] \in {p, Nobody}

IInv ==
    /\ TypeOK
    /\ \A p \in Procs : Local(p) /\ Dangles(p) /\ Phase(p) /\ Books(p)
    /\ Exclusive
    /\ \A p \in Procs, s \in Segs : Owned(p, s)
    /\ SegmentsRemoved

-----------------------------------------------------------------------------
(* The order of the steps *)

LEMMA Steps ==
    /\ InitSteps = {"connect", "rate", "buffers", "rsmpl", "flts", "rds", "outsock", "rtp", "ctl",
                    "thread", "activate"}
    /\ DestroySteps = {"d_ctl", "d_rds", "d_rtp", "d_rsmpl", "d_flts", "d_locks", "d_buffers",
                       "d_outsock"}
BY Zenon DEF InitSteps, DestroySteps, InitAfter, DestroyAfter

Places == Calm \cup Going

LEMMA NextPlace ==
    /\ \A x \in InitSteps : InitAfter[x] \in InitSteps \cup {"handlers"}
    /\ InitAfter["connect"] = "rate" /\ InitAfter["rate"] = "buffers"
    /\ InitAfter["buffers"] = "rsmpl" /\ InitAfter["rsmpl"] = "flts" /\ InitAfter["flts"] = "rds"
    /\ InitAfter["rds"] = "outsock" /\ InitAfter["rtp"] = "ctl" /\ InitAfter["ctl"] = "thread"
    /\ InitAfter["thread"] = "activate" /\ InitAfter["activate"] = "handlers"
BY Steps DEF InitAfter

LEMMA NextDestroy ==
    /\ \A x \in DestroySteps : DestroyAfter[x] \in DestroySteps \cup {"end"}
    /\ \A x \in DestroySteps : DestroyAfter[x] \in AfterCtl
    /\ \A x \in DestroySteps \ {"d_ctl"} : DestroyAfter[x] \in AfterRds
    /\ \A x \in AfterRds \ {"end"} : DestroyAfter[x] \in AfterRtp
    /\ DestroyAfter["d_ctl"] = "d_rds" /\ DestroyAfter["d_rds"] = "d_rtp"
BY Steps DEF DestroyAfter, AfterCtl, AfterRds, AfterRtp

\* Nobody is at two places.
LEMMA Apartness ==
    /\ \A x \in Calm : x \notin AfterCtl /\ x \notin AfterRds /\ x \notin AfterRtp /\ x \notin Going
    /\ \A x \in Going : x \notin Ready /\ x \notin Joined /\ x \notin Calm
    /\ \A x \in Going, s \in Segs : x \notin Made(s)
    /\ \A x \in DestroySteps : x # "idle" /\ x # "end" /\ x # "d_client" /\ x \in Going
    /\ AfterRtp \subseteq AfterRds /\ AfterRds \subseteq AfterCtl /\ AfterCtl \subseteq Going
    /\ Ready \subseteq Joined /\ Joined \subseteq Calm
    /\ {"d_client", "end"} \subseteq Going /\ {"off", "handlers", "running", "leaving"} \subseteq Calm
    /\ InitSteps \subseteq Calm /\ "idle" \notin AfterCtl \cup AfterRds \cup AfterRtp
BY Steps DEF Calm, Going, AfterCtl, AfterRds, AfterRtp, Ready, Joined, Made, Segs

\* A step releases what is not to be released any more after it.
LEMMA Releases ==
    /\ \A d \in DestroySteps : Frees[d] \subseteq ToFree[d] /\ Frees[d] \cap Jack = {}
    /\ \A d \in DestroySteps : ToFree[DestroyAfter[d]] = ToFree[d] \ Frees[d]
    /\ ToFree["d_client"] = Resources /\ ToFree["d_ctl"] = Resources \ Jack /\ ToFree["end"] = {}
<1>1. ToFree["d_client"] = Resources /\ ToFree["d_ctl"] = Resources \ Jack /\ ToFree["end"] = {}
  BY Zenon DEF ToFree
<1>2. ASSUME NEW d \in DestroySteps PROVE Frees[d] \subseteq ToFree[d] /\ Frees[d] \cap Jack = {}
  BY Steps DEF ToFree, Frees, Jack, Filters, Resources, Segs
<1>3. ASSUME NEW d \in DestroySteps PROVE ToFree[DestroyAfter[d]] = ToFree[d] \ Frees[d]
  BY Steps DEF ToFree, Frees, DestroyAfter, Jack, Filters, Resources, Segs
<1> QED BY <1>1, <1>2, <1>3, Zenon

-----------------------------------------------------------------------------
(* One process takes a step *)

\* The other processes' own state is not touched.
Alone(p) ==
    \A q \in Procs : q # p =>
        /\ at'[q] = at[q] /\ jk'[q] = jk[q] /\ sig'[q] = sig[q] /\ (live'[q] <=> live[q])
        /\ held'[q] = held[q] /\ dangling'[q] = dangling[q] /\ twice'[q] = twice[q]

\* A name loses its segment, or one's own is marked, or a process with a client creates it.
Names(p) ==
    \A s \in Segs :
        \/ owner'[s] = owner[s] /\ (left'[s] = left[s] \/ owner[s] = p)
        \/ owner'[s] = Nobody
        \/ owner'[s] = p /\ "client" \in held[p] /\ jk[p] = "idle"

\* A client is opened under a name that is free.
Entry(p) ==
    "client" \in held'[p] /\ jk'[p] = "idle" =>
        ("client" \in held[p] /\ jk[p] = "idle") \/ ~NameTaken(p)

\* What the invariant says of a process.
Of(p) ==
    /\ TypeOK /\ SegmentsRemoved
    /\ Local(p) /\ Dangles(p) /\ Phase(p) /\ Books(p) /\ \A s \in Segs : Owned(p, s)

LEMMA OfInv == ASSUME IInv, NEW p \in Procs PROVE Of(p)
BY Zenon DEF IInv, Of

LEMMA StepInv ==
    ASSUME IInv, NEW p \in Procs, Of(p)', Alone(p), Names(p), Entry(p)
    PROVE  IInv'
<1>1. ASSUME NEW q \in Procs PROVE Local(q)' /\ Dangles(q)' /\ Phase(q)' /\ Books(q)'
  <2>1. CASE q = p
    BY <2>1, Zenon DEF Of
  <2>2. CASE q # p
    <3>1. Of(q)
      BY OfInv, Zenon
    <3>2. /\ at'[q] = at[q] /\ jk'[q] = jk[q] /\ sig'[q] = sig[q] /\ (live'[q] <=> live[q])
          /\ held'[q] = held[q] /\ dangling'[q] = dangling[q] /\ twice'[q] = twice[q]
      BY <2>2, Zenon DEF Alone
    <3>3. Local(q)' /\ Dangles(q)' /\ Phase(q)'
      BY <3>1, <3>2 DEF Of, Local, Dangles, Phase, Unheld
    <3>4. Books(q)'
      BY <3>1, <3>2, Zenon DEF Of, Books, MainBooks, JackBooks
    <3> QED BY <3>3, <3>4, Zenon
  <2> QED BY <2>1, <2>2, Zenon
<1>2. Exclusive'
  BY DEF IInv, Exclusive, Alone, Entry, NameTaken
<1>3. ASSUME NEW q \in Procs, NEW s \in Segs PROVE Owned(q, s)'
  <2>1. CASE q = p
    BY <2>1, Zenon DEF Of
  <2>2. CASE q # p
    <3>1. Owned(q, s) /\ at'[q] = at[q] /\ jk'[q] = jk[q] /\ held'[q] = held[q]
      BY <2>2, Zenon DEF IInv, Alone
    <3>2. q # Nobody
      BY NobodyAssumption, Zenon
    <3>3. at[q] \in Made(s) => "client" \in held[q]
      BY Zenon DEF IInv, Local, Made, Joined, Segs
    <3> QED BY <2>2, <3>1, <3>2, <3>3, Zenon DEF Owned, Names, IInv, Exclusive
  <2> QED BY <2>1, <2>2, Zenon
<1> QED BY <1>1, <1>2, <1>3, Zenon DEF IInv, Of

LEMMA InitInv == Init => IInv
<1> SUFFICES ASSUME Init PROVE IInv
  BY Zenon
<1>1. TypeOK
  BY Zenon DEF Init, TypeOK
<1>2. ASSUME NEW p \in Procs PROVE Local(p) /\ Dangles(p) /\ Phase(p) /\ Books(p)
  <2>1. /\ at[p] = "off" /\ jk[p] = "idle" /\ sig[p] = "default" /\ held[p] = {}
        /\ dangling[p] = {} /\ twice[p] = {}
    BY Zenon DEF Init
  <2> QED BY <2>1, Steps, Zenon DEF Local, Dangles, Phase, Books, MainBooks, Unheld, Ready, Joined, Going
<1>3. Exclusive /\ SegmentsRemoved
  BY Zenon DEF Init, Exclusive, SegmentsRemoved
<1>4. \A p \in Procs, s \in Segs : Owned(p, s)
  BY NobodyAssumption, Zenon DEF Init, Owned, Made, Ready
<1> QED BY <1>1, <1>2, <1>3, <1>4, Zenon DEF IInv

-----------------------------------------------------------------------------
(* The shapes of steps *)

\* A step of fmmod_initialize that succeeds, without a segment.
LEMMA AcquireInv ==
    ASSUME IInv, NEW p \in Procs, NEW x \in InitSteps \ (Segs \cup {"outsock"}),
           NEW R \in SUBSET (Resources \ Segs), Acquire(p, x, R),
           x = "connect" => "client" \in R,
           "client" \in R => ~NameTaken(p)
    PROVE  IInv'
<1>1. /\ at[p] = x /\ at' = [at EXCEPT ![p] = InitAfter[x]]
      /\ held' = [held EXCEPT ![p] = @ \cup R]
      /\ UNCHANGED <<jk, sig, live, dangling, twice, owner, left, fifo>>
  BY Zenon DEF Acquire, Goto
<1>2. Of(p)
  BY OfInv, Zenon
<1>3. InitAfter[x] \in InitSteps \cup {"handlers"}
  BY NextPlace, Zenon
<1>4. TypeOK'
  BY <1>1, <1>2, <1>3, Zenon DEF Of, TypeOK
<1>5. /\ at'[p] = InitAfter[x] /\ held'[p] = held[p] \cup R /\ jk[p] = "idle" /\ Alone(p)
  BY <1>1, <1>2 DEF Of, TypeOK, Alone, Local
<1>6. Names(p) /\ Entry(p) /\ SegmentsRemoved'
  BY <1>1, <1>2, <1>5, Zenon DEF Of, Names, Entry, SegmentsRemoved
<1>7. Local(p)' /\ Dangles(p)'
  <2>1. InitAfter[x] \in Calm /\ InitAfter[x] \notin AfterCtl \cup AfterRds \cup AfterRtp
    BY <1>3, Apartness, Zenon
  <2>2. InitAfter[x] \in Joined /\ (InitAfter[x] \in Ready => x \in Ready)
    BY NextPlace, Steps DEF Joined, Ready, Segs
  <2>3. x = "connect" \/ x \in Joined
    BY Steps, Zenon DEF Joined, Ready
  <2>4. Local(p)'
    BY <1>1, <1>2, <1>5, <2>1, <2>2, <2>3, Apartness, Zenon DEF Of, Local, Unheld
  <2> QED BY <1>1, <1>2, <1>5, <2>1, <2>4, Apartness, Zenon DEF Of, Dangles
<1>8. Phase(p)' /\ Books(p)'
  <2>1. InitAfter[x] \in Calm /\ InitAfter[x] \notin Going
    BY <1>3, Apartness, Zenon
  <2>2. x \in Calm
    BY Apartness, Zenon
  <2>3. sig[p] = "default" /\ dangling[p] = {} /\ twice[p] = {}
    BY <1>1, <1>2, <1>5, <2>2, Zenon DEF Of, Phase, Books, MainBooks
  <2>4. InitAfter[x] \notin {"running", "leaving"}
    BY <1>3, Steps, Zenon
  <2>5. Phase(p)'
    BY <1>1, <1>5, <2>1, <2>3, <2>4, Zenon DEF Phase
  <2> QED BY <1>1, <1>5, <2>1, <2>3, <2>5, Zenon DEF Books, MainBooks
<1>9. ASSUME NEW s \in Segs PROVE Owned(p, s)'
  <2>1. InitAfter[x] \in Made(s) => x \in Made(s)
    BY NextPlace, Steps DEF Made, Ready, Segs
  <2> QED BY <1>1, <1>2, <1>5, <2>1, Zenon DEF Of, Owned
<1> QED BY <1>4, <1>5, <1>6, <1>7, <1>8, <1>9, StepInv, Zenon DEF Of

\* What a failing step releases itself.
Cleanups == {{}, {"client"}, {"client", "inL"}, {"buffers"}, {"rsmpl"}} \cup SUBSET Filters

LEMMA OnePiece ==
    /\ \A R \in Cleanups : R \in SUBSET (Resources \ Segs) /\ \E P \in Pieces : R \subseteq P
    /\ \E P \in Pieces : {} \subseteq P
<1>1. ASSUME NEW R \in Cleanups PROVE R \in SUBSET (Resources \ Segs)
  BY Zenon DEF Cleanups, Resources, Segs, Jack, Filters
<1>2. ASSUME NEW R \in Cleanups PROVE \E P \in Pieces : R \subseteq P
  BY Zenon DEF Cleanups, Pieces
<1>3. {} \in Cleanups
  BY Zenon DEF Cleanups
<1> QED BY <1>1, <1>2, <1>3, Zenon

\* A step of fmmod_initialize that fails.
LEMMA FailInv ==
    ASSUME IInv, NEW p \in Procs, NEW x \in InitSteps, NEW K \in SUBSET Resources,
           NEW R \in Cleanups, FailAfter(p, x, K, R), "client" \notin K
    PROVE  IInv'
<1>0. R \in SUBSET (Resources \ Segs) /\ \E P \in Pieces : R \subseteq P
  BY OnePiece, Zenon
<1>1. /\ at[p] = x /\ at' = [at EXCEPT ![p] = "d_client"]
      /\ held' = [held EXCEPT ![p] = (@ \cup K) \ R]
      /\ dangling' = [dangling EXCEPT ![p] = @ \cup R]
      /\ UNCHANGED <<jk, sig, live, twice, owner, left, fifo>>
  BY Zenon DEF FailAfter, Fail, Goto
<1>2. Of(p)
  BY OfInv, Zenon
<1>3. TypeOK'
  BY <1>0, <1>1, <1>2, Zenon DEF Of, TypeOK
<1>4. /\ at'[p] = "d_client" /\ held'[p] = (held[p] \cup K) \ R
      /\ dangling'[p] = dangling[p] \cup R /\ jk[p] = "idle" /\ Alone(p)
      /\ sig[p] = "default"
  BY <1>1, <1>2 DEF Of, TypeOK, Alone, Local, Phase
<1>5. Names(p) /\ Entry(p) /\ SegmentsRemoved'
  BY <1>1, <1>2, <1>4, Zenon DEF Of, Names, Entry, SegmentsRemoved
<1>6. Local(p)' /\ Dangles(p)'
  BY <1>0, <1>1, <1>2, <1>4, Steps, Zenon
     DEF Of, Local, Dangles, Unheld, Ready, Joined, AfterCtl, AfterRds, AfterRtp, Segs
<1>7. Phase(p)' /\ Books(p)'
  <2>1. dangling[p] = {} /\ twice[p] = {}
    BY <1>1, <1>2, <1>4, Apartness, Zenon DEF Of, Books, MainBooks
  <2>2. "d_client" \notin Calm /\ ToFree["d_client"] = Resources
    BY Apartness, Releases, Zenon
  <2>3. held'[p] \subseteq Resources
    BY <1>3, Zenon DEF TypeOK
  <2> QED BY <1>0, <1>1, <1>4, <2>1, <2>2, <2>3, Steps, Zenon DEF Phase, Books, MainBooks
<1>8. ASSUME NEW s \in Segs PROVE Owned(p, s)'
  <2>1. "d_client" \notin Made(s)
    BY Zenon DEF Made, Ready
  <2>2. s \notin R
    BY <1>0, Zenon
  <2> QED BY <1>1, <1>2, <1>4, <2>1, <2>2, Zenon DEF Of, Owned
<1> QED BY <1>3, <1>4, <1>5, <1>6, <1>7, <1>8, StepInv, Zenon DEF Of

\* What the invariant says of a process that is gone.
LEMMA OffOf ==
    ASSUME NEW p \in Procs, TypeOK', SegmentsRemoved', at'[p] = "off", jk'[p] = "idle",
           sig'[p] = "default", held'[p] = {}, dangling'[p] = {}, twice'[p] = {},
           \A s \in Segs : ~(owner'[s] = p /\ left'[s] = "none")
    PROVE  Of(p)'
<1>1. "off" \notin Ready \cup Joined \cup AfterCtl \cup AfterRds \cup AfterRtp \cup Going
  BY Apartness, Zenon DEF Ready, Joined
<1>2. Local(p)' /\ Dangles(p)' /\ Phase(p)' /\ Books(p)'
  BY <1>1, Zenon DEF Local, Dangles, Phase, Books, MainBooks, Unheld
<1>3. ASSUME NEW s \in Segs PROVE Owned(p, s)'
  BY Zenon DEF Owned, Made, Ready
<1> QED BY <1>2, <1>3, Zenon DEF Of

\* A process is gone.
LEMMA EndInv ==
    ASSUME IInv, NEW p \in Procs, NEW how \in {"orderly", "abrupt"}, NEW gone \in SUBSET Segs,
           End(p, how, gone),
           how = "orderly" => \A s \in Segs \ gone : ~(owner[s] = p /\ left[s] = "none")
    PROVE  IInv'
<1>1. /\ at' = [at EXCEPT ![p] = "off"] /\ jk' = [jk EXCEPT ![p] = "idle"]
      /\ sig' = [sig EXCEPT ![p] = "default"] /\ live' = [live EXCEPT ![p] = FALSE]
      /\ held' = [held EXCEPT ![p] = {}] /\ dangling' = [dangling EXCEPT ![p] = {}]
      /\ twice' = [twice EXCEPT ![p] = {}] /\ fifo' = fifo
  BY Zenon DEF End, Gone
<1>2. /\ owner' = [s \in Segs |-> IF s \in gone THEN Nobody ELSE owner[s]]
      /\ left' = [s \in Segs |-> IF s \in gone THEN "none"
                                 ELSE IF owner[s] = p /\ left[s] = "none" THEN how
                                 ELSE left[s]]
  BY Zenon DEF End
<1>3. TypeOK /\ SegmentsRemoved
  BY Zenon DEF IInv
<1>4. TypeOK'
  BY <1>1, <1>2, <1>3, Zenon DEF TypeOK
<1>5. /\ at'[p] = "off" /\ jk'[p] = "idle" /\ sig'[p] = "default" /\ held'[p] = {}
      /\ dangling'[p] = {} /\ twice'[p] = {} /\ Alone(p)
  BY <1>1, <1>3, Zenon DEF TypeOK, Alone
<1>6. Names(p) /\ Entry(p) /\ SegmentsRemoved'
  BY <1>2, <1>3, <1>5, Zenon DEF Names, Entry, SegmentsRemoved
<1>7. \A s \in Segs : ~(owner'[s] = p /\ left'[s] = "none")
  BY <1>2, NobodyAssumption, Zenon
<1>8. Of(p)'
  BY <1>4, <1>5, <1>6, <1>7, OffOf, Zenon
<1> QED BY <1>5, <1>6, <1>8, StepInv, Zenon

-----------------------------------------------------------------------------
(* fmmod_initialize *)

LEMMA StartInv == ASSUME IInv, NEW p \in Procs, Start(p) PROVE IInv'
<1>1. /\ at[p] = "off" /\ at' = [at EXCEPT ![p] = "connect"]
      /\ UNCHANGED <<jk, sig, live, held, dangling, twice, owner, left, fifo>>
  BY Zenon DEF Start, Goto
<1>2. Of(p)
  BY OfInv, Zenon
<1>3. TypeOK'
  BY <1>1, <1>2, Steps, Zenon DEF Of, TypeOK
<1>4. at'[p] = "connect" /\ jk[p] = "idle" /\ Alone(p)
  BY <1>1, <1>2, Zenon DEF Of, TypeOK, Alone, Local
<1>5. Names(p) /\ Entry(p) /\ SegmentsRemoved'
  BY <1>1, <1>2, <1>4, Zenon DEF Of, Names, Entry, SegmentsRemoved
<1>6. Local(p)' /\ Dangles(p)'
  BY <1>1, <1>2, <1>4, Steps, Zenon
     DEF Of, Local, Dangles, Unheld, Ready, Joined, AfterCtl, AfterRds, AfterRtp
<1>7. Phase(p)' /\ Books(p)'
  BY <1>1, <1>2, <1>4, Steps DEF Of, Phase, Books, MainBooks, Calm, Going
<1>8. ASSUME NEW s \in Segs PROVE Owned(p, s)'
  BY <1>1, <1>2, <1>4 DEF Of, Owned, Made, Ready
<1> QED BY <1>3, <1>4, <1>5, <1>6, <1>7, <1>8, StepInv, Zenon DEF Of

\* A segment is created: the name stands for it, and only a process with a client gets here.
LEMMA SegmentInv == ASSUME IInv, NEW p \in Procs, InitSegment(p) PROVE IInv'
<1>1. PICK s \in Segs : ShmInit(p, s) /\ live' = [live EXCEPT ![p] = (s = "ctl")]
  BY Zenon DEF InitSegment
<1>2. /\ at[p] = s /\ at' = [at EXCEPT ![p] = InitAfter[s]] /\ owner[s] = Nobody
      /\ held' = [held EXCEPT ![p] = @ \cup {s}] /\ owner' = [owner EXCEPT ![s] = p]
      /\ UNCHANGED <<jk, sig, dangling, twice, left, fifo>>
  BY <1>1, Zenon DEF ShmInit, Goto
<1>3. Of(p) /\ s \in InitSteps /\ InitAfter[s] \in {"outsock", "ctl", "thread"}
  BY OfInv, NextPlace, Steps DEF Segs
<1>4. TypeOK'
  <2>1. live' \in [Procs -> BOOLEAN]
    BY <1>1, <1>3, Zenon DEF Of, TypeOK
  <2>2. InitAfter[s] \in InitSteps
    BY <1>3, Steps, Zenon
  <2> QED BY <1>2, <1>3, <2>1, <2>2 DEF Of, TypeOK, Segs, Resources
<1>5. /\ at'[p] = InitAfter[s] /\ held'[p] = held[p] \cup {s} /\ jk[p] = "idle"
      /\ "client" \in held[p] /\ Alone(p)
  BY <1>1, <1>2, <1>3 DEF Of, TypeOK, Alone, Local, Joined, Segs
<1>6. Names(p) /\ Entry(p) /\ SegmentsRemoved'
  BY <1>2, <1>3, <1>5, Zenon DEF Of, Names, Entry, SegmentsRemoved, TypeOK
<1>7. s = "ctl" => live'[p]
  <2>1. live'[p] = (s = "ctl")
    BY <1>1, <1>3, Zenon DEF Of, TypeOK
  <2> QED BY <2>1, Zenon
<1>8. Local(p)'
  <2>1. InitAfter[s] = "thread" => s = "ctl"
    BY NextPlace, Zenon DEF Segs
  <2> QED BY <1>2, <1>3, <1>5, <1>7, <2>1, Steps, Zenon
             DEF Of, Local, Unheld, Ready, Joined, AfterCtl, AfterRds, AfterRtp, Segs
<1>9. Dangles(p)'
  BY <1>2, <1>3, <1>5, Steps, Zenon DEF Of, Dangles, AfterCtl, AfterRds, AfterRtp, Segs
<1>10. Phase(p)' /\ Books(p)'
  BY <1>2, <1>3, <1>5, Steps DEF Of, Phase, Books, MainBooks, Calm, Going
<1>11. ASSUME NEW t \in Segs PROVE Owned(p, t)'
  BY <1>2, <1>3, <1>5, NextPlace DEF Of, Owned, Made, Ready, Segs, TypeOK
<1> QED BY <1>4, <1>5, <1>6, <1>8, <1>9, <1>10, <1>11, StepInv, Zenon DEF Of

\* utils_shm_init returns a mapping without memory.
LEMMA CrashInv == ASSUME IInv, NEW p \in Procs, SegmentCrashes(p) PROVE IInv'
<1>1. PICK s \in Segs :
        /\ at[p] = s /\ owner[s] = Nobody /\ Gone(p) /\ owner' = [owner EXCEPT ![s] = p]
        /\ left' = [t \in Segs |-> IF t = s THEN "abrupt"
                                   ELSE IF owner[t] = p /\ left[t] = "none" THEN "abrupt"
                                   ELSE left[t]]
  BY Zenon DEF SegmentCrashes
<1>2. /\ at' = [at EXCEPT ![p] = "off"] /\ jk' = [jk EXCEPT ![p] = "idle"]
      /\ sig' = [sig EXCEPT ![p] = "default"] /\ live' = [live EXCEPT ![p] = FALSE]
      /\ held' = [held EXCEPT ![p] = {}] /\ dangling' = [dangling EXCEPT ![p] = {}]
      /\ twice' = [twice EXCEPT ![p] = {}] /\ fifo' = fifo
  BY <1>1, Zenon DEF Gone
<1>3. TypeOK /\ SegmentsRemoved /\ Local(p)
  BY Zenon DEF IInv
<1>4. TypeOK'
  BY <1>1, <1>2, <1>3, Zenon DEF TypeOK
<1>5. /\ at'[p] = "off" /\ jk'[p] = "idle" /\ sig'[p] = "default" /\ held'[p] = {}
      /\ dangling'[p] = {} /\ twice'[p] = {} /\ Alone(p)
  BY <1>2, <1>3 DEF TypeOK, Alone
<1>6. "client" \in held[p] /\ jk[p] = "idle"
  BY <1>1, <1>3, Steps, Zenon DEF Local, Joined, Segs
<1>7. \A t \in Segs : owner'[t] = IF t = s THEN p ELSE owner[t]
  BY <1>1, <1>3 DEF TypeOK
<1>8. Names(p) /\ Entry(p) /\ SegmentsRemoved'
  BY <1>1, <1>3, <1>5, <1>6, <1>7, Zenon DEF Names, Entry, SegmentsRemoved
<1>9. \A t \in Segs : ~(owner'[t] = p /\ left'[t] = "none")
  BY <1>1, <1>7, Zenon
<1>10. Of(p)'
  BY <1>4, <1>5, <1>8, <1>9, OffOf, Zenon
<1> QED BY <1>5, <1>8, <1>10, StepInv, Zenon

LEMMA StaysInv == ASSUME IInv, NEW p \in Procs, SegmentStays(p) PROVE IInv'
<1>1. /\ at[p] = "rds" /\ owner["rds"] = Nobody /\ at' = [at EXCEPT ![p] = "d_client"]
      /\ owner' = [owner EXCEPT !["rds"] = p] /\ left' = [left EXCEPT !["rds"] = "abrupt"]
      /\ UNCHANGED <<jk, sig, live, held, dangling, twice, fifo>>
  BY Zenon DEF SegmentStays, Fail, Goto
<1>2. Of(p)
  BY OfInv, Zenon
<1>3. TypeOK'
  BY <1>1, <1>2, Zenon DEF Of, TypeOK, Segs
<1>4. at'[p] = "d_client" /\ jk[p] = "idle" /\ "client" \in held[p] /\ Alone(p)
  BY <1>1, <1>2, Steps, Zenon DEF Of, TypeOK, Alone, Local, Joined
<1>5. Names(p) /\ Entry(p) /\ SegmentsRemoved'
  BY <1>1, <1>2, <1>4, Zenon DEF Of, Names, Entry, SegmentsRemoved, TypeOK, Segs
<1>6. Local(p)' /\ Dangles(p)'
  BY <1>1, <1>2, <1>4, Steps, Zenon
     DEF Of, Local, Dangles, Unheld, Ready, Joined, AfterCtl, AfterRds, AfterRtp
<1>7. Phase(p)' /\ Books(p)'
  <2>1. sig[p] = "default" /\ dangling[p] = {} /\ twice[p] = {}
    BY <1>1, <1>2, <1>4, Steps, Zenon DEF Of, Phase, Books, MainBooks, Calm
  <2>2. "d_client" \notin Calm /\ ToFree["d_client"] = Resources /\ held[p] \subseteq Resources
    BY <1>2, Apartness, Releases, Zenon DEF Of, TypeOK
  <2> QED BY <1>1, <1>4, <2>1, <2>2, Steps, Zenon DEF Phase, Books, MainBooks, Pieces
<1>8. ASSUME NEW s \in Segs PROVE Owned(p, s)'
  BY <1>1, <1>2, <1>4, Zenon DEF Of, Owned, Made, Ready, TypeOK, Segs
<1> QED BY <1>3, <1>4, <1>5, <1>6, <1>7, <1>8, StepInv, Zenon DEF Of

LEMMA OutsockInv == ASSUME IInv, NEW p \in Procs, InitOutsock(p) PROVE IInv'
<1>1. /\ at[p] = "outsock" /\ fifo' \in BOOLEAN
      /\ UNCHANGED <<jk, sig, live, held, dangling, twice, owner, left>>
  BY Zenon DEF InitOutsock, IInv, TypeOK
<1>2. PICK x \in {"rtp", "d_client"} : at' = [at EXCEPT ![p] = x]
  BY Zenon DEF InitOutsock, Goto, Fail
<1>3. Of(p)
  BY OfInv, Zenon
<1>4. TypeOK'
  BY <1>1, <1>2, <1>3, Steps, Zenon DEF Of, TypeOK
<1>5. at'[p] = x /\ jk[p] = "idle" /\ Alone(p)
  BY <1>1, <1>2, <1>3, Steps, Zenon DEF Of, TypeOK, Alone, Local
<1>6. Names(p) /\ Entry(p) /\ SegmentsRemoved'
  BY <1>1, <1>3, <1>5, Zenon DEF Of, Names, Entry, SegmentsRemoved
<1>7. Local(p)' /\ Dangles(p)'
  BY <1>1, <1>3, <1>5, Steps, Zenon
     DEF Of, Local, Dangles, Unheld, Ready, Joined, AfterCtl, AfterRds, AfterRtp
<1>8. Phase(p)' /\ Books(p)'
  <2>1. sig[p] = "default" /\ dangling[p] = {} /\ twice[p] = {}
    BY <1>1, <1>3, <1>5, Steps, Zenon DEF Of, Phase, Books, MainBooks, Calm
  <2>2. /\ "d_client" \notin Calm /\ ToFree["d_client"] = Resources /\ held[p] \subseteq Resources
        /\ "rtp" \notin Going
    BY <1>3, Apartness, Releases, Steps, Zenon DEF Of, TypeOK
  <2> QED BY <1>1, <1>5, <2>1, <2>2, Steps, Zenon DEF Phase, Books, MainBooks, Pieces
<1>9. ASSUME NEW s \in Segs PROVE Owned(p, s)'
  BY <1>1, <1>3, <1>5, Zenon DEF Of, Owned, Made, Ready, Segs
<1> QED BY <1>4, <1>5, <1>6, <1>7, <1>8, <1>9, StepInv, Zenon DEF Of

-----------------------------------------------------------------------------
(* main and fmmod_destroy *)

\* main's own steps between the initialisation and fmmod_destroy.
LEMMA MainInv ==
    ASSUME IInv, NEW p \in Procs, Handlers(p) \/ Leave(p) \/ Decide(p)
    PROVE  IInv'
<1>1. PICK x \in {"running", "leaving", "d_client", "end"}, y \in {"default", "active", "inactive"} :
        /\ at' = [at EXCEPT ![p] = x] /\ sig' = [sig EXCEPT ![p] = y]
        /\ \/ at[p] = "handlers" /\ x = "running" /\ y = "active"
           \/ at[p] = "running" /\ x = "leaving" /\ y = sig[p] /\ (y = "inactive" \/ ~live[p])
           \/ at[p] = "leaving" /\ x = "d_client" /\ y = sig[p] /\ live[p]
           \/ at[p] = "leaving" /\ x = "end" /\ y = sig[p] /\ ~live[p]
        /\ UNCHANGED <<jk, live, held, dangling, twice, owner, left, fifo>>
  <2>1. TypeOK
    BY Zenon DEF IInv
  <2>2. sig[p] \in {"default", "active", "inactive"} /\ sig = [sig EXCEPT ![p] = sig[p]]
    BY <2>1, Zenon DEF TypeOK
  <2>3. CASE Handlers(p)
    BY <2>3, Zenon DEF Handlers, Goto
  <2>4. CASE Leave(p)
    BY <2>2, <2>4, Zenon DEF Leave, Goto
  <2>5. CASE Decide(p)
    BY <2>2, <2>5, Zenon DEF Decide, Goto
  <2> QED BY <2>3, <2>4, <2>5, Zenon
<1>2. Of(p)
  BY OfInv, Zenon
<1>3. TypeOK'
  BY <1>1, <1>2, Zenon DEF Of, TypeOK
<1>4. at'[p] = x /\ sig'[p] = y /\ Alone(p)
  BY <1>1, <1>2, Zenon DEF Of, TypeOK, Alone
<1>5. Names(p) /\ Entry(p) /\ SegmentsRemoved'
  BY <1>1, <1>2, <1>4, Zenon DEF Of, Names, Entry, SegmentsRemoved
<1>6. Local(p)'
  BY <1>1, <1>2, <1>4, Steps
     DEF Of, Local, Unheld, Ready, Joined, AfterCtl, AfterRds, AfterRtp
<1>7. Dangles(p)'
  BY <1>1, <1>2, <1>4, Zenon DEF Of, Dangles, AfterCtl, AfterRds, AfterRtp
<1>8. Phase(p)'
  BY <1>1, <1>2, <1>4, Steps DEF Of, Local, Phase, Going, Ready
<1>9. Books(p)'
  <2>1. CASE jk[p] = "idle"
    <3>1. dangling[p] = {} /\ twice[p] = {} /\ x # "end"
      BY <1>1, <1>2, <2>1, Zenon DEF Of, Local, Books, MainBooks, Calm, Ready
    <3>2. ToFree["d_client"] = Resources /\ held[p] \subseteq Resources
      BY <1>2, Releases, Zenon DEF Of, TypeOK
    <3>3. x = "d_client" \/ x \notin Going
      BY <3>1, Apartness, Zenon
    <3> QED BY <1>1, <1>4, <2>1, <3>1, <3>2, <3>3, Zenon DEF Books, MainBooks, Pieces
  <2>2. CASE jk[p] # "idle"
    <3>1. y # "inactive" => sig[p] # "inactive"
      BY <1>1, <1>2, Steps, Zenon DEF Of, Phase
    <3> QED BY <1>1, <1>2, <1>4, <2>2, <3>1, Zenon DEF Of, Books, JackBooks
  <2> QED BY <2>1, <2>2, Zenon
<1>10. ASSUME NEW s \in Segs PROVE Owned(p, s)'
  BY <1>1, <1>2, <1>4, Zenon DEF Of, Owned, Made, Ready, Segs
<1> QED BY <1>3, <1>4, <1>5, <1>6, <1>7, <1>8, <1>9, <1>10, StepInv, Zenon DEF Of

LEMMA ClientInv == ASSUME IInv, NEW p \in Procs, DestroyClient(p) PROVE IInv'
<1>1. /\ at[p] = "d_client" /\ at' = [at EXCEPT ![p] = "d_ctl"]
      /\ live' = [live EXCEPT ![p] = FALSE] /\ held' = [held EXCEPT ![p] = @ \ Jack]
      /\ dangling' = [dangling EXCEPT ![p] = @ \cup (Jack \cap held[p])]
      /\ twice' = [twice EXCEPT ![p] = @ \cup (Jack \cap dangling[p])]
      /\ UNCHANGED <<jk, sig, owner, left, fifo>>
  BY Zenon DEF DestroyClient, Goto, Release
<1>2. Of(p)
  BY OfInv, Zenon
<1>3. TypeOK'
  BY <1>1, <1>2, Steps, Zenon DEF Of, TypeOK
<1>4. /\ at'[p] = "d_ctl" /\ held'[p] = held[p] \ Jack /\ ~live'[p]
      /\ dangling'[p] = dangling[p] \cup (Jack \cap held[p])
      /\ twice'[p] = twice[p] \cup (Jack \cap dangling[p]) /\ Alone(p)
  BY <1>1, <1>2, Zenon DEF Of, TypeOK, Alone
<1>5. Names(p) /\ Entry(p) /\ SegmentsRemoved'
  BY <1>1, <1>2, <1>4, Zenon DEF Of, Names, Entry, SegmentsRemoved
<1>6. Local(p)'
  BY <1>1, <1>2, <1>4, Steps DEF Of, Local, Unheld, Ready, Joined, AfterCtl, AfterRds, AfterRtp
<1>7. Dangles(p)'
  BY <1>1, <1>2, <1>4, Zenon DEF Of, Dangles, AfterCtl, AfterRds, AfterRtp, Jack
<1>8. Phase(p)'
  BY <1>1, <1>2, <1>4, Steps DEF Of, Phase, Going
<1>9. Books(p)'
  <2>1. CASE jk[p] = "idle"
    <3>1. PICK P \in Pieces : twice[p] \subseteq P /\ dangling[p] \cap ToFree["d_client"] \subseteq P
      BY <1>1, <1>2, <2>1, Apartness, Zenon DEF Of, Books, MainBooks
    <3>2. /\ sig[p] # "default" => twice[p] = {} /\ dangling[p] \cap ToFree["d_client"] = {}
          /\ held[p] \subseteq ToFree["d_client"]
      BY <1>1, <1>2, <2>1, Apartness, Zenon DEF Of, Books, MainBooks
    <3>3. /\ ToFree["d_client"] = Resources /\ ToFree["d_ctl"] = Resources \ Jack
          /\ Jack \subseteq Resources /\ "d_ctl" \notin Calm
      BY Releases, Apartness, Steps, Zenon DEF Resources
    <3>4. twice'[p] \subseteq P /\ dangling'[p] \cap ToFree["d_ctl"] \subseteq P
      BY <1>4, <3>1, <3>3, Zenon
    <3>5. sig[p] # "default" => twice'[p] = {} /\ dangling'[p] \cap ToFree["d_ctl"] = {}
      BY <1>4, <3>2, <3>3, Zenon
    <3>6. held'[p] \subseteq ToFree["d_ctl"]
      BY <1>4, <3>2, <3>3, Zenon
    <3> QED BY <1>1, <1>4, <2>1, <3>3, <3>4, <3>5, <3>6, Zenon DEF Books, MainBooks
  <2>2. CASE jk[p] # "idle"
    <3>1. sig[p] = "inactive"
      BY <1>1, <1>2, <2>2, Zenon DEF Of, TypeOK, Dangles, Phase, Going
    <3> QED BY <1>1, <1>2, <1>4, <2>2, <3>1, Zenon DEF Of, Books, JackBooks
  <2> QED BY <2>1, <2>2, Zenon
<1>10. ASSUME NEW s \in Segs PROVE Owned(p, s)'
  BY <1>1, <1>2, <1>4 DEF Of, Owned, Made, Ready, Segs, Jack
<1> QED BY <1>3, <1>4, <1>5, <1>6, <1>7, <1>8, <1>9, <1>10, StepInv, Zenon DEF Of

LEMMA ShutdownInv == ASSUME IInv, NEW p \in Procs, JackShutdown(p) PROVE IInv'
<1>1. /\ at[p] \in {"handlers", "running", "leaving", "d_client"} /\ jk[p] = "idle"
      /\ sig[p] = "default" => at[p] = "handlers"
      /\ jk' = [jk EXCEPT ![p] = "d_ctl"] /\ live' = [live EXCEPT ![p] = FALSE]
      /\ UNCHANGED <<at, sig, held, dangling, twice, owner, left, fifo>>
  BY Zenon DEF JackShutdown
<1>2. Of(p)
  BY OfInv, Zenon
<1>3. TypeOK'
  BY <1>1, <1>2, Steps, Zenon DEF Of, TypeOK
<1>4. jk'[p] = "d_ctl" /\ ~live'[p] /\ Alone(p)
  BY <1>1, <1>2, Zenon DEF Of, TypeOK, Alone
<1>5. Names(p) /\ Entry(p) /\ SegmentsRemoved'
  BY <1>1, <1>2, <1>4, Zenon DEF Of, Names, Entry, SegmentsRemoved
<1>6. Local(p)' /\ Dangles(p)'
  BY <1>1, <1>2, <1>4, Steps, Zenon
     DEF Of, Local, Dangles, Unheld, Ready, Joined, AfterCtl, AfterRds, AfterRtp
<1>7. Phase(p)'
  BY <1>1, <1>2, <1>4, Zenon DEF Of, Phase
<1>8. Books(p)'
  <2>1. sig[p] = "inactive" \/ at[p] \in {"handlers", "running"}
    BY <1>1, <1>2, Zenon DEF Of, TypeOK, Phase, Going
  <2>2. sig[p] # "inactive" => twice[p] = {} /\ dangling[p] = {}
    BY <1>1, <1>2, <2>1, Zenon DEF Of, Books, MainBooks, Calm
  <2>3. held[p] \subseteq ToFree["d_ctl"] \cup Jack
    BY <1>2, Releases, Zenon DEF Of, TypeOK
  <2> QED BY <1>1, <1>4, <2>2, <2>3, Zenon DEF Books, JackBooks
<1>9. ASSUME NEW s \in Segs PROVE Owned(p, s)'
  BY <1>1, <1>2, <1>4, Zenon DEF Of, Owned, Made
<1> QED BY <1>3, <1>4, <1>5, <1>6, <1>7, <1>8, <1>9, StepInv, Zenon DEF Of

\* What a step of fmmod_destroy does, in either thread.
Destroyed(p, d) ==
    /\ held'[p] = held[p] \ Frees[d]
    /\ dangling'[p] \subseteq dangling[p] \cup (Frees[d] \ {"rds", "rtp"})
    /\ twice'[p] \subseteq twice[p] \cup (Frees[d] \cap dangling[p])
    /\ \A q \in Procs : q # p =>
          held'[q] = held[q] /\ dangling'[q] = dangling[q] /\ twice'[q] = twice[q]

\* And to the names.
Unlinked(p, d) ==
    \A s \in Segs :
        /\ s \in Frees[d] /\ s \in held[p] => owner'[s] = Nobody
        /\ owner'[s] = Nobody \/ (owner'[s] = owner[s] /\ left'[s] = left[s])
        /\ left'[s] # "orderly"

\* The variables keep their types.
Typed ==
    /\ held' \in [Procs -> SUBSET Resources] /\ dangling' \in [Procs -> SUBSET Resources]
    /\ twice' \in [Procs -> SUBSET Resources] /\ owner' \in [Segs -> Procs \cup {Nobody}]
    /\ left' \in [Segs -> {"none", "orderly", "abrupt"}] /\ fifo' \in BOOLEAN

LEMMA ReleaseEffect ==
    ASSUME TypeOK, NEW p \in Procs, NEW R \in SUBSET Resources, Release(p, R)
    PROVE  /\ held' \in [Procs -> SUBSET Resources] /\ dangling' \in [Procs -> SUBSET Resources]
           /\ twice' \in [Procs -> SUBSET Resources]
           /\ held'[p] = held[p] \ R /\ dangling'[p] \subseteq dangling[p] \cup R
           /\ twice'[p] \subseteq twice[p] \cup (R \cap dangling[p])
           /\ \A q \in Procs : q # p =>
                 held'[q] = held[q] /\ dangling'[q] = dangling[q] /\ twice'[q] = twice[q]
<1>1. /\ held' = [held EXCEPT ![p] = held[p] \ R]
      /\ dangling' = [dangling EXCEPT ![p] = dangling[p] \cup (R \cap held[p])]
      /\ twice' = [twice EXCEPT ![p] = twice[p] \cup (R \cap dangling[p])]
  BY Zenon DEF Release
<1>2. /\ held \in [Procs -> SUBSET Resources] /\ dangling \in [Procs -> SUBSET Resources]
      /\ twice \in [Procs -> SUBSET Resources]
  BY Zenon DEF TypeOK
<1>3. /\ held[p] \ R \in SUBSET Resources /\ dangling[p] \cup (R \cap held[p]) \in SUBSET Resources
      /\ twice[p] \cup (R \cap dangling[p]) \in SUBSET Resources
  BY <1>2, Zenon
<1>4. /\ held' \in [Procs -> SUBSET Resources] /\ dangling' \in [Procs -> SUBSET Resources]
      /\ twice' \in [Procs -> SUBSET Resources]
  BY <1>1, <1>2, <1>3, Zenon
<1> QED BY <1>1, <1>2, <1>4, Zenon

LEMMA SegmentEffect ==
    ASSUME TypeOK, SegmentsRemoved, NEW p \in Procs, NEW s \in Segs, DestroySegment(p, s),
           NEW d \in DestroySteps, Frees[d] = {s}
    PROVE  Destroyed(p, d) /\ Unlinked(p, d) /\ Typed
<1>1. fifo' \in BOOLEAN
  BY Zenon DEF DestroySegment, TypeOK
<1>2. Unlink({s} \cap (held[p] \cup dangling[p]))
  BY Zenon DEF DestroySegment
<1>3. \A t \in Segs : /\ owner'[t] = IF t = s /\ t \in held[p] \cup dangling[p] THEN Nobody ELSE owner[t]
                      /\ left'[t] = IF t = s /\ t \in held[p] \cup dangling[p] THEN "none" ELSE left[t]
  BY <1>2, Zenon DEF Unlink
<1>4. /\ owner' \in [Segs -> Procs \cup {Nobody}] /\ left' \in [Segs -> {"none", "orderly", "abrupt"}]
  BY <1>2, Zenon DEF Unlink, TypeOK
<1>5. Unlinked(p, d)
  BY <1>3, Zenon DEF Unlinked, SegmentsRemoved
<1>6. s \in Resources
  BY Zenon DEF Resources
<1>7. CASE s = "ctl"
  <2>1. Release(p, {s})
    BY <1>7, Zenon DEF DestroySegment
  <2>2. {s} \in SUBSET Resources
    BY <1>6, Zenon
  <2> QED BY <1>1, <1>4, <1>5, <1>7, <2>1, <2>2, ReleaseEffect DEF Destroyed, Typed
<1>8. CASE s # "ctl"
  <2>1. held' = [held EXCEPT ![p] = held[p] \ {s}] /\ dangling' = dangling /\ twice' = twice
    BY <1>8, Zenon DEF DestroySegment
  <2>2. held \in [Procs -> SUBSET Resources] /\ held[p] \ {s} \in SUBSET Resources
    BY Zenon DEF TypeOK
  <2>3. held'[p] = held[p] \ {s} /\ \A q \in Procs : q # p => held'[q] = held[q]
    BY <2>1, <2>2, Zenon
  <2>4. held' \in [Procs -> SUBSET Resources]
    BY <2>1, <2>2, Zenon
  <2>5. Typed
    BY <1>1, <1>4, <2>1, <2>4, Zenon DEF Typed, TypeOK
  <2> QED BY <1>5, <2>1, <2>3, <2>5, Zenon DEF Destroyed
<1> QED BY <1>7, <1>8, Zenon

LEMMA MemoryEffect ==
    ASSUME TypeOK, SegmentsRemoved, NEW p \in Procs, NEW R \in SUBSET (Resources \ Segs),
           DestroyMemory(p, R), NEW d \in DestroySteps, Frees[d] = R
    PROVE  Destroyed(p, d) /\ Unlinked(p, d) /\ Typed
<1>1. Release(p, R) /\ owner' = owner /\ left' = left /\ fifo' = fifo
  BY Zenon DEF DestroyMemory
<1>2. R \in SUBSET Resources /\ \A s \in Segs : s \notin R
  BY Zenon
<1>3. "rds" \notin R /\ "rtp" \notin R
  BY <1>2, Zenon DEF Segs
<1>4. Destroyed(p, d)
  BY <1>1, <1>2, <1>3, ReleaseEffect DEF Destroyed
<1>5. Unlinked(p, d)
  BY <1>1, <1>2, Zenon DEF Unlinked, SegmentsRemoved
<1>6. owner' \in [Segs -> Procs \cup {Nobody}] /\ left' \in [Segs -> {"none", "orderly", "abrupt"}]
  BY <1>1, Zenon DEF TypeOK
<1>7. fifo' \in BOOLEAN
  BY <1>1, Zenon DEF TypeOK
<1>8. Typed
  BY <1>1, <1>2, <1>6, <1>7, ReleaseEffect, Zenon DEF Typed
<1> QED BY <1>4, <1>5, <1>8, Zenon

LEMMA DestroyEffect ==
    ASSUME TypeOK, SegmentsRemoved, NEW p \in Procs, NEW d \in DestroySteps, DestroyStep(p, d)
    PROVE  Destroyed(p, d) /\ Unlinked(p, d) /\ Typed
<1>1. /\ Frees["d_ctl"] = {"ctl"} /\ Frees["d_rds"] = {"rds"} /\ Frees["d_rtp"] = {"rtp"}
      /\ Frees["d_rsmpl"] = {"rsmpl"} /\ Frees["d_flts"] = Filters /\ Frees["d_locks"] = {"locks"}
      /\ Frees["d_buffers"] = {"buffers"} /\ Frees["d_outsock"] = {}
  BY Zenon DEF Frees
<1>2. CASE \E s \in Segs : Frees[d] = {s} /\ DestroySegment(p, s)
  BY <1>2, SegmentEffect, Zenon
<1>3. CASE \E R \in SUBSET (Resources \ Segs) : Frees[d] = R /\ DestroyMemory(p, R)
  BY <1>3, MemoryEffect, Zenon
<1>4. CASE DestroyOutsock /\ d = "d_outsock"
  <2>1. Destroyed(p, d) /\ Unlinked(p, d)
    BY <1>1, <1>4, Zenon DEF DestroyOutsock, Destroyed, Unlinked, SegmentsRemoved
  <2>2. fifo' \in BOOLEAN
    BY <1>4, Zenon DEF DestroyOutsock
  <2> QED BY <1>4, <2>1, <2>2, Zenon DEF DestroyOutsock, Typed, TypeOK
<1>5. /\ {"rsmpl"} \in SUBSET (Resources \ Segs) /\ Filters \in SUBSET (Resources \ Segs)
      /\ {"locks"} \in SUBSET (Resources \ Segs) /\ {"buffers"} \in SUBSET (Resources \ Segs)
  BY Zenon DEF Resources, Segs, Jack, Filters
<1>6. "ctl" \in Segs /\ "rds" \in Segs /\ "rtp" \in Segs
  BY Zenon DEF Segs
<1> QED BY <1>1, <1>2, <1>3, <1>4, <1>5, <1>6, Zenon DEF DestroyStep

\* The segments released so far stay released.
LEMMA UnheldStep ==
    ASSUME NEW R, NEW d \in DestroySteps, Unheld(R, d)
    PROVE  Unheld(R \ Frees[d], DestroyAfter[d])
<1>1. "ctl" \notin R \ Frees[d]
  <2>1. d = "d_ctl" \/ d \in AfterCtl
    BY Steps, Zenon DEF AfterCtl, AfterRds, AfterRtp
  <2> QED BY <2>1 DEF Unheld, Frees
<1>2. DestroyAfter[d] \in AfterRds => "rds" \notin R \ Frees[d]
  <2>1. d \in {"d_ctl", "d_rds"} \/ d \in AfterRds
    BY Steps, Zenon DEF AfterRds, AfterRtp
  <2>2. d = "d_ctl" => DestroyAfter[d] \notin AfterRds
    BY NextDestroy, Zenon DEF AfterRds, AfterRtp
  <2> QED BY <2>1, <2>2 DEF Unheld, Frees
<1>3. DestroyAfter[d] \in AfterRtp => "rtp" \notin R \ Frees[d]
  <2>1. d \in {"d_ctl", "d_rds", "d_rtp"} \/ d \in AfterRtp
    BY Steps, Zenon DEF AfterRtp
  <2>2. d \in {"d_ctl", "d_rds"} => DestroyAfter[d] \notin AfterRtp
    BY NextDestroy, Zenon DEF AfterRtp
  <2> QED BY <2>1, <2>2 DEF Unheld, Frees
<1> QED BY <1>1, <1>2, <1>3, Zenon DEF Unheld

LEMMA MainDestroysInv == ASSUME IInv, NEW p \in Procs, MainDestroys(p) PROVE IInv'
<1> DEFINE d == at[p]
<1>1. /\ d \in DestroySteps /\ DestroyStep(p, d)
      /\ at' = [at EXCEPT ![p] = DestroyAfter[d]] /\ jk' = jk /\ sig' = sig /\ live' = live
  BY Zenon DEF MainDestroys, Goto
<1>2. Of(p)
  BY OfInv, Zenon
<1>3. Destroyed(p, d) /\ Unlinked(p, d) /\ Typed
  BY <1>1, <1>2, DestroyEffect, Zenon DEF Of
<1>4. DestroyAfter[d] \in DestroySteps \cup {"end"} /\ DestroyAfter[d] \in AfterCtl
  BY <1>1, NextDestroy, Zenon
<1>5. TypeOK'
  <2>1. at' \in [Procs -> InitSteps \cup DestroySteps \cup
                          {"off", "handlers", "running", "leaving", "d_client", "end"}]
    BY <1>1, <1>2, <1>4, Zenon DEF Of, TypeOK
  <2> QED BY <1>1, <1>2, <1>3, <2>1, Zenon DEF Of, Typed, TypeOK
<1>6. at'[p] = DestroyAfter[d] /\ \A q \in Procs : q # p => at'[q] = at[q]
  BY <1>1, <1>2 DEF Of, TypeOK
<1>7. Alone(p)
  BY <1>1, <1>3, <1>6, Zenon DEF Alone, Destroyed
<1>8. Names(p) /\ Entry(p) /\ SegmentsRemoved'
  BY <1>1, <1>3, Zenon DEF Names, Entry, Destroyed, Unlinked, SegmentsRemoved
<1>9. held'[p] = held[p] \ Frees[d]
  BY <1>3, Zenon DEF Destroyed
<1>10. DestroyAfter[d] \notin Calm /\ DestroyAfter[d] \in Going /\ d \in Going /\ d # "end"
  BY <1>1, <1>4, Apartness, Zenon
<1> HIDE DEF d
<1>11. Local(p)'
  <2>1. Unheld(held[p], d) /\ Unheld(held[p], jk[p])
    BY <1>1, <1>2, <1>10, Zenon DEF Of, Local, d
  <2>2. Unheld(held'[p], DestroyAfter[d]) /\ Unheld(held'[p], jk[p])
    <3>1. Unheld(held[p] \ Frees[d], DestroyAfter[d])
      BY <1>1, <2>1, UnheldStep, Zenon
    <3>2. Unheld(held[p] \ Frees[d], jk[p])
      BY <2>1, Zenon DEF Unheld
    <3> QED BY <1>9, <3>1, <3>2, Zenon
  <2>3. /\ DestroyAfter[d] \notin Ready /\ DestroyAfter[d] \notin Joined
        /\ DestroyAfter[d] \notin InitSteps \cup {"off"}
    BY <1>4, <1>10, Apartness, Zenon
  <2> QED BY <1>1, <1>6, <2>2, <2>3, Zenon DEF Local
<1>12. Dangles(p)'
  <2>1. dangling'[p] \subseteq dangling[p] \cup (Frees[d] \ {"rds", "rtp"})
    BY <1>3, Zenon DEF Destroyed
  <2>2. sig[p] = "default" => jk[p] = "idle"
    BY <1>2, <1>10, Apartness, Zenon DEF Of, Dangles, d
  <2> QED BY <1>1, <1>2, <1>4, <1>6, <2>1, <2>2, Zenon DEF Of, Dangles
<1>13. Phase(p)'
  <2>1. sig[p] = "active" => jk[p] # "idle" /\ d = "end"
    BY <1>2, <1>10, Zenon DEF Of, Phase, d
  <2>2. DestroyAfter[d] \notin InitSteps \cup {"off", "handlers", "running", "leaving"}
    BY <1>10, Apartness, Zenon
  <2> QED BY <1>1, <1>2, <1>6, <1>10, <2>1, <2>2, Zenon DEF Of, Phase
<1>14. Books(p)'
  <2>1. CASE jk[p] = "idle"
    <3>1. MainBooks(p)
      BY <1>2, <2>1, Zenon DEF Of, Books
    <3>2. PICK P \in Pieces : twice[p] \subseteq P /\ dangling[p] \cap ToFree[d] \subseteq P
      BY <1>10, <3>1, Zenon DEF MainBooks, d
    <3>3. /\ held[p] \subseteq ToFree[d]
          /\ sig[p] # "default" => twice[p] = {} /\ dangling[p] \cap ToFree[d] = {}
      BY <1>10, <3>1, Zenon DEF MainBooks, d
    <3>4. ToFree[DestroyAfter[d]] = ToFree[d] \ Frees[d] /\ Frees[d] \subseteq ToFree[d]
      BY <1>1, Releases, Zenon
    <3>5. /\ dangling'[p] \subseteq dangling[p] \cup Frees[d]
          /\ twice'[p] \subseteq twice[p] \cup (Frees[d] \cap dangling[p])
      BY <1>3, Zenon DEF Destroyed
    <3>6. twice'[p] \subseteq P /\ dangling'[p] \cap ToFree[DestroyAfter[d]] \subseteq P
      BY <3>2, <3>4, <3>5, Zenon
    <3>7. sig[p] # "default" => twice'[p] = {} /\ dangling'[p] \cap ToFree[DestroyAfter[d]] = {}
      BY <3>3, <3>4, <3>5, Zenon
    <3>8. held'[p] \subseteq ToFree[DestroyAfter[d]]
      BY <1>9, <3>3, <3>4, Zenon
    <3> QED BY <1>1, <1>6, <1>10, <2>1, <3>6, <3>7, <3>8, Zenon DEF Books, MainBooks
  <2>2. CASE jk[p] # "idle"
    <3>1. sig[p] = "inactive"
      BY <1>2, <1>10, <2>2, Apartness DEF Of, TypeOK, Dangles, Phase, d
    <3> QED BY <1>1, <1>2, <1>9, <2>2, <3>1, Zenon DEF Of, Books, JackBooks
  <2> QED BY <2>1, <2>2, Zenon
<1>15. ASSUME NEW s \in Segs PROVE Owned(p, s)'
  <2>1. DestroyAfter[d] \notin Made(s)
    BY <1>10, Apartness, Zenon
  <2> QED BY <1>2, <1>3, <1>6, <1>9, <2>1, NobodyAssumption DEF Of, Owned, Unlinked
<1> QED BY <1>5, <1>7, <1>8, <1>11, <1>12, <1>13, <1>14, <1>15, StepInv, Zenon DEF Of

LEMMA JackDestroysInv == ASSUME IInv, NEW p \in Procs, JackDestroys(p) PROVE IInv'
<1> DEFINE d == jk[p]
<1>1. /\ d \in DestroySteps /\ DestroyStep(p, d)
      /\ jk' = [jk EXCEPT ![p] = DestroyAfter[d]] /\ at' = at /\ sig' = sig /\ live' = live
  BY Zenon DEF JackDestroys
<1>2. Of(p)
  BY OfInv, Zenon
<1>3. Destroyed(p, d) /\ Unlinked(p, d) /\ Typed
  BY <1>1, <1>2, DestroyEffect, Zenon DEF Of
<1>4. DestroyAfter[d] \in DestroySteps \cup {"end"} /\ DestroyAfter[d] # "idle" /\ d # "idle"
  BY <1>1, NextDestroy, Apartness, Zenon
<1>5. TypeOK'
  <2>1. jk' \in [Procs -> DestroySteps \cup {"idle", "end"}]
    BY <1>1, <1>2, <1>4, Zenon DEF Of, TypeOK
  <2> QED BY <1>1, <1>2, <1>3, <2>1, Zenon DEF Of, Typed, TypeOK
<1>6. jk'[p] = DestroyAfter[d] /\ \A q \in Procs : q # p => jk'[q] = jk[q]
  BY <1>1, <1>2 DEF Of, TypeOK
<1>7. Alone(p)
  BY <1>1, <1>3, <1>6, Zenon DEF Alone, Destroyed
<1>8. Names(p) /\ Entry(p) /\ SegmentsRemoved'
  BY <1>3, <1>4, <1>6, Zenon DEF Names, Entry, Unlinked, SegmentsRemoved
<1>9. held'[p] = held[p] \ Frees[d] /\ Frees[d] \cap Jack = {}
  BY <1>1, <1>3, Releases, Zenon DEF Destroyed
<1> HIDE DEF d
<1>10. Local(p)'
  <2>1. Unheld(held[p], d) /\ (at[p] # "end" => Unheld(held[p], at[p]))
    BY <1>2, Zenon DEF Of, Local, d
  <2>2. Unheld(held'[p], DestroyAfter[d]) /\ (at[p] # "end" => Unheld(held'[p], at[p]))
    <3>1. Unheld(held[p] \ Frees[d], DestroyAfter[d])
      BY <1>1, <2>1, UnheldStep, Zenon
    <3>2. at[p] # "end" => Unheld(held[p] \ Frees[d], at[p])
      BY <2>1, Zenon DEF Unheld
    <3> QED BY <1>9, <3>1, <3>2, Zenon
  <2>3. "client" \in held[p] => "client" \in held'[p]
    BY <1>9, Zenon DEF Jack
  <2> QED BY <1>1, <1>2, <1>4, <1>6, <2>2, <2>3, Zenon DEF Of, Local, d
<1>11. Dangles(p)'
  <2>1. dangling'[p] \subseteq dangling[p] \cup (Frees[d] \ {"rds", "rtp"})
    BY <1>3, Zenon DEF Destroyed
  <2> QED BY <1>1, <1>2, <1>4, <1>6, <2>1, Zenon DEF Of, Dangles, d
<1>12. Phase(p)'
  BY <1>1, <1>2, <1>4, <1>6, Zenon DEF Of, Phase, d
<1>13. Books(p)'
  <2>1. JackBooks(p)
    BY <1>2, <1>4, Zenon DEF Of, Books, d
  <2>2. ToFree[DestroyAfter[d]] = ToFree[d] \ Frees[d] /\ Frees[d] \subseteq ToFree[d]
    BY <1>1, Releases, Zenon
  <2>3. /\ dangling'[p] \subseteq dangling[p] \cup Frees[d]
        /\ twice'[p] \subseteq twice[p] \cup (Frees[d] \cap dangling[p])
    BY <1>3, Zenon DEF Destroyed
  <2>4. /\ held[p] \subseteq ToFree[d] \cup Jack
        /\ sig[p] # "inactive" => twice[p] = {} /\ dangling[p] \cap ToFree[d] = {}
    BY <2>1, Zenon DEF JackBooks, d
  <2>5. held'[p] \subseteq ToFree[DestroyAfter[d]] \cup Jack
    BY <1>9, <2>2, <2>4, Zenon
  <2>6. sig[p] # "inactive" => twice'[p] = {} /\ dangling'[p] \cap ToFree[DestroyAfter[d]] = {}
    BY <2>2, <2>3, <2>4, Zenon
  <2> QED BY <1>1, <1>4, <1>6, <2>5, <2>6, Zenon DEF Books, JackBooks
<1>14. ASSUME NEW s \in Segs PROVE Owned(p, s)'
  BY <1>2, <1>3, <1>4, <1>6, <1>9, NobodyAssumption DEF Of, Owned, Unlinked
<1> QED BY <1>5, <1>7, <1>8, <1>10, <1>11, <1>12, <1>13, <1>14, StepInv, Zenon DEF Of

\* exit: without a callback in fmmod_destroy nothing of the process is left.
LEMMA ExitInv == ASSUME IInv, NEW p \in Procs, Exit(p) PROVE IInv'
<1>1. TypeOK /\ Local(p) /\ \A s \in Segs : Owned(p, s)
  BY Zenon DEF IInv
<1>2. CASE jk[p] \in DestroySteps
  BY <1>2, EndInv DEF Exit
<1>3. CASE jk[p] \notin DestroySteps
  <2>1. at[p] = "end" /\ End(p, "orderly", {}) /\ jk[p] \in {"idle", "end"}
    BY <1>1, <1>3, Zenon DEF Exit, TypeOK
  <2>2. \A s \in Segs : s \notin held[p]
    BY <1>1, <2>1, Zenon DEF Local, Unheld, AfterCtl, AfterRds, AfterRtp, Segs
  <2> QED BY <1>1, <2>1, <2>2, EndInv DEF Owned
<1> QED BY <1>2, <1>3, Zenon

-----------------------------------------------------------------------------
(* Signals and tools *)

\* A name is removed, with the segment or by somebody else.
LEMMA UnlinkInv ==
    ASSUME IInv, NEW p \in Procs, NEW gone \in SUBSET Segs, Unlink(gone),
           NEW lost \in SUBSET gone, held' = [held EXCEPT ![p] = @ \ lost],
           sig' = sig \/ (sig[p] = "active" /\ sig' = [sig EXCEPT ![p] = "inactive"]),
           UNCHANGED <<at, jk, live, dangling, twice, fifo>>
    PROVE  IInv'
<1>1. /\ owner' = [s \in Segs |-> IF s \in gone THEN Nobody ELSE owner[s]]
      /\ left' = [s \in Segs |-> IF s \in gone THEN "none" ELSE left[s]]
  BY Zenon DEF Unlink
<1>2. Of(p)
  BY OfInv, Zenon
<1>3. TypeOK'
  BY <1>1, <1>2, Zenon DEF Of, TypeOK
<1>4. /\ held'[p] = held[p] \ lost /\ Alone(p)
      /\ sig'[p] = sig[p] \/ (sig[p] = "active" /\ sig'[p] = "inactive")
  BY <1>2 DEF Of, TypeOK, Alone
<1>5. Names(p) /\ Entry(p) /\ SegmentsRemoved'
  BY <1>1, <1>2, <1>4, Zenon DEF Of, Names, Entry, SegmentsRemoved
<1>6. Local(p)'
  BY <1>2, <1>4 DEF Of, Local, Unheld, Segs
<1>7. Dangles(p)'
  BY <1>2, <1>4, Zenon DEF Of, Dangles
<1>8. Phase(p)'
  BY <1>2, <1>4, Zenon DEF Of, Phase
<1>9. Books(p)'
  <2>1. CASE jk[p] = "idle"
    <3>1. MainBooks(p) /\ (at[p] \in Going => sig[p] # "active")
      BY <1>2, <2>1, Zenon DEF Of, Books, Phase
    <3> QED BY <1>4, <2>1, <3>1, Zenon DEF Books, MainBooks
  <2>2. CASE jk[p] # "idle"
    BY <1>2, <1>4, <2>2, Zenon DEF Of, Books, JackBooks
  <2> QED BY <2>1, <2>2, Zenon
<1>10. ASSUME NEW s \in Segs PROVE Owned(p, s)'
  BY <1>1, <1>2, <1>4, NobodyAssumption, Zenon DEF Of, Owned
<1> QED BY <1>3, <1>4, <1>5, <1>6, <1>7, <1>8, <1>9, <1>10, StepInv, Zenon DEF Of

LEMMA TerminateInv ==
    ASSUME IInv, NEW p \in Procs, NEW gone \in SUBSET Segs, Terminate(p, gone)
    PROVE  IInv'
<1>1. CASE sig[p] = "default" /\ End(p, "abrupt", gone)
  BY <1>1, EndInv, Zenon
<1>2. CASE /\ sig[p] = "active" /\ sig' = [sig EXCEPT ![p] = "inactive"] /\ Unlink(gone)
           /\ held' = [held EXCEPT ![p] = @ \ gone]
           /\ UNCHANGED <<at, jk, live, dangling, twice, fifo>>
  <2>1. gone \in SUBSET gone
    BY Zenon
  <2> QED BY <1>2, <2>1, UnlinkInv, Zenon
<1>3. CASE End(p, "orderly", Segs)
  BY <1>3, EndInv, Zenon
<1> QED BY <1>1, <1>2, <1>3, Zenon DEF Terminate

LEMMA InterruptInv == ASSUME IInv, NEW p \in Procs, Interrupt(p) PROVE IInv'
<1>1. CASE Signal(p)
  BY <1>1, TerminateInv, Zenon DEF Signal
<1>2. CASE ComponentFails(p)
  <2>1. PICK s \in Segs : Terminate(p, {s})
    BY <1>2, Zenon DEF ComponentFails, Segs
  <2> QED BY <2>1, TerminateInv, Zenon
<1>3. CASE Fault(p)
  <2>1. End(p, "abrupt", {}) \/ End(p, "orderly", Segs)
    BY <1>3, Zenon DEF Fault
  <2> QED BY <2>1, EndInv
<1>4. CASE Kill(p)
  BY <1>4, EndInv DEF Kill
<1> QED BY <1>1, <1>2, <1>3, <1>4, Zenon DEF Interrupt

LEMMA AttachInv == ASSUME IInv, AttachFails PROVE IInv'
<1>1. PICK s \in Segs : owner[s] # Nobody /\ Unlink({s})
  BY Zenon DEF AttachFails
<1>2. owner[s] \in Procs /\ held' = [held EXCEPT ![owner[s]] = @ \ {}]
  BY <1>1, Zenon DEF AttachFails, IInv, TypeOK
<1> DEFINE p == owner[s]
<1> HIDE DEF p
<1>3. p \in Procs /\ held' = [held EXCEPT ![p] = @ \ {}]
  BY <1>2, Zenon DEF p
<1>4. sig' = sig /\ UNCHANGED <<at, jk, live, dangling, twice, fifo>>
  BY Zenon DEF AttachFails
<1>5. {s} \in SUBSET Segs /\ {} \in SUBSET {s}
  BY Zenon
<1> QED BY <1>1, <1>3, <1>4, <1>5, UnlinkInv, Zenon

LEMMA InitializeInv == ASSUME IInv, NEW p \in Procs, Initialize(p) PROVE IInv'
<1> USE Steps DEF Resources, Segs, Jack, Filters
<1>1. CASE Connect(p)
  BY <1>1, AcquireInv, Zenon DEF Connect
<1>2. CASE ConnectFails(p)
  BY <1>2, FailInv, Zenon DEF Cleanups, ConnectFails
<1>3. CASE Rate(p)
  BY <1>3, AcquireInv, FailInv, Zenon DEF Cleanups, Rate
<1>4. CASE InitBuffers(p)
  <2>1. CASE Acquire(p, "buffers", {"buffers", "locks"})
    BY <2>1, AcquireInv, Zenon
  <2>2. CASE \E R \in {{}, {"buffers"}} : FailAfter(p, "buffers", {}, R)
    BY <2>2, FailInv, Zenon DEF Cleanups
  <2> QED BY <1>4, <2>1, <2>2, Zenon DEF InitBuffers
<1>5. CASE InitResampler(p)
  BY <1>5, AcquireInv, FailInv, Zenon DEF Cleanups, InitResampler
<1>6. CASE InitFilters(p)
  <2>1. CASE Acquire(p, "flts", Filters)
    BY <2>1, AcquireInv, Zenon
  <2>2. CASE \E K, R \in SUBSET Filters : FailAfter(p, "flts", K, R)
    BY <2>2, FailInv, Zenon DEF Cleanups
  <2> QED BY <1>6, <2>1, <2>2, Zenon DEF InitFilters, LpfFails, HilbertFails
<1>7. CASE SegmentFails(p)
  BY <1>7, FailInv, Zenon DEF Cleanups, SegmentFails
<1>8. CASE EncoderRaises(p) \/ ServerRaises(p)
  BY <1>8, EndInv, Zenon DEF EncoderRaises, ServerRaises, Raises
<1>9. CASE InitThread(p)
  BY <1>9, AcquireInv, EndInv, Zenon DEF InitThread
<1>10. CASE Activate(p)
  BY <1>10, AcquireInv, FailInv, Zenon DEF Cleanups, Activate
<1>11. CASE \/ Start(p) \/ InitSegment(p) \/ SegmentCrashes(p) \/ SegmentStays(p)
            \/ InitOutsock(p) \/ Handlers(p)
  BY <1>11, StartInv, SegmentInv, CrashInv, StaysInv, OutsockInv, MainInv, Zenon
<1> QED BY <1>1, <1>2, <1>3, <1>4, <1>5, <1>6, <1>7, <1>8, <1>9, <1>10, <1>11, Zenon DEF Initialize

-----------------------------------------------------------------------------
LEMMA NextInv == ASSUME IInv, [Next]_vars PROVE IInv'
<1>1. CASE UNCHANGED vars
  <2>1. TypeOK' /\ Exclusive' /\ SegmentsRemoved'
    BY <1>1, Zenon DEF IInv, vars, TypeOK, Exclusive, SegmentsRemoved
  <2>2. ASSUME NEW p \in Procs PROVE Local(p)' /\ Dangles(p)' /\ Phase(p)' /\ Books(p)'
    <3>1. Of(p)
      BY OfInv, Zenon
    <3>2. Local(p)' /\ Dangles(p)' /\ Phase(p)'
      BY <1>1, <3>1, Zenon DEF Of, vars, Local, Dangles, Phase
    <3>3. Books(p)'
      BY <1>1, <3>1, Zenon DEF Of, vars, Books, MainBooks, JackBooks
    <3> QED BY <3>2, <3>3, Zenon
  <2>3. \A p \in Procs, s \in Segs : Owned(p, s)'
    BY <1>1, Zenon DEF IInv, vars, Owned
  <2> QED BY <2>1, <2>2, <2>3, Zenon DEF IInv
<1>2. ASSUME NEW p \in Procs, Shutdown(p) PROVE IInv'
  BY <1>2, MainInv, ClientInv, ShutdownInv, MainDestroysInv, JackDestroysInv, ExitInv, Zenon DEF Shutdown
<1> QED BY <1>1, <1>2, InitializeInv, InterruptInv, AttachInv, Zenon DEF Next

\* Every step of every process from fmmod_initialize to its exit keeps the invariant.
THEOREM Invariance == Spec => []IInv
<1>1. Init => IInv
  BY InitInv, Zenon
<1>2. IInv /\ [Next]_vars => IInv'
  BY NextInv, Zenon
<1> QED BY <1>1, <1>2, PTL DEF Spec

\* The fields of a process and of the names keep their types.
THEOREM TypeCorrect == Spec => []TypeOK
<1>1. IInv => TypeOK
  BY Zenon DEF IInv
<1> QED BY <1>1, Invariance, PTL

\* However many processes there are, one that goes through fmmod_destroy or its handlers to
\* its end leaves no segment of its own behind.
THEOREM Removed == Spec => []SegmentsRemoved
<1>1. IInv => SegmentsRemoved
  BY Zenon DEF IInv
<1> QED BY <1>1, Invariance, PTL

\* However many processes there are, the name of a segment stands for the segment of the
\* process that serves, or for none.
THEOREM Own == Spec => []OwnNames
<1>1. IInv => OwnNames
  BY Zenon DEF IInv, OwnNames, Serving, Owned, Made, Ready
<1> QED BY <1>1, Invariance, PTL

\* However many processes there are and whichever step of fmmod_initialize fails, what was
\* acquired is released, and a second time only where one failed step left its pieces, or
\* where a signal meets JACK's shutdown.
THEOREM Released == Spec => []ReleasedExactly
<1>1. IInv => ReleasedExactly
  <2> SUFFICES ASSUME IInv, NEW p \in Procs
               PROVE  /\ IF sig[p] = "default"
                         THEN \E R \in Pieces : twice[p] \subseteq R
                         ELSE twice[p] # {} => sig[p] = "inactive" /\ jk[p] # "idle"
                      /\ at[p] = "end" /\ jk[p] \notin DestroySteps =>
                             held[p] \subseteq IF jk[p] = "idle" THEN {} ELSE Jack
    BY Zenon DEF ReleasedExactly, Pieces
  <2>1. Of(p)
    BY OfInv, Zenon
  <2>2. at[p] \in Calm \cup Going
    BY <2>1, Zenon DEF Of, TypeOK, Calm, Going
  <2>3. ToFree["end"] = {} /\ "end" \in Going
    BY Releases, Apartness, Zenon
  <2>4. CASE jk[p] = "idle"
    <3>1. MainBooks(p)
      BY <2>1, <2>4, Zenon DEF Of, Books
    <3>2. \E R \in Pieces : twice[p] \subseteq R
      BY <2>2, <3>1, OnePiece, Zenon DEF MainBooks
    <3>3. sig[p] # "default" => twice[p] = {}
      BY <2>2, <3>1, Zenon DEF MainBooks
    <3> QED BY <2>3, <2>4, <3>1, <3>2, <3>3, Zenon DEF MainBooks
  <2>5. CASE jk[p] # "idle"
    <3>1. JackBooks(p) /\ (jk[p] \in DestroySteps \/ jk[p] = "end")
      BY <2>1, <2>5, Zenon DEF Of, Books, TypeOK
    <3>2. sig[p] # "inactive" => \E R \in Pieces : twice[p] \subseteq R
      BY <3>1, OnePiece, Zenon DEF JackBooks
    <3> QED BY <2>3, <2>5, <3>1, <3>2, Zenon DEF JackBooks
  <2> QED BY <2>4, <2>5, Zenon
<1> QED BY <1>1, Invariance, PTL

-----------------------------------------------------------------------------
(* The second process *)

\* A step of a process moves its main thread or leaves all of them where they are.
Moves(r) == \E x : at' = [at EXCEPT ![r] = x]

LEMMA AcquireMoves == ASSUME NEW r, NEW x, NEW R, Acquire(r, x, R) PROVE Moves(r)
BY Zenon DEF Acquire, Goto, Moves

LEMMA FailMoves == ASSUME NEW r, NEW x, NEW K, NEW R, FailAfter(r, x, K, R) PROVE Moves(r)
BY Zenon DEF FailAfter, Fail, Goto, Moves

LEMMA EndMoves == ASSUME NEW r, NEW how, NEW gone, End(r, how, gone) PROVE Moves(r)
BY Zenon DEF End, Gone, Moves

LEMMA InitializeMoves == ASSUME NEW r, Initialize(r) PROVE Moves(r)
<1>1. CASE Connect(r) \/ Rate(r) \/ InitBuffers(r) \/ InitResampler(r) \/ Activate(r)
  BY <1>1, AcquireMoves, FailMoves, Zenon DEF Connect, Rate, InitBuffers, InitResampler, Activate
<1>2. CASE ConnectFails(r) \/ InitFilters(r) \/ SegmentFails(r)
  BY <1>2, AcquireMoves, FailMoves, Zenon DEF ConnectFails, InitFilters, SegmentFails
<1>3. CASE EncoderRaises(r) \/ ServerRaises(r) \/ InitThread(r)
  BY <1>3, AcquireMoves, EndMoves, Zenon DEF EncoderRaises, ServerRaises, Raises, InitThread
<1>4. CASE Start(r) \/ InitOutsock(r) \/ Handlers(r) \/ SegmentStays(r)
  BY <1>4, Zenon DEF Start, InitOutsock, Handlers, SegmentStays, Fail, Goto, Moves
<1>5. CASE InitSegment(r) \/ SegmentCrashes(r)
  BY <1>5, Zenon DEF InitSegment, ShmInit, SegmentCrashes, Gone, Goto, Moves
<1> QED BY <1>1, <1>2, <1>3, <1>4, <1>5, Zenon DEF Initialize

LEMMA ShutdownMoves == ASSUME NEW r, Shutdown(r), at # at' PROVE Moves(r)
<1>1. CASE Exit(r)
  BY <1>1, EndMoves, Zenon DEF Exit
<1>2. CASE Leave(r) \/ Decide(r) \/ DestroyClient(r) \/ MainDestroys(r)
  BY <1>2, Zenon DEF Leave, Decide, DestroyClient, MainDestroys, Goto, Moves
<1> QED BY <1>1, <1>2, Zenon DEF Shutdown, JackShutdown, JackDestroys

LEMMA InterruptMoves == ASSUME NEW r, Interrupt(r), at # at' PROVE Moves(r)
<1>1. ASSUME NEW gone, Terminate(r, gone) PROVE Moves(r)
  BY <1>1, EndMoves, Zenon DEF Terminate
<1>2. CASE Signal(r) \/ ComponentFails(r)
  BY <1>1, <1>2, Zenon DEF Signal, ComponentFails
<1>3. CASE Fault(r) \/ Kill(r)
  BY <1>3, EndMoves, Zenon DEF Fault, Kill
<1> QED BY <1>2, <1>3, Zenon DEF Interrupt

\* A step that moves the main thread of a process is a step of that process.
LEMMA Mover ==
    ASSUME TypeOK, NEW q \in Procs, at[q] # at'[q], [Next]_vars
    PROVE  Initialize(q) \/ Shutdown(q) \/ Interrupt(q)
<1>1. at # at'
  BY Zenon
<1>2. PICK r \in Procs : Initialize(r) \/ Shutdown(r) \/ Interrupt(r)
  BY <1>1, Zenon DEF Next, vars, AttachFails
<1>3. Moves(r)
  BY <1>1, <1>2, InitializeMoves, ShutdownMoves, InterruptMoves, Zenon
<1>4. q = r
  BY <1>3, Zenon DEF TypeOK, Moves
<1> QED BY <1>2, <1>4, Zenon

\* A process that creates a segment finds its name free, and no other step of
\* fmmod_initialize touches a name.
LEMMA InitializeApart ==
    ASSUME TypeOK, NEW q \in Procs, NEW s \in Segs, owner[s] # Nobody, Initialize(q)
    PROVE  owner'[s] = owner[s]
<1>1. CASE Connect(q) \/ Rate(q) \/ InitBuffers(q) \/ InitResampler(q) \/ Activate(q)
  BY <1>1, Zenon DEF Connect, Rate, InitBuffers, InitResampler, Activate, Acquire, FailAfter
<1>2. CASE ConnectFails(q) \/ InitFilters(q) \/ SegmentFails(q)
  BY <1>2, Zenon DEF ConnectFails, InitFilters, SegmentFails, Acquire, FailAfter
<1>3. CASE EncoderRaises(q) \/ ServerRaises(q) \/ InitThread(q)
  <2>1. (\E x \in {"rds", "rtp"} : Raises(q, x)) \/ Acquire(q, "thread", {}) \/ End(q, "abrupt", {})
    BY <1>3, Zenon DEF EncoderRaises, ServerRaises, InitThread
  <2> QED BY <2>1, Zenon DEF Raises, Acquire, End
<1>4. CASE Start(q) \/ InitOutsock(q) \/ Handlers(q)
  BY <1>4, Zenon DEF Start, InitOutsock, Handlers
<1>5. CASE InitSegment(q) \/ SegmentCrashes(q)
  <2>1. PICK t \in Segs : owner[t] = Nobody /\ owner' = [owner EXCEPT ![t] = q]
    BY <1>5, Zenon DEF InitSegment, ShmInit, SegmentCrashes
  <2> QED BY <2>1, Zenon DEF TypeOK
<1>6. CASE SegmentStays(q)
  <2>1. owner["rds"] = Nobody /\ owner' = [owner EXCEPT !["rds"] = q]
    BY <1>6, Zenon DEF SegmentStays
  <2> QED BY <2>1, Zenon DEF TypeOK
<1> QED BY <1>1, <1>2, <1>3, <1>4, <1>5, <1>6, Zenon DEF Initialize

LEMMA Apart ==
    ASSUME IInv, NEW q \in Procs, NEW s \in Segs, owner[s] # Nobody, sig[q] = "default",
           at[q] # at'[q], s \notin held[q], [Next]_vars
    PROVE  owner'[s] = owner[s]
<1>1. TypeOK /\ Dangles(q)
  BY Zenon DEF IInv
<1>2. Initialize(q) \/ Shutdown(q) \/ Interrupt(q)
  BY <1>1, Mover, Zenon
<1>3. CASE Initialize(q)
  BY <1>1, <1>3, InitializeApart, Zenon
<1>4. CASE MainDestroys(q)
  <2>1. jk[q] = "idle"
    BY <1>1, <1>4, Steps, Zenon DEF MainDestroys, Dangles, TypeOK
  <2>2. \A t \in Segs : DestroySegment(q, t) /\ (t = "ctl" => at[q] = "d_ctl")
                          => owner'[s] = owner[s]
    BY <1>1, <2>1 DEF DestroySegment, Unlink, Dangles, AfterCtl, AfterRds, AfterRtp, Segs
  <2>3. DestroyStep(q, at[q])
    BY <1>4, Zenon DEF MainDestroys
  <2>4. \/ \E t \in Segs : DestroySegment(q, t) /\ (t = "ctl" => at[q] = "d_ctl")
        \/ owner' = owner
    BY <2>3, Zenon DEF DestroyStep, DestroyMemory, DestroyOutsock, Segs
  <2> QED BY <2>2, <2>4, Zenon
<1>5. CASE Exit(q) \/ Interrupt(q)
  <2>1. (\E how \in {"orderly", "abrupt"} : End(q, how, {})) \/ ComponentFails(q) \/ at' = at
    BY <1>5, Zenon DEF Exit, Interrupt, Signal, Terminate, Fault, Kill
  <2>2. \A t \in held[q] : t # s
    BY Zenon
  <2>3. (\E how \in {"orderly", "abrupt"}, gone \in SUBSET held[q] : End(q, how, gone)) \/ at' = at
    BY <2>1, Zenon DEF ComponentFails, Terminate
  <2> QED BY <2>3, Zenon DEF End
<1>6. CASE Shutdown(q) /\ ~MainDestroys(q) /\ ~Exit(q)
  BY <1>6, Zenon DEF Shutdown, Leave, Decide, DestroyClient, JackShutdown, JackDestroys
<1> QED BY <1>2, <1>3, <1>4, <1>5, <1>6, Zenon DEF Shutdown

\* However many processes are started beside the one that serves, and wherever each of them
\* fails, a step of theirs leaves the names of its segments alone.
THEOREM Second == Spec => SecondInstance
<1> DEFINE Kept == \A p, q \in Procs : \A s \in Segs :
                      /\ Serving(p) /\ owner[s] = p
                      /\ sig[q] = "default" /\ at[q] # at'[q] /\ s \notin held[q]
                      => owner'[s] = p
<1>1. IInv /\ [Next]_vars => Kept
  BY Apart, NobodyAssumption, Zenon
<1>2. IInv /\ [Next]_vars => [Kept]_vars
  BY <1>1, Zenon
<1> QED BY <1>2, Invariance, PTL DEF Spec, SecondInstance

=============================================================================
