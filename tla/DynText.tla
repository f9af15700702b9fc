------------------------------- MODULE DynText -------------------------------
(***************************************************************************)
(* Dynamic PS and dynamic RT (rds_dynpsrt.c) and their two users: the tool *)
(* (rds_tool.c), which spins until a signal, and the file chooser of the   *)
(* GUI.  A consumer thread puts the segments of a text into the shared     *)
(* field, a monitor thread loads the text from a file on inotify events,   *)
(* and destroy joins both and puts the fixed text back.                    *)
(*                                                                         *)
(* A text is a sequence of segments: eight characters of PS, or a line of  *)
(* RT.  Both threads hold the processing mutex for as long as they touch   *)
(* the text, so each critical section is one step.                         *)
(***************************************************************************)
EXTENDS Naturals, Sequences

CONSTANTS
    Segments,   \* what fits the field
    Texts       \* contents of the file

ASSUME TextsAssumption == <<>> \in Texts /\ Texts \subseteq Seq(Segments)

VARIABLES
    kind,       \* "ps" or "rt"
    user,       \* "tool" or "gui"
    at,         \* where the user's thread is
    go,         \* the tool's flag active
    active,     \* dps->active or drt->active
    cons,       \* where the consumer is
    fm,         \* where the file monitor is
    queue,      \* inotify events not read yet
    watch,      \* the watch exists
    closed,     \* the inotify descriptor is closed
    exists,     \* the file's name exists
    content,    \* what is in the file
    str,        \* the text loaded: string, rt_segments
    n,          \* remaining_len in segments, curr_segment
    fixed,      \* fixed_ps, fixed_rt
    out,        \* the field as this user left it
    over,       \* what another process put into the field since, or ""
    tainted     \* another process wrote the field, or the process was killed

vars == <<kind, user, at, go, active, cons, fm, queue, watch, closed, exists, content,
          str, n, fixed, out, over, tainted>>

Name == "name"          \* the station's fixed text
Foreign == "foreign"    \* a text set by another process
Unset == "unset"        \* a line without characters: rds_set_rt removes the text

Field == IF over = "" THEN out ELSE over

\* Only RT has lines without characters.
Contents == {t \in Texts : kind = "ps" => \A i \in DOMAIN t : t[i] # Unset}

Init ==
    /\ kind \in {"ps", "rt"}
    /\ user \in {"tool", "gui"}
    /\ at = "off"
    /\ go = FALSE
    /\ active = FALSE
    /\ cons = "none"
    /\ fm = "none"
    /\ queue = <<>>
    /\ watch = FALSE
    /\ closed = TRUE
    /\ exists = TRUE
    /\ content = <<>>
    /\ str = <<>>
    /\ n = 0
    /\ fixed = Name
    /\ out = Name
    /\ over = ""
    /\ tainted = FALSE

\* rds_set_ps, rds_set_rt
Set(text) == out' = text /\ over' = ""

File == <<exists, content>>
Text == <<str, n, fixed>>
Shown == <<out, over, tainted>>
Threads == <<active, cons, fm>>
Notify == <<queue, watch, closed>>

-----------------------------------------------------------------------------
(* rds_dynps_init, rds_dynrt_init *)

\* The structure is cleared and the fixed text is taken from the field.
Begin(place, c, f) ==
    /\ at = "off"
    /\ Field # Unset
    /\ at' = place
    /\ cons' = c
    /\ fm' = f
    /\ str' = <<>>
    /\ n' = 0
    /\ fixed' = Field
    /\ Set(Field)
    /\ queue' = <<>>
    /\ go' = FALSE
    /\ UNCHANGED <<kind, user, tainted, exists, content>>

Start ==
    /\ exists
    /\ Begin("running", "loop", "loop")
    /\ active' = TRUE
    /\ watch' = TRUE
    /\ closed' = FALSE

\* inotify_init, inotify_add_watch, the first or the second thread fails: destroy is called.
StartFails ==
    \/ /\ Begin("d_start", "none", "none")
       /\ active' = FALSE
       /\ watch' = FALSE
       /\ closed' \in BOOLEAN
    \/ /\ exists
       /\ \E f \in {"none", "loop"} : Begin("d_start", "none", f)
       /\ active' = TRUE
       /\ watch' = TRUE
       /\ closed' = FALSE

-----------------------------------------------------------------------------
(* The consumers *)

ConsumerLoop ==
    /\ cons = "loop"
    /\ cons' = IF active THEN (IF kind = "ps" THEN "sleep" ELSE "work") ELSE "ended"
    /\ UNCHANGED <<kind, user, at, go, active, fm, Notify, File, Text, Shown>>

\* rds_dynpsrt_cond_sleep: a signal does not end the wait, only the time does.
Sleep ==
    /\ cons = "sleep"
    /\ cons' = IF kind = "ps" THEN "work" ELSE "loop"
    /\ UNCHANGED <<kind, user, at, go, active, fm, Notify, File, Text, Shown>>

\* Variant: the last character is not counted.
PsWorkSkips ==
    /\ cons = "work" /\ kind = "ps"
    /\ cons' = "loop"
    /\ \/ str = <<>> /\ UNCHANGED <<n, out, over>>
       \/ str # <<>> /\ n = 0 /\ Set(fixed) /\ n' = Len(str) - 1
       \/ str # <<>> /\ n > 0 /\ Set(str[Len(str) - n + 1]) /\ n' = n - 1
    /\ UNCHANGED <<kind, user, at, go, active, fm, Notify, File, str, fixed, tainted>>

\* The fixed PS when the text has been shown, otherwise its next segment.
PsWork ==
    /\ cons = "work" /\ kind = "ps"
    /\ cons' = "loop"
    /\ \/ str = <<>> /\ UNCHANGED <<n, out, over>>
       \/ str # <<>> /\ n = 0 /\ Set(fixed) /\ n' = Len(str)
       \/ str # <<>> /\ n > 0 /\ Set(str[Len(str) - n + 1]) /\ n' = n - 1
    /\ UNCHANGED <<kind, user, at, go, active, fm, Notify, File, str, fixed, tainted>>

\* The next segment of RT; the fixed one is not part of the rotation.
RtWork ==
    /\ cons = "work" /\ kind = "rt"
    /\ cons' = "sleep"
    /\ \/ str = <<>> /\ UNCHANGED <<n, out, over>>
       \/ /\ str # <<>>
          /\ LET curr == IF n >= Len(str) THEN 0 ELSE n
             IN Set(str[curr + 1]) /\ n' = curr + 1
    /\ UNCHANGED <<kind, user, at, go, active, fm, Notify, File, str, fixed, tainted>>

-----------------------------------------------------------------------------
(* The file monitors *)

FilemonLoop ==
    /\ fm = "loop"
    /\ fm' = IF active THEN "call" ELSE "ended"
    /\ UNCHANGED <<kind, user, at, go, active, cons, Notify, File, Text, Shown>>

\* read on a closed descriptor fails and the loop goes on.
FilemonCall ==
    /\ fm = "call"
    /\ fm' = IF closed THEN "loop" ELSE "read"
    /\ UNCHANGED <<kind, user, at, go, active, cons, Notify, File, Text, Shown>>

\* read blocks until there are events, and takes them all; only the first is looked at.
FilemonRead ==
    /\ fm = "read"
    /\ queue # <<>>
    /\ fm' = IF Head(queue) = "ignored" THEN "ended" ELSE "open"
    /\ queue' = <<>>
    /\ UNCHANGED <<kind, user, at, go, active, cons, watch, closed, File, Text, Shown>>

\* Variant: the mutex is only tried.
FilemonOpenTry ==
    /\ fm = "open"
    /\ fm' = IF exists /\ cons # "work" THEN "load" ELSE "loop"
    /\ UNCHANGED <<kind, user, at, go, active, cons, Notify, File, Text, Shown>>

FilemonOpen ==
    /\ fm = "open"
    /\ fm' = IF exists THEN "load" ELSE "loop"
    /\ UNCHANGED <<kind, user, at, go, active, cons, Notify, File, Text, Shown>>

\* Variant: nothing is done about an empty file.
FilemonLoadNoFallback ==
    /\ fm = "load"
    /\ str' = content
    /\ n' = IF kind = "ps" /\ content # <<>> THEN Len(content) ELSE n
    /\ fm' = "loop"
    /\ UNCHANGED <<kind, user, at, go, active, cons, Notify, File, fixed, Shown>>

\* The text is replaced; PS starts again with a new text, RT goes on where it was.
FilemonLoad ==
    /\ fm = "load"
    /\ str' = content
    /\ n' = IF kind = "ps" /\ content # <<>> THEN Len(content) ELSE n
    /\ fm' = IF kind = "rt" /\ content = <<>> THEN "fallback" ELSE "loop"
    /\ UNCHANGED <<kind, user, at, go, active, cons, Notify, File, fixed, Shown>>

\* RT without a line: the fixed one, after the mutex was released.
FilemonFallback ==
    /\ fm = "fallback"
    /\ Set(fixed)
    /\ fm' = "loop"
    /\ UNCHANGED <<kind, user, at, go, active, cons, Notify, File, Text, tainted>>

-----------------------------------------------------------------------------
(* rds_dynps_destroy, rds_dynrt_destroy *)

\* The signal on sleep_trig has no effect: see Sleep.
DestroyStart ==
    /\ at = "d_start"
    /\ active' = FALSE
    /\ at' = "d_cons"
    /\ UNCHANGED <<kind, user, go, cons, fm, Notify, File, Text, Shown>>

JoinConsumer ==
    /\ at = "d_cons"
    /\ cons \in {"none", "ended"}
    /\ at' = "d_watch"
    /\ UNCHANGED <<kind, user, go, Threads, Notify, File, Text, Shown>>

\* inotify appends an event unless it equals the last one.
Notified(q, e) == IF q # <<>> /\ q[Len(q)] = e THEN q ELSE Append(q, e)

\* Variant: the watch stays.
RemoveWatchNot ==
    /\ at = "d_watch"
    /\ UNCHANGED <<queue, watch>>
    /\ at' = "d_close"
    /\ UNCHANGED <<kind, user, go, Threads, closed, File, Text, Shown>>

\* inotify_rm_watch has an event of its own, unless the watch is gone.
RemoveWatch ==
    /\ at = "d_watch"
    /\ queue' = IF watch THEN Notified(queue, "ignored") ELSE queue
    /\ watch' = FALSE
    /\ at' = "d_close"
    /\ UNCHANGED <<kind, user, go, Threads, closed, File, Text, Shown>>

\* close does not wake a thread that is in read.
Close ==
    /\ at = "d_close"
    /\ closed' = TRUE
    /\ at' = "d_fm"
    /\ UNCHANGED <<kind, user, go, Threads, queue, watch, File, Text, Shown>>

JoinFilemon ==
    /\ at = "d_fm"
    /\ fm \in {"none", "ended"}
    /\ at' = "d_fixed"
    /\ UNCHANGED <<kind, user, go, Threads, Notify, File, Text, Shown>>

RestoreFixed ==
    /\ at = "d_fixed"
    /\ Set(fixed)
    /\ at' = "off"
    /\ UNCHANGED <<kind, user, go, Threads, Notify, File, Text, tainted>>

-----------------------------------------------------------------------------
(* The users *)

\* The tool has read its options and installs the handlers.
ToolHandlers ==
    /\ user = "tool" /\ at = "running"
    /\ at' = "handlers"
    /\ UNCHANGED <<kind, user, go, Threads, Notify, File, Text, Shown>>

ToolArm ==
    /\ at = "handlers"
    /\ go' = TRUE
    /\ at' = "spin"
    /\ UNCHANGED <<kind, user, Threads, Notify, File, Text, Shown>>

\* A signal, or the alarm of -dt.
ToolSignal ==
    /\ user = "tool" /\ at \notin {"off", "running"}
    /\ go' = FALSE
    /\ UNCHANGED <<kind, user, at, Threads, Notify, File, Text, Shown>>

ToolLeave ==
    /\ at = "spin" /\ ~go
    /\ at' = "d_start"
    /\ UNCHANGED <<kind, user, go, Threads, Notify, File, Text, Shown>>

\* The user is gone with its threads: a later option of the tool fails, a signal comes
\* before its handlers, the panel's main returns with the window still there, or it is killed.
Dies ==
    /\ at # "off"
    /\ at' = "off"
    /\ active' = FALSE
    /\ cons' = "none"
    /\ fm' = "none"
    /\ queue' = <<>>
    /\ watch' = FALSE
    /\ closed' = TRUE
    /\ tainted' = TRUE
    /\ UNCHANGED <<kind, user, go, File, Text, out, over>>

\* The file chooser of the GUI: another file, or the switch.
GuiChoose ==
    /\ user = "gui" /\ at = "running"
    /\ at' = "d_start"
    /\ UNCHANGED <<kind, user, go, Threads, Notify, File, Text, Shown>>

\* Its widgets go with the window.
jmrg_free_vmap == GuiChoose

-----------------------------------------------------------------------------
(* The rest of the world *)

Modify ==
    /\ exists
    /\ content' \in Contents
    /\ queue' = IF watch THEN Notified(queue, "modify") ELSE queue
    /\ UNCHANGED <<kind, user, at, go, Threads, watch, closed, exists, Text, Shown>>

\* The file is deleted, or replaced, and its watch with it.
Delete ==
    /\ exists
    /\ fm # "load"
    /\ exists' = FALSE
    /\ watch' = FALSE
    /\ content' = <<>>
    /\ queue' = IF watch THEN Notified(queue, "ignored") ELSE queue
    /\ UNCHANGED <<kind, user, at, go, Threads, closed, Text, Shown>>

Create ==
    /\ ~exists
    /\ exists' = TRUE
    /\ content' \in Contents
    /\ UNCHANGED <<kind, user, at, go, Threads, Notify, Text, Shown>>

\* Another process sets the field.
Overwrite ==
    /\ over' = Foreign
    /\ tainted' = TRUE
    /\ UNCHANGED <<kind, user, at, go, Threads, Notify, File, Text, out>>

Consumer == ConsumerLoop \/ Sleep \/ PsWork \/ RtWork
Filemon == FilemonLoop \/ FilemonCall \/ FilemonRead \/ FilemonOpen \/ FilemonLoad \/ FilemonFallback
Destroy == DestroyStart \/ JoinConsumer \/ RemoveWatch \/ Close \/ JoinFilemon \/ RestoreFixed
Tool == ToolHandlers \/ ToolArm \/ ToolLeave
World == Start \/ StartFails \/ ToolSignal \/ Dies \/ GuiChoose \/ jmrg_free_vmap
         \/ Modify \/ Delete \/ Create \/ Overwrite

Next == Consumer \/ Filemon \/ Destroy \/ Tool \/ World

Fairness == WF_vars(Consumer) /\ WF_vars(Filemon) /\ WF_vars(Destroy) /\ WF_vars(Tool)

Spec == Init /\ [][Next]_vars /\ Fairness

\* Where a thread does not wait: the monitor for an event, destroy for a thread.
ConsumerReady == cons \in {"loop", "sleep", "work"}
FilemonReady ==
    fm \in {"loop", "call", "open", "load", "fallback"} \/ (fm = "read" /\ queue # <<>>)
DestroyReady ==
    \/ at \in {"d_start", "d_watch", "d_close", "d_fixed"}
    \/ at = "d_cons" /\ cons \in {"none", "ended"}
    \/ at = "d_fm" /\ fm \in {"none", "ended"}

\* There it can take its step.
CanMove ==
    /\ ConsumerReady => ENABLED <<Consumer>>_vars
    /\ FilemonReady => ENABLED <<Filemon>>_vars
    /\ DestroyReady => ENABLED <<Destroy>>_vars

-----------------------------------------------------------------------------
Words == Segments \cup {"", Name, Foreign}

TypeOK ==
    /\ kind \in {"ps", "rt"}
    /\ content \in Seq(Words) /\ str \in Seq(Words)
    /\ fixed \in Words /\ out \in Words /\ over \in Words
    /\ n \in Nat

\* The field of a user that is done with dynamic text.
FixedRestored == at = "off" /\ ~tainted => Field = Name

\* The field while RT has no line to show.
RtFallback ==
    kind = "rt" /\ at # "off" /\ str = <<>> /\ fm # "fallback" /\ ~tainted => Field = Name

\* Without dynamic text to show the field holds the station's text, and stays so.  Once a
\* user is done, by a signal, a switch or a start that failed, no thread is left to write;
\* and a file without lines leaves the fixed RT on the air: the monitor reads num_segments
\* after it released the mutex, and no consumer can slip a segment in.  Excluded: another
\* process wrote the field, or the user was killed.
FixedShown == FixedRestored /\ RtFallback

\* The events of a watch that is gone were read behind a modification, or its end came
\* when the monitor was not looking: the monitor sits in read for good.
Deserted == fm = "read" /\ ~watch /\ queue = <<>>

\* destroy returns: both threads are joined, although neither the signal to the consumer nor
\* the close wakes anyone, unless the file was deleted under the monitor.
DestroyReturns == (at = "d_start") ~> (at = "off" \/ Deserted)

\* The last change of a watched file is loaded, however the events are merged and however
\* many are dropped with one read, unless the file is deleted or the user stops.
FileSeen == (fm # "ended" /\ watch /\ queue # <<>> /\ active) ~> (str = content \/ ~watch \/ ~active)

\* What the instance puts into the field follows the cycle of a ticker: PS shows its fixed
\* text after the last segment, RT does not.
Display == INSTANCE Ticker WITH
    on <- cons \notin {"none", "ended"},
    name <- fixed,
    cycle <- IF kind = "ps" /\ str # <<>> THEN Append(str, fixed) ELSE str,
    pos <- IF str = <<>> THEN 1
           ELSE IF kind = "ps" THEN Len(str) - n + 1
           ELSE IF n >= Len(str) THEN 1 ELSE n + 1,
    shown <- out

\* Consumer and file monitor together implement the ticker, its fairness included: every
\* segment of a text that stays loaded is shown again and again.
TickerSpec == Display!Spec

=============================================================================
