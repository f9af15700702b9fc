---------------------------- MODULE ControlPanel ----------------------------
(***************************************************************************)
(* The control panel (gui/) beside the command line tools and the daemon.  *)
(* The panel, a tool and the daemon share a segment: nothing locks it, and *)
(* the panel finds out by polling what the others wrote.  A daemon that is *)
(* started again has a new segment; the panel keeps the one it attached.   *)
(*                                                                         *)
(* A behaviour is about one control, chosen in Init, and the plotter.  All *)
(* callbacks of the panel run on GTK's main loop, one at a time, so the    *)
(* plotter, which reads the daemon's fifo, holds up the controls.          *)
(***************************************************************************)
EXTENDS Integers, Sequences, FiniteSets

CONSTANTS
    Kinds,         \* the controls looked at
    MaxActs,       \* actions of users, in the panel or with a tool
    MaxGens,       \* times the daemon is started
    PeriodUnits,   \* length of a period's output in the fifo
    PipeUnits      \* capacity of the fifo

\* The buffer of a pipe has room for a period.
ASSUME PipeAssumption == PeriodUnits \in Nat \ {0} /\ PipeUnits \in Nat /\ PipeUnits >= PeriodUnits

VARIABLES
    kind,    \* the control
    up,      \* the daemon is running
    gen,     \* how many times it was started
    mem,     \* the value in each one's segment
    queue,   \* signals for the daemon, kind "list"
    gui,     \* the panel: the segment it has, what it shows
    todo,    \* what is left to do of the callback it is in
    tool,    \* a tool: the segment it has, 0 when it is not running
    plot,    \* the plotter
    fifo,    \* the fifo
    acts,    \* actions of users so far
    wish,    \* the value last asked for in each segment
    raced    \* another process wrote while the panel was in a callback

vars == <<kind, up, gen, mem, queue, gui, todo, tool, plot, fifo, acts, wish, raced>>
shared == <<mem, queue, wish, raced>>
daemon == <<up, gen>>

Nothing == "nothing"
Gens == 1..MaxGens

\* Values: percent for a gain, the set of bits for DI, the set of addresses for the list.
Bits == {"stereo", "dynpty"}
Addrs == {"x", "y"}
GainMax == 100

Default == [gain |-> 45, lpf |-> 1, mode |-> 0, pty |-> 0, di |-> Bits, ecc |-> 0, lic |-> 0,
            text |-> Nothing, list |-> {}]

\* The kinds of controls there are.
ASSUME KindsAssumption == Kinds \subseteq DOMAIN Default /\ MaxGens \in Nat

\* The pages of the notebook.
Page == [gain |-> 0, lpf |-> 0, mode |-> 0, pty |-> 1, di |-> 1, ecc |-> 1, lic |-> 1,
         text |-> 1, list |-> 2]

Clamp(v) == IF v > GainMax THEN GainMax ELSE v

\* What a new widget shows, before it is polled.  Only a scale is made with the value.
First(v) ==
    CASE kind = "gain" -> Clamp(v)
      [] kind \in {"lpf", "mode", "pty"} -> 0
      [] kind \in {"di", "list"} -> {}
      [] kind \in {"ecc", "lic"} -> -1
      [] kind = "text" -> Nothing

Off == [map |-> 0, shown |-> Nothing, old |-> 0, focus |-> Nothing, page |-> 0]
NoPlot == [at |-> "idle", skip |-> FALSE, got |-> 0]
NoFifo == [linked |-> FALSE, writer |-> FALSE, units |-> 0, orphan |-> FALSE]

Init ==
    /\ kind \in Kinds
    /\ up = FALSE /\ gen = 0
    /\ mem = [g \in Gens |-> Default[kind]]
    /\ wish = mem
    /\ queue = <<>>
    /\ gui = Off /\ todo = <<>> /\ tool = 0
    /\ plot = NoPlot /\ fifo = NoFifo
    /\ acts = 0 /\ raced = FALSE

-----------------------------------------------------------------------------
(* The daemon: Lifecycle has the details *)

StartDaemon ==
    /\ ~up /\ gen < MaxGens
    /\ up' = TRUE /\ gen' = gen + 1
    /\ fifo' = [fifo EXCEPT !.linked = TRUE]
    /\ queue' = <<>>
    /\ UNCHANGED <<kind, mem, wish, raced, gui, todo, tool, plot, acts>>

\* Its segments go, and its end of the fifo is closed.  Only an orderly exit removes the
\* fifo; who is in open() then waits for a writer of a file nobody finds any more.
StopDaemon(orderly) ==
    /\ up
    /\ up' = FALSE
    /\ fifo' = [fifo EXCEPT !.linked = ~orderly, !.writer = FALSE,
                            !.units = IF plot.at = "read" THEN @ ELSE 0,
                            !.orphan = @ \/ (orderly /\ plot.at # "idle")]
    /\ UNCHANGED <<kind, gen, shared, gui, todo, tool, plot, acts>>

\* SIGUSR1 and SIGUSR2: RtpReceivers has the details.
HandleSignal ==
    /\ up /\ queue # <<>>
    /\ LET s == Head(queue)
       IN mem' = [mem EXCEPT ![gen] = IF s.op = "add" THEN @ \cup {s.addr} ELSE @ \ {s.addr}]
    /\ queue' = Tail(queue)
    /\ UNCHANGED <<kind, daemon, gui, todo, tool, plot, fifo, acts, wish, raced>>

\* The pid in the segment of another generation is that of a process that is gone.
Signalled(g, op, a) ==
    IF up /\ g = gen THEN Append(queue, [op |-> op, addr |-> a]) ELSE queue

-----------------------------------------------------------------------------
(* Tools *)

\* fmmod_tool's option -s takes a digit.
ToolMode(x) == IF x = 0 \/ x > 3 THEN 0 ELSE x

\* What fmmod_tool stores: gains are not checked.
FmmodToolValues ==
    CASE kind = "gain" -> {10, 150}
      [] kind = "lpf" -> {x % 2 : x \in {0, 3}}
      [] kind = "mode" -> {ToolMode(x % 8) : x \in {1, 2, 7}}
      [] OTHER -> {}

\* What rds_tool and the setters it calls store; a PTY above 31 is refused.
RdsToolValues ==
    CASE kind = "pty" -> {0, 31, 32} \cap 0..31
      [] kind = "di" -> {{}, {"dynpty"}}
      [] kind = "ecc" -> {225, 240}
      [] kind = "lic" -> {x % 2^12 : x \in {9, 265}}
      [] kind = "text" -> {"a", Nothing}
      [] OTHER -> {}

ToolAttach ==
    /\ tool = 0 /\ up
    /\ acts < MaxActs /\ acts' = acts + 1
    /\ tool' = gen
    /\ UNCHANGED <<kind, daemon, shared, gui, todo, plot, fifo>>

RtpToolSignals ==
    /\ kind = "list"
    /\ \E a \in Addrs, op \in {"add", "remove"} : queue' = Signalled(tool, op, a)
    /\ UNCHANGED <<mem, wish, raced>>

\* It writes, whoever else does, and exits.
ToolWrite ==
    /\ tool # 0
    /\ tool' = 0
    /\ \/ \E v \in FmmodToolValues \cup RdsToolValues :
            /\ mem' = [mem EXCEPT ![tool] = v]
            /\ wish' = [wish EXCEPT ![tool] = v]
            /\ raced' = IF tool = gui.map THEN todo # <<>> ELSE raced
            /\ UNCHANGED queue
       \/ RtpToolSignals
    /\ UNCHANGED <<kind, daemon, gui, todo, plot, fifo, acts>>

-----------------------------------------------------------------------------
(* The panel *)

\* It attaches all three segments, or exits.
StartGui ==
    /\ gui = Off /\ up
    /\ gui' = [map |-> gen, shown |-> First(mem[gen]), focus |-> Nothing, page |-> 0,
               old |-> IF kind \in {"ecc", "lic"} THEN -1 ELSE 0]
    /\ plot' = NoPlot
    /\ UNCHANGED <<kind, daemon, shared, todo, tool, fifo, acts>>

\* The main loop has nothing to do.
Free == gui.map # 0 /\ todo = <<>> /\ plot.at = "idle"

\* The window is closed when the main loop gets to it; or the process is killed.
QuitGui(killed) ==
    /\ gui # Off /\ (killed \/ Free)
    /\ gui' = Off /\ todo' = <<>> /\ plot' = NoPlot
    /\ raced' = (raced \/ todo # <<>>)
    /\ fifo' = [fifo EXCEPT !.orphan = FALSE, !.units = IF fifo.writer THEN @ ELSE 0]
    /\ UNCHANGED <<kind, daemon, mem, queue, wish, tool, acts>>

\* The contents of the other pages are hidden.
jmrg_panel_switched ==
    /\ Free
    /\ \E p \in 0..2 \ {gui.page} : gui' = [gui EXCEPT !.page = p, !.focus = Nothing]
    /\ UNCHANGED <<kind, daemon, shared, todo, tool, plot, fifo, acts>>

Blur ==
    /\ Free /\ gui.focus # Nothing
    /\ gui' = [gui EXCEPT !.focus = Nothing]
    /\ UNCHANGED <<kind, daemon, shared, todo, tool, plot, fifo, acts>>

Put(v) == [op |-> "put", val |-> v]
Toggle(b) == [op |-> "toggle", val |-> b]

\* Variant: the other order.
RadioToggledSwapped(from, to) == <<Put(to), Put(from)>>

\* GTK emits "toggled" for the radio button that goes off, then for the one that goes on;
\* the handler stores its button's value for both.
RadioToggled(from, to) == <<Put(from), Put(to)>>

\* A poll: what the widget shows then, and what its handler does if that has changed.
Same == [shown |-> gui.shown, old |-> gui.old, todo |-> <<>>]
Show(v) == [Same EXCEPT !.shown = v]
Echo(v) == [Show(v) EXCEPT !.todo = IF v = gui.shown THEN <<>> ELSE <<Put(v)>>]

PollScale(v) == Echo(Clamp(v))
PollSwitch(v) == Echo(v)
PollCombo(v) == Echo(v)

\* The buttons are not looked at while the value is the one polled last.
PollRadio(v) ==
    LET mode == IF v > 4 THEN 0 ELSE v
    IN IF mode = gui.old THEN Same
       ELSE [shown |-> mode, old |-> mode,
             todo |-> IF mode = gui.shown THEN <<>> ELSE RadioToggled(gui.shown, mode)]

\* Every bit has a box of its own.
PollCheckbox(v, b) ==
    IF (b \in v) = (b \in gui.shown) THEN Same
    ELSE [Show(IF b \in v THEN gui.shown \cup {b} ELSE gui.shown \ {b}) EXCEPT
            !.todo = <<Toggle(b)>>]

\* Variant: the list is only refreshed when there are more.
PollListGrows(v) ==
    IF gui.old >= Cardinality(v) THEN Same
    ELSE [Show({<<a, TRUE>> : a \in v}) EXCEPT !.old = Cardinality(v)]

\* A row is an address and whether its label is still there.
PollList(v) ==
    IF gui.old = Cardinality(v) THEN Same
    ELSE [Show({<<a, TRUE>> : a \in v}) EXCEPT !.old = Cardinality(v)]

\* The extended country codes that name a country together with the first digit of PI.
\* For others the name is looked up with index -1: whatever lies before the table, if that
\* is a text.
Countries == {225, 226}
PollCountry(v) == IF v \in Countries THEN {Show(v)} ELSE {Same, Show(-2)}

\* The search for a language is given the low 8 bits.
Language(v) == v % 2^8

\* A text that is not set is passed over.
PollText(v) == IF v = Nothing THEN Same ELSE Show(v)

\* The possible outcomes.
Poll(v, b) ==
    CASE kind = "gain" -> {PollScale(v)}
      [] kind = "lpf" -> {PollSwitch(v)}
      [] kind = "pty" -> {PollCombo(v)}
      [] kind = "mode" -> {PollRadio(v)}
      [] kind = "di" -> {PollCheckbox(v, b)}
      [] kind = "ecc" -> PollCountry(v)
      [] kind = "lic" -> {Show(Language(v))}
      [] kind = "text" -> {PollText(v)}
      [] kind = "list" -> {PollList(v)}

\* Hidden widgets are not polled, and some not while they have the focus.
Polled ==
    /\ Free
    /\ gui.page = Page[kind]
    /\ \E b \in IF kind = "di" THEN Bits ELSE {kind} :
         /\ gui.focus # b
         /\ \E p \in Poll(mem[gui.map], b) :
              /\ gui' = [gui EXCEPT !.shown = p.shown, !.old = p.old]
              /\ todo' = p.todo
    /\ UNCHANGED <<kind, daemon, shared, tool, plot, fifo, acts>>

\* The user: what the widget shows then, what its handler does, the value asked for.
User(shown, old, focus, do, asked) ==
    /\ gui' = [gui EXCEPT !.shown = shown, !.old = old, !.focus = focus]
    /\ todo' = do
    /\ wish' = [wish EXCEPT ![gui.map] = asked]
    /\ raced' = (raced /\ (kind = "di" \/ do = <<>>))

MoveScale == kind = "gain" /\ \E v \in {20, 90} : User(v, 0, Nothing, <<Put(v)>>, v)

FlipSwitch == kind = "lpf" /\ LET v == 1 - gui.shown IN User(v, 0, kind, <<Put(v)>>, v)

ChooseEntry == kind = "pty" /\ \E v \in {10, 31} \ {gui.shown} : User(v, 0, kind, <<Put(v)>>, v)

PressRadio ==
    /\ kind = "mode"
    /\ \E v \in 0..2 \ {gui.shown} : User(v, gui.old, Nothing, RadioToggled(gui.shown, v), v)

TickBox ==
    /\ kind = "di"
    /\ \E b \in Bits :
         LET flip(S) == IF b \in gui.shown THEN S \ {b} ELSE S \cup {b}
         IN User(flip(gui.shown), 0, b, <<Toggle(b)>>, flip(wish[gui.map]))

\* A completion is selected.
SelectMatch ==
    /\ kind \in {"ecc", "lic"}
    /\ \E v \in IF kind = "ecc" THEN {226, 240} ELSE {8} : User(v, v, kind, <<>>, wish[gui.map])

\* "Set" stores the completion selected last, whatever the entry shows by now, or the text.
PressSet ==
    \/ /\ kind \in {"ecc", "lic"} /\ gui.old >= 0
       /\ User(gui.shown, gui.old, Nothing, <<Put(gui.old)>>, gui.old)
    \/ kind = "text" /\ \E v \in {"b", Nothing} : User(gui.shown, 0, Nothing, <<Put(v)>>, v)

Click ==
    \/ MoveScale \/ FlipSwitch \/ ChooseEntry \/ PressRadio \/ TickBox \/ SelectMatch \/ PressSet

\* The buttons of the list send signals.
AddAddress ==
    /\ \E a \in Addrs : queue' = Signalled(gui.map, "add", a)
    /\ UNCHANGED gui

\* A row that is to go loses its label at once.  Selected again, it has no text to send and
\* the panel ends as in QuitGui(TRUE).
jmrg_iplist_remove ==
    \E row \in gui.shown :
        /\ row[2]
        /\ queue' = Signalled(gui.map, "remove", row[1])
        /\ gui' = [gui EXCEPT !.shown = (@ \ {row}) \cup {<<row[1], FALSE>>}]

ClickList ==
    /\ kind = "list"
    /\ AddAddress \/ jmrg_iplist_remove
    /\ UNCHANGED <<todo, wish, raced>>

UserActs ==
    /\ Free
    /\ gui.page = Page[kind]
    /\ acts < MaxActs /\ acts' = acts + 1
    /\ \/ Click /\ UNCHANGED queue
       \/ ClickList
    /\ UNCHANGED <<kind, daemon, mem, tool, plot, fifo>>

\* jmrg_checkbox_toggled, second half: the other bits are those that were just read.
Toggled(v, b) == IF b \in gui.shown THEN v \cup {b} ELSE v \ {b}

\* The handlers' accesses to the segment, one by one.
Handler ==
    /\ todo # <<>>
    /\ LET v == mem[gui.map]
           do == Head(todo)
       IN \/ /\ do.op = "put"
             /\ mem' = [mem EXCEPT ![gui.map] = do.val]
             /\ todo' = Tail(todo)
          \/ /\ do.op = "toggle"
             /\ todo' = IF (do.val \in v) = (do.val \in gui.shown) THEN <<>>
                        ELSE <<Put(Toggled(v, do.val))>>
             /\ UNCHANGED mem
    /\ UNCHANGED <<kind, daemon, queue, wish, raced, gui, tool, plot, fifo, acts>>

-----------------------------------------------------------------------------
(* The fifo and the plotter *)

\* A write that does not block: what there is room for.
Room == PipeUnits - fifo.units
Accepted == IF Room < PeriodUnits THEN Room ELSE PeriodUnits
Written == [fifo EXCEPT !.writer = TRUE, !.units = @ + Accepted]

\* It is opened when somebody is reading; after EPIPE it is closed, and emptied by that.
write_to_sock ==
    /\ up
    /\ \/ /\ ~fifo.writer
          /\ plot.at # "idle" /\ ~fifo.orphan
          /\ plot' = [plot EXCEPT !.at = "read"]
          /\ fifo' = Written
       \/ /\ fifo.writer
          /\ plot.at = "read"
          /\ fifo' = Written
          /\ UNCHANGED plot
       \/ /\ fifo.writer
          /\ plot.at # "read"
          /\ fifo' = [fifo EXCEPT !.writer = FALSE, !.units = 0]
          /\ UNCHANGED plot
    /\ UNCHANGED <<kind, daemon, shared, gui, todo, tool, acts>>

\* ctl->max_samples: a frame is as long as a period.
FrameUnits == PeriodUnits

\* A redraw, every 83 ms: fopen waits for a writer.  After a short read one is left out.
jmrg_mpxp_redraw ==
    /\ Free /\ gui.page = 0
    /\ \/ plot.skip /\ plot' = [plot EXCEPT !.skip = FALSE]
       \/ /\ ~plot.skip /\ fifo.linked
          /\ plot' = [at |-> IF fifo.writer THEN "read" ELSE "open", skip |-> FALSE, got |-> 0]
    /\ UNCHANGED <<kind, daemon, shared, gui, todo, tool, fifo, acts>>

\* Variant: a short read is tried again.
PlotReadRetries ==
    /\ plot.at = "read"
    /\ fifo.units > 0
    /\ plot' = [plot EXCEPT !.got = @ + 1,
                            !.at = IF plot.got + 1 = FrameUnits THEN "idle" ELSE "read"]
    /\ fifo' = [fifo EXCEPT !.units = @ - 1]
    /\ UNCHANGED <<kind, daemon, shared, gui, todo, tool, acts>>

\* fread: unit by unit, until the frame is full or the writer has gone.
PlotRead ==
    /\ plot.at = "read"
    /\ \/ /\ fifo.units > 0
          /\ LET full == plot.got + 1 = FrameUnits
             IN /\ plot' = [plot EXCEPT !.got = @ + 1, !.at = IF full THEN "idle" ELSE "read"]
                /\ fifo' = [fifo EXCEPT !.units = IF full /\ ~fifo.writer THEN 0 ELSE @ - 1,
                                        !.orphan = @ /\ ~full]
       \/ /\ fifo.units = 0 /\ ~fifo.writer
          /\ plot' = [plot EXCEPT !.at = "idle", !.skip = TRUE]
          /\ fifo' = [fifo EXCEPT !.orphan = FALSE]
    /\ UNCHANGED <<kind, daemon, shared, gui, todo, tool, acts>>

-----------------------------------------------------------------------------
Next ==
    \/ StartDaemon \/ (\E orderly \in BOOLEAN : StopDaemon(orderly)) \/ HandleSignal
    \/ ToolAttach \/ ToolWrite
    \/ StartGui \/ (\E killed \in BOOLEAN : QuitGui(killed)) \/ jmrg_panel_switched \/ Blur \/ Polled \/ UserActs \/ Handler
    \/ write_to_sock \/ jmrg_mpxp_redraw \/ PlotRead

\* Handlers and reads go on, the daemon has a period to write, it handles its signals, and
\* the timers of the main loop all get their turn, however often one of them is busy.
Fairness ==
    /\ WF_vars(Handler) /\ WF_vars(PlotRead) /\ WF_vars(write_to_sock) /\ WF_vars(HandleSignal)
    /\ WF_vars(ToolWrite)
    /\ SF_vars(Polled)

Spec == Init /\ [][Next]_vars /\ Fairness

-----------------------------------------------------------------------------
\* The panel never undoes what somebody asked for: once its handlers are through, the
\* segment has the value last asked for, with a tool or with a click, although polling
\* runs handlers that write.  Unless another process wrote while one of them ran, or the
\* value is beyond the end of the scale.
NotReverted ==
    gui.map # 0 /\ todo = <<>> /\ ~raced /\ kind # "list" =>
        \/ mem[gui.map] = wish[gui.map]
        \/ kind = "gain" /\ wish[gui.map] > GainMax /\ mem[gui.map] = GainMax

\* What the panel shows agrees with the segment, with what polling cannot see: a radio
\* button whose value is the one polled last, a country without a name, the high bits of
\* a language, a text that was removed, receivers that changed and not their number.
InStep ==
    gui.map # 0 =>
    LET v == mem[gui.map]
    IN CASE kind = "gain" -> gui.shown = Clamp(v)
         [] kind = "mode" -> gui.shown = v \/ gui.old = v
         [] kind = "ecc" -> v \in Countries => gui.shown = v
         [] kind = "lic" -> gui.shown = Language(v)
         [] kind = "text" -> v # Nothing => gui.shown = v
         [] kind = "list" -> gui.old = Cardinality(v)
         [] OTHER -> gui.shown = v

\* While a page stays in view without the focus, and the daemon is there, the panel comes
\* to show what is in the segment, and goes on to.
Converges ==
    <>[](gui.map = gen /\ up /\ gui.page = Page[kind] /\ gui.focus = Nothing) => <>[]InStep

\* The plotter's callback returns, and with it the main loop, as long as the daemon is
\* there.  One that is in open() when the daemon goes waits for the next daemon, or for ever if
\* the fifo was removed.
PlotReturns ==
    plot.at # "idle" ~> plot.at = "idle" \/ (plot.at = "open" /\ (~up \/ fifo.orphan))

=============================================================================
