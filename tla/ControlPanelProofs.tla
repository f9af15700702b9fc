------------------------- MODULE ControlPanelProofs -------------------------
(***************************************************************************)
(* Proof about ControlPanel, for any number of actions, of users and of    *)
(* restarts of the daemon: polling does not undo what was asked for.       *)
(***************************************************************************)
EXTENDS ControlPanel, TLAPS

\* The latest segment the panel has written, or may write.
Base == IF gui.map = 0 THEN gen ELSE gui.map

\* The value v is what was asked for with w.
Agrees(v, w) == v = w \/ (kind = "gain" /\ w > GainMax /\ v = GainMax)

\* What is left of a handler ends with the value asked for.
Ends(do, shown, v, w) ==
    \/ do = <<>> /\ Agrees(v, w)
    \/ \E x : do = <<Put(x)>> /\ Agrees(x, w)
    \/ \E x, y : do = <<Put(x), Put(y)>> /\ Agrees(y, w)
    \/ \E b : /\ do = <<Toggle(b)>>
              /\ kind = "di"
              /\ b \in shown <=> b \in w
              /\ v \ {b} = w \ {b}

\* Types, as far as they matter: records and functions with their domains.
Shapes ==
    /\ kind \in DOMAIN Default
    /\ gen \in 0..MaxGens
    /\ up => gen # 0
    /\ gui = [map |-> gui.map, shown |-> gui.shown, old |-> gui.old, focus |-> gui.focus,
              page |-> gui.page]
    /\ gui.map \in 0..gen
    /\ tool \in 0..gen
    /\ mem = [g \in Gens |-> mem[g]]
    /\ wish = [g \in Gens |-> wish[g]]
    /\ raced \in BOOLEAN

\* What is left of a handler, of whatever widget.
Form(do) ==
    \/ do = <<>>
    \/ \E x : do = <<Put(x)>>
    \/ \E x, y : do = <<Put(x), Put(y)>>
    \/ kind = "di" /\ \E b : do = <<Toggle(b)>>

\* A mode above 4 would be shown, and stored, as 0.
Modes == kind = "mode" => \A g \in Gens : wish[g] \in 0..4

\* Segments the panel has not had are as the tools left them; its own, unless raced, is on
\* the way to the value asked for.
Kept ==
    kind # "list" =>
        /\ queue = <<>>
        /\ \A g \in Gens : g > Base => mem[g] = wish[g]
        /\ ~raced /\ Base # 0 => Ends(todo, gui.shown, mem[Base], wish[Base])

IInv ==
    /\ Shapes
    /\ Form(todo)
    /\ Modes
    /\ gui.map = 0 => gui = Off /\ todo = <<>>
    /\ Kept

-----------------------------------------------------------------------------
LEMMA Start == Init => IInv
<1> SUFFICES ASSUME Init PROVE IInv
    BY Zenon
<1> USE KindsAssumption DEF Init
<1>1. Shapes
  <2>1. mem = [g \in Gens |-> mem[g]] /\ wish = [g \in Gens |-> wish[g]]
        BY SMT
  <2>2. gui = [map |-> gui.map, shown |-> gui.shown, old |-> gui.old, focus |-> gui.focus,
               page |-> gui.page]
        BY Zenon DEF Off
  <2>3. gui.map = 0
        BY Zenon DEF Off
  <2>4. kind \in DOMAIN Default
        BY Zenon
  <2>5. gen \in 0..MaxGens /\ gui.map \in 0..gen /\ tool \in 0..gen
        BY <2>3
  <2> QED BY <2>1, <2>2, <2>4, <2>5, Zenon DEF Shapes
<1>2. Modes
      BY DEF Modes, Default, Gens
<1>3. Kept
      BY Zenon DEF Kept, Base, Off, Gens
<1> QED BY <1>1, <1>2, <1>3, Zenon DEF IInv, Form

\* The daemon, the plotter and the ends of a tool's call leave handlers and values alone.
LEMMA Apart ==
    ASSUME IInv, UNCHANGED <<kind, mem, wish, gui, todo>>, raced' = raced,
           gen' \in gen..MaxGens, up' => gen' # 0, tool' \in 0..gen',
           kind # "list" => queue' = <<>>
    PROVE  IInv'
<1>1. Shapes'
      BY KindsAssumption DEF IInv, Shapes, Gens
<1>2. Kept'
  <2> SUFFICES ASSUME kind # "list" PROVE Kept'
      BY Zenon DEF Kept
  <2>1. gen \in Nat /\ gen' \in Nat /\ gen' >= gen /\ gen' <= MaxGens /\ gui.map \in Nat /\ MaxGens \in Nat
        BY KindsAssumption DEF IInv, Shapes
  <2>2. \A g \in Gens : g > Base' => g > Base
        BY <2>1 DEF Base, Gens
  <2>3. Base' = Base \/ (gui.map = 0 /\ Base' > Base /\ Base' \in Gens)
        BY <2>1 DEF Base, Gens
  <2>4. ASSUME ~raced, Base' # 0 PROVE Ends(todo, gui.shown, mem[Base'], wish[Base'])
    <3>1. CASE Base' = Base
          BY <2>4, <3>1, Zenon DEF IInv, Kept
    <3>2. CASE gui.map = 0 /\ Base' > Base /\ Base' \in Gens
          BY <3>2, Zenon DEF IInv, Kept, Ends, Agrees
    <3> QED BY <2>3, <3>1, <3>2, Zenon
  <2> QED BY <2>2, <2>4, Zenon DEF IInv, Kept, Ends, Agrees
<1> QED BY <1>1, <1>2, Zenon DEF IInv, Form, Modes

\* A step of the panel, which has a segment, changes that one only.
LEMMA Panel ==
    ASSUME IInv, gui.map # 0, UNCHANGED <<kind, up, gen, tool>>,
           kind # "list" => queue' = queue,
           gui' = [map |-> gui'.map, shown |-> gui'.shown, old |-> gui'.old,
                   focus |-> gui'.focus, page |-> gui'.page],
           gui'.map = gui.map,
           mem' = [mem EXCEPT ![gui.map] = mem'[gui.map]],
           wish' = [wish EXCEPT ![gui.map] = wish'[gui.map]],
           kind = "mode" => wish'[gui.map] \in 0..4,
           raced' \in BOOLEAN,
           Form(todo)',
           kind # "list" /\ ~raced' => Ends(todo', gui'.shown, mem'[gui.map], wish'[gui.map])
    PROVE  IInv'
<1>1. gui.map \in Gens /\ gen \in Nat
      BY KindsAssumption DEF IInv, Shapes, Gens
<1>3. \A g \in Gens : g # gui.map => mem'[g] = mem[g] /\ wish'[g] = wish[g]
      BY Zenon DEF IInv, Shapes
<1>4. Shapes'
  <2>1. mem' = [g \in Gens |-> mem'[g]] /\ wish' = [g \in Gens |-> wish'[g]]
        BY Zenon DEF IInv, Shapes
  <2> QED BY <2>1, Zenon DEF IInv, Shapes, Gens
<1>5. Modes'
      BY <1>3, Zenon DEF IInv, Modes, Gens
<1>6. Base = gui.map /\ Base' = gui.map
      BY Zenon DEF Base
<1>7. Kept'
  <2> SUFFICES ASSUME kind # "list" PROVE Kept'
      BY Zenon DEF Kept
  <2>1. \A g \in Gens : g > Base' => mem'[g] = wish'[g]
        BY <1>1, <1>3, <1>6 DEF IInv, Kept, Gens
  <2>2. ~raced' => Ends(todo, gui.shown, mem[Base], wish[Base])'
        BY <1>6, Zenon DEF Ends, Agrees
  <2> QED BY <2>1, <2>2, Zenon DEF IInv, Kept
<1> QED BY <1>4, <1>5, <1>7, Zenon DEF IInv

-----------------------------------------------------------------------------
LEMMA ApartSteps ==
    ASSUME IInv,
           \/ StartDaemon \/ (\E orderly \in BOOLEAN : StopDaemon(orderly)) \/ ToolAttach
           \/ write_to_sock \/ jmrg_mpxp_redraw \/ PlotRead
    PROVE  IInv'
<1>1. gen \in 0..MaxGens /\ tool \in 0..gen /\ MaxGens \in Nat /\ (up => gen # 0)
      BY KindsAssumption, Zenon DEF IInv, Shapes
<1>2. kind # "list" => queue = <<>>
      BY Zenon DEF IInv, Kept
<1>3. CASE StartDaemon
      BY <1>1, <1>3, Apart DEF StartDaemon
<1>4. CASE \E orderly \in BOOLEAN : StopDaemon(orderly)
  <2>1. ~up' /\ UNCHANGED <<kind, gen, mem, queue, wish, raced, gui, todo, tool>>
        BY <1>4, Zenon DEF StopDaemon, shared
  <2> QED BY <1>1, <1>2, <2>1, Apart
<1>5. CASE ToolAttach
      BY <1>1, <1>2, <1>5, Apart DEF ToolAttach, shared, daemon
<1>6. CASE write_to_sock
      BY <1>1, <1>2, <1>6, Apart DEF write_to_sock, shared, daemon
<1>7. CASE jmrg_mpxp_redraw
      BY <1>1, <1>2, <1>7, Apart DEF jmrg_mpxp_redraw, shared, daemon
<1>8. CASE PlotRead
      BY <1>1, <1>2, <1>8, Apart DEF PlotRead, shared, daemon
<1> QED BY <1>3, <1>4, <1>5, <1>6, <1>7, <1>8, Zenon

LEMMA SignalStep == ASSUME IInv, HandleSignal PROVE IInv'
<1>1. kind = "list" /\ kind' = "list"
      BY Zenon DEF HandleSignal, IInv, Kept
<1>2. Shapes'
  <2>1. mem' = [g \in Gens |-> mem'[g]]
        BY Zenon DEF HandleSignal, IInv, Shapes
  <2> QED BY <2>1, Zenon DEF HandleSignal, daemon, IInv, Shapes
<1> QED BY <1>1, <1>2, Zenon DEF HandleSignal, IInv, Form, Modes, Kept

\* What a tool stores in the mode's field.
LEMMA ToolModes == kind = "mode" => FmmodToolValues \cup RdsToolValues \subseteq 0..4
<1> SUFFICES ASSUME kind = "mode" PROVE FmmodToolValues \cup RdsToolValues \subseteq 0..4
    BY Zenon
<1>1. RdsToolValues = {}
      BY Zenon DEF RdsToolValues
<1>2. \A x \in 0..7 : ToolMode(x) \in 0..4
      BY DEF ToolMode
<1>3. FmmodToolValues = {ToolMode(x % 8) : x \in {1, 2, 7}}
      BY Zenon DEF FmmodToolValues
<1> QED BY <1>1, <1>2, <1>3

LEMMA ToolStep == ASSUME IInv, ToolWrite PROVE IInv'
<1>1. gen \in Nat /\ tool \in Gens /\ gui.map \in 0..gen /\ MaxGens \in Nat
      BY KindsAssumption DEF ToolWrite, IInv, Shapes, Gens
<1>2. CASE RtpToolSignals
  <2>1. kind = "list" /\ kind' = "list"
        BY <1>2, Zenon DEF RtpToolSignals, ToolWrite
  <2> QED BY <1>1, <1>2, <2>1, Apart, KindsAssumption DEF RtpToolSignals, ToolWrite, daemon, IInv, Shapes
<1>3. ASSUME NEW v \in FmmodToolValues \cup RdsToolValues,
             mem' = [mem EXCEPT ![tool] = v], wish' = [wish EXCEPT ![tool] = v],
             raced' = IF tool = gui.map THEN todo # <<>> ELSE raced, UNCHANGED queue
      PROVE  IInv'
  <2>1. mem'[tool] = v /\ wish'[tool] = v
        BY <1>1, <1>3, Zenon DEF IInv, Shapes
  <2>2. \A g \in Gens : g # tool => mem'[g] = mem[g] /\ wish'[g] = wish[g]
        BY <1>3, Zenon DEF IInv, Shapes
  <2>3. Shapes'
    <3>1. mem' = [g \in Gens |-> mem'[g]] /\ wish' = [g \in Gens |-> wish'[g]]
          BY <1>3, Zenon DEF IInv, Shapes
    <3>2. raced' \in BOOLEAN
          BY <1>3, Zenon DEF IInv, Shapes
    <3> QED BY <3>1, <3>2, <1>1 DEF IInv, Shapes, ToolWrite, daemon
  <2>4. Modes'
        BY <2>1, <2>2, ToolModes, Zenon DEF IInv, Modes, ToolWrite, Gens
  <2>5. Base' = Base
        BY Zenon DEF Base, ToolWrite, daemon
  <2>6. Kept'
    <3> SUFFICES ASSUME kind # "list" PROVE Kept'
        BY Zenon DEF Kept, ToolWrite
    <3>1. \A g \in Gens : g > Base' => mem'[g] = wish'[g]
          BY <2>1, <2>2, <2>5, Zenon DEF IInv, Kept
    <3>2. ASSUME ~raced', Base # 0
          PROVE  Ends(todo, gui.shown, mem'[Base], wish'[Base])
      <4>1. CASE Base = tool
        <5>1. todo = <<>>
              BY <1>1, <1>3, <3>2, <4>1, Zenon DEF IInv, Base
        <5> QED BY <2>1, <4>1, <5>1, Zenon DEF Ends, Agrees
      <4>2. CASE Base # tool
        <5>1. ~raced /\ Base \in Gens
              BY <1>1, <1>3, <3>2, <4>2 DEF Base, Gens, IInv, Shapes
        <5> QED BY <2>2, <3>2, <4>2, <5>1, Zenon DEF IInv, Kept
      <4> QED BY <4>1, <4>2, Zenon
    <3>3. ~raced' /\ Base' # 0 => Ends(todo, gui.shown, mem[Base], wish[Base])'
          BY <2>5, <3>2, Zenon DEF Ends, Agrees, ToolWrite
    <3> QED BY <1>3, <3>1, <3>3, Zenon DEF IInv, Kept
  <2> QED BY <2>3, <2>4, <2>6, Zenon DEF IInv, Form, ToolWrite
<1> QED BY <1>2, <1>3, Zenon DEF ToolWrite

-----------------------------------------------------------------------------
\* A new panel has the current segment, and nothing to do.
LEMMA StartStep == ASSUME IInv, StartGui PROVE IInv'
<1>1. gui.map = 0 /\ todo = <<>> /\ gui'.map = gen /\ gen \in 0..MaxGens
      BY Zenon DEF StartGui, Off, IInv, Shapes
<1>2. UNCHANGED <<kind, up, gen, mem, queue, wish, raced, todo, tool>>
      BY Zenon DEF StartGui, daemon, shared
<1>3. Shapes'
  <2>1. gui' = [map |-> gui'.map, shown |-> gui'.shown, old |-> gui'.old, focus |-> gui'.focus,
                page |-> gui'.page]
        BY Zenon DEF StartGui
  <2> QED BY <1>1, <1>2, <2>1, KindsAssumption DEF IInv, Shapes
<1>4. Base' = Base
      BY <1>1, <1>2, Zenon DEF Base
<1>5. Kept'
      BY <1>1, <1>2, <1>4, Zenon DEF IInv, Kept, Ends, Agrees
<1>6. (gui.map = 0 => gui = Off /\ todo = <<>>)'
  <2>1. SUFFICES ASSUME gen = 0 PROVE FALSE
        BY <1>1, Zenon
  <2> QED BY <2>1, Zenon DEF StartGui, IInv, Shapes
<1> QED BY <1>2, <1>3, <1>5, <1>6, Zenon DEF IInv, Form, Modes

\* A panel that ends in a handler leaves its segment raced.
LEMMA QuitStep == ASSUME IInv, NEW killed \in BOOLEAN, QuitGui(killed) PROVE IInv'
<1>1. gui' = Off /\ gui'.map = 0 /\ todo' = <<>> /\ raced' = (raced \/ todo # <<>>)
      BY Zenon DEF QuitGui, Off
<1>2. UNCHANGED <<kind, up, gen, mem, queue, wish, tool>>
      BY Zenon DEF QuitGui, daemon
<1>3. gen \in Nat /\ gui.map \in 0..gen /\ gen <= MaxGens /\ MaxGens \in Nat
      BY KindsAssumption DEF IInv, Shapes
<1>4. Shapes'
      BY <1>1, <1>2, <1>3 DEF IInv, Shapes, Off
<1>5. Base' = gen /\ Base <= gen
      BY <1>1, <1>2, <1>3 DEF Base
<1>6. Kept'
  <2> SUFFICES ASSUME kind # "list" PROVE Kept'
      BY <1>2, Zenon DEF Kept
  <2>1. \A g \in Gens : g > gen => mem[g] = wish[g]
        BY <1>3, <1>5 DEF IInv, Kept, Base, Gens
  <2>2. ASSUME ~raced', gen # 0 PROVE Agrees(mem[gen], wish[gen])
    <3>1. ~raced /\ todo = <<>>
          BY <1>1, <2>2, Zenon
    <3>2. CASE Base = gen
          BY <3>1, <3>2, <2>2, Zenon DEF IInv, Kept, Ends
    <3>3. CASE Base # gen
      <4>1. gen \in Gens /\ gen > Base
            BY <1>3, <1>5, <2>2, <3>3 DEF Gens, Base
      <4> QED BY <4>1, Zenon DEF IInv, Kept, Agrees
    <3> QED BY <3>2, <3>3, Zenon
  <2> QED BY <1>1, <1>2, <1>5, <2>1, <2>2, Zenon DEF IInv, Kept, Ends, Agrees
<1> QED BY <1>1, <1>2, <1>4, <1>6, Zenon DEF IInv, Form, Modes

-----------------------------------------------------------------------------
LEMMA OwnSegment ==
    ASSUME IInv, gui.map # 0
    PROVE  /\ gui.map \in Gens
           /\ mem = [mem EXCEPT ![gui.map] = mem[gui.map]]
           /\ wish = [wish EXCEPT ![gui.map] = wish[gui.map]]
           /\ kind = "mode" => wish[gui.map] \in 0..4
<1>1. gui.map \in Gens
      BY KindsAssumption DEF IInv, Shapes, Gens
<1> QED BY <1>1, Zenon DEF IInv, Shapes, Modes

LEMMA LookStep == ASSUME IInv, jmrg_panel_switched \/ Blur PROVE IInv'
<1>1. gui.map # 0 /\ todo = <<>> /\ todo' = <<>> /\ UNCHANGED <<kind, up, gen, mem, queue, wish, raced, tool>>
      BY Zenon DEF jmrg_panel_switched, Blur, Free, daemon, shared
<1>2. PICK p : gui' = [gui EXCEPT !.page = p, !.focus = Nothing]
  <2>1. CASE jmrg_panel_switched
        BY <2>1, Zenon DEF jmrg_panel_switched
  <2>2. CASE Blur
    <3>1. gui' = [gui EXCEPT !.page = gui.page, !.focus = Nothing]
          BY <2>2, Zenon DEF Blur, IInv, Shapes
    <3> QED BY <3>1, Zenon
  <2> QED BY <2>1, <2>2, Zenon
<1>3. gui' = [map |-> gui'.map, shown |-> gui'.shown, old |-> gui'.old,
              focus |-> gui'.focus, page |-> gui'.page] /\ gui'.map = gui.map
      BY <1>2, Zenon DEF IInv, Shapes
<1>7. Form(todo)' /\ raced' \in BOOLEAN
      BY <1>1, Zenon DEF Form, IInv, Shapes
<1>8. kind # "list" /\ ~raced' => Ends(todo', gui'.shown, mem'[gui.map], wish'[gui.map])
      BY <1>1, Zenon DEF IInv, Kept, Base, Ends
<1> QED BY <1>1, <1>3, <1>7, <1>8, OwnSegment, Panel, Zenon

\* A poll: the handler it starts, if any, stores what was polled, up to the end of the scale.
LEMMA PollEnds ==
    ASSUME IInv, gui.map # 0, todo = <<>>, NEW b, NEW p \in Poll(mem[gui.map], b)
    PROVE  /\ Form(p.todo)
           /\ kind # "list" /\ ~raced => Ends(p.todo, p.shown, mem[gui.map], wish[gui.map])
<1> DEFINE v == mem[gui.map]
           w == wish[gui.map]
<1>1. kind # "list" /\ ~raced => Agrees(v, w)
      BY Zenon DEF IInv, Kept, Base, Ends
<1>2. p.todo = <<>> => Form(p.todo) /\ (kind # "list" /\ ~raced => Ends(p.todo, p.shown, v, w))
      BY <1>1, Zenon DEF Form, Ends
<1>3. ASSUME NEW x, p = Echo(x), Agrees(v, w) => Agrees(x, w), kind # "list"
      PROVE  Form(p.todo) /\ (~raced => Ends(p.todo, p.shown, v, w))
  <2>1. p.todo = <<>> \/ p.todo = <<Put(x)>>
        BY <1>3, Zenon DEF Echo, Show, Same
  <2> QED BY <1>1, <1>2, <1>3, <2>1, Zenon DEF Form, Ends
<1>4. CASE kind = "gain"
  <2>1. p = Echo(Clamp(v))
        BY <1>4, Zenon DEF Poll, PollScale
  <2>2. Agrees(v, w) => Agrees(Clamp(v), w)
        BY <1>4 DEF Agrees, Clamp, GainMax
  <2> QED BY <1>3, <1>4, <2>1, <2>2, Zenon
<1>5. CASE kind \in {"lpf", "pty"}
  <2>1. p = Echo(v)
        BY <1>5, Zenon DEF Poll, PollSwitch, PollCombo
  <2> QED BY <1>3, <1>5, <2>1, Zenon
<1>6. CASE kind = "mode"
  <2>1. p = PollRadio(v)
        BY <1>6, Zenon DEF Poll
  <2>2. \/ p.todo = <<>>
        \/ p.todo = <<Put(gui.shown), Put(IF v > 4 THEN 0 ELSE v)>>
        BY <2>1, Zenon DEF PollRadio, Same, RadioToggled
  <2>3. ~raced => v = w /\ ~(v > 4)
        BY <1>1, <1>6, OwnSegment DEF Agrees
  <2>4. CASE p.todo = <<Put(gui.shown), Put(IF v > 4 THEN 0 ELSE v)>>
        BY <1>6, <2>3, <2>4, Zenon DEF Form, Ends, Agrees
  <2> QED BY <1>2, <2>2, <2>4, Zenon
<1>7. CASE kind = "di"
  <2>1. p = PollCheckbox(v, b)
        BY <1>7, Zenon DEF Poll
  <2>2. CASE (b \in v) = (b \in gui.shown)
        BY <1>2, <2>1, <2>2, Zenon DEF PollCheckbox, Same
  <2>3. CASE (b \in v) # (b \in gui.shown)
    <3>1. p.todo = <<Toggle(b)>> /\ p.shown = IF b \in v THEN gui.shown \cup {b} ELSE gui.shown \ {b}
          BY <2>1, <2>3, Zenon DEF PollCheckbox, Same, Show
    <3>2. b \in p.shown <=> b \in v
          BY <3>1, Zenon
    <3>3. ~raced => v = w
          BY <1>1, <1>7, Zenon DEF Agrees
    <3> QED BY <1>7, <3>1, <3>2, <3>3, Zenon DEF Form, Ends
  <2> QED BY <2>2, <2>3, Zenon
<1>8. CASE kind \in {"ecc", "lic", "text", "list"}
  <2>1. \A x : Show(x).todo = <<>>
        BY Zenon DEF Show, Same
  <2>2. Same.todo = <<>>
        BY Zenon DEF Same
  <2>3. CASE kind = "ecc"
    <3>1. p = Same \/ \E x : p = Show(x)
          BY <2>3, Zenon DEF Poll, PollCountry
    <3> QED BY <1>2, <2>1, <2>2, <3>1, Zenon
  <2>4. CASE kind = "lic"
    <3>1. p = Show(Language(v))
          BY <2>4, Zenon DEF Poll
    <3> QED BY <1>2, <2>1, <3>1, Zenon
  <2>5. CASE kind = "text"
    <3>1. p = Same \/ p = Show(v)
          BY <2>5, Zenon DEF Poll, PollText
    <3> QED BY <1>2, <2>1, <2>2, <3>1, Zenon
  <2>6. CASE kind = "list"
    <3>1. p = PollList(v)
          BY <2>6, Zenon DEF Poll
    <3>2. p.todo = <<>>
          BY <3>1, Zenon DEF PollList, Show, Same
    <3> QED BY <1>2, <3>2, Zenon
  <2> QED BY <1>8, <2>3, <2>4, <2>5, <2>6, Zenon
<1> QED BY <1>4, <1>5, <1>6, <1>7, <1>8, Zenon DEF IInv, Shapes, Default

LEMMA PolledStep == ASSUME IInv, Polled PROVE IInv'
<1>1. gui.map # 0 /\ todo = <<>> /\ UNCHANGED <<kind, up, gen, mem, queue, wish, raced, tool>>
      BY Zenon DEF Polled, Free, daemon, shared
<1>2. PICK b, p :
        /\ p \in Poll(mem[gui.map], b)
        /\ gui' = [gui EXCEPT !.shown = p.shown, !.old = p.old]
        /\ todo' = p.todo
      BY Zenon DEF Polled
<1>3. gui' = [map |-> gui'.map, shown |-> gui'.shown, old |-> gui'.old,
              focus |-> gui'.focus, page |-> gui'.page] /\ gui'.map = gui.map /\ gui'.shown = p.shown
      BY <1>2, Zenon DEF IInv, Shapes
<1>4. /\ Form(p.todo)
      /\ kind # "list" /\ ~raced => Ends(p.todo, p.shown, mem[gui.map], wish[gui.map])
      BY <1>1, <1>2, PollEnds, Zenon
<1>5. Form(todo)' /\ raced' \in BOOLEAN
      BY <1>1, <1>2, <1>4, Zenon DEF Form, IInv, Shapes
<1> QED BY <1>1, <1>2, <1>3, <1>4, <1>5, OwnSegment, Panel, Zenon

-----------------------------------------------------------------------------
LEMMA UserStep ==
    ASSUME IInv, gui.map # 0, todo = <<>>, UNCHANGED <<kind, up, gen, mem, queue, tool>>,
           NEW shown, NEW old, NEW focus, NEW do, NEW asked, User(shown, old, focus, do, asked),
           Form(do),
           kind = "mode" => asked \in 0..4,
           kind # "list" /\ ~(raced /\ (kind = "di" \/ do = <<>>)) =>
               Ends(do, shown, mem[gui.map], asked)
    PROVE  IInv'
<1>1. gui' = [map |-> gui'.map, shown |-> gui'.shown, old |-> gui'.old,
              focus |-> gui'.focus, page |-> gui'.page] /\ gui'.map = gui.map /\ gui'.shown = shown
      BY Zenon DEF User, IInv, Shapes
<1>2. /\ wish'[gui.map] = asked
      /\ wish' = [wish EXCEPT ![gui.map] = wish'[gui.map]]
      BY OwnSegment, Zenon DEF User, IInv, Shapes
<1>3. Form(todo)'
      BY Zenon DEF User, Form
<1>4. raced' \in BOOLEAN /\ todo' = do
      BY Zenon DEF User
<1>5. kind # "list" /\ ~raced' => Ends(todo', gui'.shown, mem'[gui.map], wish'[gui.map])
      BY <1>1, <1>2, Zenon DEF User
<1> QED BY <1>1, <1>2, <1>3, <1>4, <1>5, OwnSegment, Panel, Zenon

\* A click with a value, which the handler stores.
LEMMA Forms == \A x, y : Form(<<Put(x)>>) /\ Form(<<Put(x), Put(y)>>) /\ Form(<<>>)
BY Zenon DEF Form

LEMMA Stores ==
    \A x, y, a, b : Ends(<<Put(y)>>, a, b, y) /\ Ends(<<Put(x), Put(y)>>, a, b, y)
BY DEF Ends, Agrees

LEMMA ClickStep ==
    ASSUME IInv, gui.map # 0, todo = <<>>, UNCHANGED <<kind, up, gen, mem, queue, tool>>, Click
    PROVE  IInv'
<1>1. CASE MoveScale
  <2>1. PICK v : User(v, 0, Nothing, <<Put(v)>>, v)
        BY <1>1, Zenon DEF MoveScale
  <2>2. kind # "mode"
        BY <1>1, Zenon DEF MoveScale
  <2>3. Form(<<Put(v)>>) /\ Ends(<<Put(v)>>, v, mem[gui.map], v)
        BY Forms, Stores, Zenon
  <2> QED BY <2>1, <2>2, <2>3, UserStep, Zenon
<1>2. CASE FlipSwitch
  <2>1. PICK v : User(v, 0, kind, <<Put(v)>>, v)
        BY <1>2, Zenon DEF FlipSwitch
  <2>2. kind # "mode"
        BY <1>2, Zenon DEF FlipSwitch
  <2>3. Form(<<Put(v)>>) /\ Ends(<<Put(v)>>, v, mem[gui.map], v)
        BY Forms, Stores, Zenon
  <2> QED BY <2>1, <2>2, <2>3, UserStep, Zenon
<1>3. CASE ChooseEntry
  <2>1. PICK v \in {10, 31} : User(v, 0, kind, <<Put(v)>>, v)
        BY <1>3, Zenon DEF ChooseEntry
  <2>2. kind # "mode"
        BY <1>3, Zenon DEF ChooseEntry
  <2>3. Form(<<Put(v)>>) /\ Ends(<<Put(v)>>, v, mem[gui.map], v)
        BY Forms, Stores, Zenon
  <2> QED BY <2>1, <2>2, <2>3, UserStep
<1>4. CASE PressRadio
  <2>1. PICK v \in 0..2 : User(v, gui.old, Nothing, <<Put(gui.shown), Put(v)>>, v)
        BY <1>4, Zenon DEF PressRadio, RadioToggled
  <2>2. v \in 0..4
        OBVIOUS
  <2>3. /\ Form(<<Put(gui.shown), Put(v)>>)
        /\ Ends(<<Put(gui.shown), Put(v)>>, v, mem[gui.map], v)
        BY Forms, Stores, Zenon
  <2> QED BY <2>1, <2>2, <2>3, UserStep, Zenon
<1>5. CASE TickBox
  <2>1. PICK b \in Bits :
           LET flip(S) == IF b \in gui.shown THEN S \ {b} ELSE S \cup {b}
           IN User(flip(gui.shown), 0, b, <<Toggle(b)>>, flip(wish[gui.map]))
        BY <1>5, Zenon DEF TickBox
  <2> DEFINE flip(S) == IF b \in gui.shown THEN S \ {b} ELSE S \cup {b}
  <2>2. Form(<<Toggle(b)>>) /\ kind = "di"
        BY <1>5, Zenon DEF Form, TickBox
  <2>3. ~raced => mem[gui.map] = wish[gui.map]
        BY <2>2, Zenon DEF IInv, Kept, Base, Ends, Agrees
  <2>4. ~raced => Ends(<<Toggle(b)>>, flip(gui.shown), mem[gui.map], flip(wish[gui.map]))
    <3>1. b \in flip(gui.shown) <=> b \in flip(wish[gui.map])
          BY Zenon
    <3>2. ~raced => mem[gui.map] \ {b} = flip(wish[gui.map]) \ {b}
          BY <2>3, Zenon
    <3> QED BY <2>2, <3>1, <3>2, Zenon DEF Ends
  <2>5. User(flip(gui.shown), 0, b, <<Toggle(b)>>, flip(wish[gui.map]))
        BY <2>1, Zenon
  <2> HIDE DEF flip
  <2> QED BY <2>2, <2>4, <2>5, UserStep, Zenon
<1>6. CASE SelectMatch
  <2>1. PICK v : User(v, v, kind, <<>>, wish[gui.map])
        BY <1>6 DEF SelectMatch
  <2>2. kind # "list" /\ ~raced => Ends(<<>>, v, mem[gui.map], wish[gui.map])
        BY Zenon DEF IInv, Kept, Base, Ends
  <2> QED BY <1>6, <2>1, <2>2, Forms, OwnSegment, UserStep, Zenon DEF SelectMatch
<1>7. CASE PressSet
  <2>1. kind # "mode"
        BY <1>7, Zenon DEF PressSet
  <2>2. PICK v, old : User(gui.shown, old, Nothing, <<Put(v)>>, v)
        BY <1>7, Zenon DEF PressSet
  <2> QED BY <2>1, <2>2, Forms, Stores, UserStep, Zenon
<1> QED BY <1>1, <1>2, <1>3, <1>4, <1>5, <1>6, <1>7, Zenon DEF Click

LEMMA ListStep ==
    ASSUME IInv, gui.map # 0, todo = <<>>, UNCHANGED <<kind, up, gen, mem, tool>>, ClickList
    PROVE  IInv'
<1>1. kind = "list" /\ todo' = <<>> /\ wish' = wish /\ raced' = raced
      BY Zenon DEF ClickList
<1>2. gui' = gui \/ \E x : gui' = [gui EXCEPT !.shown = x]
      BY Zenon DEF ClickList, AddAddress, jmrg_iplist_remove
<1>3. gui' = [map |-> gui'.map, shown |-> gui'.shown, old |-> gui'.old,
              focus |-> gui'.focus, page |-> gui'.page] /\ gui'.map = gui.map
      BY <1>2, Zenon DEF IInv, Shapes
<1>4. Form(todo)' /\ raced' \in BOOLEAN
      BY <1>1, Zenon DEF Form, IInv, Shapes
<1> QED BY <1>1, <1>3, <1>4, OwnSegment, Panel, Zenon

LEMMA ActStep == ASSUME IInv, UserActs PROVE IInv'
<1>1. gui.map # 0 /\ todo = <<>> /\ UNCHANGED <<kind, up, gen, mem, tool>>
      BY Zenon DEF UserActs, Free, daemon
<1> QED BY <1>1, ClickStep, ListStep, Zenon DEF UserActs

\* A step of a handler brings it nearer to its end.
LEMMA HandlerStep == ASSUME IInv, Handler PROVE IInv'
<1> DEFINE v == mem[gui.map]
           w == wish[gui.map]
<1>1. gui.map # 0 /\ todo # <<>> /\ UNCHANGED <<kind, up, gen, gui, queue, wish, raced, tool>>
      BY Zenon DEF Handler, IInv, daemon
<1>2. gui' = [map |-> gui'.map, shown |-> gui'.shown, old |-> gui'.old,
              focus |-> gui'.focus, page |-> gui'.page] /\ raced' \in BOOLEAN
      BY <1>1, Zenon DEF IInv, Shapes
<1>3. kind # "list" /\ ~raced => Ends(todo, gui.shown, v, w)
      BY <1>1, Zenon DEF IInv, Kept, Base
<1>4. SUFFICES /\ Form(todo')
               /\ mem' = [mem EXCEPT ![gui.map] = mem'[gui.map]]
               /\ kind # "list" /\ ~raced => Ends(todo', gui.shown, mem'[gui.map], w)
  <2>1. Form(todo') => Form(todo)'
        BY <1>1, Zenon DEF Form
  <2> QED BY <1>1, <1>2, <2>1, OwnSegment, Panel, Zenon
<1>5. ASSUME NEW x, todo = <<Put(x)>>
      PROVE  mem' = [mem EXCEPT ![gui.map] = x] /\ todo' = <<>>
      BY <1>5 DEF Handler, Put
<1>6. ASSUME NEW x, NEW y, todo = <<Put(x), Put(y)>>
      PROVE  mem' = [mem EXCEPT ![gui.map] = x] /\ todo' = <<Put(y)>>
      BY <1>6 DEF Handler, Put
<1>7. ASSUME NEW b, todo = <<Toggle(b)>>
      PROVE  /\ mem' = mem
             /\ todo' = IF (b \in v) = (b \in gui.shown) THEN <<>> ELSE <<Put(Toggled(v, b))>>
      BY <1>7 DEF Handler, Toggle
<1>8. ASSUME NEW x, mem' = [mem EXCEPT ![gui.map] = x]
      PROVE  mem'[gui.map] = x /\ mem' = [mem EXCEPT ![gui.map] = mem'[gui.map]]
      BY <1>1, <1>8, OwnSegment, Zenon DEF IInv, Shapes
<1>9. CASE \E x : todo = <<Put(x)>>
  <2>1. PICK x : todo = <<Put(x)>>
        BY <1>9, Zenon
  <2>2. kind # "list" /\ ~raced => Agrees(x, w)
        BY <1>3, <2>1, Zenon DEF Ends, Put, Toggle
  <2> QED BY <1>5, <1>8, <2>1, <2>2 DEF Form, Ends
<1>10. CASE \E x, y : todo = <<Put(x), Put(y)>>
  <2>1. PICK x, y : todo = <<Put(x), Put(y)>>
        BY <1>10, Zenon
  <2>2. kind # "list" /\ ~raced => Agrees(y, w)
        BY <1>3, <2>1, Zenon DEF Ends, Put, Toggle
  <2> QED BY <1>6, <1>8, <2>1, <2>2, Zenon DEF Form, Ends
<1>11. CASE kind = "di" /\ \E b : todo = <<Toggle(b)>>
  <2>1. PICK b : todo = <<Toggle(b)>>
        BY <1>11, Zenon
  <2>2. ~raced => (b \in gui.shown <=> b \in w) /\ v \ {b} = w \ {b}
        BY <1>3, <1>11, <2>1, Zenon DEF Ends, Put, Toggle
  <2>3. CASE (b \in v) = (b \in gui.shown)
    <3>1. ~raced => v = w
          BY <2>2, <2>3
    <3> QED BY <1>1, <1>7, <2>1, <2>3, <3>1, OwnSegment, Zenon DEF Form, Ends, Agrees
  <2>4. CASE (b \in v) # (b \in gui.shown)
    <3>1. ~raced => Toggled(v, b) = w
          BY <2>2, <2>4, Zenon DEF Toggled
    <3> QED BY <1>1, <1>7, <2>1, <2>4, <3>1, OwnSegment, Zenon DEF Form, Ends, Agrees
  <2> QED BY <2>3, <2>4, Zenon
<1> QED BY <1>1, <1>9, <1>10, <1>11, Zenon DEF IInv, Form

-----------------------------------------------------------------------------
LEMMA NextInv == ASSUME IInv, [Next]_vars PROVE IInv'
<1>1. CASE UNCHANGED vars
      BY <1>1, Zenon DEF vars, IInv, Shapes, Form, Modes, Kept, Base, Ends, Agrees
<1>2. CASE Next
      BY <1>2, ApartSteps, SignalStep, ToolStep, StartStep, QuitStep, LookStep, PolledStep, ActStep,
         HandlerStep, Zenon DEF Next
<1> QED BY <1>1, <1>2, Zenon

\* However many clicks, tools and daemons there are: the polling of jmrg_*_poll and the
\* handlers it sets off leave in the segment what was last asked for.
THEOREM Unreverted == Spec => []NotReverted
<1>1. IInv => NotReverted
  <2> SUFFICES ASSUME IInv, gui.map # 0, todo = <<>>, ~raced, kind # "list"
               PROVE  Agrees(mem[gui.map], wish[gui.map])
      BY Zenon DEF NotReverted, Agrees
  <2> QED BY Zenon DEF IInv, Kept, Base, Ends
<1> QED BY <1>1, Start, NextInv, PTL DEF Spec

=============================================================================
