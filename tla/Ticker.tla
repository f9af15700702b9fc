-------------------------------- MODULE Ticker --------------------------------
(***************************************************************************)
(* What a dynamic text promises.  A display shows the entries of a cycle   *)
(* one after the other, for ever.  A new text may replace the cycle at any *)
(* time.  A text without entries leaves the display alone, or puts the     *)
(* fixed text on it.  Switched off, the display shows the fixed text.      *)
(***************************************************************************)
EXTENDS Naturals, Sequences

VARIABLES
    on,         \* the display is driven
    name,       \* the fixed text
    cycle,      \* the entries
    pos,        \* the entry to show next
    shown       \* the display

vars == <<on, name, cycle, pos, shown>>

Off == ~on /\ cycle = <<>> /\ pos = 1 /\ shown = name

Init == Off

\* The display is switched on, if that succeeds; what it shows becomes the fixed text.
SwitchOn ==
    /\ ~on
    /\ on' \in BOOLEAN
    /\ name' = shown'
    /\ cycle' = <<>>
    /\ pos' = 1

\* A new text, from its first entry or from any other one.
Load ==
    /\ IF cycle' = <<>> THEN pos' = 1 ELSE pos' \in DOMAIN cycle'
    /\ UNCHANGED <<on, name, shown>>

\* The next entry.
Show ==
    /\ on
    /\ cycle # <<>>
    /\ shown' = cycle[pos]
    /\ pos' = (pos % Len(cycle)) + 1
    /\ UNCHANGED <<on, name, cycle>>

\* Nothing to show.
Fallback ==
    /\ cycle = <<>>
    /\ shown' = name
    /\ UNCHANGED <<on, name, cycle, pos>>

SwitchOff ==
    /\ on' = FALSE
    /\ UNCHANGED <<name, cycle, pos, shown>>

\* The fixed text comes back.
Restore == ~on /\ shown' = name /\ UNCHANGED <<on, name>>

Next == SwitchOn \/ Load \/ Show \/ Fallback \/ SwitchOff \/ Restore

Spec == Init /\ [][Next]_vars /\ WF_vars(Show)

=============================================================================
