----------------------------- MODULE MCRdsGroups -----------------------------
(***************************************************************************)
(* RdsGroups with arguments at the edges of the fields, and with times     *)
(* around the ends of months, leap days included.                          *)
(***************************************************************************)
EXTENDS RdsGroups

MCPSs == {<<19009, 21313, 11825, 8224>>}
MCPTYNs == {<<16705, 16962, 17219, 17476>>, <<24929, 25186, 25443, 25700>>}
MCRTs == {<<<<18533, 27756>>, <<28448, 8224>>>>}

Days == {[year |-> y, mon |-> m, day |-> d] : y \in {99, 100, 124, 200}, m \in {1, 2, 3, 12}, d \in {1, 28}}
        \cup {[year |-> 100, mon |-> 2, day |-> 29], [year |-> 124, mon |-> 12, day |-> 31]}

MCTimes ==
    {[year |-> x.year, mon |-> x.mon, day |-> x.day, hour |-> 17, min |-> 31, zone |-> 4] :
        x \in {x \in Days : x.year < 200 \/ x.mon <= 2}}
    \cup {[year |-> 126, mon |-> 6, day |-> 15, hour |-> h, min |-> m, zone |-> z] :
        h \in {0, 15, 16, 23}, m \in {0, 31, 32, 59}, z \in {-7, -2, 0, 11}}

=============================================================================
