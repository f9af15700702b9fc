---------------------------- MODULE RdsScheduler ----------------------------
(***************************************************************************)
(* The RDS group scheduler, rds_get_next_group of rds_encoder.c, together  *)
(* with the segment counter of the basic tuning groups and with the        *)
(* setters of rds_config.c that change what the scheduler may send.        *)
(*                                                                         *)
(* A cycle is what the code calls a second: it starts with the group sent  *)
(* when groups_per_sec_counter restarts. A group that fails to generate    *)
(* ends the encoder (see RdsEncoder), so every call here succeeds.         *)
(***************************************************************************)
EXTENDS Integers

CONSTANT GroupsPerMin          \* RDS_GROUPS_PER_MIN, 720 in the code

ASSUME GroupsPerMinAssumption == GroupsPerMin \in Nat \ {0}

RDS_GROUPS_PER_SEC == 12

\* What makes a group available: label stands for ecc_set || lic_set.
Flags == {"ps", "label", "ptyn", "rt"}

VARIABLES
  flags,     \* the *_set flags of struct rds_encoder_state that are 1
  ps_idx,    \* the PS / DI segment the next 0B or 15B group carries
  sec,       \* groups_per_sec_counter
  min,       \* groups_per_min_counter
  ptyn_cnt,
  basics,    \* 0B and 15B groups sent since groups_per_sec_counter restarted,
  ptyns,     \* 10A groups,
  rts,       \* 2A groups,
  segs,      \* the segments the basic groups carried,
  held,      \* and the flags that were 1 all that time
  sinceCT    \* groups sent since the last 4A

cycle == <<basics, ptyns, rts, segs, held>>

scheduler_vars == <<flags, ps_idx, sec, min, ptyn_cnt, cycle, sinceCT>>

SchedulerInit ==
  /\ flags = {}
  /\ ps_idx = 0
  /\ sec = 0
  /\ min = 0
  /\ ptyn_cnt = 0
  /\ basics = 0 /\ ptyns = 0 /\ rts = 0
  /\ segs = {}
  /\ held = {"ps"}
  /\ sinceCT = 0

----------------------------------------------------------------------------
(* The setters *)

\* rds_set_ps: an empty PS is rejected, so ps_set never returns to 0; the
\* segments start over.
SetPs ==
  /\ flags' = flags \cup {"ps"}
  /\ ps_idx' = 0
  /\ held' = held \ {"ps"}
  /\ UNCHANGED <<sec, min, ptyn_cnt, basics, ptyns, rts, segs, sinceCT>>

\* rds_set_ecc, rds_set_lic, rds_set_ptyn and rds_set_rt with a value.
SetFlag(f) ==
  /\ flags' = flags \cup {f}
  /\ UNCHANGED <<ps_idx, sec, min, ptyn_cnt, cycle, sinceCT>>

\* The same with zero or an empty string.
ClearFlag(f) ==
  /\ flags' = flags \ {f}
  /\ held' = held \ {f}
  /\ UNCHANGED <<ps_idx, sec, min, ptyn_cnt, basics, ptyns, rts, segs, sinceCT>>

----------------------------------------------------------------------------
(* rds_get_next_group *)

NextSegment == ps_idx' = IF ps_idx >= 3 THEN 0 ELSE ps_idx + 1

\* The tail of the function: ptyn_cnt never stays at 2.
PtynCount(n) == ptyn_cnt' = IF n >= 2 THEN 0 ELSE n

\* Mutant of Sent: every group counts twice.
SentTwice(n) ==
  /\ min' = min + 2
  /\ sinceCT' = sinceCT + 1
  /\ UNCHANGED flags

\* The counters of a group that was sent: n counts for groups_per_min_counter.
Sent(n) ==
  /\ min' = min + n
  /\ sinceCT' = sinceCT + 1
  /\ UNCHANGED flags

Due(s, f) == sec < s /\ f \in flags

\* 4A, once the counter of the minute is up; no other counter moves.
ClockTime ==
  /\ min >= GroupsPerMin
  /\ min' = 0
  /\ sinceCT' = 0
  /\ UNCHANGED <<flags, ps_idx, sec, ptyn_cnt, cycle>>

\* The first four slots of a cycle: group 0B, or 15B while there is no PS,
\* with one segment of PS and of DI. (0A is for af_set, which nothing sets.)
BasicGroup ==
  /\ min < GroupsPerMin
  /\ sec < 4
  /\ basics' = basics + 1
  /\ segs' = segs \cup {ps_idx}
  /\ NextSegment
  /\ sec' = sec + 1
  /\ PtynCount(ptyn_cnt)
  /\ Sent(1)
  /\ UNCHANGED <<ptyns, rts, held>>

\* 1A in the fifth slot, for ECC or LIC.
LabelGroup ==
  /\ min < GroupsPerMin
  /\ sec >= 4
  /\ Due(5, "label")
  /\ sec' = sec + 1
  /\ PtynCount(ptyn_cnt)
  /\ Sent(1)
  /\ UNCHANGED <<ps_idx, cycle>>

PtynDue == Due(7, "ptyn") /\ ptyn_cnt < 2

\* 10A, for one half of PTYN.
PtynGroup ==
  /\ min < GroupsPerMin
  /\ sec >= 4
  /\ ~Due(5, "label")
  /\ PtynDue
  /\ ptyns' = ptyns + 1
  /\ sec' = sec + 1
  /\ PtynCount(ptyn_cnt + 1)
  /\ Sent(1)
  /\ UNCHANGED <<ps_idx, basics, rts, segs, held>>

\* Mutant of RtDue: the last slot of the second is left out.
RtDueShort == Due(RDS_GROUPS_PER_SEC - 1, "rt")

RtDue == Due(RDS_GROUPS_PER_SEC, "rt")

\* 2A in the slots that remain.
RtGroup ==
  /\ min < GroupsPerMin
  /\ sec >= 4
  /\ ~Due(5, "label")
  /\ ~PtynDue
  /\ RtDue
  /\ rts' = rts + 1
  /\ sec' = sec + 1
  /\ PtynCount(ptyn_cnt)
  /\ Sent(1)
  /\ UNCHANGED <<ps_idx, basics, ptyns, segs, held>>

\* Nothing left for this cycle: the counter restarts at -1 and the function
\* calls itself. The inner call always takes the branch of BasicGroup, and
\* both calls increment the counters.
Restart ==
  /\ min < GroupsPerMin
  /\ sec >= 4
  /\ ~Due(5, "label")
  /\ ~PtynDue
  /\ ~RtDue
  /\ basics' = 1 /\ ptyns' = 0 /\ rts' = 0
  /\ segs' = {ps_idx}
  /\ held' = {"ps"} \cup flags
  /\ NextSegment
  /\ sec' = (-1) + 2
  /\ PtynCount(ptyn_cnt)
  /\ Sent(2)

rds_get_next_group ==
  ClockTime \/ BasicGroup \/ LabelGroup \/ PtynGroup \/ RtGroup \/ Restart

SchedulerNext ==
  \/ rds_get_next_group
  \/ SetPs
  \/ \E f \in Flags \ {"ps"} : SetFlag(f) \/ ClearFlag(f)

SchedulerSpec == SchedulerInit /\ [][SchedulerNext]_scheduler_vars

----------------------------------------------------------------------------
(* Properties *)

\* groups_per_sec_counter (int8_t), groups_per_min_counter (uint16_t) and
\* ptyn_cnt stay within these bounds, so none of them ever wraps; ptyn_cnt is
\* below 2 whenever it is read.
SchedulerTypeOK ==
  /\ flags \in SUBSET Flags
  /\ ps_idx \in 0..3
  /\ sec \in 0..RDS_GROUPS_PER_SEC
  /\ min \in 0..(GroupsPerMin + 1)
  /\ ptyn_cnt \in 0..1
  /\ basics \in 0..4 /\ ptyns \in 0..3 /\ rts \in 0..8
  /\ segs \in SUBSET (0..3)
  /\ held \in SUBSET Flags
  /\ sinceCT \in Nat

CycleEnds == sec' < sec

\* "On every second send the PS and the DI one time (so 4 0A/OB groups)" and
\* "We send a minimum of 5 2A groups per second" (rds_encoder.h), whatever other
\* processes set and clear: every cycle has exactly four basic groups, which
\* carry the four segments unless rds_set_ps started them over in it, and RT
\* five groups and PTYN both halves if they were set throughout the cycle.
EveryCycle ==
  [][CycleEnds => /\ basics = 4
                  /\ "ps" \in held => segs = 0..3
                  /\ "rt" \in held => rts >= 5
                  /\ "ptyn" \in held => ptyns >= 2]_scheduler_vars

\* "Every 1 min send the 4A (CT) group": at most GroupsPerMin other groups go
\* by, and, since a restart counts twice, no fewer than about 4/5 of that.
ClockTimeRate ==
  [][/\ sinceCT' <= GroupsPerMin
     /\ sinceCT' < sinceCT => 5 * sinceCT >= 4 * GroupsPerMin - 3]_scheduler_vars
============================================================================
