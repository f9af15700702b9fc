------------------------------ MODULE RdsGroups ------------------------------
(***************************************************************************)
(* What is in a group: the fields of rds_config.c, the assembly of the     *)
(* four blocks of each group (rds_generate_group and its cases), and the   *)
(* differential coding of the bits, which goes on from group to group.  A  *)
(* receiver, written from the RDS standard and not from the encoder,       *)
(* undoes all of it.                                                       *)
(*                                                                         *)
(* Fields that the code joins with | do not overlap and are added here.    *)
(* PS, PTYN and RT are tuples of the infowords their characters make.      *)
(***************************************************************************)
EXTENDS RdsBlocks, RdsClock, Sequences

CONSTANTS
    PIs, PTYs, Bools, DIs, ECCs, LICs,  \* arguments of the setters
    PSs, PTYNs, RTs,                    \* texts: 4 words, 4 words, words in pairs
    Times,                              \* records [year, mon, day, hour, min, zone]
    MaxSets,                            \* calls of setters in a behaviour
    ClockSets                           \* how many of them may come before a 4A group

ASSUME ArgumentsAssumption ==
    /\ PIs \subseteq Word /\ PTYs \subseteq Nat /\ Bools \subseteq Nat /\ DIs \subseteq Nat
    /\ ECCs \subseteq 0..2^8 - 1 /\ LICs \subseteq Nat

ASSUME TextsAssumption ==
    /\ PSs \subseteq [1..4 -> Word] /\ PTYNs \subseteq [1..4 -> Word]
    /\ RTs \subseteq Seq([1..2 -> Word]) \ {<<>>} /\ \A text \in RTs : Len(text) <= 16

ASSUME TimesAssumption ==
    Times \subseteq [year : Int, mon : Int, day : Int, hour : Int, min : Int, zone : Int]

ASSUME ClockAssumption == \A t \in Times : Moment(t)

VARIABLES
    st,         \* struct rds_encoder_state
    vcode,      \* static variable of rds_generate_group_1
    window,     \* static moving_window, its last two bits
    tx,         \* the group last sent: its code, its infowords and the time in it
    rx,         \* the receiver
    sets        \* calls of setters so far

vars == <<st, vcode, window, tx, rx, sets>>

Unknown == -1
NoWords == <<Unknown, Unknown, Unknown, Unknown>>

Init ==
    /\ st = [pi |-> 0, ecc |-> 0, lic |-> 0, pty |-> 0, ta |-> 0, tp |-> 0, ms |-> 1, di |-> 9,
             ps |-> <<0, 0, 0, 0>>, ps_set |-> 0, ps_idx |-> 0,
             ptyn |-> <<0, 0, 0, 0>>, ptyn_set |-> 0, ptyn_idx |-> 0, ptyn_flush |-> 0,
             rt |-> <<>>, rt_set |-> 0, rt_idx |-> 0, rt_flush |-> 0]
    /\ vcode = 0
    /\ window = 0
    /\ tx = [code |-> -1, words |-> <<>>, now |-> <<>>, left |-> 0, blocks |-> <<>>]
    /\ rx = [last |-> 0, reg |-> 0, rem |-> 0, words |-> <<>>, offsets |-> <<>>,
             di |-> NoWords, ps |-> NoWords, label |-> [v \in {0, 3} |-> Unknown],
             ptyn |-> NoWords, flag |-> 0, pure |-> TRUE, basic |-> 0, fresh |-> TRUE]
    /\ sets = 0

-----------------------------------------------------------------------------
(* Setters *)

\* The receiver's bookkeeping: what it knew of a field before a change is forgotten.  A
\* setter does not touch a group that is assembled, so it waits for the end of it here.
Configure(fields, known) ==
    /\ tx.left = 0
    /\ sets < MaxSets
    /\ sets' = sets + 1
    /\ st' = fields
    /\ rx' = [known EXCEPT !.fresh = FALSE]
    /\ UNCHANGED <<vcode, window, tx>>

SetPi(v) == Configure([st EXCEPT !.pi = v], rx)
SetEcc(v) == Configure([st EXCEPT !.ecc = v], [rx EXCEPT !.label[0] = Unknown])
SetLic(v) == Configure([st EXCEPT !.lic = v % 2^12], [rx EXCEPT !.label[3] = Unknown])
SetPty(v) == v <= 31 /\ Configure([st EXCEPT !.pty = v], rx)
SetTa(v) == Configure([st EXCEPT !.ta = v % 2], rx)
SetTp(v) == Configure([st EXCEPT !.tp = v % 2], rx)
SetMs(v) == Configure([st EXCEPT !.ms = v % 2], rx)
SetDi(v) == Configure([st EXCEPT !.di = v % 16], [rx EXCEPT !.di = NoWords, !.basic = 0])

\* A new PS starts with its first segment.
SetPs(text) ==
    Configure([st EXCEPT !.ps = text, !.ps_set = 1, !.ps_idx = 0],
              [rx EXCEPT !.ps = NoWords, !.di = NoWords, !.basic = 0])

\* Variant: the flag stays.
SetPtynNoFlip(text) ==
    Configure([st EXCEPT !.ptyn = text, !.ptyn_set = 1, !.ptyn_idx = 0],
              [rx EXCEPT !.pure = TRUE])

\* A new PTYN flips the flag if there was one.  The receiver will not mix it with an old
\* one if the flag then differs from the last one it saw.
SetPtyn(text) ==
    LET flag == IF st.ptyn_set = 1 THEN 1 - st.ptyn_flush ELSE st.ptyn_flush
    IN Configure([st EXCEPT !.ptyn = text, !.ptyn_set = 1, !.ptyn_idx = 0, !.ptyn_flush = flag],
                 [rx EXCEPT !.pure = flag # rx.flag \/ rx.ptyn = NoWords])

\* An empty PTYN removes it.
RemovePtyn ==
    Configure([st EXCEPT !.ptyn = <<0, 0, 0, 0>>, !.ptyn_set = 0], rx)

\* A new RT flips its flag only when the caller asks for it.
SetRt(text, flush) ==
    LET flag == IF flush = 1 /\ st.rt_set = 1 THEN 1 - st.rt_flush ELSE st.rt_flush
    IN Configure([st EXCEPT !.rt = text, !.rt_set = 1, !.rt_idx = 0, !.rt_flush = flag], rx)

RemoveRt == Configure([st EXCEPT !.rt_set = 0], rx)

-----------------------------------------------------------------------------
(* Groups *)

\* Variant: PTY one bit too far left, over TP.
HeaderShifted(code, version) ==
    <<st.pi, code * 2^12 + version * 2^11 + ((st.tp * 2^10 + (st.pty % 32) * 2^6) % 2^11),
      IF version = 1 THEN st.pi ELSE 0, 0>>

\* What every group has: PI, and in block 2 code, version, TP and PTY; version B
\* repeats PI in block 3.
Header(code, version) ==
    <<st.pi, code * 2^12 + version * 2^11 + st.tp * 2^10 + (st.pty % 32) * 2^5,
      IF version = 1 THEN st.pi ELSE 0, 0>>

\* The end of block 2 in groups 0 and 15: the segment's bit of DI, MS and TA.
Switching == st.ps_idx + Bit(st.di, 3 - st.ps_idx) * 4 + st.ms * 8 + st.ta * 16

\* Variant: the last segment is left out.
NextPsIdxShort == IF st.ps_idx >= 2 THEN 0 ELSE st.ps_idx + 1

NextPsIdx == IF st.ps_idx >= 3 THEN 0 ELSE st.ps_idx + 1

\* The cases of rds_generate_group: the infowords, and the state afterwards.
Group0B ==
    [words |-> [Header(0, 1) EXCEPT ![2] = @ + Switching, ![4] = st.ps[st.ps_idx + 1]],
     st |-> [st EXCEPT !.ps_idx = NextPsIdx]]

Group15B ==
    LET block2 == Header(15, 1)[2] + Switching
    IN [words |-> [Header(15, 1) EXCEPT ![2] = block2, ![4] = block2],
        st |-> [st EXCEPT !.ps_idx = NextPsIdx]]

\* ECC and LIC take turns.
NextVcode == IF vcode = 0 THEN 3 ELSE 0

Group1A ==
    [words |-> [Header(1, 0) EXCEPT ![3] = NextVcode * 2^12 +
                    (IF NextVcode = 0 THEN st.ecc % 2^8 ELSE st.lic % 2^12)],
     st |-> st]

Group2A ==
    LET next == st.rt_idx + 1
    IN [words |-> [Header(2, 0) EXCEPT ![2] = @ + st.rt_idx + st.rt_flush * 16,
                                       ![3] = st.rt[next][1],
                                       ![4] = st.rt[next][2]],
        st |-> [st EXCEPT !.rt_idx = IF next >= Len(st.rt) THEN 0 ELSE next]]

Group10A ==
    [words |-> [Header(10, 0) EXCEPT ![2] = @ + st.ptyn_idx + st.ptyn_flush * 16,
                                     ![3] = st.ptyn[2 * st.ptyn_idx + 1],
                                     ![4] = st.ptyn[2 * st.ptyn_idx + 2]],
     st |-> [st EXCEPT !.ptyn_idx = 1 - @]]

Group4A(t) ==
    LET offset == LocalHour(t) - t.hour
    IN [words |-> [Header(4, 0) EXCEPT
                     ![2] = @ + Bits(Mjd(t), 15, 2),
                     ![3] = ((Mjd(t) * 2) % 2^16) + Bit(t.hour, 4),
                     ![4] = (t.hour % 16) * 2^12 + (t.min % 32) * 2^6
                            + (IF offset > 0 THEN 0 ELSE 1) * 2^5
                            + ((2 * (IF offset < 0 THEN -offset ELSE offset)) % 32)],
        st |-> st]

-----------------------------------------------------------------------------
(* The group and its bits *)

\* A group is assembled; its bits go out one by one before the next call.
Assemble(code, g, now) ==
    /\ tx.left = 0
    /\ st' = g.st
    /\ tx' = [code |-> code, words |-> g.words, now |-> now, left |-> 104,
              blocks |-> <<Block(g.words[1], OffsetOf(code, 1)), Block(g.words[2], OffsetOf(code, 2)),
                           Block(g.words[3], OffsetOf(code, 3)), Block(g.words[4], OffsetOf(code, 4))>>]
    /\ rx' = [rx EXCEPT !.words = <<>>, !.offsets = <<>>, !.fresh = TRUE]
    /\ UNCHANGED <<window, sets>>

\* Differential coding: a bit is added to the one sent before it, also across groups.  The
\* symbol is the waveform of the last three bits.
CurrentBit == Bit(tx.blocks[4 - ((tx.left - 1) \div 26)], (tx.left - 1) % 26)
Coded == (CurrentBit + window) % 2
Symbol == (window * 2 + Coded) % 8

-----------------------------------------------------------------------------
(* The receiver *)

\* It knows a group by the bits at the start of block 2, and stores what is in it.
Stored(known) ==
    LET w == known.words
        code == Bits(w[2], 12, 4)
        idx == (w[2] % 4) + 1
        more == IF known.basic < 4 THEN known.basic + 1 ELSE 4
    IN CASE code = 0 -> [known EXCEPT !.di[idx] = Bit(w[2], 2), !.ps[idx] = w[4], !.basic = more]
         [] code = 15 -> [known EXCEPT !.di[idx] = Bit(w[2], 2), !.basic = more]
         [] code = 1 -> [known EXCEPT !.label[Bits(w[3], 12, 3)] = w[3] % 2^12]
         [] code = 10 -> LET old == IF Bit(w[2], 4) = known.flag THEN known.ptyn ELSE NoWords
                             seg == 2 * (w[2] % 2)
                         IN [known EXCEPT !.flag = Bit(w[2], 4),
                                          !.ptyn = [old EXCEPT ![seg + 1] = w[3], ![seg + 2] = w[4]]]
         [] OTHER -> known

\* It knows the last bit of a symbol, takes differences, and looks at every block.
Receive(symbol) ==
    LET bit == (symbol + rx.last) % 2
        reg == 2 * rx.reg + bit
        rem == Divided(rx.rem, bit)
        next == [rx EXCEPT !.last = symbol % 2, !.reg = reg, !.rem = rem]
        block == [next EXCEPT !.reg = 0, !.rem = 0, !.words = Append(@, reg \div 2^10),
                              !.offsets = Append(@, rem)]
    IN CASE tx.left = 1 -> Stored(block)
         [] tx.left > 1 /\ tx.left % 26 = 1 -> block
         [] OTHER -> next

SendBit ==
    /\ tx.left > 0
    /\ window' = Symbol % 4
    /\ rx' = Receive(Symbol)
    /\ tx' = [tx EXCEPT !.left = @ - 1]
    /\ UNCHANGED <<st, vcode, sets>>

Set ==
    \/ \E v \in PIs : SetPi(v)
    \/ \E v \in ECCs : SetEcc(v)
    \/ \E v \in LICs : SetLic(v)
    \/ \E v \in PTYs : SetPty(v)
    \/ \E v \in Bools : SetTa(v) \/ SetTp(v) \/ SetMs(v)
    \/ \E v \in DIs : SetDi(v)
    \/ \E text \in PSs : SetPs(text)
    \/ \E text \in PTYNs : SetPtyn(text)
    \/ RemovePtyn
    \/ \E text \in RTs, flush \in {0, 1} : SetRt(text, flush)
    \/ RemoveRt

\* The calls of rds_get_next_group, in any order; RdsScheduler has the order.
Generate ==
    \/ /\ \/ st.ps_set = 1 /\ Assemble(0, Group0B, <<>>)
          \/ st.ps_set = 0 /\ Assemble(15, Group15B, <<>>)
          \/ st.ptyn_set = 1 /\ Assemble(10, Group10A, <<>>)
          \/ st.rt_set = 1 /\ Assemble(2, Group2A, <<>>)
          \/ sets <= ClockSets /\ \E t \in Times : Assemble(4, Group4A(t), t)
       /\ UNCHANGED vcode
    \/ /\ st.ecc # 0 \/ st.lic # 0
       /\ vcode' = NextVcode
       /\ Assemble(1, Group1A, <<>>)

Next == Set \/ Generate \/ SendBit

Spec == Init /\ [][Next]_vars

-----------------------------------------------------------------------------
\* The receiver gets the infowords that were assembled, and the remainder of each block
\* is its offset word: the generator matrix agrees with division by g(x), and the
\* differential coding goes on across groups.
BlocksDecode ==
    tx.code # -1 /\ tx.left = 0 =>
        /\ rx.words = tx.words
        /\ rx.offsets = [i \in 1..4 |-> OffsetOf(tx.code, i)]

\* What the setters stored is in every group at its place, although they take wider
\* arguments than their fields have bits: PI, TP, PTY, TA and MS, PI twice in version B, and
\* the label that the variant code names.  No case of rds_generate_group writes over
\* another one's bits.
FieldsDecode ==
    /\ tx.code # -1 /\ tx.left = 0 /\ rx.fresh =>
        LET w == rx.words
        IN /\ w[1] = st.pi
           /\ Bits(w[2], 12, 4) = tx.code
           /\ Bit(w[2], 10) = st.tp
           /\ Bits(w[2], 5, 5) = st.pty
           /\ tx.code \in {0, 15} => /\ w[3] = st.pi /\ Bit(w[2], 11) = 1
                                     /\ Bit(w[2], 4) = st.ta /\ Bit(w[2], 3) = st.ms
    /\ rx.label[0] \in {Unknown, st.ecc} /\ rx.label[3] \in {Unknown, st.lic}

\* Any four groups 0B or 15B in a row, with whatever else in between, carry all of DI and
\* all of PS, since the last change of either.
BasicComplete ==
    rx.basic >= 4 =>
        /\ st.di = rx.di[1] * 8 + rx.di[2] * 4 + rx.di[3] * 2 + rx.di[4]
        /\ st.ps_set = 1 => rx.ps = st.ps

\* The receiver never shows a PTYN that is put together from two texts, unless the flag
\* had the value it saw last when the text was set: after a removal, or after two changes
\* without a group in between.
PtynPure ==
    st.ptyn_set = 1 /\ rx.flag = st.ptyn_flush /\ rx.pure =>
        \A i \in 1..4 : rx.ptyn[i] \in {Unknown, st.ptyn[i]}

\* The day, hour, minute and offset that a receiver reads in a 4A group are those of time t:
\* the minute in the first 32 minutes of an hour, for which five bits are enough, and the
\* offset for zones of whole hours while both clocks show the same day.
ReadClock(w, t) ==
    /\ (w[2] % 4) * 2^15 + (w[3] \div 2) = DayNumber(t)
    /\ (w[3] % 2) * 16 + Bits(w[4], 12, 4) = t.hour
    /\ t.min < 32 => Bits(w[4], 6, 6) = t.min
    /\ SameDay(t) => (w[4] % 32) * (IF Bit(w[4], 5) = 1 THEN -1 ELSE 1) = t.zone

\* A 4A group carries the day and the hour, and the minute and the offset as far as
\* ReadClock says: Annex G's formula counts the days of the calendar.
ClockDecodes == tx.code = 4 /\ tx.left = 0 => ReadClock(rx.words, tx.now)

=============================================================================
