--------------------------- MODULE RdsGroupsProofs ---------------------------
(***************************************************************************)
(* Proofs about module RdsGroups: what a receiver makes of the groups of   *)
(* rds_generate_group is what the setters of rds_config.c were given, for  *)
(* every argument, text and time.                                          *)
(*                                                                         *)
(* The invariant says where each field is while a group is on the line:    *)
(* in the words of the group (Carried), in the bits that have been sent    *)
(* (LineInv), and in the receiver (LabelInv, BasicInv, PtynInv).  A second *)
(* one, CheckInv, follows the remainder of the block that is on its way; a *)
(* third, ClockInv, keeps the words of a 4A group with their time.         *)
(***************************************************************************)
EXTENDS RdsGroups, RdsCodingProofs, TLAPS

\* The fields of the three records.
StFields == {"pi", "ecc", "lic", "pty", "ta", "tp", "ms", "di", "ps", "ps_set", "ps_idx",
             "ptyn", "ptyn_set", "ptyn_idx", "ptyn_flush", "rt", "rt_set", "rt_idx", "rt_flush"}
TxFields == {"code", "words", "now", "left", "blocks"}
RxFields == {"last", "reg", "rem", "words", "offsets", "di", "ps", "label", "ptyn", "flag",
             "pure", "basic", "fresh"}

Shape == DOMAIN st = StFields /\ DOMAIN tx = TxFields /\ DOMAIN rx = RxFields

\* What every group carries has its width.
HeadInv ==
    /\ st.pi \in Word /\ st.pty \in 0..31
    /\ st.ta \in 0..1 /\ st.tp \in 0..1 /\ st.ms \in 0..1

\* A RadioText that is set has a segment for the next 2A group.
RtInv ==
    /\ st.rt \in Seq([1..2 -> Word]) /\ st.rt_idx \in 0..15 /\ st.rt_flush \in 0..1
    /\ st.rt_set = 1 => st.rt_idx < Len(st.rt) /\ Len(st.rt) <= 16

\* The receiver has no label but the ones that were set.
LabelInv ==
    /\ st.ecc \in 0..2^8 - 1 /\ st.lic \in 0..2^12 - 1 /\ vcode \in {0, 3}
    /\ DOMAIN rx.label = {0, 3}
    /\ rx.label[0] \in {Unknown, st.ecc} /\ rx.label[3] \in {Unknown, st.lic}

\* The segment that comes n before segment i.
Before(i, n) == IF i >= n THEN i - n ELSE i + 4 - n

\* The segment after the last one that the receiver has got: a group that is on its way
\* has moved ps_idx on.
Awaited == IF tx.left > 0 /\ tx.code \in {0, 15} THEN Before(st.ps_idx, 1) ELSE st.ps_idx

\* The receiver has the last segments, as many as it has counted.
BasicInv ==
    /\ st.di \in 0..15 /\ st.ps \in [1..4 -> Word] /\ st.ps_set \in 0..1 /\ st.ps_idx \in 0..3
    /\ DOMAIN rx.di = 1..4 /\ rx.ps \in [1..4 -> Word \cup {Unknown}] /\ rx.basic \in 0..4
    /\ \A n \in 1..rx.basic :
         LET i == Before(Awaited, n)
         IN rx.di[i + 1] = Bit(st.di, 3 - i) /\ (st.ps_set = 1 => rx.ps[i + 1] = st.ps[i + 1])

\* The receiver mixes nothing into a PTYN under its flag.
PtynInv ==
    /\ st.ptyn \in [1..4 -> Word] /\ st.ptyn_set \in 0..1 /\ st.ptyn_idx \in 0..1
    /\ st.ptyn_flush \in 0..1 /\ rx.flag \in 0..1 /\ DOMAIN rx.ptyn = 1..4
    /\ PtynPure

\* What the group last assembled has of the fields, at which places.
Carried ==
    LET w == tx.words
    IN /\ tx.code \in {0, 1, 2, 4, 10, 15}
       /\ w[1] = st.pi /\ Bits(w[2], 12, 4) = tx.code
       /\ Bit(w[2], 10) = st.tp /\ Bits(w[2], 5, 5) = st.pty
       /\ tx.code \in {0, 15} =>
            /\ w[3] = st.pi /\ Bit(w[2], 11) = 1 /\ Bit(w[2], 4) = st.ta /\ Bit(w[2], 3) = st.ms
            /\ w[2] % 4 = Before(st.ps_idx, 1) /\ Bit(w[2], 2) = Bit(st.di, 3 - (w[2] % 4))
            /\ tx.code = 0 => w[4] = st.ps[(w[2] % 4) + 1]
            /\ tx.code = 15 => st.ps_set = 0
       /\ tx.code = 1 =>
            /\ Bits(w[3], 12, 3) = vcode
            /\ w[3] % 2^12 = IF vcode = 0 THEN st.ecc ELSE st.lic
       /\ tx.code = 10 =>
            /\ st.ptyn_set = 1 /\ Bit(w[2], 4) = st.ptyn_flush
            /\ w[3] = st.ptyn[2 * (w[2] % 2) + 1] /\ w[4] = st.ptyn[2 * (w[2] % 2) + 2]

\* The block on its way, and how many of its bits have not been received.
OnItsWay == 4 - ((tx.left - 1) \div 26)
ToCome == ((tx.left - 1) % 26) + 1

\* The receiver has the bits of the group that have been sent.
LineInv ==
    /\ window \in 0..3 /\ rx.last = window % 2 /\ rx.reg \in Nat /\ rx.words \in Seq(Word)
    /\ tx.left \in 0..104
    /\ tx.left = 0 => rx.reg = 0
    /\ tx.code = -1 => tx.left = 0
    /\ tx.code # -1 =>
         /\ tx.words \in [1..4 -> Word] /\ tx.blocks \in [1..4 -> Frame]
         /\ \A i \in 1..4 : tx.blocks[i] \div 2^10 = tx.words[i]
         /\ Len(rx.words) = IF tx.left = 0 THEN 4 ELSE OnItsWay - 1
         /\ \A i \in 1..Len(rx.words) : rx.words[i] = tx.words[i]
         /\ tx.left > 0 => rx.reg = tx.blocks[OnItsWay] \div 2^ToCome

\* A setter waits for the end of the group.
FreshInv ==
    /\ tx.left > 0 => rx.fresh
    /\ tx.code # -1 /\ rx.fresh => Carried

IInv ==
    /\ Shape /\ HeadInv /\ RtInv /\ LabelInv /\ BasicInv /\ PtynInv /\ LineInv /\ FreshInv

------------------------------------------------------------------------------
\* The fields of an infoword.

\* Block 2, and its last five bits in groups 0 and 15.
Joined(code, version, tp, pty, rest) ==
    code * 2^12 + version * 2^11 + tp * 2^10 + (pty % 32) * 2^5 + rest
Switched(idx, d, ms, ta) == idx + d * 4 + ms * 8 + ta * 16

\* The fields that are read from block 2.
HeadBits(x, code, version, tp, pty, rest) ==
    /\ x \in Word /\ Bits(x, 12, 4) = code /\ Bit(x, 11) = version /\ Bit(x, 10) = tp
    /\ Bits(x, 5, 5) = pty /\ x % 32 = rest
SwitchBits(x, idx, d, ms, ta) ==
    Bit(x, 4) = ta /\ Bit(x, 3) = ms /\ Bit(x, 2) = d /\ x % 4 = idx

\* The fields of block 2 do not overlap.
LEMMA Block2 ==
    ASSUME NEW code \in 0..15, NEW version \in 0..1, NEW tp \in 0..1, NEW pty \in 0..31,
           NEW rest \in 0..31
    PROVE  HeadBits(Joined(code, version, tp, pty, rest), code, version, tp, pty, rest)
  <1> DEFINE x == Joined(code, version, tp, pty, rest)
  <1> USE DEF Joined
  <1>1. x \in Word /\ x % 32 = rest
    BY DEF Word
  <1>2. Bits(x, 12, 4) = code
    BY DEF Bits
  <1>3. Bit(x, 11) = version
    BY DEF Bit
  <1>4. Bit(x, 10) = tp
    BY DEF Bit
  <1>5. Bits(x, 5, 5) = pty
    BY DEF Bits
  <1> QED BY <1>1, <1>2, <1>3, <1>4, <1>5, Zenon DEF HeadBits

\* Its last five bits: the segment, a bit of DI, MS and TA in groups 0 and 15,
LEMMA SwitchingBits ==
    ASSUME NEW x \in Nat, NEW idx \in 0..3, NEW d \in 0..1, NEW ms \in 0..1, NEW ta \in 0..1,
           x % 32 = Switched(idx, d, ms, ta)
    PROVE  SwitchBits(x, idx, d, ms, ta)
  <1> USE DEF Switched
  <1>1. Bit(x, 4) = ta /\ x % 4 = idx
    BY DEF Bit
  <1>2. Bit(x, 3) = ms
    BY DEF Bit
  <1>3. Bit(x, 2) = d
    BY DEF Bit
  <1> QED BY <1>1, <1>2, <1>3, Zenon DEF SwitchBits

\* the segment and the flag in groups 10,
LEMMA FlagBits ==
    ASSUME NEW idx \in 0..1, NEW flag \in 0..1, NEW x \in Nat, x % 32 = idx + flag * 16
    PROVE  Bit(x, 4) = flag /\ x % 2 = idx
  BY DEF Bit

\* and the variant code and the label in block 3 of groups 1.
LEMMA LabelBits ==
    ASSUME NEW v \in {0, 3}, NEW label \in 0..2^12 - 1, NEW x, x = v * 2^12 + label
    PROVE  x \in Word /\ Bits(x, 12, 3) = v /\ x % 2^12 = label
  BY DEF Word, Bits

------------------------------------------------------------------------------
\* The line: a bit sent is a bit received.

\* Storing a group leaves the receiver's line alone.
LEMMA StoredLine ==
    ASSUME NEW known, DOMAIN known = RxFields
    PROVE  LET s == Stored(known)
           IN /\ DOMAIN s = RxFields /\ s.words = known.words /\ s.reg = known.reg
              /\ s.last = known.last /\ s.fresh = known.fresh /\ s.pure = known.pure
              /\ s.rem = known.rem /\ s.offsets = known.offsets
  <1> DEFINE code == Bits(known.words[2], 12, 4)
             new == Stored(known)
             Kept == /\ DOMAIN new = RxFields /\ new.words = known.words /\ new.reg = known.reg
                     /\ new.last = known.last /\ new.fresh = known.fresh
                     /\ new.pure = known.pure /\ new.rem = known.rem
                     /\ new.offsets = known.offsets
  <1>1. CASE code = 0
    BY <1>1 DEF Stored, RxFields
  <1>2. CASE code = 15
    BY <1>2 DEF Stored, RxFields
  <1>3. CASE code = 1
    BY <1>3 DEF Stored, RxFields
  <1>4. CASE code = 10
    BY <1>4, Zenon DEF Stored, RxFields
  <1>5. CASE code \notin {0, 1, 10, 15}
    BY <1>5, Zenon DEF Stored, RxFields
  <1> QED BY <1>1, <1>2, <1>3, <1>4, <1>5, Zenon

\* What the receiver has stored of earlier groups.
SameStore(known) ==
    /\ known.di = rx.di /\ known.ps = rx.ps /\ known.label = rx.label /\ known.ptyn = rx.ptyn
    /\ known.flag = rx.flag /\ known.pure = rx.pure /\ known.basic = rx.basic
    /\ known.fresh = rx.fresh

\* The receiver takes one bit, a block after 26 and the group after 104.
LEMMA ReceiveEffect ==
    ASSUME Shape, tx.left \in Nat, SendBit
    PROVE  LET bit == (Symbol + rx.last) % 2
               reg == 2 * rx.reg + bit
               rem == Divided(rx.rem, bit)
           IN \E known :
                /\ DOMAIN known = RxFields /\ SameStore(known) /\ known.last = Symbol % 2
                /\ tx.left % 26 # 1 => /\ known.reg = reg /\ known.words = rx.words
                                       /\ known.rem = rem /\ known.offsets = rx.offsets
                /\ tx.left % 26 = 1 => /\ known.reg = 0 /\ known.rem = 0
                                       /\ known.words = Append(rx.words, reg \div 2^10)
                                       /\ known.offsets = Append(rx.offsets, rem)
                /\ rx' = IF tx.left = 1 THEN Stored(known) ELSE known
  <1> DEFINE bit == (Symbol + rx.last) % 2
             reg == 2 * rx.reg + bit
             rem == Divided(rx.rem, bit)
             next == [rx EXCEPT !.last = Symbol % 2, !.reg = reg, !.rem = rem]
             block == [next EXCEPT !.reg = 0, !.rem = 0, !.words = Append(@, reg \div 2^10),
                                   !.offsets = Append(@, rem)]
  <1>1. rx' = CASE tx.left = 1 -> Stored(block)
                [] tx.left > 1 /\ tx.left % 26 = 1 -> block
                [] OTHER -> next
    BY Zenon DEF SendBit, Receive
  <1> HIDE DEF reg, rem
  <1>2. /\ DOMAIN next = RxFields /\ SameStore(next) /\ next.last = Symbol % 2
        /\ next.reg = reg /\ next.words = rx.words /\ next.rem = rem /\ next.offsets = rx.offsets
    BY DEF Shape, RxFields, SameStore
  <1>3. /\ DOMAIN block = RxFields /\ SameStore(block) /\ block.last = Symbol % 2
        /\ block.reg = 0 /\ block.words = Append(rx.words, reg \div 2^10)
        /\ block.rem = 0 /\ block.offsets = Append(rx.offsets, rem)
    <2> HIDE DEF next
    <2> QED BY <1>2 DEF RxFields, SameStore
  <1> HIDE DEF next, block
  <1>4. CASE tx.left % 26 = 1
    <2>1. rx' = IF tx.left = 1 THEN Stored(block) ELSE block
      BY <1>1, <1>4 DEF SendBit
    <2> QED BY <1>3, <1>4, <2>1, Zenon DEF reg, rem
  <1>5. CASE tx.left % 26 # 1
    <2>1. tx.left # 1 /\ rx' = next
      BY <1>1, <1>5
    <2> QED BY <1>2, <1>5, <2>1, Zenon DEF reg, rem
  <1> QED BY <1>4, <1>5, Zenon

\* The place of a bit in a group of four blocks.
LEMMA Place ==
    ASSUME NEW left \in 1..104
    PROVE  LET b == 4 - ((left - 1) \div 26)
               n == (left - 1) % 26
           IN /\ b \in 1..4 /\ n \in 0..25
              /\ left % 26 = 1 <=> n = 0
              /\ left = 1 <=> b = 4 /\ n = 0
  OBVIOUS

\* The next bit is in the same block, or the first one of the next block.
LEMMA PlaceAfter ==
    ASSUME NEW left \in 2..104
    PROVE  LET b == 4 - ((left - 1) \div 26)
               n == (left - 1) % 26
               b2 == 4 - ((left - 1 - 1) \div 26)
               n2 == (left - 1 - 1) % 26
           IN (n > 0 => b2 = b /\ n2 + 1 = n) /\ (n = 0 => b < 4 /\ b2 = b + 1 /\ n2 + 1 = 26)
  OBVIOUS

\* The receiver adds the bit that was sent to the bits of the block.
LEMMA LineSend ==
    ASSUME Shape, LineInv, SendBit
    PROVE  LineInv'
  <1>0. tx.left \in 1..104 /\ tx.left \in Nat /\ tx.left > 0
    <2>1. tx.left \in 0..104 /\ tx.left > 0
      BY Zenon DEF LineInv, SendBit
    <2> QED BY <2>1
  <1>1. /\ tx.code # -1 /\ window \in 0..3 /\ rx.last = window % 2
        /\ tx.blocks \in [1..4 -> Frame] /\ rx.words \in Seq(Word)
        /\ tx'.left = tx.left - 1 /\ UNCHANGED <<tx.code, tx.words, tx.blocks>>
    BY <1>0 DEF Shape, TxFields, LineInv, SendBit
  <1> DEFINE b == OnItsWay
             n == (tx.left - 1) % 26
             B == tx.blocks[b]
  <1>2. /\ b \in 1..4 /\ n \in 0..25
        /\ tx.left % 26 = 1 <=> n = 0
        /\ tx.left = 1 <=> b = 4 /\ n = 0
    BY <1>0, Place, Zenon DEF OnItsWay
  <1>3. B \in Nat /\ CurrentBit = Bit(B, n) /\ CurrentBit \in 0..1
    <2>1. B \in Frame
      BY <1>1, <1>2
    <2>2. B \in Nat
      BY <2>1 DEF Frame
    <2> QED BY <1>2, <2>2, BitType, Zenon DEF CurrentBit, OnItsWay
  <1>4. /\ (Symbol + rx.last) % 2 = CurrentBit
        /\ window' \in 0..3 /\ Symbol % 2 = window' % 2
    BY <1>1, <1>3, Differences DEF Symbol, Coded, SendBit
  <1>5. rx.reg = B \div 2^(n + 1)
    BY <1>0, <1>1, Zenon DEF LineInv, ToCome
  <1> HIDE DEF b, n, B
  <1>6. 2 * rx.reg + CurrentBit = B \div 2^n
    BY <1>2, <1>3, <1>5, ShiftIn, Zenon
  <1>7. PICK known :
          /\ DOMAIN known = RxFields /\ known.last = window' % 2
          /\ tx.left % 26 # 1 => known.reg = B \div 2^n /\ known.words = rx.words
          /\ tx.left % 26 = 1 => /\ known.reg = 0
                                 /\ known.words = Append(rx.words, (B \div 2^n) \div 2^10)
          /\ rx' = IF tx.left = 1 THEN Stored(known) ELSE known
    BY <1>0, <1>4, <1>6, ReceiveEffect, Zenon
  <1>8. rx'.last = window' % 2 /\ rx'.reg = known.reg /\ rx'.words = known.words
    BY <1>7, StoredLine, Zenon
  <1>9. tx'.left \in 0..104 /\ tx'.left \in Nat
    BY <1>0, <1>1
  <1>10. /\ tx.words \in [1..4 -> Word] /\ \A i \in 1..4 : tx.blocks[i] \div 2^10 = tx.words[i]
         /\ Len(rx.words) = b - 1 /\ \A i \in 1..Len(rx.words) : rx.words[i] = tx.words[i]
    BY <1>0, <1>1 DEF LineInv, b
  <1> DEFINE Received ==
               /\ rx'.reg \in Nat /\ rx'.words \in Seq(Word)
               /\ tx'.left = 0 => rx'.reg = 0
               /\ Len(rx'.words) = IF tx'.left = 0 THEN 4 ELSE OnItsWay' - 1
               /\ \A i \in 1..Len(rx'.words) : rx'.words[i] = tx.words[i]
               /\ tx'.left > 0 => rx'.reg = tx.blocks[OnItsWay'] \div 2^(ToCome')
  <1>11. ASSUME n > 0 PROVE Received
    <2>1. tx.left \in 2..104 /\ tx'.left > 0
      BY <1>0, <1>1, <1>2, <1>11
    <2>2. OnItsWay' = b /\ ToCome' = n
      <3>1. /\ OnItsWay' = 4 - ((tx.left - 1 - 1) \div 26)
            /\ ToCome' = ((tx.left - 1 - 1) % 26) + 1
        BY <1>1, Zenon DEF OnItsWay, ToCome
      <3> QED BY <1>11, <2>1, <3>1, PlaceAfter, Zenon DEF b, n, OnItsWay
    <2>3. rx'.reg = B \div 2^n /\ rx'.words = rx.words
      BY <1>2, <1>7, <1>8, <1>11
    <2>4. rx'.reg \in Nat
      <3>1. 2^n \in Nat \ {0}
        BY <1>2, Powers, Zenon DEF Power
      <3> QED BY <1>3, <2>3, <3>1
    <2>5. rx'.words \in Seq(Word) /\ rx'.reg = tx.blocks[OnItsWay'] \div 2^(ToCome')
      BY <1>1, <2>2, <2>3, Zenon DEF B
    <2>6. tx'.left # 0
      BY <2>1
    <2> QED BY <1>10, <2>2, <2>3, <2>4, <2>5, <2>6, Zenon
  <1>12. ASSUME n = 0 PROVE Received
    <2>1. (B \div 2^n) \div 2^10 = tx.words[b] /\ tx.words[b] \in Word
      <3>1. B \div 2^0 = B
        BY <1>3
      <3> QED BY <1>2, <1>10, <1>12, <3>1, Zenon DEF B
    <2>2. rx'.reg = 0 /\ rx'.words = Append(rx.words, tx.words[b])
      BY <1>2, <1>7, <1>8, <1>12, <2>1, Zenon
    <2>3. /\ rx'.words \in Seq(Word) /\ Len(rx'.words) = b
          /\ \A i \in 1..b : rx'.words[i] = tx.words[i]
      BY <1>1, <1>2, <1>10, <2>1, <2>2
    <2>4. CASE b = 4
      <3>1. tx'.left = 0
        BY <1>1, <1>2, <1>12, <2>4
      <3>2. rx'.reg \in Nat /\ ~(tx'.left > 0)
        BY <2>2, <3>1
      <3> QED BY <2>2, <2>3, <2>4, <3>1, <3>2, Zenon
    <2>5. CASE b < 4
      <3>1. tx.left \in 2..104 /\ tx'.left > 0
        BY <1>0, <1>1, <1>2, <2>5
      <3>2. OnItsWay' = b + 1 /\ ToCome' = 26
        <4>1. /\ OnItsWay' = 4 - ((tx.left - 1 - 1) \div 26)
              /\ ToCome' = ((tx.left - 1 - 1) % 26) + 1
          BY <1>1, Zenon DEF OnItsWay, ToCome
        <4> QED BY <1>12, <3>1, <4>1, PlaceAfter, Zenon DEF b, n, OnItsWay
      <3>3. tx.blocks[b + 1] \div 2^26 = 0
        <4>1. tx.blocks[b + 1] \in Frame
          BY <1>1, <1>2, <2>5
        <4> QED BY <4>1 DEF Frame
      <3>4. rx'.reg \in Nat /\ tx'.left # 0 /\ b = (b + 1) - 1
        BY <1>2, <2>2, <3>1
      <3> QED BY <2>2, <2>3, <3>2, <3>3, <3>4, Zenon
    <2>6. b = 4 \/ b < 4
      BY <1>2
    <2> QED BY <2>4, <2>5, <2>6, Zenon
  <1>13. Received
    <2>1. n > 0 \/ n = 0
      BY <1>2
    <2> QED BY <1>11, <1>12, <2>1, Zenon
  <1> QED
    <2>1. tx'.code # -1 /\ tx'.words = tx.words /\ tx'.blocks = tx.blocks
      BY <1>1, Zenon
    <2> QED BY <1>1, <1>4, <1>8, <1>9, <1>10, <1>13, <2>1, Zenon DEF LineInv

------------------------------------------------------------------------------
\* The setters of rds_config.c.

\* The state that each conjunct of the invariant is about.
HeadOf == <<st.pi, st.pty, st.ta, st.tp, st.ms>>
RtOf == <<st.rt, st.rt_set, st.rt_idx, st.rt_flush>>
LabelOf == <<st.ecc, st.lic, vcode, rx.label>>
BasicOf == <<st.di, st.ps, st.ps_set, Awaited, rx.di, rx.ps, rx.basic>>
PtynOf == <<st.ptyn, st.ptyn_set, st.ptyn_idx, st.ptyn_flush, rx.flag, rx.ptyn, rx.pure>>

\* A step that leaves that state alone keeps the conjunct.
LEMMA Untouched ==
    /\ HeadInv /\ UNCHANGED HeadOf => HeadInv'
    /\ RtInv /\ UNCHANGED RtOf => RtInv'
    /\ LabelInv /\ UNCHANGED LabelOf => LabelInv'
    /\ BasicInv /\ UNCHANGED BasicOf /\ st'.ps_idx \in 0..3 => BasicInv'
    /\ PtynInv /\ UNCHANGED PtynOf => PtynInv'
  <1>1. HeadInv /\ UNCHANGED HeadOf => HeadInv'
    BY Zenon DEF HeadInv, HeadOf
  <1>2. RtInv /\ UNCHANGED RtOf => RtInv'
    BY Zenon DEF RtInv, RtOf
  <1>3. LabelInv /\ UNCHANGED LabelOf => LabelInv'
    BY Zenon DEF LabelInv, LabelOf
  <1>4. BasicInv /\ UNCHANGED BasicOf /\ st'.ps_idx \in 0..3 => BasicInv'
    BY Zenon DEF BasicInv, BasicOf
  <1>5. PtynInv /\ UNCHANGED PtynOf => PtynInv'
    BY Zenon DEF PtynInv, PtynOf, PtynPure
  <1> QED BY <1>1, <1>2, <1>3, <1>4, <1>5, Zenon

\* The fields of known that a setter must not touch.
LineKept(known) ==
    /\ DOMAIN known = RxFields /\ known.last = rx.last /\ known.reg = rx.reg
    /\ known.words = rx.words

\* A setter leaves a group that is sent alone.
LEMMA ConfigureLine ==
    ASSUME Shape, LineInv, NEW fields, NEW known, Configure(fields, known),
           DOMAIN fields = StFields, LineKept(known)
    PROVE  Shape' /\ LineInv' /\ FreshInv'
  <1>1. /\ st' = fields /\ tx' = tx /\ window' = window /\ tx.left = 0
        /\ rx' = [known EXCEPT !.fresh = FALSE]
    BY Zenon DEF Configure
  <1>2. /\ DOMAIN rx' = RxFields /\ rx'.last = rx.last /\ rx'.reg = rx.reg /\ rx'.words = rx.words
        /\ rx'.fresh = FALSE
    BY <1>1 DEF LineKept, RxFields
  <1>3. Shape'
    BY <1>1, <1>2, Zenon DEF Shape
  <1>4. LineInv'
    BY <1>1, <1>2, ZenonT(30) DEF LineInv, OnItsWay, ToCome
  <1>5. FreshInv'
    <2>1. ~(tx'.left > 0)
      BY <1>1
    <2> QED BY <1>2, <2>1, Zenon DEF FreshInv
  <1> QED BY <1>3, <1>4, <1>5, Zenon

\* A setter of what every group carries.
LEMMA SetHead ==
    ASSUME IInv, NEW f \in {"pi", "pty", "ta", "tp", "ms"}, NEW v,
           f = "pi" => v \in Word, f = "pty" => v \in 0..31,
           f \in {"ta", "tp", "ms"} => v \in 0..1,
           Configure([st EXCEPT ![f] = v], rx)
    PROVE  IInv'
  <1> DEFINE fields == [st EXCEPT ![f] = v]
  <1>1. /\ Configure(fields, rx) /\ tx' = tx /\ vcode' = vcode
        /\ st' = fields /\ rx' = [rx EXCEPT !.fresh = FALSE]
    BY Zenon DEF Configure
  <1>2. Shape /\ LineInv /\ DOMAIN st = StFields /\ DOMAIN rx = RxFields
    BY Zenon DEF IInv, Shape
  <1>3. DOMAIN fields = StFields /\ LineKept(rx)
    BY <1>2 DEF LineKept
  <1>4. UNCHANGED <<RtOf, LabelOf, BasicOf, PtynOf>> /\ st'.ps_idx = st.ps_idx
    BY <1>1, <1>2 DEF RtOf, LabelOf, BasicOf, PtynOf, Awaited, StFields, RxFields
  <1>5. HeadInv'
    BY <1>1, <1>2 DEF IInv, HeadInv, StFields
  <1>6. Shape' /\ LineInv' /\ FreshInv'
    BY <1>1, <1>2, <1>3, ConfigureLine, Zenon
  <1> QED BY <1>4, <1>5, <1>6, Untouched, Zenon DEF IInv, BasicInv

\* The receiver forgets a label that is changed.
LEMMA SetLabel ==
    ASSUME IInv,
           \/ \E v \in ECCs : SetEcc(v)
           \/ \E v \in LICs : SetLic(v)
    PROVE  IInv'
  <1>1. PICK f \in {"ecc", "lic"}, k \in {0, 3}, v \in Nat :
          /\ f = "ecc" => k = 0 /\ v \in 0..2^8 - 1
          /\ f = "lic" => k = 3 /\ v \in 0..2^12 - 1
          /\ Configure([st EXCEPT ![f] = v], [rx EXCEPT !.label[k] = Unknown])
    <2>1. CASE \E v \in ECCs : SetEcc(v)
      <3>1. PICK v \in ECCs : SetEcc(v)
        BY <2>1, Zenon
      <3>2. v \in 0..2^8 - 1 /\ v \in Nat
        BY ArgumentsAssumption
      <3> QED BY <3>1, <3>2, Zenon DEF SetEcc
    <2>2. CASE \E v \in LICs : SetLic(v)
      <3>1. PICK v \in LICs : SetLic(v)
        BY <2>2, Zenon
      <3>2. v % 2^12 \in 0..2^12 - 1 /\ v % 2^12 \in Nat
        BY ArgumentsAssumption
      <3> QED BY <3>1, <3>2, Zenon DEF SetLic
    <2> QED BY <2>1, <2>2, Zenon
  <1> DEFINE fields == [st EXCEPT ![f] = v]
             known == [rx EXCEPT !.label[k] = Unknown]
  <1>2. /\ Configure(fields, known) /\ tx' = tx /\ vcode' = vcode
        /\ st' = fields /\ rx' = [known EXCEPT !.fresh = FALSE]
    BY <1>1, Zenon DEF Configure
  <1>3. Shape /\ LineInv /\ DOMAIN st = StFields /\ DOMAIN rx = RxFields
    BY Zenon DEF IInv, Shape
  <1>4. DOMAIN fields = StFields /\ LineKept(known)
    BY <1>3 DEF LineKept, RxFields
  <1>5. UNCHANGED <<HeadOf, RtOf, BasicOf, PtynOf>> /\ st'.ps_idx = st.ps_idx
    BY <1>2, <1>3 DEF HeadOf, RtOf, BasicOf, PtynOf, Awaited, StFields, RxFields
  <1>6. LabelInv'
    <2>1. rx'.label = [rx.label EXCEPT ![k] = Unknown]
      BY <1>2, <1>3 DEF RxFields
    <2> QED BY <1>1, <1>2, <1>3, <2>1 DEF IInv, LabelInv, StFields
  <1>7. Shape' /\ LineInv' /\ FreshInv'
    BY <1>2, <1>3, <1>4, ConfigureLine, Zenon
  <1> QED BY <1>5, <1>6, <1>7, Untouched, Zenon DEF IInv, BasicInv

\* The fields that a setter leaves alone, in the state and in the receiver.
StKept(fields, changed) ==
    DOMAIN fields = StFields /\ \A f \in StFields \ changed : fields[f] = st[f]
RxKept(known, changed) ==
    DOMAIN known = RxFields /\ \A f \in RxFields \ changed : known[f] = rx[f]

\* The receiver counts again when DI or PS is changed.
LEMMA SetBasic ==
    ASSUME IInv, NEW fields, NEW known, Configure(fields, known),
           StKept(fields, {"di", "ps", "ps_set", "ps_idx"}), RxKept(known, {"di", "ps", "basic"}),
           fields.di \in 0..15, fields.ps \in [1..4 -> Word], fields.ps_set \in 0..1,
           fields.ps_idx \in 0..3,
           DOMAIN known.di = 1..4, known.ps \in [1..4 -> Word \cup {Unknown}], known.basic = 0
    PROVE  IInv'
  <1>1. /\ tx' = tx /\ vcode' = vcode /\ st' = fields /\ rx' = [known EXCEPT !.fresh = FALSE]
    BY Zenon DEF Configure
  <1>2. Shape /\ LineInv
    BY Zenon DEF IInv
  <1>3. DOMAIN fields = StFields /\ LineKept(known)
    BY DEF LineKept, RxKept, StKept, RxFields
  <1>4. rx' = [f \in RxFields |-> IF f = "fresh" THEN FALSE ELSE known[f]]
    BY <1>1, Zenon DEF RxKept
  <1>5. UNCHANGED <<HeadOf, RtOf, LabelOf, PtynOf>>
    BY <1>1, <1>4 DEF HeadOf, RtOf, LabelOf, PtynOf, StKept, RxKept, StFields, RxFields
  <1>6. BasicInv'
    <2>1. rx'.di = known.di /\ rx'.ps = known.ps /\ rx'.basic = 0
      BY <1>4 DEF RxFields
    <2>2. (\A n \in 1..rx'.basic : FALSE) /\ rx'.basic \in 0..4
      BY <2>1
    <2> QED BY <1>1, <2>1, <2>2, Zenon DEF BasicInv
  <1>7. Shape' /\ LineInv' /\ FreshInv'
    BY <1>2, <1>3, ConfigureLine, Zenon
  <1> QED BY <1>5, <1>6, <1>7, Untouched, Zenon DEF IInv

\* A PTYN that is set under the flag the receiver has seen is not claimed to be pure.
LEMMA SetPtynStep ==
    ASSUME IInv, NEW fields, NEW known, Configure(fields, known),
           StKept(fields, {"ptyn", "ptyn_set", "ptyn_idx", "ptyn_flush"}), RxKept(known, {"pure"}),
           fields.ptyn \in [1..4 -> Word], fields.ptyn_set \in 0..1, fields.ptyn_idx \in 0..1,
           fields.ptyn_flush \in 0..1,
           fields.ptyn_set = 1 /\ rx.flag = fields.ptyn_flush /\ known.pure => rx.ptyn = NoWords
    PROVE  IInv'
  <1>1. /\ tx' = tx /\ vcode' = vcode /\ st' = fields /\ rx' = [known EXCEPT !.fresh = FALSE]
    BY Zenon DEF Configure
  <1>2. Shape /\ LineInv
    BY Zenon DEF IInv
  <1>3. DOMAIN fields = StFields /\ LineKept(known)
    BY DEF LineKept, RxKept, StKept, RxFields
  <1>4. rx' = [f \in RxFields |-> IF f = "fresh" THEN FALSE ELSE known[f]]
    BY <1>1, Zenon DEF RxKept
  <1>5. UNCHANGED <<HeadOf, RtOf, LabelOf, BasicOf>> /\ st'.ps_idx = st.ps_idx
    BY <1>1, <1>4 DEF HeadOf, RtOf, LabelOf, BasicOf, Awaited, StKept, RxKept, StFields, RxFields
  <1>6. PtynInv'
    <2>1. rx'.flag = rx.flag /\ rx'.ptyn = rx.ptyn /\ rx'.pure = known.pure
      BY <1>4 DEF RxKept, RxFields
    <2>2. \A i \in 1..4 : NoWords[i] = Unknown
      BY DEF NoWords
    <2>3. rx.flag \in 0..1 /\ DOMAIN rx.ptyn = 1..4
      BY Zenon DEF IInv, PtynInv
    <2> QED BY <1>1, <2>1, <2>2, <2>3, Zenon DEF PtynInv, PtynPure
  <1>7. Shape' /\ LineInv' /\ FreshInv'
    BY <1>2, <1>3, ConfigureLine, Zenon
  <1> QED BY <1>5, <1>6, <1>7, Untouched, Zenon DEF IInv, BasicInv

\* A new RT starts with its first segment.
LEMMA SetRtStep ==
    ASSUME IInv, NEW fields, Configure(fields, rx),
           StKept(fields, {"rt", "rt_set", "rt_idx", "rt_flush"}),
           fields.rt \in Seq([1..2 -> Word]), fields.rt_idx \in 0..15, fields.rt_flush \in 0..1,
           fields.rt_set = 1 => fields.rt_idx < Len(fields.rt) /\ Len(fields.rt) <= 16
    PROVE  IInv'
  <1>1. /\ tx' = tx /\ vcode' = vcode /\ st' = fields /\ rx' = [rx EXCEPT !.fresh = FALSE]
    BY Zenon DEF Configure
  <1>2. Shape /\ LineInv /\ DOMAIN rx = RxFields
    BY Zenon DEF IInv, Shape
  <1>3. DOMAIN fields = StFields /\ LineKept(rx)
    BY <1>2 DEF LineKept, StKept
  <1>4. UNCHANGED <<HeadOf, LabelOf, BasicOf, PtynOf>> /\ st'.ps_idx = st.ps_idx
    BY <1>1, <1>2 DEF HeadOf, LabelOf, BasicOf, PtynOf, Awaited, StKept, StFields, RxFields
  <1>5. RtInv'
    BY <1>1, Zenon DEF RtInv
  <1>6. Shape' /\ LineInv' /\ FreshInv'
    BY <1>1, <1>2, <1>3, ConfigureLine, Zenon
  <1> QED BY <1>4, <1>5, <1>6, Untouched, Zenon DEF IInv, BasicInv

\* A setter keeps the invariant.
LEMMA SetStep ==
    ASSUME IInv, Set
    PROVE  IInv'
  <1>1. ASSUME NEW v \in PIs, SetPi(v) PROVE IInv'
    <2>1. v \in Word
      BY ArgumentsAssumption, Zenon
    <2> QED BY <1>1, <2>1, SetHead DEF SetPi
  <1>2. ASSUME NEW v \in PTYs, SetPty(v) PROVE IInv'
    <2>1. v \in 0..31
      BY <1>2, ArgumentsAssumption DEF SetPty
    <2> QED BY <1>2, <2>1, SetHead, Zenon DEF SetPty
  <1>3. ASSUME NEW v \in Bools, SetTa(v) \/ SetTp(v) \/ SetMs(v) PROVE IInv'
    <2>1. v % 2 \in 0..1
      BY ArgumentsAssumption
    <2> QED BY <1>3, <2>1, SetHead DEF SetTa, SetTp, SetMs
  <1>4. /\ DOMAIN st = StFields /\ DOMAIN rx = RxFields
        /\ DOMAIN NoWords = 1..4 /\ NoWords \in [1..4 -> Word \cup {Unknown}]
    BY DEF IInv, Shape, NoWords
  <1>5. /\ st.di \in 0..15 /\ st.ps \in [1..4 -> Word] /\ st.ps_set \in 0..1
        /\ st.ps_idx \in 0..3 /\ rx.ps \in [1..4 -> Word \cup {Unknown}]
    BY Zenon DEF IInv, BasicInv
  <1>6. ASSUME NEW v \in DIs, SetDi(v) PROVE IInv'
    <2> DEFINE fields == [st EXCEPT !.di = v % 16]
               known == [rx EXCEPT !.di = NoWords, !.basic = 0]
    <2>1. v % 16 \in 0..15
      BY ArgumentsAssumption
    <2>2. /\ StKept(fields, {"di", "ps", "ps_set", "ps_idx"})
          /\ RxKept(known, {"di", "ps", "basic"})
          /\ fields.di = v % 16 /\ fields.ps = st.ps /\ fields.ps_set = st.ps_set
          /\ fields.ps_idx = st.ps_idx /\ known.di = NoWords /\ known.ps = rx.ps /\ known.basic = 0
      BY <1>4, Zenon DEF StKept, RxKept, StFields, RxFields
    <2>3. Configure(fields, known)
      BY <1>6, Zenon DEF SetDi
    <2> HIDE DEF fields, known
    <2> QED BY <1>4, <1>5, <2>1, <2>2, <2>3, SetBasic
  <1>7. ASSUME NEW text \in PSs, SetPs(text) PROVE IInv'
    <2> DEFINE fields == [st EXCEPT !.ps = text, !.ps_set = 1, !.ps_idx = 0]
               known == [rx EXCEPT !.ps = NoWords, !.di = NoWords, !.basic = 0]
    <2>1. text \in [1..4 -> Word] /\ 1 \in 0..1 /\ 0 \in 0..3
      BY TextsAssumption
    <2>2. /\ StKept(fields, {"di", "ps", "ps_set", "ps_idx"})
          /\ RxKept(known, {"di", "ps", "basic"})
          /\ fields.di = st.di /\ fields.ps = text /\ fields.ps_set = 1
          /\ fields.ps_idx = 0 /\ known.di = NoWords /\ known.ps = NoWords /\ known.basic = 0
      BY <1>4, Zenon DEF StKept, RxKept, StFields, RxFields
    <2>3. Configure(fields, known)
      BY <1>7, Zenon DEF SetPs
    <2> HIDE DEF fields, known
    <2> QED BY <1>4, <1>5, <2>1, <2>2, <2>3, SetBasic
  <1>8. ASSUME NEW text \in PTYNs, SetPtyn(text) PROVE IInv'
    <2> DEFINE flag == IF st.ptyn_set = 1 THEN 1 - st.ptyn_flush ELSE st.ptyn_flush
               pure == flag # rx.flag \/ rx.ptyn = NoWords
               fields == [st EXCEPT !.ptyn = text, !.ptyn_set = 1, !.ptyn_idx = 0,
                                    !.ptyn_flush = flag]
               known == [rx EXCEPT !.pure = pure]
    <2>1. text \in [1..4 -> Word] /\ 1 \in 0..1 /\ 0 \in 0..1 /\ flag \in 0..1
      BY TextsAssumption DEF IInv, PtynInv
    <2>2. Configure(fields, known)
      BY <1>8, Zenon DEF SetPtyn
    <2>3. rx.flag = flag /\ pure => rx.ptyn = NoWords
      OBVIOUS
    <2> HIDE DEF flag, pure
    <2>4. /\ StKept(fields, {"ptyn", "ptyn_set", "ptyn_idx", "ptyn_flush"})
          /\ RxKept(known, {"pure"})
          /\ fields.ptyn = text /\ fields.ptyn_set = 1 /\ fields.ptyn_idx = 0
          /\ fields.ptyn_flush = flag /\ known.pure = pure
      BY <1>4, Zenon DEF StKept, RxKept, StFields, RxFields
    <2> HIDE DEF fields, known
    <2> QED BY <2>1, <2>2, <2>3, <2>4, SetPtynStep, Zenon
  <1>9. ASSUME RemovePtyn PROVE IInv'
    <2> DEFINE none == <<0, 0, 0, 0>>
               fields == [st EXCEPT !.ptyn = none, !.ptyn_set = 0]
    <2>1. none \in [1..4 -> Word] /\ 0 \in 0..1 /\ 0 # 1
      <3>1. 0 \in Word
        BY DEF Word
      <3> QED BY <3>1
    <2>2. Configure(fields, rx)
      BY <1>9, Zenon DEF RemovePtyn
    <2>3. st.ptyn_idx \in 0..1 /\ st.ptyn_flush \in 0..1
      BY Zenon DEF IInv, PtynInv
    <2> HIDE DEF none
    <2>4. /\ StKept(fields, {"ptyn", "ptyn_set", "ptyn_idx", "ptyn_flush"}) /\ RxKept(rx, {"pure"})
          /\ fields.ptyn = none /\ fields.ptyn_set = 0 /\ fields.ptyn_idx = st.ptyn_idx
          /\ fields.ptyn_flush = st.ptyn_flush
      BY <1>4, Zenon DEF StKept, RxKept, StFields, RxFields
    <2> HIDE DEF fields
    <2> QED BY <2>1, <2>2, <2>3, <2>4, SetPtynStep, Zenon
  <1>10. ASSUME NEW text \in RTs, NEW flush \in {0, 1}, SetRt(text, flush) PROVE IInv'
    <2> DEFINE flag == IF flush = 1 /\ st.rt_set = 1 THEN 1 - st.rt_flush ELSE st.rt_flush
               fields == [st EXCEPT !.rt = text, !.rt_set = 1, !.rt_idx = 0, !.rt_flush = flag]
    <2>1. text \in Seq([1..2 -> Word]) /\ text # <<>> /\ Len(text) <= 16
      BY TextsAssumption, Zenon
    <2>2. flag \in 0..1 /\ 0 \in 0..15 /\ 0 < Len(text)
      BY <2>1 DEF IInv, RtInv
    <2>3. Configure(fields, rx)
      BY <1>10, Zenon DEF SetRt
    <2> HIDE DEF flag
    <2>4. /\ StKept(fields, {"rt", "rt_set", "rt_idx", "rt_flush"})
          /\ fields.rt = text /\ fields.rt_idx = 0 /\ fields.rt_flush = flag
      BY <1>4, Zenon DEF StKept, StFields
    <2> HIDE DEF fields
    <2> QED BY <2>1, <2>2, <2>3, <2>4, SetRtStep, Zenon
  <1>11. ASSUME RemoveRt PROVE IInv'
    <2> DEFINE fields == [st EXCEPT !.rt_set = 0]
    <2>1. st.rt \in Seq([1..2 -> Word]) /\ st.rt_idx \in 0..15 /\ st.rt_flush \in 0..1 /\ 0 # 1
      BY DEF IInv, RtInv
    <2>2. Configure(fields, rx)
      BY <1>11, Zenon DEF RemoveRt
    <2>3. /\ StKept(fields, {"rt", "rt_set", "rt_idx", "rt_flush"})
          /\ fields.rt = st.rt /\ fields.rt_set = 0 /\ fields.rt_idx = st.rt_idx
          /\ fields.rt_flush = st.rt_flush
      BY <1>4, Zenon DEF StKept, StFields
    <2> HIDE DEF fields
    <2> QED BY <2>1, <2>2, <2>3, SetRtStep, Zenon
  <1> QED BY <1>1, <1>2, <1>3, <1>6, <1>7, <1>8, <1>9, <1>10, <1>11, SetLabel, Zenon DEF Set

------------------------------------------------------------------------------
\* rds_generate_group and its cases.

\* A group that is assembled is on the line with all of its bits to come.
LEMMA AssembleLine ==
    ASSUME Shape, LineInv, NEW code \in Nat, NEW g, NEW now, Assemble(code, g, now),
           g.words \in [1..4 -> Word], DOMAIN g.st = StFields
    PROVE  /\ Shape' /\ LineInv' /\ tx'.left = 104 /\ tx'.code = code /\ tx'.words = g.words
           /\ st' = g.st /\ rx'.di = rx.di /\ rx'.ps = rx.ps /\ rx'.basic = rx.basic
           /\ rx'.label = rx.label /\ rx'.flag = rx.flag /\ rx'.ptyn = rx.ptyn
           /\ rx'.pure = rx.pure /\ rx'.fresh = TRUE
  <1> DEFINE B(i) == Block(g.words[i], OffsetOf(code, i))
  <1>1. /\ tx.left = 0 /\ st' = g.st /\ window' = window
        /\ tx' = [code |-> code, words |-> g.words, now |-> now, left |-> 104,
                  blocks |-> <<B(1), B(2), B(3), B(4)>>]
        /\ rx' = [rx EXCEPT !.words = <<>>, !.offsets = <<>>, !.fresh = TRUE]
    BY Zenon DEF Assemble
  <1>2. ASSUME NEW i \in 1..4 PROVE B(i) \in Frame /\ B(i) \div 2^10 = g.words[i]
    <2>1. OffsetOf(code, i) \in Nat
      BY DEF OffsetOf, OffsetWords
    <2>2. g.words[i] \in Word
      OBVIOUS
    <2> QED BY <2>1, <2>2, BlockParts, Zenon
  <1> HIDE DEF B
  <1>3. /\ tx'.left = 104 /\ tx'.code = code /\ tx'.words = g.words /\ DOMAIN tx' = TxFields
        /\ tx'.blocks = <<B(1), B(2), B(3), B(4)>>
    BY <1>1 DEF TxFields
  <1>4. tx'.blocks \in [1..4 -> Frame] /\ \A i \in 1..4 : tx'.blocks[i] = B(i)
    BY <1>2, <1>3
  <1>5. /\ DOMAIN rx' = RxFields /\ rx'.words = <<>> /\ rx'.last = rx.last /\ rx'.reg = rx.reg
        /\ rx'.di = rx.di /\ rx'.ps = rx.ps /\ rx'.basic = rx.basic
        /\ rx'.label = rx.label /\ rx'.flag = rx.flag /\ rx'.ptyn = rx.ptyn
        /\ rx'.pure = rx.pure /\ rx'.fresh = TRUE
    BY <1>1 DEF Shape, RxFields
  <1>6. Shape'
    BY <1>1, <1>3, <1>5, Zenon DEF Shape
  <1>7. LineInv'
    <2>1. window' \in 0..3 /\ rx'.last = window' % 2 /\ rx'.reg = 0 /\ tx'.code # -1
      BY <1>1, <1>3, <1>5 DEF LineInv
    <2>2. /\ rx'.reg \in Nat /\ tx'.left \in 0..104 /\ tx'.left # 0
          /\ rx'.words \in Seq(Word) /\ Len(rx'.words) = 0 /\ \A i \in 1..Len(rx'.words) : FALSE
      BY <1>3, <1>5, <2>1
    <2>3. OnItsWay' = 1 /\ ToCome' = 26 /\ OnItsWay' - 1 = 0
      BY <1>3 DEF OnItsWay, ToCome
    <2>4. rx'.reg = tx'.blocks[OnItsWay'] \div 2^(ToCome')
      <3>1. B(1) \div 2^26 = 0 /\ 1 \in 1..4
        BY <1>2 DEF Frame
      <3> QED BY <1>4, <2>1, <2>3, <3>1, Zenon
    <2>5. \A i \in 1..4 : tx'.blocks[i] \div 2^10 = tx'.words[i]
      BY <1>2, <1>3, <1>4, Zenon
    <2> QED BY <1>3, <1>4, <2>1, <2>2, <2>3, <2>4, <2>5, Zenon DEF LineInv
  <1> QED BY <1>1, <1>3, <1>5, <1>6, <1>7, Zenon

\* The segment before the next one is the one that is sent.
LEMMA PsSegment ==
    ASSUME st.ps_idx \in 0..3
    PROVE  NextPsIdx \in 0..3 /\ Before(NextPsIdx, 1) = st.ps_idx
  BY DEF NextPsIdx, Before

\* There are four segments.
LEMMA SegmentBefore == \A i \in 0..3 : Before(i, 1) \in 0..3
  BY DEF Before

\* A case of rds_generate_group replaces infowords of the header.
Replaced(g, x, y, z) == [g EXCEPT ![2] = x, ![3] = y, ![4] = z]
ReplacedB(g, x, z) == [g EXCEPT ![2] = x, ![4] = z]

LEMMA Edited ==
    ASSUME NEW a, NEW b, NEW c, NEW d, NEW x, NEW y, NEW z
    PROVE  Replaced(<<a, b, c, d>>, x, y, z) = <<a, x, y, z>>
  BY DEF Replaced

LEMMA EditedB ==
    ASSUME NEW a, NEW b, NEW c, NEW d, NEW x, NEW z
    PROVE  ReplacedB(<<a, b, c, d>>, x, z) = <<a, x, c, z>>
  BY DEF ReplacedB

\* Four infowords make a group.
LEMMA FourWords ==
    ASSUME NEW a \in Word, NEW b \in Word, NEW c \in Word, NEW d \in Word
    PROVE  <<a, b, c, d>> \in [1..4 -> Word]
  OBVIOUS

\* What every group carries in block 2, with the bits that a case adds.
LEMMA HeadBlock ==
    ASSUME HeadInv, NEW code \in 0..15, NEW version \in 0..1, NEW rest \in 0..31
    PROVE  HeadBits(Header(code, version)[2] + rest, code, version, st.tp, st.pty, rest)
  <1>1. Header(code, version)[2] + rest = Joined(code, version, st.tp, st.pty, rest)
    BY DEF Header, Joined
  <1>2. st.tp \in 0..1 /\ st.pty \in 0..31
    BY Zenon DEF HeadInv
  <1>3. HeadBits(Joined(code, version, st.tp, st.pty, rest), code, version, st.tp, st.pty, rest)
    BY <1>2, Block2, Zenon
  <1> QED BY <1>1, <1>3, Zenon

\* Assembling a group leaves what the receiver has alone.
LEMMA Assembled ==
    ASSUME IInv, NEW code \in {0, 1, 2, 4, 10, 15}, NEW g, NEW now, Assemble(code, g, now),
           g.words \in [1..4 -> Word], DOMAIN g.st = StFields,
           HeadOf' = HeadOf, g.st.di = st.di, g.st.ps = st.ps, g.st.ps_set = st.ps_set,
           g.st.ps_idx = IF code \in {0, 15} THEN NextPsIdx ELSE st.ps_idx
    PROVE  /\ Shape' /\ LineInv' /\ HeadInv' /\ BasicInv'
           /\ Carried' => FreshInv'
           /\ tx'.code = code /\ tx'.words = g.words /\ st' = g.st
           /\ rx'.label = rx.label /\ rx'.flag = rx.flag /\ rx'.ptyn = rx.ptyn
           /\ rx'.pure = rx.pure
  <1>1. Shape /\ LineInv /\ HeadInv /\ BasicInv
    BY Zenon DEF IInv
  <1>2. code \in Nat
    OBVIOUS
  <1>3. /\ Shape' /\ LineInv' /\ tx'.left = 104 /\ tx'.code = code /\ tx'.words = g.words
        /\ st' = g.st /\ rx'.di = rx.di /\ rx'.ps = rx.ps /\ rx'.basic = rx.basic
        /\ rx'.label = rx.label /\ rx'.flag = rx.flag /\ rx'.ptyn = rx.ptyn
        /\ rx'.pure = rx.pure /\ rx'.fresh = TRUE
    BY <1>1, <1>2, AssembleLine, Zenon
  <1>4. HeadInv'
    BY <1>1, Untouched, Zenon
  <1>5. BasicInv'
    <2>1. st.ps_idx \in 0..3 /\ NextPsIdx \in 0..3 /\ Before(NextPsIdx, 1) = st.ps_idx
      BY <1>1, PsSegment, Zenon DEF BasicInv
    <2>2. st'.ps_idx \in 0..3
      BY <1>3, <2>1, Zenon
    <2>3. Awaited = st.ps_idx
      <3>1. ~(tx.left > 0)
        BY DEF Assemble
      <3> QED BY <3>1, Zenon DEF Awaited
    <2>4. Awaited' = st.ps_idx
      <3>1. tx'.left > 0
        BY <1>3
      <3> QED BY <1>3, <2>1, <3>1, Zenon DEF Awaited
    <2> QED BY <1>1, <1>3, <2>2, <2>3, <2>4, Untouched, Zenon DEF BasicOf
  <1>6. Carried' => FreshInv'
    BY <1>3, Zenon DEF FreshInv
  <1> QED BY <1>3, <1>4, <1>5, <1>6, Zenon

\* Groups 0B and 15B carry a segment of DI, and 0B one of PS.
LEMMA BasicStep ==
    ASSUME IInv, NEW code \in {0, 15}, NEW g, NEW now, Assemble(code, g, now), UNCHANGED vcode,
           g.words = <<st.pi, g.words[2], st.pi, g.words[4]>>,
           g.words[2] = Header(code, 1)[2] + Switching, g.words[4] \in Word,
           g.st = [st EXCEPT !.ps_idx = NextPsIdx],
           code = 0 => g.words[4] = st.ps[st.ps_idx + 1], code = 15 => st.ps_set = 0
    PROVE  IInv'
  <1> DEFINE w2 == g.words[2]
             w4 == g.words[4]
  <1>1. /\ HeadInv /\ st.pi \in Word /\ st.ta \in 0..1 /\ st.ms \in 0..1
        /\ DOMAIN st = StFields /\ st.di \in 0..15 /\ st.ps_idx \in 0..3
    BY Zenon DEF IInv, Shape, HeadInv, BasicInv
  <1> DEFINE i == st.ps_idx
             d == Bit(st.di, 3 - i)
  <1>2. d \in 0..1
    <2>1. st.di \in Nat /\ 3 - i \in 0..25
      BY <1>1
    <2> QED BY <2>1, BitType, Zenon
  <1>3. Switching \in 0..31 /\ Switching = Switched(i, d, st.ms, st.ta)
    <2>1. Switching = Switched(i, d, st.ms, st.ta)
      BY Zenon DEF Switching, Switched
    <2> HIDE DEF d
    <2> QED BY <1>1, <1>2, <2>1 DEF Switched
  <1>4. /\ w2 \in Word /\ Bits(w2, 12, 4) = code /\ Bit(w2, 11) = 1
        /\ Bit(w2, 10) = st.tp /\ Bits(w2, 5, 5) = st.pty /\ w2 % 32 = Switching
    <2>1. code \in 0..15 /\ 1 \in 0..1
      OBVIOUS
    <2>2. HeadBits(w2, code, 1, st.tp, st.pty, Switching)
      <3>1. HeadBits(Header(code, 1)[2] + Switching, code, 1, st.tp, st.pty, Switching)
        BY <1>1, <1>3, <2>1, HeadBlock, Zenon
      <3> QED BY <3>1, Zenon
    <2> QED BY <2>2, Zenon DEF HeadBits
  <1>5. Bit(w2, 4) = st.ta /\ Bit(w2, 3) = st.ms /\ Bit(w2, 2) = d /\ w2 % 4 = i
    <2>1. w2 \in Nat
      BY <1>4 DEF Word
    <2>2. w2 % 32 = Switched(i, d, st.ms, st.ta)
      BY <1>3, <1>4, Zenon
    <2>3. SwitchBits(w2, i, d, st.ms, st.ta)
      <3> HIDE DEF i, d
      <3> QED BY <1>1, <1>2, <2>1, <2>2, SwitchingBits, Zenon DEF i
    <2> QED BY <2>3, Zenon DEF SwitchBits
  <1>6. /\ g.words \in [1..4 -> Word] /\ g.words[1] = st.pi /\ g.words[3] = st.pi
    <2>1. g.words = <<st.pi, w2, st.pi, w4>> /\ w4 \in Word
      BY Zenon
    <2> HIDE DEF w2, w4
    <2>2. /\ <<st.pi, w2, st.pi, w4>> \in [1..4 -> Word]
          /\ <<st.pi, w2, st.pi, w4>>[1] = st.pi /\ <<st.pi, w2, st.pi, w4>>[3] = st.pi
      BY <1>1, <1>4, <2>1, FourWords
    <2> QED BY <2>1, <2>2, Zenon
  <1>7. /\ DOMAIN g.st = StFields /\ \A f \in StFields \ {"ps_idx"} : g.st[f] = st[f]
        /\ g.st.ps_idx = NextPsIdx
    BY <1>1 DEF StFields
  <1>8. st' = g.st
    BY Zenon DEF Assemble
  <1>9. /\ UNCHANGED <<HeadOf, RtOf>> /\ g.st.di = st.di /\ g.st.ps = st.ps
        /\ g.st.ps_set = st.ps_set /\ g.st.ecc = st.ecc /\ g.st.lic = st.lic
        /\ g.st.ptyn = st.ptyn /\ g.st.ptyn_set = st.ptyn_set /\ g.st.ptyn_idx = st.ptyn_idx
        /\ g.st.ptyn_flush = st.ptyn_flush
    BY <1>7, <1>8 DEF StFields, HeadOf, RtOf
  <1>10. /\ Shape' /\ LineInv' /\ HeadInv' /\ BasicInv' /\ (Carried' => FreshInv')
         /\ tx'.code = code /\ tx'.words = g.words
         /\ rx'.label = rx.label /\ rx'.flag = rx.flag /\ rx'.ptyn = rx.ptyn
         /\ rx'.pure = rx.pure
    <2>1. code \in {0, 1, 2, 4, 10, 15} /\ HeadOf' = HeadOf
      BY <1>9, Zenon
    <2> QED BY <1>6, <1>7, <1>9, <2>1, Assembled, ZenonT(30)
  <1>11. UNCHANGED <<RtOf, LabelOf, PtynOf>>
    BY <1>8, <1>9, <1>10, Zenon DEF LabelOf, PtynOf
  <1>12. Carried'
    <2>1. /\ st'.pi = st.pi /\ st'.tp = st.tp /\ st'.pty = st.pty /\ st'.ta = st.ta
          /\ st'.ms = st.ms /\ st'.di = st.di /\ st'.ps = st.ps /\ st'.ps_set = st.ps_set
          /\ st'.ps_idx = NextPsIdx
      BY <1>7, <1>8, <1>9, Zenon DEF HeadOf
    <2>2. Before(NextPsIdx, 1) = i
      BY <1>1, PsSegment, Zenon
    <2>3. tx'.code \in {0, 1, 2, 4, 10, 15} /\ tx'.code # 1 /\ tx'.code # 10 
      BY <1>10
    <2>4. tx'.words[1] = st.pi /\ tx'.words[2] = w2 /\ tx'.words[3] = st.pi /\ tx'.words[4] = w4
      BY <1>6, <1>10, Zenon
    <2>5. Bit(w2, 2) = Bit(st.di, 3 - (w2 % 4)) /\ w2 % 4 = Before(NextPsIdx, 1)
      BY <1>5, <2>2, Zenon
    <2>6. /\ tx'.code = 0 => w4 = st.ps[(w2 % 4) + 1]
          /\ tx'.code = 15 => st.ps_set = 0
      BY <1>5, <1>10, Zenon
    <2> HIDE DEF d, i
    <2>7. tx'.code = code
      BY <1>10, Zenon
    <2> QED BY <1>4, <1>5, <2>1, <2>3, <2>4, <2>5, <2>6, <2>7, Zenon DEF Carried
  <1> QED BY <1>10, <1>11, <1>12, Untouched, Zenon DEF IInv

\* The other groups carry the header and the infowords of their case.
LEMMA OtherGroup ==
    ASSUME IInv, NEW code \in {1, 2, 4, 10}, NEW g, NEW now, Assemble(code, g, now),
           g.words = <<st.pi, g.words[2], g.words[3], g.words[4]>>,
           \E rest \in 0..31 : g.words[2] = Header(code, 0)[2] + rest,
           g.words[3] \in Word, g.words[4] \in Word,
           DOMAIN g.st = StFields, \A f \in StFields \ {"rt_idx", "ptyn_idx"} : g.st[f] = st[f],
           LET w2 == g.words[2]
               w3 == g.words[3]
               w4 == g.words[4]
           IN /\ code = 1 => /\ Bits(w3, 12, 3) = vcode'
                             /\ w3 % 2^12 = IF vcode' = 0 THEN st.ecc ELSE st.lic
              /\ code = 10 => /\ st.ptyn_set = 1 /\ Bit(w2, 4) = st.ptyn_flush
                              /\ w3 = st.ptyn[2 * (w2 % 2) + 1] /\ w4 = st.ptyn[2 * (w2 % 2) + 2]
    PROVE  /\ Shape' /\ LineInv' /\ HeadInv' /\ BasicInv' /\ FreshInv' /\ st' = g.st
           /\ st'.rt = st.rt /\ st'.rt_set = st.rt_set /\ st'.rt_flush = st.rt_flush
           /\ st'.ecc = st.ecc /\ st'.lic = st.lic /\ rx'.label = rx.label
           /\ st'.ptyn = st.ptyn /\ st'.ptyn_set = st.ptyn_set /\ st'.ptyn_flush = st.ptyn_flush
           /\ rx'.flag = rx.flag /\ rx'.ptyn = rx.ptyn /\ rx'.pure = rx.pure
  <1> DEFINE w2 == g.words[2]
             w3 == g.words[3]
             w4 == g.words[4]
  <1>1. HeadInv /\ st.pi \in Word
    BY Zenon DEF IInv, HeadInv
  <1>2. /\ w2 \in Word /\ Bits(w2, 12, 4) = code /\ Bit(w2, 10) = st.tp /\ Bits(w2, 5, 5) = st.pty
    <2>1. code \in 0..15 /\ 0 \in 0..1
      OBVIOUS
    <2>0. PICK rest \in 0..31 : w2 = Header(code, 0)[2] + rest
      OBVIOUS
    <2>2. HeadBits(Header(code, 0)[2] + rest, code, 0, st.tp, st.pty, rest)
      BY <1>1, <2>1, HeadBlock, Zenon
    <2> QED BY <2>0, <2>2, Zenon DEF HeadBits
  <1>3. /\ g.words \in [1..4 -> Word] /\ g.words[1] = st.pi
    <2>1. g.words = <<st.pi, w2, w3, w4>> /\ w3 \in Word /\ w4 \in Word
      BY Zenon
    <2> HIDE DEF w2, w3, w4
    <2>2. <<st.pi, w2, w3, w4>> \in [1..4 -> Word] /\ <<st.pi, w2, w3, w4>>[1] = st.pi
      BY <1>1, <1>2, <2>1, FourWords
    <2> QED BY <2>1, <2>2, Zenon
  <1>4. st' = g.st
    BY Zenon DEF Assemble
  <1>5. /\ st'.pi = st.pi /\ st'.tp = st.tp /\ st'.pty = st.pty /\ st'.ta = st.ta
        /\ st'.ms = st.ms /\ st'.di = st.di /\ st'.ps = st.ps /\ st'.ps_set = st.ps_set
        /\ st'.ps_idx = st.ps_idx
        /\ st'.rt = st.rt /\ st'.rt_set = st.rt_set /\ st'.rt_flush = st.rt_flush
        /\ st'.ecc = st.ecc /\ st'.lic = st.lic
        /\ st'.ptyn = st.ptyn /\ st'.ptyn_set = st.ptyn_set /\ st'.ptyn_flush = st.ptyn_flush
    BY <1>4 DEF StFields
  <1>6. /\ Shape' /\ LineInv' /\ HeadInv' /\ BasicInv' /\ (Carried' => FreshInv')
        /\ tx'.code = code /\ tx'.words = g.words
        /\ rx'.label = rx.label /\ rx'.flag = rx.flag /\ rx'.ptyn = rx.ptyn
        /\ rx'.pure = rx.pure
    <2>1. code \in {0, 1, 2, 4, 10, 15} /\ code \notin {0, 15} /\ HeadOf' = HeadOf
      BY <1>5 DEF HeadOf
    <2>2. /\ g.st.di = st.di /\ g.st.ps = st.ps /\ g.st.ps_set = st.ps_set
          /\ g.st.ps_idx = st.ps_idx
      BY <1>4, <1>5, Zenon
    <2> QED BY <1>3, <2>1, <2>2, Assembled, Zenon
  <1>7. Carried'
    <2>1. tx'.words[1] = st.pi /\ tx'.words[2] = w2 /\ tx'.words[3] = w3 /\ tx'.words[4] = w4
      BY <1>3, <1>6, Zenon
    <2>2. /\ tx'.code \in {0, 1, 2, 4, 10, 15} /\ tx'.code \notin {0, 15}
          /\ tx'.code # 0 /\ tx'.code # 15
      BY <1>6
    <2>3. tx'.code = code
      BY <1>6, Zenon
    <2> QED BY <1>2, <1>5, <2>1, <2>2, <2>3, Zenon DEF Carried
  <1> QED BY <1>4, <1>5, <1>6, <1>7, Zenon

\* The four infowords that every case of rds_generate_group starts with.
LEMMA HeadType ==
    ASSUME HeadInv, NEW code \in Nat
    PROVE  Header(code, 0)[2] \in Nat /\ Header(code, 0) = <<st.pi, Header(code, 0)[2], 0, 0>>
  <1>1. Header(code, 0)[2] = code * 2^12 + 0 * 2^11 + st.tp * 2^10 + (st.pty % 32) * 2^5
    BY DEF Header
  <1>2. st.tp \in 0..1 /\ st.pty \in 0..31
    BY Zenon DEF HeadInv
  <1>3. Header(code, 0)[2] \in Nat
    BY <1>1, <1>2
  <1>4. Header(code, 0) = <<st.pi, Header(code, 0)[2], 0, 0>>
    BY DEF Header
  <1> QED BY <1>3, <1>4, Zenon

\* rds_generate_group_1 keeps the invariant: it sends ECC and LIC in turns, under the variant
\* code that names them.
LEMMA Step1A ==
    ASSUME IInv, vcode' = NextVcode, Assemble(1, Group1A, <<>>)
    PROVE  IInv'
  <1> DEFINE label == IF NextVcode = 0 THEN st.ecc % 2^8 ELSE st.lic % 2^12
             w3 == NextVcode * 2^12 + label
             w2 == Header(1, 0)[2]
  <1>1. /\ st.ecc \in 0..2^8 - 1 /\ st.lic \in 0..2^12 - 1 /\ vcode \in {0, 3}
        /\ DOMAIN st = StFields /\ HeadInv
    BY Zenon DEF IInv, LabelInv, Shape
  <1>2. /\ NextVcode \in {0, 3} /\ label \in 0..2^12 - 1
        /\ label = IF NextVcode = 0 THEN st.ecc ELSE st.lic
    BY <1>1 DEF NextVcode
  <1> HIDE DEF label
  <1>3. w3 \in Word /\ Bits(w3, 12, 3) = NextVcode /\ w3 % 2^12 = label
    BY <1>2, LabelBits, Zenon
  <1>4. Group1A.words = <<st.pi, w2, w3, 0>> /\ Group1A.st = st
    <2>1. Header(1, 0) = <<st.pi, w2, 0, 0>>
      BY DEF Header
    <2>2. Group1A.words = [Header(1, 0) EXCEPT ![3] = w3] /\ Group1A.st = st
      BY DEF Group1A, label
    <2> HIDE DEF w2, w3
    <2>3. [<<st.pi, w2, 0, 0>> EXCEPT ![3] = w3] = <<st.pi, w2, w3, 0>>
      OBVIOUS
    <2> QED BY <2>1, <2>2, <2>3, Zenon
  <1>5. (\E rest \in 0..31 : w2 = Header(1, 0)[2] + rest) /\ 0 \in Word
    <2>1. w2 \in Nat
      BY <1>1, HeadType
    <2> HIDE DEF w2
    <2>2. w2 = w2 + 0 /\ 0 \in 0..31 /\ 0 \in Word
      BY <2>1 DEF Word
    <2> QED BY <2>2, Zenon DEF w2
  <1> HIDE DEF w2, w3
  <1>6. /\ Group1A.words[2] = w2 /\ Group1A.words[3] = w3 /\ Group1A.words[4] = 0
        /\ Group1A.words = <<st.pi, Group1A.words[2], Group1A.words[3], Group1A.words[4]>>
    BY <1>4
  <1>7. /\ Shape' /\ LineInv' /\ HeadInv' /\ BasicInv' /\ FreshInv' /\ st' = Group1A.st
        /\ rx'.label = rx.label
        /\ rx'.flag = rx.flag /\ rx'.ptyn = rx.ptyn /\ rx'.pure = rx.pure
    <2>1. 1 \in {1, 2, 4, 10} /\ 1 # 10
      OBVIOUS
    <2> QED BY <1>1, <1>2, <1>3, <1>4, <1>5, <1>6, <2>1, OtherGroup, Zenon
  <1>8. UNCHANGED <<RtOf, PtynOf>>
    BY <1>4, <1>7, Zenon DEF RtOf, PtynOf
  <1>9. LabelInv'
    BY <1>2, <1>4, <1>7, Zenon DEF IInv, LabelInv
  <1> QED BY <1>7, <1>8, <1>9, Untouched, Zenon DEF IInv

\* Adding a segment and the A/B flag to block 2 is adding one number of five bits.
LEMMA FlagRest ==
    ASSUME NEW h \in Nat, NEW idx \in 0..15, NEW flag \in 0..1
    PROVE  idx + flag * 16 \in 0..31 /\ h + idx + flag * 16 = h + (idx + flag * 16)
  OBVIOUS

\* An element of a sequence.
LEMMA ElementOf ==
    ASSUME NEW S, NEW s \in Seq(S) PROVE Len(s) \in Nat /\ \A i \in 1..Len(s) : s[i] \in S
  OBVIOUS

\* The segment after segment i of n, from the start again after the last one.
LEMMA NextIn ==
    ASSUME NEW n \in Nat, NEW i \in 0..15, i < n, n <= 16
    PROVE  LET idx == IF i + 1 >= n THEN 0 ELSE i + 1
           IN i + 1 \in 1..n /\ idx \in 0..15 /\ idx < n
  OBVIOUS

\* rds_generate_group_2 keeps the invariant: the next segment of RT is one of its segments.
LEMMA Step2A ==
    ASSUME IInv, st.rt_set = 1, UNCHANGED vcode, Assemble(2, Group2A, <<>>)
    PROVE  IInv'
  <1> DEFINE next == st.rt_idx + 1
             rest == st.rt_idx + st.rt_flush * 16
             w2 == Header(2, 0)[2] + st.rt_idx + st.rt_flush * 16
             w3 == st.rt[next][1]
             w4 == st.rt[next][2]
             idx == IF next >= Len(st.rt) THEN 0 ELSE next
  <1>1. /\ st.rt \in Seq([1..2 -> Word]) /\ st.rt_idx \in 0..15 /\ st.rt_flush \in 0..1
        /\ st.rt_idx < Len(st.rt) /\ Len(st.rt) <= 16
        /\ DOMAIN st = StFields /\ HeadInv
    BY Zenon DEF IInv, RtInv, Shape
  <1>2. rest \in 0..31 /\ w2 = Header(2, 0)[2] + rest
    <2> DEFINE h == Header(2, 0)[2]
    <2>1. h \in Nat
      BY <1>1, HeadType
    <2> HIDE DEF h
    <2>2. rest \in 0..31 /\ h + st.rt_idx + st.rt_flush * 16 = h + rest
      BY <1>1, <2>1, FlagRest, Zenon
    <2> QED BY <2>2, Zenon DEF h
  <1>3. w3 \in Word /\ w4 \in Word
    <2>1. Len(st.rt) \in Nat /\ \A i \in 1..Len(st.rt) : st.rt[i] \in [1..2 -> Word]
      BY <1>1, ElementOf, Zenon
    <2>2. st.rt[next] \in [1..2 -> Word]
      BY <1>1, <2>1, NextIn, Zenon
    <2> HIDE DEF next
    <2> QED BY <2>2
  <1>4. Group2A.words = <<st.pi, w2, w3, w4>> /\ Group2A.st = [st EXCEPT !.rt_idx = idx]
    <2>1. Header(2, 0) = <<st.pi, Header(2, 0)[2], 0, 0>>
      BY <1>1, HeadType
    <2>2. /\ Group2A.words = [Header(2, 0) EXCEPT ![2] = @ + st.rt_idx + st.rt_flush * 16,
                                                 ![3] = w3, ![4] = w4]
          /\ Group2A.st = [st EXCEPT !.rt_idx = idx]
      BY Zenon DEF Group2A
    <2>3. [Header(2, 0) EXCEPT ![2] = @ + st.rt_idx + st.rt_flush * 16, ![3] = w3, ![4] = w4]
            = [Header(2, 0) EXCEPT ![2] = w2, ![3] = w3, ![4] = w4]
      BY <2>1, Zenon
    <2> HIDE DEF w2, w3, w4, idx
    <2>4. Replaced(<<st.pi, Header(2, 0)[2], 0, 0>>, w2, w3, w4) = <<st.pi, w2, w3, w4>>
      BY Edited
    <2> QED BY <2>1, <2>2, <2>3, <2>4, Zenon DEF Replaced
  <1>5. idx \in 0..15 /\ idx < Len(st.rt)
    BY <1>1, ElementOf, NextIn, Zenon
  <1> HIDE DEF w2, w3, w4, idx, rest
  <1>6. /\ Group2A.words[2] = w2 /\ Group2A.words[3] = w3 /\ Group2A.words[4] = w4
        /\ Group2A.words = <<st.pi, Group2A.words[2], Group2A.words[3], Group2A.words[4]>>
    BY <1>4
  <1>7. /\ DOMAIN Group2A.st = StFields /\ Group2A.st.ptyn_idx = st.ptyn_idx
        /\ \A f \in StFields \ {"rt_idx", "ptyn_idx"} : Group2A.st[f] = st[f]
        /\ Group2A.st.rt_idx = idx
    BY <1>1, <1>4 DEF StFields
  <1>8. /\ Shape' /\ LineInv' /\ HeadInv' /\ BasicInv' /\ FreshInv' /\ st' = Group2A.st
        /\ st'.rt = st.rt /\ st'.rt_set = st.rt_set /\ st'.rt_flush = st.rt_flush
        /\ st'.ecc = st.ecc /\ st'.lic = st.lic /\ rx'.label = rx.label
        /\ st'.ptyn = st.ptyn /\ st'.ptyn_set = st.ptyn_set /\ st'.ptyn_flush = st.ptyn_flush
        /\ rx'.flag = rx.flag /\ rx'.ptyn = rx.ptyn /\ rx'.pure = rx.pure
    <2>1. 2 \in {1, 2, 4, 10} /\ 2 # 1 /\ 2 # 10
      OBVIOUS
    <2>2. \E r \in 0..31 : Group2A.words[2] = Header(2, 0)[2] + r
      BY <1>2, <1>6, Zenon
    <2> QED BY <1>3, <1>6, <1>7, <2>1, <2>2, OtherGroup, Zenon
  <1>9. UNCHANGED <<LabelOf, PtynOf>>
    BY <1>7, <1>8, Zenon DEF LabelOf, PtynOf
  <1>10. RtInv'
    BY <1>1, <1>5, <1>7, <1>8, Zenon DEF RtInv
  <1> QED BY <1>8, <1>9, <1>10, Untouched, Zenon DEF IInv

\* rds_generate_group_10 keeps the invariant: the two halves of PTYN go out in turns.
LEMMA Step10A ==
    ASSUME IInv, st.ptyn_set = 1, UNCHANGED vcode, Assemble(10, Group10A, <<>>)
    PROVE  IInv'
  <1> DEFINE i == st.ptyn_idx
             rest == i + st.ptyn_flush * 16
             w2 == Header(10, 0)[2] + i + st.ptyn_flush * 16
             w3 == st.ptyn[2 * i + 1]
             w4 == st.ptyn[2 * i + 2]
  <1>1. /\ st.ptyn \in [1..4 -> Word] /\ i \in 0..1 /\ st.ptyn_flush \in 0..1
        /\ DOMAIN st = StFields /\ HeadInv
    BY Zenon DEF IInv, PtynInv, Shape
  <1>2. rest \in 0..31 /\ w2 = Header(10, 0)[2] + rest
    <2> DEFINE h == Header(10, 0)[2]
    <2>1. h \in Nat
      BY <1>1, HeadType
    <2> HIDE DEF h
    <2>2. i \in 0..15
      BY <1>1
    <2>3. rest \in 0..31 /\ h + i + st.ptyn_flush * 16 = h + rest
      BY <1>1, <2>1, <2>2, FlagRest, Zenon
    <2> QED BY <2>3, Zenon DEF h
  <1>3. w3 \in Word /\ w4 \in Word
    BY <1>1
  <1>4. Group10A.words = <<st.pi, w2, w3, w4>> /\ Group10A.st = [st EXCEPT !.ptyn_idx = 1 - i]
    <2>1. Header(10, 0) = <<st.pi, Header(10, 0)[2], 0, 0>>
      BY <1>1, HeadType
    <2>2. /\ Group10A.words = [Header(10, 0) EXCEPT ![2] = w2, ![3] = w3, ![4] = w4]
          /\ Group10A.st = [st EXCEPT !.ptyn_idx = 1 - i]
      BY <1>1, <2>1, Zenon DEF Group10A
    <2> HIDE DEF w2, w3, w4
    <2>3. Replaced(<<st.pi, Header(10, 0)[2], 0, 0>>, w2, w3, w4) = <<st.pi, w2, w3, w4>>
      BY Edited
    <2> QED BY <2>1, <2>2, <2>3, Zenon DEF Replaced
  <1>5. Bit(w2, 4) = st.ptyn_flush /\ w2 % 2 = i
    <2>1. HeadBits(Header(10, 0)[2] + rest, 10, 0, st.tp, st.pty, rest)
      <3>1. 10 \in 0..15 /\ 0 \in 0..1
        OBVIOUS
      <3> HIDE DEF rest
      <3> QED BY <1>1, <1>2, <3>1, HeadBlock, Zenon
    <2>2. w2 \in Word /\ w2 % 32 = rest
      BY <1>2, <2>1, Zenon DEF HeadBits
    <2>3. w2 \in Nat /\ w2 % 32 = i + st.ptyn_flush * 16
      BY <2>2 DEF Word
    <2> HIDE DEF w2, rest
    <2> QED BY <1>1, <2>3, FlagBits, ZenonT(30)
  <1>6. 1 - i \in 0..1 /\ w3 = st.ptyn[2 * (w2 % 2) + 1] /\ w4 = st.ptyn[2 * (w2 % 2) + 2]
    <2>1. 1 - i \in 0..1
      BY <1>1
    <2> QED BY <1>5, <2>1, Zenon
  <1> HIDE DEF w2, w3, w4, rest
  <1>7. /\ Group10A.words[2] = w2 /\ Group10A.words[3] = w3 /\ Group10A.words[4] = w4
        /\ Group10A.words = <<st.pi, Group10A.words[2], Group10A.words[3], Group10A.words[4]>>
    BY <1>4
  <1>8. /\ DOMAIN Group10A.st = StFields /\ Group10A.st.rt_idx = st.rt_idx
        /\ \A f \in StFields \ {"rt_idx", "ptyn_idx"} : Group10A.st[f] = st[f]
        /\ Group10A.st.ptyn_idx = 1 - i
    BY <1>1, <1>4 DEF StFields
  <1>9. /\ Shape' /\ LineInv' /\ HeadInv' /\ BasicInv' /\ FreshInv' /\ st' = Group10A.st
        /\ st'.rt = st.rt /\ st'.rt_set = st.rt_set /\ st'.rt_flush = st.rt_flush
        /\ st'.ecc = st.ecc /\ st'.lic = st.lic /\ rx'.label = rx.label
        /\ st'.ptyn = st.ptyn /\ st'.ptyn_set = st.ptyn_set /\ st'.ptyn_flush = st.ptyn_flush
        /\ rx'.flag = rx.flag /\ rx'.ptyn = rx.ptyn /\ rx'.pure = rx.pure
    <2>1. 10 \in {1, 2, 4, 10} /\ 10 # 1
      OBVIOUS
    <2>2. \E r \in 0..31 : Group10A.words[2] = Header(10, 0)[2] + r
      BY <1>2, <1>7, Zenon
    <2> QED BY <1>3, <1>5, <1>6, <1>7, <1>8, <2>1, <2>2, OtherGroup, Zenon
  <1>10. UNCHANGED <<RtOf, LabelOf>>
    BY <1>8, <1>9, Zenon DEF RtOf, LabelOf
  <1>11. PtynInv'
    BY <1>1, <1>6, <1>8, <1>9, Zenon DEF IInv, PtynInv, PtynPure
  <1> QED BY <1>9, <1>10, <1>11, Untouched, Zenon DEF IInv

\* The infowords of a 4A group, whatever the time and the zone.
LEMMA Words4A ==
    ASSUME DOMAIN st = StFields, HeadInv, NEW t \in Times
    PROVE  /\ Group4A(t).words = <<st.pi, Header(4, 0)[2] + Bits(Mjd(t), 15, 2),
                                   ClockWord3(t), ClockWord4(t)>>
           /\ Group4A(t).st = st
           /\ Bits(Mjd(t), 15, 2) \in 0..3 /\ ClockWord3(t) \in Word /\ ClockWord4(t) \in Word
  <1> DEFINE offset == LocalHour(t) - t.hour
             m == Mjd(t)
             rest == Bits(m, 15, 2)
             w2 == Header(4, 0)[2] + rest
             w3 == ((m * 2) % 2^16) + Bit(t.hour, 4)
             w4 == (t.hour % 16) * 2^12 + (t.min % 32) * 2^6
                   + (IF offset > 0 THEN 0 ELSE 1) * 2^5
                   + ((2 * (IF offset < 0 THEN -offset ELSE offset)) % 32)
  <1>1. /\ t.year \in Int /\ t.mon \in Int /\ t.day \in Int /\ t.hour \in Int /\ t.min \in Int
        /\ t.zone \in Int
    BY TimesAssumption
  <1>2. m \in Int /\ offset \in Int
    BY <1>1 DEF Mjd, LocalHour, LocalMinutes
  <1> HIDE DEF offset, m
  <1>3. rest \in 0..3
    BY <1>2 DEF Bits
  <1>4. w3 \in Word /\ w4 \in Word
    <2>1. Bit(t.hour, 4) \in 0..1 /\ (m * 2) % 2^16 \in 0..2^16 - 2
      BY <1>1, <1>2 DEF Bit
    <2>2. w3 \in Word
      BY <2>1 DEF Word
    <2>3. w4 \in Word
      BY <1>1, <1>2 DEF Word
    <2> QED BY <2>2, <2>3, Zenon
  <1>5. ClockWord3(t) = w3 /\ ClockWord4(t) = w4
    BY Zenon DEF ClockWord3, ClockWord4, m, offset
  <1>6. Group4A(t).words = <<st.pi, w2, w3, w4>> /\ Group4A(t).st = st
    <2>1. Header(4, 0) = <<st.pi, Header(4, 0)[2], 0, 0>>
      BY HeadType
    <2>2. Group4A(t).words = [Header(4, 0) EXCEPT ![2] = @ + rest, ![3] = w3, ![4] = w4]
      BY Zenon DEF Group4A, m, offset
    <2>3. [Header(4, 0) EXCEPT ![2] = @ + rest, ![3] = w3, ![4] = w4]
            = [Header(4, 0) EXCEPT ![2] = w2, ![3] = w3, ![4] = w4]
      BY <2>1, Zenon
    <2>4. Group4A(t).st = st
      BY Zenon DEF Group4A
    <2> HIDE DEF w2, w3, w4
    <2>5. Replaced(<<st.pi, Header(4, 0)[2], 0, 0>>, w2, w3, w4) = <<st.pi, w2, w3, w4>>
      BY Edited
    <2> QED BY <2>1, <2>2, <2>3, <2>4, <2>5, Zenon DEF Replaced
  <1> HIDE DEF w3, w4
  <1> QED BY <1>3, <1>4, <1>5, <1>6, Zenon DEF m

\* rds_generate_group_4 keeps the invariant.
LEMMA Step4A ==
    ASSUME IInv, NEW t \in Times, UNCHANGED vcode, Assemble(4, Group4A(t), t)
    PROVE  IInv'
  <1> DEFINE rest == Bits(Mjd(t), 15, 2)
             w2 == Header(4, 0)[2] + rest
             w3 == ClockWord3(t)
             w4 == ClockWord4(t)
             g == Group4A(t)
  <1>1. DOMAIN st = StFields /\ HeadInv
    BY Zenon DEF IInv, Shape
  <1>2. /\ g.words = <<st.pi, w2, w3, w4>> /\ g.st = st
        /\ rest \in 0..3 /\ w3 \in Word /\ w4 \in Word
    BY <1>1, Words4A, Zenon
  <1> HIDE DEF rest, w3, w4
  <1>3. rest \in 0..31
    BY <1>2
  <1> HIDE DEF w2
  <1>4. /\ g.words[2] = w2 /\ g.words[3] = w3 /\ g.words[4] = w4
        /\ g.words = <<st.pi, g.words[2], g.words[3], g.words[4]>>
    BY <1>2
  <1>5. /\ Shape' /\ LineInv' /\ HeadInv' /\ BasicInv' /\ FreshInv' /\ st' = g.st
        /\ rx'.label = rx.label
        /\ rx'.flag = rx.flag /\ rx'.ptyn = rx.ptyn /\ rx'.pure = rx.pure
    <2>1. 4 \in {1, 2, 4, 10} /\ 4 # 1 /\ 4 # 10
      OBVIOUS
    <2>2. \E r \in 0..31 : g.words[2] = Header(4, 0)[2] + r
      BY <1>3, <1>4, Zenon DEF w2
    <2> QED BY <1>1, <1>2, <1>4, <2>1, <2>2, OtherGroup, Zenon
  <1>6. UNCHANGED <<RtOf, LabelOf, PtynOf>>
    BY <1>2, <1>5, Zenon DEF RtOf, LabelOf, PtynOf
  <1> QED BY <1>5, <1>6, Untouched, Zenon DEF IInv

\* Assembling a group keeps the invariant.
LEMMA GenerateStep ==
    ASSUME IInv, Generate
    PROVE  IInv'
  <1>1. /\ DOMAIN st = StFields /\ HeadInv /\ st.ps_idx \in 0..3 /\ st.ps \in [1..4 -> Word]
    BY Zenon DEF IInv, Shape, BasicInv
  <1>2. Switching \in 0..31 /\ Switching \in Nat
    <2>1. st.di \in Nat /\ 3 - st.ps_idx \in 0..25
      BY <1>1 DEF IInv, BasicInv
    <2>2. Bit(st.di, 3 - st.ps_idx) \in 0..1
      BY <2>1, BitType, Zenon
    <2> QED BY <1>1, <2>2 DEF Switching, HeadInv
  <1>3. CASE st.ps_set = 1 /\ Assemble(0, Group0B, <<>>) /\ UNCHANGED vcode
    <2> DEFINE w2 == Header(0, 1)[2] + Switching
               w4 == st.ps[st.ps_idx + 1]
    <2>1. Header(0, 1) = <<st.pi, Header(0, 1)[2], st.pi, 0>>
      BY DEF Header
    <2>2. /\ Group0B.words = [Header(0, 1) EXCEPT ![2] = @ + Switching, ![4] = w4]
          /\ Group0B.st = [st EXCEPT !.ps_idx = NextPsIdx]
      BY DEF Group0B
    <2>3. Group0B.words = [Header(0, 1) EXCEPT ![2] = w2, ![4] = w4]
      BY <2>1, <2>2, Zenon
    <2>4. w4 \in Word
      BY <1>1
    <2> HIDE DEF w2, w4
    <2>5. Group0B.words = <<st.pi, w2, st.pi, w4>>
      <3>1. ReplacedB(<<st.pi, Header(0, 1)[2], st.pi, 0>>, w2, w4) = <<st.pi, w2, st.pi, w4>>
        BY EditedB
      <3> QED BY <2>1, <2>3, <3>1, Zenon DEF ReplacedB
    <2>6. 0 \in {0, 15} /\ 0 # 15
      OBVIOUS
    <2>7. Group0B.words[2] = w2 /\ Group0B.words[4] = w4
      BY <2>5
    <2>8. /\ Group0B.words = <<st.pi, Group0B.words[2], st.pi, Group0B.words[4]>>
          /\ Group0B.words[2] = Header(0, 1)[2] + Switching /\ Group0B.words[4] \in Word
          /\ Group0B.words[4] = st.ps[st.ps_idx + 1]
      BY <2>4, <2>5, <2>7, Zenon DEF w2, w4
    <2> QED BY <1>3, <2>2, <2>6, <2>8, BasicStep, Zenon
  <1>4. CASE st.ps_set = 0 /\ Assemble(15, Group15B, <<>>) /\ UNCHANGED vcode
    <2> DEFINE w2 == Header(15, 1)[2] + Switching
    <2>1. Header(15, 1) = <<st.pi, Header(15, 1)[2], st.pi, 0>>
      BY DEF Header
    <2>2. /\ Group15B.words = [Header(15, 1) EXCEPT ![2] = w2, ![4] = w2]
          /\ Group15B.st = [st EXCEPT !.ps_idx = NextPsIdx]
      BY DEF Group15B
    <2>3. 15 \in 0..15 /\ 1 \in 0..1 /\ 15 \in {0, 15} /\ 15 # 0
      OBVIOUS
    <2>4. w2 \in Word
      <3>1. HeadBits(Header(15, 1)[2] + Switching, 15, 1, st.tp, st.pty, Switching)
        BY <1>1, <1>2, <2>3, HeadBlock, Zenon
      <3> QED BY <3>1, Zenon DEF HeadBits
    <2> HIDE DEF w2
    <2>5. Group15B.words = <<st.pi, w2, st.pi, w2>>
      <3>1. ReplacedB(<<st.pi, Header(15, 1)[2], st.pi, 0>>, w2, w2) = <<st.pi, w2, st.pi, w2>>
        BY EditedB
      <3> QED BY <2>1, <2>2, <3>1, Zenon DEF ReplacedB
    <2>6. Group15B.words[2] = w2 /\ Group15B.words[4] = w2
      BY <2>5
    <2>7. /\ Group15B.words = <<st.pi, Group15B.words[2], st.pi, Group15B.words[4]>>
          /\ Group15B.words[2] = Header(15, 1)[2] + Switching /\ Group15B.words[4] \in Word
      BY <2>4, <2>5, <2>6, Zenon DEF w2
    <2> QED BY <1>4, <2>2, <2>3, <2>7, BasicStep, Zenon
  <1> QED BY <1>3, <1>4, Step1A, Step2A, Step4A, Step10A, Zenon DEF Generate

------------------------------------------------------------------------------
\* What the receiver stores of a group.

\* After the last bit the receiver has all infowords of the group.
LEMMA LastBit ==
    ASSUME IInv, SendBit, tx.left = 1
    PROVE  \E known : /\ DOMAIN known = RxFields /\ SameStore(known) /\ rx' = Stored(known)
                      /\ \A i \in 1..4 : known.words[i] = tx.words[i]
                      /\ Carried /\ known.fresh /\ tx.code # -1
  <1>1. Shape /\ LineInv /\ FreshInv /\ tx.left \in Nat /\ tx.code # -1 /\ tx.left > 0
    <2>1. Shape /\ LineInv /\ FreshInv
      BY Zenon DEF IInv
    <2>2. tx.left \in Nat /\ tx.left > 0 /\ tx.left # 0
      OBVIOUS
    <2> QED BY <2>1, <2>2, Zenon DEF LineInv
  <1>2. PICK known : /\ DOMAIN known = RxFields /\ SameStore(known)
                     /\ rx' = IF tx.left = 1 THEN Stored(known) ELSE known
    BY <1>1, ReceiveEffect, Zenon
  <1>3. rx' = Stored(known) /\ rx'.words = known.words
    BY <1>2, StoredLine, Zenon
  <1>4. /\ tx'.left = 0 /\ tx'.code # -1 /\ tx'.words = tx.words
    BY <1>1 DEF Shape, TxFields, SendBit
  <1>5. Len(rx'.words) = 4 /\ \A i \in 1..Len(rx'.words) : rx'.words[i] = tx.words[i]
    BY <1>1, <1>4, LineSend, Zenon DEF LineInv
  <1>6. \A i \in 1..4 : known.words[i] = tx.words[i]
    BY <1>3, <1>5, Zenon
  <1>7. rx.fresh /\ Carried /\ known.fresh
    BY <1>1, <1>2, Zenon DEF FreshInv, SameStore
  <1> QED BY <1>1, <1>2, <1>3, <1>6, <1>7, Zenon

\* What the receiver stores: a segment after a group 0 or 15,
LEMMA StoredBasic ==
    ASSUME NEW known, DOMAIN known = RxFields,
           Bits(known.words[2], 12, 4) = 0 \/ Bits(known.words[2], 12, 4) = 15
    PROVE  LET w == known.words
               idx == (w[2] % 4) + 1
               s == Stored(known)
           IN /\ s.di = [known.di EXCEPT ![idx] = Bit(w[2], 2)]
              /\ s.ps = IF Bits(w[2], 12, 4) = 0 THEN [known.ps EXCEPT ![idx] = w[4]]
                                                 ELSE known.ps
              /\ s.basic = IF known.basic < 4 THEN known.basic + 1 ELSE 4
              /\ s.label = known.label /\ s.flag = known.flag /\ s.ptyn = known.ptyn
              /\ s.pure = known.pure
  <1> DEFINE w == known.words
             idx == (w[2] % 4) + 1
             bit == Bit(w[2], 2)
             more == IF known.basic < 4 THEN known.basic + 1 ELSE 4
  <1>1. CASE Bits(w[2], 12, 4) = 0
    <2>1. Stored(known) = [known EXCEPT !.di[idx] = bit, !.ps[idx] = w[4], !.basic = more]
      BY <1>1 DEF Stored
    <2> HIDE DEF idx, bit, more
    <2>2. LET s == Stored(known)
          IN /\ s.di = [known.di EXCEPT ![idx] = bit] /\ s.ps = [known.ps EXCEPT ![idx] = w[4]]
             /\ s.basic = more
             /\ s.label = known.label /\ s.flag = known.flag /\ s.ptyn = known.ptyn
             /\ s.pure = known.pure
      BY <2>1 DEF RxFields
    <2> QED BY <1>1, <2>2, Zenon DEF idx, bit, more
  <1>2. CASE Bits(w[2], 12, 4) = 15
    <2>1. Stored(known) = [known EXCEPT !.di[idx] = bit, !.basic = more]
      BY <1>2 DEF Stored
    <2> HIDE DEF idx, bit, more
    <2>2. LET s == Stored(known)
          IN /\ s.di = [known.di EXCEPT ![idx] = bit] /\ s.ps = known.ps /\ s.basic = more
             /\ s.label = known.label /\ s.flag = known.flag /\ s.ptyn = known.ptyn
             /\ s.pure = known.pure
      BY <2>1 DEF RxFields
    <2>3. Bits(w[2], 12, 4) # 0
      BY <1>2
    <2> QED BY <2>2, <2>3, Zenon DEF idx, bit, more
  <1> QED BY <1>1, <1>2, Zenon

\* a label after a group 1,
LEMMA StoredLabel ==
    ASSUME NEW known, DOMAIN known = RxFields, Bits(known.words[2], 12, 4) = 1
    PROVE  LET w == known.words
               s == Stored(known)
           IN /\ s.label = [known.label EXCEPT ![Bits(w[3], 12, 3)] = w[3] % 2^12]
              /\ s.di = known.di /\ s.ps = known.ps /\ s.basic = known.basic
              /\ s.flag = known.flag /\ s.ptyn = known.ptyn /\ s.pure = known.pure
  <1> DEFINE k == Bits(known.words[3], 12, 3)
             v == known.words[3] % 2^12
  <1>1. Stored(known) = [known EXCEPT !.label[k] = v]
    BY DEF Stored
  <1> HIDE DEF k, v
  <1>2. LET s == Stored(known)
        IN /\ s.label = [known.label EXCEPT ![k] = v]
           /\ s.di = known.di /\ s.ps = known.ps /\ s.basic = known.basic
           /\ s.flag = known.flag /\ s.ptyn = known.ptyn /\ s.pure = known.pure
    BY <1>1 DEF RxFields
  <1> QED BY <1>2, Zenon DEF k, v

\* a half of PTYN after a group 10, without what came under the other flag,
LEMMA StoredPtyn ==
    ASSUME NEW known, DOMAIN known = RxFields, Bits(known.words[2], 12, 4) = 10
    PROVE  LET w == known.words
               old == IF Bit(w[2], 4) = known.flag THEN known.ptyn ELSE NoWords
               seg == 2 * (w[2] % 2)
               s == Stored(known)
           IN /\ s.flag = Bit(w[2], 4)
              /\ s.ptyn = [old EXCEPT ![seg + 1] = w[3], ![seg + 2] = w[4]]
              /\ s.di = known.di /\ s.ps = known.ps /\ s.basic = known.basic
              /\ s.label = known.label /\ s.pure = known.pure
  <1> DEFINE w == known.words
             old == IF Bit(w[2], 4) = known.flag THEN known.ptyn ELSE NoWords
             seg == 2 * (w[2] % 2)
             half == [old EXCEPT ![seg + 1] = w[3], ![seg + 2] = w[4]]
             flag == Bit(w[2], 4)
  <1>1. Stored(known) = [known EXCEPT !.flag = flag, !.ptyn = half]
    BY DEF Stored
  <1> HIDE DEF half, flag
  <1>2. LET s == Stored(known)
        IN /\ s.flag = flag /\ s.ptyn = half
           /\ s.di = known.di /\ s.ps = known.ps /\ s.basic = known.basic
           /\ s.label = known.label /\ s.pure = known.pure
    BY <1>1 DEF RxFields
  <1> QED BY <1>2, Zenon DEF half, flag

\* and nothing after the others.
LEMMA StoredOther ==
    ASSUME NEW known, Bits(known.words[2], 12, 4) \notin {0, 1, 10, 15}
    PROVE  Stored(known) = known
  BY Zenon DEF Stored

\* The segments before segment j that the receiver has, and segment j.
LEMMA OneMore ==
    ASSUME NEW j \in 0..3, NEW n \in 2..4
    PROVE  Before(j, n) = Before(Before(j, 1), n - 1) /\ Before(j, n) # Before(j, 1)
           /\ Before(j, n) \in 0..3
  BY DEF Before

\* A segment of a group 0 or 15 is the awaited one.
LEMMA BasicSend ==
    ASSUME IInv, SendBit, tx.left = 1, tx.code \in {0, 15}
    PROVE  BasicInv' /\ UNCHANGED <<LabelOf, PtynOf>>
  <1>1. PICK known : /\ DOMAIN known = RxFields /\ SameStore(known) /\ rx' = Stored(known)
                     /\ \A i \in 1..4 : known.words[i] = tx.words[i]
                     /\ Carried
    BY LastBit, Zenon
  <1> DEFINE w2 == tx.words[2]
             j == st.ps_idx
             i == w2 % 4
  <1>2. known.words[2] = w2 /\ known.words[4] = tx.words[4]
    <2>1. 2 \in 1..4 /\ 4 \in 1..4
      OBVIOUS
    <2> QED BY <1>1, <2>1, Zenon
  <1>3. /\ Bits(w2, 12, 4) = tx.code /\ i = Before(j, 1) /\ Bit(w2, 2) = Bit(st.di, 3 - i)
        /\ tx.code = 0 => tx.words[4] = st.ps[i + 1]
        /\ tx.code = 15 => st.ps_set = 0
    BY <1>1, Zenon DEF Carried
  <1>4. /\ rx'.di = [rx.di EXCEPT ![i + 1] = Bit(w2, 2)]
        /\ rx'.ps = IF tx.code = 0 THEN [rx.ps EXCEPT ![i + 1] = tx.words[4]] ELSE rx.ps
        /\ rx'.basic = IF rx.basic < 4 THEN rx.basic + 1 ELSE 4
        /\ rx'.label = rx.label /\ rx'.flag = rx.flag /\ rx'.ptyn = rx.ptyn /\ rx'.pure = rx.pure
    <2>1. Bits(known.words[2], 12, 4) = 0 \/ Bits(known.words[2], 12, 4) = 15
      BY <1>2, <1>3, Zenon
    <2>2. /\ rx'.di = [known.di EXCEPT ![(known.words[2] % 4) + 1] = Bit(known.words[2], 2)]
          /\ rx'.ps = IF Bits(known.words[2], 12, 4) = 0
                        THEN [known.ps EXCEPT ![(known.words[2] % 4) + 1] = known.words[4]]
                        ELSE known.ps
          /\ rx'.basic = IF known.basic < 4 THEN known.basic + 1 ELSE 4
          /\ rx'.label = known.label /\ rx'.flag = known.flag /\ rx'.ptyn = known.ptyn
          /\ rx'.pure = known.pure
      BY <1>1, <2>1, StoredBasic, Zenon
    <2>3. /\ known.di = rx.di /\ known.ps = rx.ps /\ known.basic = rx.basic
          /\ known.label = rx.label /\ known.flag = rx.flag /\ known.ptyn = rx.ptyn
          /\ known.pure = rx.pure
      BY <1>1, Zenon DEF SameStore
    <2>4. rx'.di = [rx.di EXCEPT ![i + 1] = Bit(w2, 2)]
      BY <1>2, <2>2, <2>3, Zenon
    <2>5. rx'.ps = IF tx.code = 0 THEN [rx.ps EXCEPT ![i + 1] = tx.words[4]] ELSE rx.ps
      BY <1>2, <1>3, <2>2, <2>3, ZenonT(30)
    <2> QED BY <2>2, <2>3, <2>4, <2>5, Zenon
  <1>5. st' = st /\ vcode' = vcode
    BY Zenon DEF SendBit
  <1>6. UNCHANGED <<LabelOf, PtynOf>>
    BY <1>4, <1>5, Zenon DEF LabelOf, PtynOf
  <1>7. Awaited = i /\ Awaited' = j
    <2>1. tx.left > 0 /\ ~(tx'.left > 0)
      BY DEF SendBit, IInv, Shape, TxFields
    <2> QED BY <1>3, <1>5, <2>1, Zenon DEF Awaited
  <1>8. /\ st.di \in 0..15 /\ st.ps \in [1..4 -> Word] /\ st.ps_set \in 0..1 /\ j \in 0..3
        /\ DOMAIN rx.di = 1..4 /\ rx.ps \in [1..4 -> Word \cup {Unknown}] /\ rx.basic \in 0..4
        /\ \A n \in 1..rx.basic :
             /\ rx.di[Before(i, n) + 1] = Bit(st.di, 3 - Before(i, n))
             /\ st.ps_set = 1 => rx.ps[Before(i, n) + 1] = st.ps[Before(i, n) + 1]
    BY <1>7, Zenon DEF IInv, BasicInv
  <1>9. i \in 0..3
    BY <1>3, <1>8, SegmentBefore, Zenon
  <1> HIDE DEF i, j, w2
  <1>10. rx'.basic \in 0..4 /\ DOMAIN rx'.di = 1..4 /\ rx'.ps \in [1..4 -> Word \cup {Unknown}]
    <2>1. rx'.basic \in 0..4 /\ DOMAIN rx'.di = 1..4
      BY <1>4, <1>8
    <2>2. CASE tx.code = 0
      <3>1. st.ps[i + 1] \in Word \cup {Unknown}
        BY <1>8, <1>9
      <3>2. rx'.ps = [rx.ps EXCEPT ![i + 1] = st.ps[i + 1]]
        BY <1>3, <1>4, <2>2, Zenon
      <3> DEFINE S == Word \cup {Unknown}
      <3>3. rx.ps \in [1..4 -> S] /\ st.ps[i + 1] \in S
        BY <1>8, <3>1, Zenon
      <3> HIDE DEF S
      <3>4. rx'.ps \in [1..4 -> S]
        BY <3>2, <3>3, Zenon
      <3> QED BY <2>1, <3>4, Zenon DEF S
    <2>3. CASE tx.code = 15
      <3>1. tx.code # 0
        BY <2>3
      <3> QED BY <1>4, <1>8, <2>1, <3>1, Zenon
    <2> QED BY <2>2, <2>3, Zenon
  <1>11. ASSUME NEW n \in 1..rx'.basic
         PROVE  LET k == Before(j, n)
                IN /\ rx'.di[k + 1] = Bit(st.di, 3 - k)
                   /\ st.ps_set = 1 => rx'.ps[k + 1] = st.ps[k + 1]
    <2> DEFINE k == Before(j, n)
    <2>1. CASE n = 1
      <3>1. k = i /\ i + 1 \in 1..4
        BY <1>3, <1>9, <2>1
      <3> HIDE DEF k
      <3>2. rx'.di[k + 1] = Bit(st.di, 3 - k)
        BY <1>3, <1>4, <1>8, <3>1
      <3>3. st.ps_set = 1 => rx'.ps[k + 1] = st.ps[k + 1]
        <4>1. CASE tx.code = 0
          BY <1>3, <1>4, <1>8, <3>1, <4>1
        <4>2. CASE tx.code = 15
          BY <1>3, <4>2
        <4> QED BY <4>1, <4>2, Zenon
      <3> QED BY <3>2, <3>3, Zenon DEF k
    <2>2. CASE n # 1
      <3>1. n \in 2..4 /\ n - 1 \in 1..rx.basic
        BY <1>4, <1>8, <1>10, <2>2
      <3>2. k = Before(i, n - 1) /\ k # i /\ k \in 0..3
        BY <1>3, <1>8, <3>1, OneMore, Zenon
      <3> HIDE DEF k
      <3>3. /\ rx.di[k + 1] = Bit(st.di, 3 - k) /\ (st.ps_set = 1 => rx.ps[k + 1] = st.ps[k + 1])
        BY <1>8, <3>1, <3>2, Zenon
      <3>4. k + 1 \in 1..4 /\ k + 1 # i + 1
        BY <1>9, <3>2
      <3>5. rx'.di[k + 1] = rx.di[k + 1] /\ rx'.ps[k + 1] = rx.ps[k + 1]
        BY <1>4, <1>8, <3>4
      <3> QED BY <3>3, <3>5, Zenon DEF k
    <2> QED BY <2>1, <2>2, Zenon
  <1> QED
    <2>1. st'.ps_idx = j
      BY <1>5, Zenon DEF j
    <2> QED BY <1>5, <1>6, <1>7, <1>8, <1>10, <1>11, <2>1, Zenon DEF BasicInv

\* A group 1 carries the label that the variant code names.
LEMMA LabelSend ==
    ASSUME IInv, SendBit, tx.left = 1, tx.code = 1
    PROVE  LabelInv' /\ UNCHANGED <<BasicOf, PtynOf>>
  <1>1. PICK known : /\ DOMAIN known = RxFields /\ SameStore(known) /\ rx' = Stored(known)
                     /\ \A i \in 1..4 : known.words[i] = tx.words[i]
                     /\ Carried
    BY LastBit, Zenon
  <1>2. known.words[2] = tx.words[2] /\ known.words[3] = tx.words[3]
    <2>1. 2 \in 1..4 /\ 3 \in 1..4
      OBVIOUS
    <2> QED BY <1>1, <2>1, Zenon
  <1>3. /\ Bits(known.words[2], 12, 4) = 1 /\ Bits(known.words[3], 12, 3) = vcode
        /\ known.words[3] % 2^12 = IF vcode = 0 THEN st.ecc ELSE st.lic
    BY <1>1, <1>2, Zenon DEF Carried
  <1>4. /\ rx'.label = [known.label EXCEPT ![Bits(known.words[3], 12, 3)] = known.words[3] % 2^12]
        /\ rx'.di = known.di /\ rx'.ps = known.ps /\ rx'.basic = known.basic
        /\ rx'.flag = known.flag /\ rx'.ptyn = known.ptyn /\ rx'.pure = known.pure
    BY <1>1, <1>3, StoredLabel, Zenon
  <1>5. /\ rx'.label = [rx.label EXCEPT ![vcode] = IF vcode = 0 THEN st.ecc ELSE st.lic]
        /\ rx'.di = rx.di /\ rx'.ps = rx.ps /\ rx'.basic = rx.basic
        /\ rx'.flag = rx.flag /\ rx'.ptyn = rx.ptyn /\ rx'.pure = rx.pure
    BY <1>1, <1>3, <1>4, Zenon DEF SameStore
  <1>6. st' = st /\ vcode' = vcode
    BY Zenon DEF SendBit
  <1>7. Awaited = st.ps_idx /\ Awaited' = st.ps_idx
    <2>1. ~(tx'.left > 0) /\ tx.code \notin {0, 15}
      BY DEF SendBit, IInv, Shape, TxFields
    <2> QED BY <1>6, <2>1, Zenon DEF Awaited
  <1>8. LabelInv'
    BY <1>5, <1>6 DEF IInv, LabelInv
  <1> QED BY <1>5, <1>6, <1>7, <1>8, Zenon DEF BasicOf, PtynOf

\* A group 10 carries a half of the PTYN under its flag.
LEMMA PtynSend ==
    ASSUME IInv, SendBit, tx.left = 1, tx.code = 10
    PROVE  PtynInv' /\ UNCHANGED <<BasicOf, LabelOf>>
  <1>1. PICK known : /\ DOMAIN known = RxFields /\ SameStore(known) /\ rx' = Stored(known)
                     /\ \A i \in 1..4 : known.words[i] = tx.words[i]
                     /\ Carried
    BY LastBit, Zenon
  <1> DEFINE w == tx.words
             old == IF Bit(w[2], 4) = rx.flag THEN rx.ptyn ELSE NoWords
             seg == 2 * (w[2] % 2)
  <1>2. known.words[2] = w[2] /\ known.words[3] = w[3] /\ known.words[4] = w[4]
    <2>1. 2 \in 1..4 /\ 3 \in 1..4 /\ 4 \in 1..4
      OBVIOUS
    <2> QED BY <1>1, <2>1, Zenon
  <1>3. /\ Bits(w[2], 12, 4) = 10 /\ st.ptyn_set = 1 /\ Bit(w[2], 4) = st.ptyn_flush
        /\ w[3] = st.ptyn[seg + 1] /\ w[4] = st.ptyn[seg + 2]
    BY <1>1, Zenon DEF Carried
  <1>4. /\ rx'.flag = Bit(w[2], 4) /\ rx'.ptyn = [old EXCEPT ![seg + 1] = w[3], ![seg + 2] = w[4]]
        /\ rx'.di = rx.di /\ rx'.ps = rx.ps /\ rx'.basic = rx.basic
        /\ rx'.label = rx.label /\ rx'.pure = rx.pure
    <2> DEFINE kw == known.words
               kold == IF Bit(kw[2], 4) = known.flag THEN known.ptyn ELSE NoWords
               kseg == 2 * (kw[2] % 2)
    <2>1. Bits(kw[2], 12, 4) = 10
      BY <1>2, <1>3, Zenon
    <2>2. /\ rx'.flag = Bit(kw[2], 4)
          /\ rx'.ptyn = [kold EXCEPT ![kseg + 1] = kw[3], ![kseg + 2] = kw[4]]
          /\ rx'.di = known.di /\ rx'.ps = known.ps /\ rx'.basic = known.basic
          /\ rx'.label = known.label /\ rx'.pure = known.pure
      BY <1>1, <2>1, StoredPtyn, Zenon
    <2>3. kold = old /\ kseg = seg
      BY <1>1, <1>2, Zenon DEF SameStore
    <2> HIDE DEF kold, kseg, old, seg
    <2> QED BY <1>1, <1>2, <2>2, <2>3, Zenon DEF SameStore
  <1>5. st' = st /\ vcode' = vcode
    BY Zenon DEF SendBit
  <1>6. Awaited = st.ps_idx /\ Awaited' = st.ps_idx
    <2>1. ~(tx'.left > 0) /\ tx.code \notin {0, 15}
      BY DEF SendBit, IInv, Shape, TxFields
    <2> QED BY <1>5, <2>1, Zenon DEF Awaited
  <1>7. PtynInv'
    <2>1. /\ st.ptyn \in [1..4 -> Word] /\ st.ptyn_set \in 0..1 /\ st.ptyn_idx \in 0..1
          /\ st.ptyn_flush \in 0..1 /\ DOMAIN rx.ptyn = 1..4 /\ PtynPure
      BY Zenon DEF IInv, PtynInv
    <2>2. DOMAIN NoWords = 1..4 /\ \A i \in 1..4 : NoWords[i] = Unknown
      BY DEF NoWords
    <2>3. DOMAIN old = 1..4
      BY <2>1, <2>2, Zenon
    <2>4. rx.pure => \A i \in 1..4 : old[i] \in {Unknown, st.ptyn[i]}
      <3>1. CASE Bit(w[2], 4) = rx.flag
        BY <1>3, <2>1, <3>1, Zenon DEF PtynPure
      <3>2. CASE Bit(w[2], 4) # rx.flag
        BY <2>2, <3>2, Zenon
      <3> QED BY <3>1, <3>2, Zenon
    <2>5. rx'.flag \in 0..1 /\ rx'.flag = st.ptyn_flush
      BY <1>3, <1>4, <2>1, Zenon
    <2> HIDE DEF old, seg
    <2>6. DOMAIN rx'.ptyn = 1..4
      BY <1>4, <2>3
    <2>7. rx.pure => \A i \in 1..4 : rx'.ptyn[i] \in {Unknown, st.ptyn[i]}
      <3> SUFFICES ASSUME rx.pure, NEW i \in 1..4 PROVE rx'.ptyn[i] \in {Unknown, st.ptyn[i]}
        BY Zenon
      <3>1. CASE i = seg + 1 \/ i = seg + 2
        BY <1>3, <1>4, <2>3, <3>1
      <3>2. CASE i # seg + 1 /\ i # seg + 2
        <4>1. rx'.ptyn[i] = old[i]
          BY <1>4, <2>3, <3>2
        <4> QED BY <2>4, <4>1, Zenon
      <3> QED BY <3>1, <3>2, Zenon
    <2> QED BY <1>4, <1>5, <2>1, <2>5, <2>6, <2>7, Zenon DEF PtynInv, PtynPure
  <1> QED BY <1>4, <1>5, <1>6, <1>7, Zenon DEF BasicOf, LabelOf

\* The receiver keeps what it has stored until the last bit of a group, and after groups 2 and 4.
LEMMA KeptSend ==
    ASSUME IInv, SendBit, tx.left # 1 \/ tx.code \in {2, 4}
    PROVE  UNCHANGED <<BasicOf, LabelOf, PtynOf>>
  <1>1. Shape /\ LineInv /\ tx.left \in Nat /\ tx.left > 0 /\ tx.left \in 0..104
    <2>1. Shape /\ LineInv /\ tx.left > 0 /\ tx.left \in 0..104
      BY Zenon DEF IInv, LineInv, SendBit
    <2> QED BY <2>1
  <1>2. SameStore(rx')
    <2>1. CASE tx.left # 1
      BY <1>1, <2>1, ReceiveEffect, Zenon
    <2>2. CASE tx.left = 1 /\ tx.code \in {2, 4}
      <3>1. PICK known : /\ SameStore(known) /\ rx' = Stored(known)
                         /\ \A i \in 1..4 : known.words[i] = tx.words[i]
                         /\ Carried
        BY <2>2, LastBit, Zenon
      <3>2. 2 \in 1..4 /\ tx.code \notin {0, 1, 10, 15}
        BY <2>2
      <3>3. Bits(known.words[2], 12, 4) = tx.code
        BY <3>1, <3>2, Zenon DEF Carried
      <3> QED BY <3>1, <3>2, <3>3, StoredOther, Zenon
    <2> QED BY <2>1, <2>2, Zenon
  <1>3. st' = st /\ vcode' = vcode
    BY Zenon DEF SendBit
  <1>4. tx'.left = tx.left - 1 /\ tx'.code = tx.code
    BY <1>1 DEF Shape, TxFields, SendBit
  <1>5. Awaited' = Awaited
    <2>1. CASE tx.left # 1
      <3>1. tx.left > 0 /\ tx'.left > 0
        BY <1>1, <1>4, <2>1
      <3> QED BY <1>3, <1>4, <3>1, Zenon DEF Awaited
    <2>2. CASE tx.left = 1 /\ tx.code \in {2, 4}
      <3>1. tx.code \notin {0, 15} /\ tx'.code \notin {0, 15}
        BY <1>4, <2>2
      <3> QED BY <1>3, <3>1, Zenon DEF Awaited
    <2> QED BY <2>1, <2>2, Zenon
  <1> QED BY <1>2, <1>3, <1>5, Zenon DEF SameStore, BasicOf, LabelOf, PtynOf

\* What a group carries follows from its words.
LEMMA CarriedKept ==
    ASSUME Carried, st' = st, vcode' = vcode, tx'.code = tx.code, tx'.words = tx.words
    PROVE  Carried'
  BY Zenon DEF Carried

\* Sending a bit keeps the invariant.
LEMMA SendStep ==
    ASSUME IInv, SendBit
    PROVE  IInv'
  <1>1. /\ Shape /\ HeadInv /\ RtInv /\ LabelInv /\ BasicInv /\ PtynInv /\ LineInv /\ FreshInv
        /\ tx.left > 0 /\ tx.left \in 0..104 /\ st.ps_idx \in 0..3
    BY Zenon DEF IInv, LineInv, SendBit, BasicInv
  <1>2. st' = st /\ vcode' = vcode
    BY Zenon DEF SendBit
  <1>3. LineInv' /\ HeadInv' /\ RtInv'
    <2>1. UNCHANGED <<HeadOf, RtOf>>
      BY <1>2, Zenon DEF HeadOf, RtOf
    <2> QED BY <1>1, <2>1, LineSend, Untouched, Zenon
  <1>4. Shape' /\ rx'.fresh = rx.fresh
    <2>1. tx.left \in Nat
      BY <1>1
    <2>2. DOMAIN rx' = RxFields /\ rx'.fresh = rx.fresh
      <3>1. PICK known : /\ DOMAIN known = RxFields /\ SameStore(known)
                         /\ rx' = IF tx.left = 1 THEN Stored(known) ELSE known
        BY <1>1, <2>1, ReceiveEffect, Zenon
      <3> QED BY <3>1, StoredLine, Zenon DEF SameStore
    <2>3. DOMAIN tx' = TxFields
      BY <1>1 DEF Shape, SendBit
    <2> QED BY <1>1, <1>2, <2>2, <2>3, Zenon DEF Shape
  <1>5. tx'.code = tx.code /\ tx'.words = tx.words
    BY <1>1 DEF Shape, TxFields, SendBit
  <1>6. FreshInv'
    BY <1>1, <1>2, <1>4, <1>5, CarriedKept, Zenon DEF FreshInv
  <1>7. LabelInv' /\ BasicInv' /\ PtynInv'
    <2>1. tx.code \in {0, 1, 2, 4, 10, 15}
      <3>1. tx.code # -1
        BY <1>1 DEF LineInv
      <3> QED BY <1>1, <3>1, Zenon DEF FreshInv, Carried
    <2>2. CASE tx.left = 1 /\ tx.code \in {0, 15}
      BY <1>1, <2>2, BasicSend, Untouched, Zenon
    <2>3. CASE tx.left = 1 /\ tx.code = 1
      BY <1>1, <1>2, <2>3, LabelSend, Untouched, Zenon
    <2>4. CASE tx.left = 1 /\ tx.code = 10
      BY <1>1, <1>2, <2>4, PtynSend, Untouched, Zenon
    <2>5. CASE tx.left # 1 \/ tx.code \in {2, 4}
      BY <1>1, <1>2, <2>5, KeptSend, Untouched, Zenon
    <2> QED BY <2>1, <2>2, <2>3, <2>4, <2>5, Zenon
  <1> QED BY <1>3, <1>4, <1>6, <1>7, Zenon DEF IInv

------------------------------------------------------------------------------
\* The theorems on the fields.

\* The encoder has no group and the receiver knows nothing at first.
LEMMA InitIInv == Init => IInv
  <1> SUFFICES ASSUME Init PROVE IInv
    BY SMTT(30)
  <1>1. Shape
    BY DEF Init, Shape, StFields, TxFields, RxFields
  <1>2. HeadInv
    BY DEF Init, HeadInv, Word
  <1>3. RtInv
    BY DEF Init, RtInv
  <1>4. LabelInv
    BY DEF Init, LabelInv
  <1>5. BasicInv
    <2>1. <<0, 0, 0, 0>> \in [1..4 -> Word] /\ NoWords \in [1..4 -> Word \cup {Unknown}]
      <3>1. 0 \in Word
        BY DEF Word
      <3> QED BY <3>1 DEF NoWords
    <2>2. /\ st.di = 9 /\ st.ps = <<0, 0, 0, 0>> /\ st.ps_set = 0 /\ st.ps_idx = 0
          /\ rx.di = NoWords /\ rx.ps = NoWords /\ rx.basic = 0
      BY DEF Init
    <2>3. \A n \in 1..rx.basic : FALSE
      BY <2>2
    <2>4. /\ st.di \in 0..15 /\ st.ps_set \in 0..1 /\ st.ps_idx \in 0..3 /\ DOMAIN rx.di = 1..4
          /\ rx.basic \in 0..4
      BY <2>2 DEF NoWords
    <2> QED BY <2>1, <2>2, <2>3, <2>4, Zenon DEF BasicInv
  <1>6. PtynInv
    <2>1. <<0, 0, 0, 0>> \in [1..4 -> Word]
      <3>1. 0 \in Word
        BY DEF Word
      <3> QED BY <3>1
    <2>2. /\ st.ptyn = <<0, 0, 0, 0>> /\ st.ptyn_set = 0 /\ st.ptyn_idx = 0 /\ st.ptyn_flush = 0
          /\ rx.flag = 0 /\ rx.ptyn = NoWords
      BY DEF Init
    <2>3. /\ st.ptyn_set \in 0..1 /\ st.ptyn_set # 1 /\ st.ptyn_idx \in 0..1
          /\ st.ptyn_flush \in 0..1 /\ rx.flag \in 0..1 /\ DOMAIN rx.ptyn = 1..4
      BY <2>2 DEF NoWords
    <2> QED BY <2>1, <2>2, <2>3, Zenon DEF PtynInv, PtynPure
  <1>7. LineInv
    BY DEF Init, LineInv
  <1>8. FreshInv
    BY DEF Init, FreshInv
  <1> QED BY <1>1, <1>2, <1>3, <1>4, <1>5, <1>6, <1>7, <1>8, Zenon DEF IInv

\* So does a step that changes nothing.
LEMMA StutterStep ==
    ASSUME IInv, UNCHANGED vars
    PROVE  IInv'
  <1>1. st' = st /\ vcode' = vcode /\ window' = window /\ tx' = tx /\ rx' = rx
    BY Zenon DEF vars
  <1>2. Shape' /\ LineInv'
    BY <1>1, Zenon DEF IInv, Shape, LineInv, OnItsWay, ToCome
  <1>3. UNCHANGED <<HeadOf, RtOf, LabelOf, BasicOf, PtynOf>> /\ st'.ps_idx = st.ps_idx
    BY <1>1, Zenon DEF HeadOf, RtOf, LabelOf, BasicOf, PtynOf, Awaited
  <1>4. FreshInv'
    BY <1>1, CarriedKept, Zenon DEF IInv, FreshInv
  <1> QED BY <1>2, <1>3, <1>4, Untouched, Zenon DEF IInv, BasicInv

\* The inductive invariant holds in every reachable state.
THEOREM Invariance == Spec => []IInv
  <1>1. IInv /\ [Next]_vars => IInv'
    BY SetStep, GenerateStep, SendStep, StutterStep, Zenon DEF Next
  <1> QED BY <1>1, InitIInv, PTL DEF Spec

\* A sequence of four numbers is given by its elements.
LEMMA FourOf ==
    ASSUME NEW S, NEW s \in Seq(S), NEW f \in [1..4 -> S], Len(s) = 4,
           \A i \in 1..4 : s[i] = f[i]
    PROVE  s = f
  OBVIOUS

\* Once a group is sent, the receiver has its infowords.
LEMMA WordsOfLine ==
    ASSUME IInv, tx.code # -1, tx.left = 0
    PROVE  rx.words = tx.words
  <1>1. /\ tx.words \in [1..4 -> Word] /\ rx.words \in Seq(Word) /\ Len(rx.words) = 4
        /\ \A i \in 1..4 : rx.words[i] = tx.words[i]
    BY Zenon DEF IInv, LineInv
  <1> QED BY <1>1, FourOf, Zenon

\* PI, TP, PTY, TA, MS and DI are where the receiver looks for them in every group, and the
\* labels it has from groups 1A are the ones that were set, for every argument of the setters.
THEOREM FieldsReceived == Spec => []FieldsDecode
  <1>1. IInv => FieldsDecode
    <2> SUFFICES ASSUME IInv PROVE FieldsDecode
      OBVIOUS
    <2>1. rx.label[0] \in {Unknown, st.ecc} /\ rx.label[3] \in {Unknown, st.lic}
      BY Zenon DEF IInv, LabelInv
    <2>2. ASSUME tx.code # -1, tx.left = 0, rx.fresh
          PROVE  LET w == rx.words
                 IN /\ w[1] = st.pi /\ Bits(w[2], 12, 4) = tx.code
                    /\ Bit(w[2], 10) = st.tp /\ Bits(w[2], 5, 5) = st.pty
                    /\ tx.code \in {0, 15} => /\ w[3] = st.pi /\ Bit(w[2], 11) = 1
                                              /\ Bit(w[2], 4) = st.ta /\ Bit(w[2], 3) = st.ms
      <3>1. rx.words = tx.words /\ Carried
        BY <2>2, WordsOfLine, Zenon DEF IInv, FreshInv
      <3> QED BY <3>1, Zenon DEF Carried
    <2> QED BY <2>1, <2>2, Zenon DEF FieldsDecode
  <1> QED BY <1>1, Invariance, PTL

\* Under one A/B flag the receiver never joins halves of two PTYNs: rds_set_ptyn toggles the
\* flag, for every text.
THEOREM PtynReceived == Spec => []PtynPure
  <1>1. IInv => PtynPure
    BY Zenon DEF IInv, PtynInv
  <1> QED BY <1>1, Invariance, PTL

\* Four segments in a row are all segments.
LEMMA FourInARow ==
    ASSUME NEW a \in 0..3, NEW i \in 0..3
    PROVE  \E n \in 1..4 : Before(a, n) = i
  BY DEF Before

\* The four bits of DI.
LEMMA Nibble ==
    ASSUME NEW d \in 0..15
    PROVE  d = Bit(d, 3) * 8 + Bit(d, 2) * 4 + Bit(d, 1) * 2 + Bit(d, 0)
  BY DEF Bit

\* After four groups 0B or 15B in a row the receiver has all of DI, and of a PS that is set,
\* wherever ps_idx was: for every DI and PS.
THEOREM BasicReceived == Spec => []BasicComplete
  <1>1. IInv => BasicComplete
    <2> SUFFICES ASSUME IInv, rx.basic >= 4
                 PROVE  /\ st.di = rx.di[1] * 8 + rx.di[2] * 4 + rx.di[3] * 2 + rx.di[4]
                        /\ st.ps_set = 1 => rx.ps = st.ps
      BY Zenon DEF BasicComplete
    <2>1. /\ st.di \in 0..15 /\ st.ps \in [1..4 -> Word] /\ st.ps_idx \in 0..3
          /\ rx.ps \in [1..4 -> Word \cup {Unknown}] /\ rx.basic \in 0..4
          /\ \A n \in 1..rx.basic :
               /\ rx.di[Before(Awaited, n) + 1] = Bit(st.di, 3 - Before(Awaited, n))
               /\ st.ps_set = 1 => rx.ps[Before(Awaited, n) + 1] = st.ps[Before(Awaited, n) + 1]
      BY Zenon DEF IInv, BasicInv
    <2>2. Awaited \in 0..3 /\ rx.basic = 4
      <3>1. Awaited \in 0..3
        BY <2>1, SegmentBefore, Zenon DEF Awaited
      <3>2. rx.basic \in 0..4
        BY <2>1, Zenon
      <3> QED BY <3>1, <3>2
    <2>3. \A i \in 0..3 : /\ rx.di[i + 1] = Bit(st.di, 3 - i)
                          /\ st.ps_set = 1 => rx.ps[i + 1] = st.ps[i + 1]
      BY <2>1, <2>2, FourInARow, Zenon
    <2>4. st.di = rx.di[1] * 8 + rx.di[2] * 4 + rx.di[3] * 2 + rx.di[4]
      <3>1. /\ rx.di[0 + 1] = Bit(st.di, 3 - 0) /\ rx.di[1 + 1] = Bit(st.di, 3 - 1)
            /\ rx.di[2 + 1] = Bit(st.di, 3 - 2) /\ rx.di[3 + 1] = Bit(st.di, 3 - 3)
        BY <2>3
      <3>2. /\ rx.di[1] = Bit(st.di, 3) /\ rx.di[2] = Bit(st.di, 2)
            /\ rx.di[3] = Bit(st.di, 1) /\ rx.di[4] = Bit(st.di, 0)
        BY <3>1
      <3> QED BY <2>1, <3>2, Nibble, Zenon
    <2>5. st.ps_set = 1 => rx.ps = st.ps
      <3> SUFFICES ASSUME st.ps_set = 1 PROVE rx.ps = st.ps
        BY Zenon
      <3>1. ASSUME NEW k \in 1..4 PROVE rx.ps[k] = st.ps[k]
        <4>1. k - 1 \in 0..3 /\ (k - 1) + 1 = k
          OBVIOUS
        <4> QED BY <2>3, <4>1, Zenon
      <3> QED BY <2>1, <3>1
    <2> QED BY <2>4, <2>5, Zenon
  <1> QED BY <1>1, Invariance, PTL

------------------------------------------------------------------------------
\* The theorem on the checkwords.

\* The offset word of the block on its way will remain in the receiver, and those of the blocks
\* before it did.
CheckInv ==
    /\ rx.offsets \in Seq(Nat)
    /\ tx.left = 0 => rx.rem = 0
    /\ tx.code # -1 =>
         /\ \A i \in 1..4 : WillRemain(0, 26, tx.blocks[i], OffsetOf(tx.code, i))
         /\ Len(rx.offsets) = Len(rx.words)
         /\ \A i \in 1..Len(rx.offsets) : rx.offsets[i] = OffsetOf(tx.code, i)
         /\ tx.left > 0 => WillRemain(rx.rem, ToCome, tx.blocks[OnItsWay],
                                      OffsetOf(tx.code, OnItsWay))

\* At first no offset word was received.
LEMMA NoOffsets == <<>> \in Seq(Nat)
  OBVIOUS

\* The offset words have ten bits.
LEMMA OffsetType ==
    ASSUME NEW code, NEW i \in 1..4
    PROVE  OffsetOf(code, i) \in 0..2^10 - 1 /\ OffsetOf(code, i) \in Nat
  BY DEF OffsetOf, OffsetWords

\* The group on the line and what has been received of it stay.
LineUntouched ==
    tx' = tx /\ rx'.words = rx.words /\ rx'.rem = rx.rem /\ rx'.offsets = rx.offsets

\* What the setters make the receiver forget.
StoredFields == {"label", "di", "ps", "basic", "pure"}

\* No setter of rds_config.c touches the group on the line.
LEMMA SetUntouched ==
    ASSUME Shape, Set
    PROVE  LineUntouched
  <1>0. DOMAIN rx = RxFields
    BY Zenon DEF Shape
  <1>1. ASSUME NEW fields, NEW known, Configure(fields, known), RxKept(known, StoredFields)
        PROVE  LineUntouched
    <2>1. tx' = tx /\ rx' = [known EXCEPT !.fresh = FALSE]
      BY <1>1, Zenon DEF Configure
    <2>2. /\ DOMAIN known = RxFields /\ known.words = rx.words /\ known.rem = rx.rem
          /\ known.offsets = rx.offsets
      BY <1>1 DEF RxKept, RxFields, StoredFields
    <2>3. /\ rx'.words = known.words /\ rx'.rem = known.rem /\ rx'.offsets = known.offsets
      BY <2>1, <2>2 DEF RxFields
    <2> QED BY <2>1, <2>2, <2>3, Zenon DEF LineUntouched
  <1>2. RxKept(rx, StoredFields)
    BY <1>0, Zenon DEF RxKept
  <1>3. ASSUME \/ \E v \in PIs : SetPi(v)
               \/ \E v \in PTYs : SetPty(v)
               \/ \E v \in Bools : SetTa(v) \/ SetTp(v) \/ SetMs(v)
               \/ RemovePtyn
               \/ \E text \in RTs, flush \in {0, 1} : SetRt(text, flush)
               \/ RemoveRt
        PROVE  LineUntouched
    BY <1>1, <1>2, <1>3, Zenon DEF SetPi, SetPty, SetTa, SetTp, SetMs, RemovePtyn, SetRt, RemoveRt
  <1>4. ASSUME \/ \E v \in ECCs : SetEcc(v)
               \/ \E v \in LICs : SetLic(v)
        PROVE  LineUntouched
    <2>1. ASSUME NEW k PROVE RxKept([rx EXCEPT !.label[k] = Unknown], StoredFields)
      BY <1>0 DEF RxKept, RxFields, StoredFields
    <2> QED BY <1>1, <1>4, <2>1, Zenon DEF SetEcc, SetLic
  <1>5. ASSUME NEW v \in DIs, SetDi(v) PROVE LineUntouched
    <2>1. RxKept([rx EXCEPT !.di = NoWords, !.basic = 0], StoredFields)
      BY <1>0, Zenon DEF RxKept, RxFields, StoredFields
    <2> QED BY <1>1, <1>5, <2>1, Zenon DEF SetDi
  <1>6. ASSUME NEW text \in PSs, SetPs(text) PROVE LineUntouched
    <2>1. RxKept([rx EXCEPT !.ps = NoWords, !.di = NoWords, !.basic = 0], StoredFields)
      BY <1>0, Zenon DEF RxKept, RxFields, StoredFields
    <2> QED BY <1>1, <1>6, <2>1, Zenon DEF SetPs
  <1>7. ASSUME NEW text \in PTYNs, SetPtyn(text) PROVE LineUntouched
    <2>1. ASSUME NEW pure PROVE RxKept([rx EXCEPT !.pure = pure], StoredFields)
      BY <1>0 DEF RxKept, RxFields, StoredFields
    <2> QED BY <1>1, <1>7, <2>1, Zenon DEF SetPtyn
  <1> QED BY <1>3, <1>4, <1>5, <1>6, <1>7, Zenon DEF Set

\* The blocks of a new group are code words.
LEMMA AssembleCheck ==
    ASSUME Shape, LineInv, LineInv', CheckInv, NEW code \in Nat, NEW g, NEW now,
           Assemble(code, g, now)
    PROVE  CheckInv'
  <1> DEFINE B(i) == Block(g.words[i], OffsetOf(code, i))
  <1>1. /\ tx.left = 0
        /\ tx' = [code |-> code, words |-> g.words, now |-> now, left |-> 104,
                  blocks |-> <<B(1), B(2), B(3), B(4)>>]
        /\ rx' = [rx EXCEPT !.words = <<>>, !.offsets = <<>>, !.fresh = TRUE]
    BY Zenon DEF Assemble
  <1>2. /\ tx'.code = code /\ tx'.code # -1 /\ tx'.words = g.words /\ tx'.left = 104
        /\ tx'.blocks = <<B(1), B(2), B(3), B(4)>>
    <2> HIDE DEF B
    <2> QED BY <1>1
  <1>3. rx'.words = <<>> /\ rx'.offsets = <<>> /\ rx'.rem = 0
    <2>1. rx.rem = 0 /\ DOMAIN rx = RxFields
      BY <1>1, Zenon DEF CheckInv, Shape
    <2> QED BY <1>1, <2>1 DEF RxFields
  <1>4. ASSUME NEW i \in 1..4 PROVE WillRemain(0, 26, B(i), OffsetOf(code, i))
    <2>1. g.words \in [1..4 -> Word]
      BY <1>2, Zenon DEF LineInv
    <2>2. g.words[i] \in Word
      BY <2>1
    <2> QED BY <2>2, OffsetType, RemainStart, Zenon
  <1> HIDE DEF B
  <1>5. ASSUME NEW i \in 1..4 PROVE tx'.blocks[i] = B(i)
    BY <1>2
  <1>6. OnItsWay' = 1 /\ ToCome' = 26 /\ 1 \in 1..4
    BY <1>2 DEF OnItsWay, ToCome
  <1>7. /\ rx'.offsets \in Seq(Nat) /\ Len(rx'.offsets) = Len(rx'.words) /\ tx'.left # 0
        /\ \A i \in 1..Len(rx'.offsets) : FALSE
    BY <1>2, <1>3
  <1>8. \A i \in 1..4 : WillRemain(0, 26, tx'.blocks[i], OffsetOf(tx'.code, i))
    BY <1>2, <1>4, <1>5, Zenon
  <1>9. WillRemain(rx'.rem, ToCome', tx'.blocks[OnItsWay'], OffsetOf(tx'.code, OnItsWay'))
    BY <1>3, <1>6, <1>8, Zenon
  <1> QED BY <1>7, <1>8, <1>9, Zenon DEF CheckInv

\* A bit is divided into the remainder of its block; after the last one it is the offset word.
LEMMA CheckSend ==
    ASSUME Shape, LineInv, LineInv', CheckInv, SendBit
    PROVE  CheckInv'
  <1>0. tx.left \in 1..104 /\ tx.left \in Nat /\ tx.left > 0
    <2>1. tx.left \in 0..104 /\ tx.left > 0
      BY Zenon DEF LineInv, SendBit
    <2> QED BY <2>1
  <1>1. /\ tx.code # -1 /\ window \in 0..3 /\ rx.last = window % 2
        /\ tx.blocks \in [1..4 -> Frame]
        /\ tx'.left = tx.left - 1 /\ UNCHANGED <<tx.code, tx.words, tx.blocks>>
    BY <1>0 DEF Shape, TxFields, LineInv, SendBit
  <1> DEFINE b == OnItsWay
             n == (tx.left - 1) % 26
             B == tx.blocks[b]
             o == OffsetOf(tx.code, b)
  <1>2. /\ b \in 1..4 /\ n \in 0..25
        /\ tx.left % 26 = 1 <=> n = 0
        /\ tx.left = 1 <=> b = 4 /\ n = 0
    BY <1>0, Place, Zenon DEF OnItsWay
  <1>3. B \in Frame /\ CurrentBit = Bit(B, n) /\ CurrentBit \in 0..1
    <2>1. B \in Frame
      BY <1>1, <1>2
    <2>2. B \in Nat
      BY <2>1 DEF Frame
    <2> QED BY <1>2, <2>1, <2>2, BitType, Zenon DEF CurrentBit, OnItsWay
  <1>4. (Symbol + rx.last) % 2 = CurrentBit
    BY <1>1, <1>3, Differences DEF Symbol, Coded, SendBit
  <1>5. /\ WillRemain(rx.rem, n + 1, B, o) /\ Len(rx.offsets) = b - 1
        /\ rx.offsets \in Seq(Nat)
        /\ \A i \in 1..4 : WillRemain(0, 26, tx.blocks[i], OffsetOf(tx.code, i))
        /\ \A i \in 1..Len(rx.offsets) : rx.offsets[i] = OffsetOf(tx.code, i)
    <2>1. Len(rx.words) = b - 1
      BY <1>0, <1>1 DEF LineInv
    <2> QED BY <1>0, <1>1, <2>1, Zenon DEF CheckInv, ToCome
  <1>6. o \in 0..2^10 - 1 /\ o \in Nat
    BY <1>2, OffsetType, Zenon
  <1> HIDE DEF b, n, B, o
  <1>7. WillRemain(Divided(rx.rem, CurrentBit), n, B, o)
    <2> DEFINE m == n + 1
    <2>1. m \in 1..26 /\ m - 1 = n
      BY <1>2
    <2>2. WillRemain(rx.rem, m, B, o)
      BY <1>5, Zenon
    <2> HIDE DEF m
    <2>3. WillRemain(Divided(rx.rem, Bit(B, m - 1)), m - 1, B, o)
      BY <1>3, <2>1, <2>2, RemainStep, Zenon
    <2> QED BY <1>3, <2>1, <2>3, Zenon
  <1>8. PICK known :
          /\ DOMAIN known = RxFields
          /\ tx.left % 26 # 1 => /\ known.rem = Divided(rx.rem, CurrentBit)
                                 /\ known.offsets = rx.offsets
          /\ tx.left % 26 = 1 => /\ known.rem = 0
                                 /\ known.offsets = Append(rx.offsets, Divided(rx.rem, CurrentBit))
          /\ rx' = IF tx.left = 1 THEN Stored(known) ELSE known
    BY <1>0, <1>4, ReceiveEffect, Zenon
  <1>9. rx'.rem = known.rem /\ rx'.offsets = known.offsets
    BY <1>8, StoredLine, Zenon
  <1>10. /\ tx'.code = tx.code /\ tx'.blocks = tx.blocks /\ tx'.left \in Nat
         /\ Len(rx'.words) = IF tx'.left = 0 THEN 4 ELSE OnItsWay' - 1
    <2>1. tx'.code = tx.code /\ tx'.code # -1 /\ tx'.blocks = tx.blocks /\ tx'.left \in Nat
      BY <1>0, <1>1
    <2> QED BY <2>1, Zenon DEF LineInv
  <1> DEFINE Checked ==
               /\ rx'.offsets \in Seq(Nat)
               /\ tx'.left = 0 => rx'.rem = 0
               /\ Len(rx'.offsets) = Len(rx'.words)
               /\ \A i \in 1..Len(rx'.offsets) : rx'.offsets[i] = OffsetOf(tx.code, i)
               /\ tx'.left > 0 => WillRemain(rx'.rem, ToCome', tx.blocks[OnItsWay'],
                                             OffsetOf(tx.code, OnItsWay'))
  <1>11. ASSUME n > 0 PROVE Checked
    <2>1. tx.left \in 2..104 /\ tx'.left > 0 /\ tx'.left # 0
      BY <1>0, <1>1, <1>2, <1>11
    <2>2. OnItsWay' = b /\ ToCome' = n
      <3>1. /\ OnItsWay' = 4 - ((tx.left - 1 - 1) \div 26)
            /\ ToCome' = ((tx.left - 1 - 1) % 26) + 1
        BY <1>1, Zenon DEF OnItsWay, ToCome
      <3> QED BY <1>11, <2>1, <3>1, PlaceAfter, Zenon DEF b, n, OnItsWay
    <2>3. rx'.rem = Divided(rx.rem, CurrentBit) /\ rx'.offsets = rx.offsets
      BY <1>2, <1>8, <1>9, <1>11, SMTT(30)
    <2> QED BY <1>5, <1>7, <1>10, <2>1, <2>2, <2>3, Zenon DEF B, o
  <1>12. ASSUME n = 0 PROVE Checked
    <2>1. Divided(rx.rem, CurrentBit) = o
      BY <1>3, <1>6, <1>7, <1>12, RemainEnd, Zenon
    <2>2. rx'.rem = 0 /\ rx'.offsets = Append(rx.offsets, o)
      BY <1>2, <1>8, <1>9, <1>12, <2>1, SMTT(30)
    <2>3. /\ rx'.offsets \in Seq(Nat) /\ Len(rx'.offsets) = b
          /\ \A i \in 1..b : rx'.offsets[i] = IF i = b THEN o ELSE rx.offsets[i]
      BY <1>2, <1>5, <1>6, <2>2, SMTT(30)
    <2>4. \A i \in 1..Len(rx'.offsets) : rx'.offsets[i] = OffsetOf(tx.code, i)
      <3>1. ASSUME NEW i \in 1..b, i # b PROVE i \in 1..Len(rx.offsets)
        BY <1>2, <1>5, <3>1
      <3> QED BY <1>5, <2>3, <3>1, Zenon DEF o
    <2>5. CASE tx'.left = 0
      <3>1. b = 4 /\ ~(tx'.left > 0)
        BY <1>0, <1>1, <1>2, <2>5
      <3> QED BY <1>10, <2>2, <2>3, <2>4, <2>5, <3>1, Zenon
    <2>6. CASE tx'.left # 0
      <3>1. tx.left \in 2..104
        BY <1>0, <1>1, <2>6
      <3>2. OnItsWay' = b + 1 /\ ToCome' = 26 /\ b + 1 \in 1..4
        <4>1. /\ OnItsWay' = 4 - ((tx.left - 1 - 1) \div 26)
              /\ ToCome' = ((tx.left - 1 - 1) % 26) + 1
          BY <1>1, Zenon DEF OnItsWay, ToCome
        <4>2. b + 1 \in 1..4
          BY <1>0, <1>2, <1>12, <3>1
        <4> QED BY <1>12, <3>1, <4>1, <4>2, PlaceAfter, Zenon DEF b, n, OnItsWay
      <3>3. Len(rx'.words) = b
        BY <1>2, <1>10, <2>6, <3>2
      <3> QED BY <1>5, <2>2, <2>3, <2>4, <2>6, <3>2, <3>3, Zenon
    <2> QED BY <2>5, <2>6
  <1>13. n > 0 \/ n = 0
    BY <1>2
  <1>14. Checked
    BY <1>11, <1>12, <1>13, Zenon
  <1> QED BY <1>5, <1>10, <1>14, Zenon DEF CheckInv

\* Setters and stuttering steps leave the line as it is.
LEMMA CheckKept ==
    ASSUME CheckInv, LineUntouched
    PROVE  CheckInv'
  BY Zenon DEF CheckInv, LineUntouched, OnItsWay, ToCome

\* What is still to come of a block leads from the remainder to the offset word, in every
\* reachable state.
THEOREM CheckInvariance == Spec => []CheckInv
  <1>1. ASSUME Init PROVE CheckInv
    <2>1. tx.code = -1 /\ rx.rem = 0 /\ rx.offsets = <<>>
      BY <1>1, Zenon DEF Init
    <2> QED BY <2>1, NoOffsets, ZenonT(30) DEF CheckInv
  <1>2. IInv /\ IInv' /\ CheckInv /\ [Next]_vars => CheckInv'
    <2> SUFFICES ASSUME IInv, IInv', CheckInv, [Next]_vars
                 PROVE  CheckInv'
      OBVIOUS
    <2>1. Shape /\ LineInv /\ LineInv'
      BY Zenon DEF IInv
    <2>2. CASE Set
      BY <2>1, <2>2, SetUntouched, CheckKept, Zenon
    <2>3. CASE Generate
      <3>1. \E code \in {0, 1, 2, 4, 10, 15} : \E g, now : Assemble(code, g, now)
        BY <2>3, Zenon DEF Generate
      <3>2. \A code \in {0, 1, 2, 4, 10, 15} : code \in Nat
        OBVIOUS
      <3> QED BY <2>1, <3>1, <3>2, AssembleCheck, Zenon
    <2>4. CASE SendBit
      BY <2>1, <2>4, CheckSend, Zenon
    <2>5. CASE UNCHANGED vars
      <3>1. LineUntouched
        BY <2>5, Zenon DEF vars, LineUntouched
      <3> QED BY <3>1, CheckKept, Zenon
    <2> QED BY <2>2, <2>3, <2>4, <2>5, Zenon DEF Next
  <1> QED BY <1>1, <1>2, Invariance, PTL DEF Spec

\* Once a group is sent, the receiver has the four infowords that rds_generate_group made and
\* the remainder of each block is its offset word: the matrix of rds_generate_block agrees
\* with division by g(x) for all infowords, and the differential coding of
\* rds_generate_group_samples loses no bit across groups, for every sequence of setters and
\* groups with every argument.
THEOREM BlocksReceived == Spec => []BlocksDecode
  <1>1. IInv /\ CheckInv => BlocksDecode
    <2> SUFFICES ASSUME IInv, CheckInv, tx.code # -1, tx.left = 0
                 PROVE  /\ rx.words = tx.words
                        /\ rx.offsets = [i \in 1..4 |-> OffsetOf(tx.code, i)]
      BY Zenon DEF BlocksDecode
    <2>1. rx.words = tx.words
      BY WordsOfLine, Zenon
    <2>2. /\ rx.offsets \in Seq(Nat) /\ Len(rx.offsets) = 4
          /\ \A i \in 1..4 : rx.offsets[i] = OffsetOf(tx.code, i)
      BY Zenon DEF IInv, LineInv, CheckInv
    <2> DEFINE offsets == [i \in 1..4 |-> OffsetOf(tx.code, i)]
    <2>3. offsets \in [1..4 -> Nat] /\ \A i \in 1..4 : offsets[i] = OffsetOf(tx.code, i)
      BY OffsetType, Zenon
    <2> HIDE DEF offsets
    <2>4. \A i \in 1..4 : rx.offsets[i] = offsets[i]
      BY <2>2, <2>3, Zenon
    <2>5. rx.offsets = offsets
      BY <2>2, <2>3, <2>4, FourOf, Zenon
    <2> QED BY <2>1, <2>5, Zenon DEF offsets
  <1> QED BY <1>1, Invariance, CheckInvariance, PTL

------------------------------------------------------------------------------
\* The theorem on the clock.

\* A 4A group on the line has the words that its time makes.
ClockInv == tx.code = 4 => tx.now \in Times /\ Clocked(tx.words, tx.now)

\* Two bits at the end of block 2 are two of five.
LEMMA TwoOfFive ==
    ASSUME NEW x \in Nat, NEW r \in 0..3, x % 32 = r
    PROVE  x % 4 = r
  OBVIOUS

\* rds_generate_group_4 puts the day and the time into the words.
LEMMA AssembleClock ==
    ASSUME IInv, NEW t \in Times, Assemble(4, Group4A(t), t)
    PROVE  ClockInv'
  <1> DEFINE rest == Bits(Mjd(t), 15, 2)
             w2 == Header(4, 0)[2] + rest
             w3 == ClockWord3(t)
             w4 == ClockWord4(t)
  <1>1. DOMAIN st = StFields /\ HeadInv
    BY Zenon DEF IInv, Shape
  <1>2. Group4A(t).words = <<st.pi, w2, w3, w4>> /\ rest \in 0..3
    BY <1>1, Words4A, Zenon
  <1>3. w2 % 4 = rest
    <2> HIDE DEF rest
    <2>1. rest \in 0..31 /\ 4 \in 0..15 /\ 0 \in 0..1
      BY <1>2
    <2>2. HeadBits(w2, 4, 0, st.tp, st.pty, rest)
      BY <1>1, <2>1, HeadBlock, Zenon
    <2>3. w2 \in Word /\ w2 % 32 = rest
      BY <2>2, Zenon DEF HeadBits
    <2> HIDE DEF w2
    <2>4. w2 \in Nat
      BY <2>3 DEF Word
    <2> QED BY <1>2, <2>3, <2>4, TwoOfFive, Zenon
  <1> DEFINE g == Group4A(t)
             blocks == <<Block(g.words[1], OffsetOf(4, 1)), Block(g.words[2], OffsetOf(4, 2)),
                         Block(g.words[3], OffsetOf(4, 3)), Block(g.words[4], OffsetOf(4, 4))>>
  <1>4. tx' = [code |-> 4, words |-> g.words, now |-> t, left |-> 104, blocks |-> blocks]
    BY Zenon DEF Assemble
  <1> HIDE DEF rest, w2, w3, w4, g, blocks
  <1>5. tx'.words = g.words /\ tx'.now = t
    BY <1>4
  <1>6. g.words[2] = w2 /\ g.words[3] = w3 /\ g.words[4] = w4
    BY <1>2 DEF g
  <1>7. Clocked(g.words, t)
    BY <1>3, <1>6, Zenon DEF Clocked, rest, w3, w4
  <1> QED BY <1>5, <1>7, Zenon DEF ClockInv

\* The other groups are no 4A groups.
LEMMA AssembleOther ==
    ASSUME NEW code, NEW g, NEW now, Assemble(code, g, now), code # 4
    PROVE  ClockInv'
  <1>1. tx'.code = code
    BY DEF Assemble
  <1> QED BY <1>1, Zenon DEF ClockInv

\* A receiver of such words reads the time.
LEMMA ClockedReads ==
    ASSUME NEW w, NEW t, Moment(t), Clocked(w, t)
    PROVE  ReadClock(w, t)
  BY DayOfWords, TimeOfWords, Zenon DEF ReadClock

\* The words of the group on the line are those of its time, in every reachable state.
THEOREM ClockInvariance == Spec => []ClockInv
  <1>1. ASSUME Init PROVE ClockInv
    <2>1. tx.code = -1
      BY <1>1, Zenon DEF Init
    <2>2. -1 # 4
      BY SMT
    <2> QED BY <2>1, <2>2, Zenon DEF ClockInv
  <1>2. IInv /\ ClockInv /\ [Next]_vars => ClockInv'
    <2> SUFFICES ASSUME IInv, ClockInv, [Next]_vars
                 PROVE  ClockInv'
      OBVIOUS
    <2>1. Shape
      BY Zenon DEF IInv
    <2>2. CASE Set
      BY <2>1, <2>2, SetUntouched, Zenon DEF LineUntouched, ClockInv
    <2>3. CASE Generate
      <3>1. 0 # 4 /\ 15 # 4 /\ 10 # 4 /\ 2 # 4 /\ 1 # 4
        OBVIOUS
      <3> QED BY <2>3, <3>1, AssembleClock, AssembleOther, Zenon DEF Generate
    <2>4. CASE SendBit
      <3>1. UNCHANGED <<tx.code, tx.words, tx.now>>
        BY <2>1, <2>4 DEF Shape, TxFields, SendBit
      <3> QED BY <3>1, Zenon DEF ClockInv
    <2>5. CASE UNCHANGED vars
      BY <2>5, Zenon DEF vars, ClockInv
    <2> QED BY <2>2, <2>3, <2>4, <2>5, Zenon DEF Next
  <1> QED BY <1>1, <1>2, Invariance, PTL DEF Spec

\* The day that the formula of rds_generate_group_4 puts into a 4A group is that of the
\* Gregorian calendar for every date until 28 February 2100; hour, minute and offset arrive
\* as far as five bits and the difference of two hours go.
THEOREM ClockReceived == Spec => []ClockDecodes
  <1>1. IInv /\ ClockInv => ClockDecodes
    <2> SUFFICES ASSUME IInv, ClockInv, tx.code = 4, tx.left = 0
                 PROVE  ReadClock(rx.words, tx.now)
      BY Zenon DEF ClockDecodes
    <2>1. tx.code # -1
      OBVIOUS
    <2>2. Moment(tx.now) /\ Clocked(rx.words, tx.now)
      BY <2>1, WordsOfLine, ClockAssumption, Zenon DEF ClockInv
    <2> QED BY <2>2, ClockedReads, Zenon
  <1> QED BY <1>1, Invariance, ClockInvariance, PTL
=============================================================================
