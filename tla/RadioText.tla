----------------------------- MODULE RadioText -----------------------------
(***************************************************************************)
(* RadioText from the setter to the receiver: rds_set_rt of rds_config.c,  *)
(* which runs in another process and takes no lock, the 2A groups of       *)
(* rds_generate_group_2, and a receiver that misses groups.                *)
(*                                                                         *)
(* A text is a name and its number of characters; a segment of four        *)
(* characters is represented by the text it was copied from.               *)
(***************************************************************************)
EXTENDS Integers

CONSTANTS
  Names,    \* what tells two texts of the same length apart
  Lens      \* the lengths of the texts that are set

ASSUME LensAssumption == Lens \subseteq 1..64

RDS_RT_LENGTH == 64

Index == 0..15                     \* rt_idx:4 and rt_segments:4

Texts == Names \X Lens
Blank == <<>>                      \* four NUL characters
Empty == [i \in Index |-> Blank]

VARIABLES
  rt, rt_set, rt_idx, rt_segments, rt_flush,  \* struct rds_encoder_state
  setter,    \* where rds_set_rt is
  text,      \* the text of the last rds_set_rt, Blank once it was removed
  pos,       \* the segment it copies next
  enc,       \* where rds_generate_group_2 is
  byte,      \* the byte of rt_set and rt_idx as the encoder has loaded it
  display,   \* the receiver's RT buffer
  rx_flag,   \* and the A/B flag it received last
  raced,     \* a 2A group overlapped with the last rds_set_rt
  flipped,   \* it flipped a flag that the receiver had seen
  sent,      \* 2A groups since the last rds_set_rt, up to one for each segment,
  missed     \* and whether the receiver missed one of them

shared == <<rt, rt_set, rt_idx, rt_segments, rt_flush>>
setting == <<setter, text, pos>>
receiver == <<display, rx_flag>>
history == <<raced, flipped, sent, missed>>

rt_vars == <<shared, setting, enc, byte, receiver, history>>

RtInit ==
  /\ rt = Empty
  /\ rt_set = 0 /\ rt_idx = 0 /\ rt_segments = 0 /\ rt_flush = 0
  /\ setter = "idle" /\ text = Blank /\ pos = 0
  /\ enc = "idle" /\ byte = <<0, 0>>
  /\ display = Empty /\ rx_flag = 0
  /\ raced = FALSE /\ flipped = FALSE
  /\ sent = 0 /\ missed = FALSE

----------------------------------------------------------------------------
(* rds_set_rt *)

\* The number of characters after padding with blanks: the loop stops at a
\* multiple of four or at the last character.
Padded(n) ==
  IF n % 4 = 0 THEN n
  ELSE IF n < 60 THEN n + 4 - (n % 4)
  ELSE RDS_RT_LENGTH - 1

\* What rt_segments, a field of four bits, holds for n characters.
Segments(n) == (Padded(n) \div 4) % 16

\* The segments the characters are copied to.
Filled(n) == (n + 3) \div 4

Begin(t) ==
  /\ setter = "idle"
  /\ text' = t
  /\ raced' = (enc # "idle")
  /\ sent' = 0
  /\ missed' = FALSE

\* Mutant of SetBegin: the A/B flag is not flipped.
SetBeginKeep(t, flush) ==
  /\ Begin(t)
  /\ setter' = "clear"
  /\ pos' = 0
  /\ flipped' = (flush /\ rt_set = 1 /\ rx_flag = rt_flush)
  /\ UNCHANGED <<shared, enc, byte, receiver>>

\* With flush, the A/B flag is flipped if a text is set.
SetBegin(t, flush) ==
  /\ Begin(t)
  /\ setter' = "clear"
  /\ pos' = 0
  /\ rt_flush' = IF flush /\ rt_set = 1 THEN 1 - rt_flush ELSE rt_flush
  /\ flipped' = (flush /\ rt_set = 1 /\ rx_flag = rt_flush)
  /\ UNCHANGED <<rt, rt_set, rt_idx, rt_segments, enc, byte, receiver>>

SetClear ==
  /\ setter = "clear"
  /\ rt' = Empty
  /\ setter' = "copy"
  /\ UNCHANGED <<rt_set, rt_idx, rt_segments, rt_flush, text, pos, enc, byte,
                 receiver, history>>

SetCopy ==
  /\ setter = "copy"
  /\ pos < Filled(text[2])
  /\ rt' = [rt EXCEPT ![pos] = text]
  /\ pos' = pos + 1
  /\ UNCHANGED <<rt_set, rt_idx, rt_segments, rt_flush, setter, text, enc, byte,
                 receiver, history>>

SetSegments ==
  /\ setter = "copy"
  /\ pos = Filled(text[2])
  /\ rt_segments' = Segments(text[2])
  /\ setter' = "arm"
  /\ UNCHANGED <<rt, rt_set, rt_idx, rt_flush, text, pos, enc, byte,
                 receiver, history>>

\* Mutant of SetArm: rt_idx goes on from where it was.
SetArmOnward ==
  /\ setter = "arm"
  /\ rt_set' = 1
  /\ setter' = "idle"
  /\ UNCHANGED <<rt, rt_idx, rt_segments, rt_flush, text, pos, enc, byte,
                 receiver, history>>

\* rt_set and rt_idx are all that their byte holds, so one store writes both.
SetArm ==
  /\ setter = "arm"
  /\ rt_set' = 1
  /\ rt_idx' = 0
  /\ setter' = "idle"
  /\ UNCHANGED <<rt, rt_segments, rt_flush, text, pos, enc, byte,
                 receiver, history>>

\* An empty text: rt_set is cleared first and the characters afterwards.
Remove ==
  /\ Begin(Blank)
  /\ setter' = "wipe"
  /\ rt_set' = 0
  /\ flipped' = FALSE
  /\ UNCHANGED <<rt, rt_idx, rt_segments, rt_flush, pos, enc, byte, receiver>>

Wipe ==
  /\ setter = "wipe"
  /\ rt' = Empty
  /\ setter' = "idle"
  /\ UNCHANGED <<rt_set, rt_idx, rt_segments, rt_flush, text, pos, enc, byte,
                 receiver, history>>

rds_set_rt ==
  \/ \E t \in Texts, flush \in BOOLEAN : SetBegin(t, flush)
  \/ SetClear \/ SetCopy \/ SetSegments \/ SetArm
  \/ Remove \/ Wipe

----------------------------------------------------------------------------
(* rds_generate_group_2 and the receiver *)

\* The receiver clears its buffer when the A/B flag changes.
Receive(i, flag, segment) ==
  /\ display' = [(IF flag = rx_flag THEN display ELSE Empty)
                   EXCEPT ![i] = segment]
  /\ rx_flag' = flag

\* The scheduler has found rt_set; the group carries the flag, the index and
\* one segment.
Send ==
  /\ enc = "idle"
  /\ rt_set = 1
  /\ enc' = "load"
  /\ raced' = (raced \/ setter # "idle")
  /\ sent' = IF text # Blank /\ sent < Filled(text[2]) THEN sent + 1 ELSE sent
  /\ UNCHANGED <<shared, setting, byte, flipped>>

SendReceived ==
  /\ Send
  /\ Receive(rt_idx, rt_flush, rt[rt_idx])
  /\ UNCHANGED missed

SendMissed ==
  /\ Send
  /\ missed' = TRUE
  /\ UNCHANGED receiver

\* rt_idx++ loads the byte that also holds rt_set, and stores it.
IncLoad ==
  /\ enc = "load"
  /\ byte' = <<rt_set, rt_idx>>
  /\ enc' = "store"
  /\ UNCHANGED <<shared, setting, receiver, history>>

IncStore ==
  /\ enc = "store"
  /\ rt_set' = byte[1]
  /\ rt_idx' = (byte[2] + 1) % 16
  /\ enc' = "test"
  /\ UNCHANGED <<rt, rt_segments, rt_flush, setting, byte, receiver, history>>

\* Mutant of AtEnd: the comparison that sends one more segment.
AtEndLate == rt_idx > rt_segments

AtEnd == rt_idx >= rt_segments

\* rt_idx = 0 loads and stores the same byte.
Wrap ==
  /\ enc = "test"
  /\ byte' = <<rt_set, rt_idx>>
  /\ enc' = IF AtEnd THEN "zero" ELSE "idle"
  /\ UNCHANGED <<shared, setting, receiver, history>>

\* Mutant of WrapStore: the index stops at the last segment.
WrapStoreLast ==
  /\ enc = "zero"
  /\ rt_set' = byte[1]
  /\ rt_idx' = IF rt_segments = 0 THEN 0 ELSE rt_segments - 1
  /\ enc' = "idle"
  /\ UNCHANGED <<rt, rt_segments, rt_flush, setting, byte, receiver, history>>

WrapStore ==
  /\ enc = "zero"
  /\ rt_set' = byte[1]
  /\ rt_idx' = 0
  /\ enc' = "idle"
  /\ UNCHANGED <<rt, rt_segments, rt_flush, setting, byte, receiver, history>>

Advance == IncLoad \/ IncStore \/ Wrap \/ WrapStore

rds_generate_group_2 == SendReceived \/ SendMissed \/ Advance

RtNext == rds_set_rt \/ rds_generate_group_2

RtSpec == RtInit /\ [][RtNext]_rt_vars

Sendable == {i \in Index : \E n \in Lens : i < Filled(n)}

\* A receiver does not miss the same segment for ever.
ReceiveFair(i) == SF_rt_vars(SendReceived /\ rt_idx = i)

\* The encoder keeps sending 2A groups (RdsScheduler), and a call of rds_set_rt
\* returns.
FairRtSpec ==
  /\ RtSpec
  /\ WF_rt_vars(rds_generate_group_2)
  /\ WF_rt_vars(SetClear \/ SetCopy \/ SetSegments \/ SetArm \/ Wipe)
  /\ \A i \in Sendable : ReceiveFair(i)

\* While a text is set, or in the middle of a group, the encoder can go on; a
\* group that is about to be sent can be received.
ReceiveCan(i) ==
  enc = "idle" /\ rt_set = 1 /\ rt_idx = i => ENABLED <<SendReceived /\ rt_idx = i>>_rt_vars

RtCanMove ==
  /\ enc # "idle" \/ rt_set = 1 => ENABLED <<rds_generate_group_2>>_rt_vars
  /\ \A i \in Sendable : ReceiveCan(i)

----------------------------------------------------------------------------
(* Properties *)

Segment == Texts \cup {Blank}

\* The fields keep to their widths and every segment is blank or of one text.
RtTypeOK ==
  /\ rt \in [Index -> Segment]
  /\ rt_set \in 0..1 /\ rt_idx \in Index
  /\ rt_segments \in Index /\ rt_flush \in 0..1
  /\ setter \in {"idle", "clear", "copy", "arm", "wipe"}
  /\ text \in Segment
  /\ pos \in 0..16
  /\ enc \in {"idle", "load", "store", "test", "zero"}
  /\ byte \in (0..1) \X Index
  /\ display \in [Index -> Segment]
  /\ rx_flag \in 0..1
  /\ raced \in BOOLEAN /\ flipped \in BOOLEAN
  /\ missed \in BOOLEAN
  /\ sent \in 0..16

\* A text of at most 60 characters is set, and no 2A group was being
\* generated while rds_set_rt ran.
Settled ==
  /\ setter = "idle"
  /\ text # Blank
  /\ text[2] <= 60
  /\ ~raced

\* After rds_set_rt has returned, rds_generate_group_2 sends segments of the
\* text and never a blank, whatever text and index were there before.
OnlyText == [][Settled /\ enc = "idle" /\ enc' # "idle" => rt[rt_idx] = text]_rt_vars

\* The text is sent in order from its start: as many groups after rds_set_rt
\* as it has segments show all of it on a receiver that missed none.
TextInOrder ==
  Settled /\ ~missed =>
    \A i \in Index : i < sent => display[i] = text

\* "Flip A/B flag to flush RT buffer on receiver" (rds_config.c), in the case
\* where it works: a text was still set, so that the flag is flipped, and the
\* receiver had seen the old flag. Then it shows nothing but the new text from
\* the first group on that it receives.
FlushedText ==
  Settled /\ flipped /\ rx_flag = rt_flush =>
    \A i \in Index : display[i] \in {text, Blank}

ShownFinally(t) ==
  <>[](Settled /\ text = t) => <>(\A i \in Index : i < Filled(t[2]) => display[i] = t)

\* A text that stays is finally complete on a receiver that misses groups.
TextShown == \A t \in Texts : ShownFinally(t)

\* "We need 16 groups to transmit the full 64 char message" (rds_encoder.h):
\* after one group for each segment, all of them received, the text is shown.
FullMessage ==
  setter = "idle" /\ text # Blank /\ ~raced /\ ~missed /\ sent = Filled(text[2]) =>
    \A i \in Index : i < Filled(text[2]) => display[i] = text
============================================================================
