---------------------------- MODULE DynTextProofs ----------------------------
(***************************************************************************)
(* Proofs about DynText, for any texts: the fixed text comes back, an      *)
(* empty file leaves the fixed RT, and the threads take the steps of the   *)
(* ticker. Destroy returns, and a change of the file is loaded.            *)
(***************************************************************************)
EXTENDS DynText, TLAPS

Done == {"none", "ended"}
AfterConsumer == {"off", "d_watch", "d_close", "d_fm", "d_fixed"}

\* A thread that was joined writes no more.
Joined ==
    /\ at \in AfterConsumer => cons \in Done
    /\ at \in {"off", "d_fixed"} => fm \in Done

\* Left alone, an instance has the station's text as its fixed one, and leaves it behind.
Untouched == ~tainted => over = "" /\ fixed = Name /\ (at = "off" => out = Name)

\* PS has at most its text before it; the fallback is that of an empty RT.
Cursor ==
    /\ kind = "ps" /\ str # <<>> => n <= Len(str)
    /\ fm = "fallback" => kind = "rt" /\ str = <<>>

IInv == TypeOK /\ Joined /\ Untouched /\ RtFallback /\ Cursor

-----------------------------------------------------------------------------
\* Facts about sequences.
LEMMA Elements == \A S : \A s \in Seq(S) : \A i \in 1..Len(s) : s[i] \in S
OBVIOUS

\* Sequences over a smaller set.
LEMMA Subsequences == \A S, T : S \subseteq T => Seq(S) \subseteq Seq(T) /\ <<>> \in Seq(S)
OBVIOUS

\* What the field and the files can hold.
LEMMA WordsContain ==
    /\ "" \in Words /\ Name \in Words /\ Foreign \in Words
    /\ Contents \subseteq Seq(Words) /\ <<>> \in Contents
<1>1. "" \in Words /\ Name \in Words /\ Foreign \in Words /\ Segments \subseteq Words
  BY Zenon DEF Words
<1>2. Seq(Segments) \subseteq Seq(Words)
  BY <1>1, Subsequences, Zenon
<1>3. Texts \subseteq Seq(Segments)
  BY TextsAssumption, Zenon
<1>4. Contents \subseteq Texts
  BY Zenon DEF Contents
<1>5. DOMAIN <<>> = {}
  OBVIOUS
<1>6. <<>> \in Contents
  BY <1>5, TextsAssumption, Zenon DEF Contents
<1> QED BY <1>1, <1>2, <1>3, <1>4, <1>6, Zenon

\* The invariant holds initially.
LEMMA InitInv == Init => IInv
<1> SUFFICES ASSUME Init PROVE IInv
  BY Zenon
<1>1. TypeOK
  <2>1. /\ kind \in {"ps", "rt"} /\ content = <<>> /\ str = <<>> /\ n = 0
        /\ fixed = Name /\ out = Name /\ over = ""
    BY Zenon DEF Init
  <2>2. <<>> \in Seq(Words)
    BY Subsequences, Zenon
  <2> QED BY <2>1, <2>2, WordsContain, Zenon DEF TypeOK
<1>2. Joined /\ RtFallback /\ Cursor
  BY Zenon DEF Init, Joined, RtFallback, Cursor, AfterConsumer, Done
<1>3. Untouched
  BY Zenon DEF Init, Untouched
<1> QED BY <1>1, <1>2, <1>3, Zenon DEF IInv

\* The numbers that the steps of the consumer compare.
LEMMA Lengths ==
    ASSUME IInv
    PROVE  /\ n \in Nat /\ Len(str) \in Nat /\ Len(content) \in Nat
           /\ str # <<>> => Len(str) > 0
<1>1. TypeOK
  BY Zenon DEF IInv
<1> QED BY <1>1 DEF TypeOK

\* What a step may do to the text and to the field.
LEMMA TypedStep ==
    ASSUME TypeOK, kind' = kind,
           content' \in Contents \cup {content}, str' \in {<<>>, str, content},
           n' \in Nat, fixed' \in {fixed, out, over}, over' \in {"", over, Foreign},
           \/ out' \in {out, over, fixed}
           \/ \E i \in 1..Len(str) : out' = str[i]
    PROVE  TypeOK'
<1>1. kind' \in {"ps", "rt"} /\ fixed' \in Words /\ over' \in Words
  BY WordsContain, Zenon DEF TypeOK
<1>2. content' \in Seq(Words) /\ str' \in Seq(Words)
  BY WordsContain, Subsequences, Zenon DEF TypeOK
<1>3. \A i \in 1..Len(str) : str[i] \in Words
  BY Elements, Zenon DEF TypeOK
<1>4. out' \in Words
  BY <1>3, Zenon DEF TypeOK
<1> QED BY <1>1, <1>2, <1>4, Zenon DEF TypeOK

\* Every step keeps the types.
LEMMA StepTyped == ASSUME IInv, Next PROVE TypeOK'
<1>1. /\ TypeOK /\ n \in Nat /\ Len(str) \in Nat /\ Len(content) \in Nat
      /\ str # <<>> => Len(str) > 0
  BY Lengths, Zenon DEF IInv
<1>2. CASE Start \/ StartFails
  <2>1. \E place, c, f : Begin(place, c, f)
    BY <1>2, Zenon DEF Start, StartFails
  <2>2. /\ kind' = kind /\ content' = content /\ str' = <<>> /\ n' = 0
        /\ fixed' \in {out, over} /\ over' = "" /\ out' \in {out, over}
    BY <2>1, Zenon DEF Begin, Set, Field
  <2> QED BY <1>1, <2>2, TypedStep, Zenon
<1>3. CASE PsWork
  <2>1. /\ kind' = kind /\ content' = content /\ str' = str /\ fixed' = fixed /\ kind = "ps"
        /\ \/ n' = n /\ out' = out /\ over' = over
           \/ out' = fixed /\ over' = "" /\ n' = Len(str)
           \/ /\ str # <<>> /\ n > 0 /\ n' = n - 1
              /\ out' = str[Len(str) - n + 1] /\ over' = ""
    BY <1>3, Zenon DEF PsWork, Set, File
  <2>2. str # <<>> => n <= Len(str)
    BY <2>1, Zenon DEF IInv, Cursor
  <2>3. str # <<>> /\ n > 0 => n - 1 \in Nat /\ Len(str) - n + 1 \in 1..Len(str)
    BY <1>1, <2>2
  <2> QED BY <1>1, <2>1, <2>3, TypedStep, Zenon
<1>4. CASE RtWork
  <2>1. PICK curr : curr = IF n >= Len(str) THEN 0 ELSE n
    BY Zenon
  <2>2. /\ kind' = kind /\ content' = content /\ str' = str /\ fixed' = fixed
        /\ \/ n' = n /\ out' = out /\ over' = over
           \/ str # <<>> /\ out' = str[curr + 1] /\ over' = "" /\ n' = curr + 1
    BY <1>4, <2>1, Zenon DEF RtWork, Set, File
  <2>3. curr + 1 \in Nat /\ (str # <<>> => curr + 1 \in 1..Len(str))
    BY <1>1, <2>1
  <2> QED BY <1>1, <2>2, <2>3, TypedStep, Zenon
<1>5. CASE FilemonLoad
  <2>1. /\ kind' = kind /\ content' = content /\ str' = content /\ fixed' = fixed
        /\ n' \in {n, Len(content)} /\ out' = out /\ over' = over
    BY <1>5, Zenon DEF FilemonLoad, File, Shown
  <2> QED BY <1>1, <2>1, TypedStep, Zenon
<1>6. CASE FilemonFallback \/ RestoreFixed
  <2>1. /\ kind' = kind /\ content' = content /\ str' = str /\ fixed' = fixed
        /\ n' = n /\ out' = fixed /\ over' = ""
    BY <1>6, Zenon DEF FilemonFallback, RestoreFixed, Set, File, Text
  <2> QED BY <1>1, <2>1, TypedStep, Zenon
<1>7. CASE Modify \/ Delete \/ Create \/ Overwrite \/ Dies
  <2>1. /\ kind' = kind /\ content' \in Contents \cup {content} /\ str' = str
        /\ fixed' = fixed /\ n' = n /\ out' = out /\ over' \in {over, Foreign}
    BY <1>7, WordsContain, Zenon
       DEF Modify, Delete, Create, Overwrite, Dies, File, Text, Shown
  <2> QED BY <1>1, <2>1, TypedStep, Zenon
<1>8. CASE \/ ConsumerLoop \/ Sleep \/ FilemonLoop \/ FilemonCall \/ FilemonRead \/ FilemonOpen
           \/ DestroyStart \/ JoinConsumer \/ RemoveWatch \/ Close \/ JoinFilemon
           \/ ToolHandlers \/ ToolArm \/ ToolLeave \/ ToolSignal \/ GuiChoose
  <2>1. /\ kind' = kind /\ content' = content /\ str' = str /\ fixed' = fixed
        /\ n' = n /\ out' = out /\ over' = over
    BY <1>8, Zenon DEF ConsumerLoop, Sleep, FilemonLoop, FilemonCall, FilemonRead, FilemonOpen,
       DestroyStart, JoinConsumer, RemoveWatch, Close, JoinFilemon, ToolHandlers, ToolArm,
       ToolLeave, ToolSignal, GuiChoose, File, Text, Shown
  <2> QED BY <1>1, <2>1, TypedStep, Zenon
<1> QED BY <1>2, <1>3, <1>4, <1>5, <1>6, <1>7, <1>8, Zenon DEF Next, Consumer, Filemon, Destroy, Tool,
       World, jmrg_free_vmap

\* The start finds no thread of an earlier one, and takes the station's text.
LEMMA BeginInv ==
    ASSUME IInv, NEW place \in {"running", "d_start"}, NEW c \in {"none", "loop"},
           NEW f \in {"none", "loop"}, Begin(place, c, f)
    PROVE  Joined' /\ Untouched' /\ RtFallback' /\ Cursor'
BY Zenon DEF Begin, IInv, TypeOK, Joined, Untouched, RtFallback, Cursor, AfterConsumer, Done, Field, Set

\* The consumer only shows what the text has, or the fixed text.
LEMMA ConsumerInv == ASSUME IInv, Consumer PROVE Joined' /\ Untouched' /\ RtFallback' /\ Cursor'
<1> USE DEF IInv, TypeOK, Joined, Untouched, RtFallback, Cursor, AfterConsumer, Done, Field
<1>1. CASE ConsumerLoop \/ Sleep
  BY <1>1, Zenon DEF ConsumerLoop, Sleep, Text, Shown
<1>2. CASE PsWork
  <2>1. Joined' /\ RtFallback'
    BY <1>2, Zenon DEF PsWork
  <2>2. Untouched'
    BY <1>2, Zenon DEF PsWork, Set
  <2>3. Cursor'
    <3>1. /\ str' = str /\ kind' = kind /\ fm' = fm /\ kind = "ps" /\ fm # "fallback"
          /\ str = <<>> \/ n' = Len(str) \/ (n > 0 /\ n' = n - 1)
      BY <1>2, Zenon DEF PsWork
    <3>2. str # <<>> => n <= Len(str)
      BY <3>1, Zenon
    <3> HIDE DEF IInv, TypeOK, Joined, Untouched, RtFallback
    <3> QED BY <3>1, <3>2, Lengths
  <2> QED BY <2>1, <2>2, <2>3, Zenon
<1>3. CASE RtWork
  BY <1>3, Zenon DEF RtWork, Set
<1> QED BY <1>1, <1>2, <1>3, Zenon DEF Consumer

\* The monitor resets the position with the text.
LEMMA FilemonInv == ASSUME IInv, Filemon PROVE Joined' /\ Untouched' /\ RtFallback' /\ Cursor'
<1> USE DEF IInv, TypeOK, Joined, Untouched, RtFallback, Cursor, AfterConsumer, Done, Field
<1>1. CASE FilemonLoop \/ FilemonCall \/ FilemonRead \/ FilemonOpen
  BY <1>1, Zenon DEF FilemonLoop, FilemonCall, FilemonRead, FilemonOpen, Text, Shown
<1>2. CASE FilemonLoad
  <2>1. Joined' /\ Untouched'
    BY <1>2, Zenon DEF FilemonLoad, Shown
  <2>2. RtFallback'
    BY <1>2, Zenon DEF FilemonLoad, Shown
  <2>3. /\ str' = content /\ kind' = kind
        /\ kind = "ps" /\ content # <<>> => n' = Len(content)
        /\ fm' = IF kind = "rt" /\ content = <<>> THEN "fallback" ELSE "loop"
    BY <1>2, Zenon DEF FilemonLoad
  <2>4. Cursor'
    <3> HIDE DEF IInv, TypeOK, Joined, Untouched, RtFallback
    <3> QED BY <2>3, Lengths
  <2> QED BY <2>1, <2>2, <2>4, Zenon
<1>3. CASE FilemonFallback
  BY <1>3, Zenon DEF FilemonFallback, Set, Text
<1> QED BY <1>1, <1>2, <1>3, Zenon DEF Filemon

\* Destroy restores the fixed text after both joins.
LEMMA DestroyInv == ASSUME IInv, Destroy PROVE Joined' /\ Untouched' /\ RtFallback' /\ Cursor'
<1> USE DEF IInv, TypeOK, Joined, Untouched, RtFallback, Cursor, AfterConsumer, Done, Field
<1>1. CASE DestroyStart \/ JoinConsumer \/ RemoveWatch \/ Close \/ JoinFilemon
  BY <1>1 DEF DestroyStart, JoinConsumer, RemoveWatch, Close, JoinFilemon, Threads, Text, Shown
<1>2. CASE RestoreFixed
  BY <1>2, Zenon DEF RestoreFixed, Set, Threads, Text
<1> QED BY <1>1, <1>2, Zenon DEF Destroy

\* The tools, the file and other processes taint an instance at most.
LEMMA OtherInv ==
    ASSUME IInv, Tool \/ World PROVE Joined' /\ Untouched' /\ RtFallback' /\ Cursor'
<1>1. CASE Start \/ StartFails
  BY <1>1, BeginInv, Zenon DEF Start, StartFails
<1> USE DEF IInv, TypeOK, Joined, Untouched, RtFallback, Cursor, AfterConsumer, Done, Field
<1>2. CASE Tool \/ ToolSignal \/ GuiChoose
  BY <1>2 DEF Tool, ToolHandlers, ToolArm, ToolLeave, ToolSignal, GuiChoose, Threads, Text, Shown
<1>3. CASE Dies
  BY <1>3, Zenon DEF Dies, Text
<1>4. CASE Modify \/ Delete \/ Create
  BY <1>4 DEF Modify, Delete, Create, Threads, Text, Shown
<1>5. CASE Overwrite
  BY <1>5, Zenon DEF Overwrite, Threads, Text
<1> QED BY <1>1, <1>2, <1>3, <1>4, <1>5, Zenon DEF World, jmrg_free_vmap

\* The threads of rds_dynpsrt.c and their users keep all of it.
THEOREM Invariance == Spec => []IInv
<1>1. IInv /\ [Next]_vars => IInv'
  <2> SUFFICES ASSUME IInv, [Next]_vars PROVE IInv'
    BY Zenon
  <2>1. CASE Next
    <3>1. TypeOK'
      BY <2>1, StepTyped, Zenon
    <3>2. Joined' /\ Untouched' /\ RtFallback' /\ Cursor'
      BY <2>1, ConsumerInv, FilemonInv, DestroyInv, OtherInv, Zenon DEF Next
    <3> QED BY <3>1, <3>2, Zenon DEF IInv
  <2>2. CASE UNCHANGED vars
    BY <2>2, Zenon DEF vars, IInv, TypeOK, Joined, Untouched, RtFallback, Cursor, Field
  <2> QED BY <2>1, <2>2, Zenon
<1> QED BY <1>1, InitInv, PTL DEF Spec

\* The text, the cursor and the field keep their types, whatever the texts.
THEOREM TypeCorrect == Spec => []TypeOK
<1>1. IInv => TypeOK
  BY Zenon DEF IInv
<1> QED BY <1>1, Invariance, PTL

\* Whatever the texts, once rds_dynps_destroy or rds_dynrt_destroy has returned, the field
\* holds the station's text, and a file without lines leaves the fixed RT on the air.
THEOREM Restored == Spec => []FixedShown
<1>1. IInv => FixedRestored
  BY Zenon DEF IInv, Untouched, FixedRestored, Field
<1>2. IInv => RtFallback
  BY Zenon DEF IInv
<1> QED BY <1>1, <1>2, Invariance, PTL DEF FixedShown

-----------------------------------------------------------------------------
(* The ticker *)

On == cons \notin Done
Cycle == IF kind = "ps" /\ str # <<>> THEN Append(str, fixed) ELSE str
Pos == IF str = <<>> THEN 1
       ELSE IF kind = "ps" THEN Len(str) - n + 1
       ELSE IF n >= Len(str) THEN 1 ELSE n + 1

Ticks == Display!Next \/ UNCHANGED Display!vars

\* The position wraps at the end of the text.
LEMMA Modulo == \A a, b \in Nat : (b > 0 => b % b = 0) /\ (a < b => a % b = a)
OBVIOUS

\* A cycle of PS is the text and the fixed text after it.
LEMMA Appended ==
    \A S : \A s \in Seq(S) : \A e \in S :
        /\ Append(s, e) # <<>> /\ Len(Append(s, e)) = Len(s) + 1
        /\ DOMAIN Append(s, e) = 1..(Len(s) + 1)
        /\ Append(s, e)[Len(s) + 1] = e
        /\ \A i \in 1..Len(s) : Append(s, e)[i] = s[i]
OBVIOUS

\* The actions of the ticker, in terms of this module.
LEMMA TickerActions ==
    /\ ~On /\ On' \in BOOLEAN /\ fixed' = out' /\ Cycle' = <<>> /\ Pos' = 1 => Ticks
    /\ /\ IF Cycle' = <<>> THEN Pos' = 1 ELSE Pos' \in DOMAIN Cycle'
       /\ On' = On /\ fixed' = fixed /\ out' = out
       => Ticks
    /\ /\ On /\ Cycle # <<>> /\ out' = Cycle[Pos] /\ Pos' = (Pos % Len(Cycle)) + 1
       /\ On' = On /\ fixed' = fixed /\ Cycle' = Cycle
       => Ticks
    /\ /\ Cycle = <<>> /\ out' = fixed
       /\ On' = On /\ fixed' = fixed /\ Cycle' = Cycle /\ Pos' = Pos
       => Ticks
    /\ ~On' /\ fixed' = fixed /\ Cycle' = Cycle /\ Pos' = Pos /\ out' = out => Ticks
    /\ ~On /\ out' = fixed /\ On' = On /\ fixed' = fixed => Ticks
    /\ On' = On /\ fixed' = fixed /\ Cycle' = Cycle /\ Pos' = Pos /\ out' = out => Ticks
BY Zenon DEF Ticks, On, Cycle, Pos, Done, Display!Next, Display!vars, Display!SwitchOn, Display!Load,
   Display!Show, Display!Fallback, Display!SwitchOff, Display!Restore

\* A step that leaves the text and the consumer where they are.
LEMMA Kept ==
    ASSUME kind' = kind, str' = str, n' = n, fixed' = fixed
    PROVE  Cycle' = Cycle /\ Pos' = Pos
BY Zenon DEF Cycle, Pos

\* The consumer of PS shows the next segment of the cycle.
LEMMA PsTicks == ASSUME IInv, PsWork PROVE Ticks
<1>1. /\ kind = "ps" /\ kind' = kind /\ str' = str /\ fixed' = fixed
      /\ \/ str = <<>> /\ n' = n /\ out' = out
         \/ str # <<>> /\ n = 0 /\ out' = fixed /\ n' = Len(str)
         \/ str # <<>> /\ n > 0 /\ out' = str[Len(str) - n + 1] /\ n' = n - 1
  BY Zenon DEF PsWork, Set
<1>2. On /\ On' = On
  BY Zenon DEF PsWork, On, Done
<1>3. CASE str = <<>>
  <2>1. n' = n /\ out' = out
    BY <1>1, <1>3, Zenon
  <2> QED BY <1>1, <1>2, <2>1, Kept, TickerActions, Zenon
<1>4. CASE str # <<>>
  <2>1. /\ Cycle = Append(str, fixed) /\ Cycle' = Cycle
        /\ Pos = Len(str) - n + 1 /\ Pos' = Len(str) - n' + 1
    BY <1>1, <1>4, Zenon DEF Cycle, Pos
  <2>2. str \in Seq(Words) /\ fixed \in Words
    BY Zenon DEF IInv, TypeOK
  <2>3. /\ Cycle # <<>> /\ Len(Cycle) = Len(str) + 1 /\ Cycle[Len(str) + 1] = fixed
        /\ \A i \in 1..Len(str) : Cycle[i] = str[i]
    BY <2>1, <2>2, Appended
  <2>4. n <= Len(str)
    BY <1>1, <1>4, Zenon DEF IInv, Cursor
  <2>5. out' = Cycle[Pos] /\ Pos' = (Pos % Len(Cycle)) + 1
    <3>1. CASE n = 0
      <4>1. Pos = Len(str) + 1 /\ Pos' = 1 /\ out' = fixed /\ Len(str) + 1 \in Nat
        BY <1>1, <1>4, <2>1, <3>1, Lengths
      <4>2. (Len(str) + 1) % (Len(str) + 1) = 0
        BY Lengths, <4>1, Modulo
      <4> QED BY <2>3, <4>1, <4>2
    <3>2. CASE n > 0
      <4>1. /\ Pos \in 1..Len(str) /\ Pos \in Nat /\ Pos' = Pos + 1 /\ out' = str[Pos]
            /\ Len(str) + 1 \in Nat /\ Pos < Len(str) + 1
        BY <1>1, <1>4, <2>1, <2>4, <3>2, Lengths
      <4>2. Pos % (Len(str) + 1) = Pos
        BY <4>1, Modulo, Zenon
      <4> QED BY <2>3, <4>1, <4>2, Zenon
    <3> QED BY <3>1, <3>2, Lengths
  <2> QED BY <1>1, <1>2, <2>1, <2>3, <2>5, TickerActions, Zenon
<1> QED BY <1>3, <1>4, Zenon

\* The consumer of RT does.
LEMMA RtTicks == ASSUME IInv, RtWork PROVE Ticks
<1>1. PICK curr : curr = IF n >= Len(str) THEN 0 ELSE n
  BY Zenon
<1>2. /\ kind = "rt" /\ kind' = kind /\ str' = str /\ fixed' = fixed
      /\ \/ str = <<>> /\ n' = n /\ out' = out
         \/ str # <<>> /\ out' = str[curr + 1] /\ n' = curr + 1
  BY <1>1, Zenon DEF RtWork, Set
<1>3. On /\ On' = On
  BY Zenon DEF RtWork, On, Done
<1>4. CASE str = <<>>
  <2>1. n' = n /\ out' = out
    BY <1>2, <1>4, Zenon
  <2> QED BY <1>2, <1>3, <2>1, Kept, TickerActions, Zenon
<1>5. CASE str # <<>>
  <2>1. /\ Cycle = str /\ Cycle' = Cycle /\ Pos = curr + 1 /\ out' = Cycle[Pos]
        /\ Pos' = IF curr + 1 >= Len(str) THEN 1 ELSE curr + 2
    BY <1>1, <1>2, <1>5, Lengths DEF Cycle, Pos
  <2>2. curr \in Nat /\ curr < Len(str) /\ Len(str) \in Nat
    BY <1>1, <1>5, Lengths
  <2>3. Pos' = (Pos % Len(Cycle)) + 1
    <3>1. CASE curr + 1 = Len(str)
      <4>1. Len(str) % Len(str) = 0
        BY <2>2, Modulo
      <4> QED BY <2>1, <2>2, <3>1, <4>1
    <3>2. CASE curr + 1 < Len(str)
      <4>1. (curr + 1) % Len(str) = curr + 1
        BY <2>2, <3>2, Modulo
      <4> QED BY <2>1, <2>2, <3>2, <4>1
    <3> QED BY <2>2, <3>1, <3>2
  <2> QED BY <1>2, <1>3, <1>5, <2>1, <2>3, TickerActions, Zenon
<1> QED BY <1>4, <1>5, Zenon

\* A new text: PS from its first segment, RT from where the old one was.
LEMMA LoadTicks == ASSUME IInv, FilemonLoad PROVE Ticks
<1>1. /\ kind' = kind /\ str' = content /\ fixed' = fixed /\ out' = out
      /\ n' = IF kind = "ps" /\ content # <<>> THEN Len(content) ELSE n
  BY Zenon DEF FilemonLoad, Shown
<1>2. On' = On
  BY Zenon DEF FilemonLoad, On
<1>3. content \in Seq(Words) /\ fixed \in Words /\ kind \in {"ps", "rt"}
  BY Zenon DEF IInv, TypeOK
<1>4. CASE content = <<>>
  <2>1. Cycle' = <<>> /\ Pos' = 1
    BY <1>1, <1>4, Zenon DEF Cycle, Pos
  <2> QED BY <1>1, <1>2, <2>1, TickerActions, Zenon
<1>5. CASE content # <<>> /\ kind = "ps"
  <2>1. Cycle' = Append(content, fixed) /\ Pos' = Len(content) - Len(content) + 1
    BY <1>1, <1>5, Zenon DEF Cycle, Pos
  <2>2. Pos' = 1 /\ 1 \in 1..(Len(content) + 1)
    BY <2>1, Lengths
  <2>3. Cycle' # <<>> /\ Pos' \in DOMAIN Cycle'
    BY <1>3, <2>1, <2>2, Appended
  <2> QED BY <1>1, <1>2, <2>3, TickerActions, Zenon
<1>6. CASE content # <<>> /\ kind = "rt"
  <2>1. Cycle' = content /\ Pos' = IF n >= Len(content) THEN 1 ELSE n + 1
    BY <1>1, <1>6, Zenon DEF Cycle, Pos
  <2>2. Len(content) > 0 /\ DOMAIN content = 1..Len(content)
    BY <1>3, <1>6
  <2>3. Pos' \in DOMAIN Cycle'
    BY <2>1, <2>2, Lengths
  <2> QED BY <1>1, <1>2, <1>6, <2>1, <2>3, TickerActions, Zenon
<1> QED BY <1>3, <1>4, <1>5, <1>6, Zenon

\* Every step is one of the ticker's.
LEMMA StepTicks == ASSUME IInv, Next PROVE Ticks
<1>1. CASE Start \/ StartFails
  <2>1. PICK place, c, f : Begin(place, c, f)
    BY <1>1, Zenon DEF Start, StartFails
  <2>2. fixed' = out' /\ Cycle' = <<>> /\ Pos' = 1
    BY <2>1, Zenon DEF Begin, Set, Cycle, Pos
  <2>3. ~On /\ On' \in BOOLEAN
    BY <2>1, Zenon DEF Begin, IInv, Joined, AfterConsumer, On
  <2> QED BY <2>2, <2>3, TickerActions, Zenon
<1>2. CASE ConsumerLoop
  <2>1. Cycle' = Cycle /\ Pos' = Pos /\ fixed' = fixed /\ out' = out
    BY <1>2, Kept, Zenon DEF ConsumerLoop, Text, Shown
  <2>2. On' = On \/ ~On'
    BY <1>2, Zenon DEF ConsumerLoop, On, Done
  <2> QED BY <2>1, <2>2, TickerActions, Zenon
<1>3. CASE Dies
  <2>1. Cycle' = Cycle /\ Pos' = Pos /\ fixed' = fixed /\ out' = out
    BY <1>3, Kept, Zenon DEF Dies, Text
  <2>2. ~On'
    BY <1>3, Zenon DEF Dies, On, Done
  <2> QED BY <2>1, <2>2, TickerActions, Zenon
<1>4. CASE FilemonFallback
  <2>1. Cycle' = Cycle /\ Pos' = Pos /\ fixed' = fixed /\ out' = fixed
    BY <1>4, Kept, Zenon DEF FilemonFallback, Set, Text
  <2>2. Cycle = <<>>
    BY <1>4, Zenon DEF FilemonFallback, IInv, Cursor, Cycle
  <2>3. On' = On
    BY <1>4, Zenon DEF FilemonFallback, On
  <2> QED BY <2>1, <2>2, <2>3, TickerActions, Zenon
<1>5. CASE RestoreFixed
  <2>1. fixed' = fixed /\ out' = fixed
    BY <1>5, Zenon DEF RestoreFixed, Set, Text
  <2>2. ~On /\ On' = On
    BY <1>5, Zenon DEF RestoreFixed, IInv, Joined, AfterConsumer, On, Threads
  <2> QED BY <2>1, <2>2, TickerActions, Zenon
<1>6. CASE \/ Sleep \/ FilemonLoop \/ FilemonCall \/ FilemonRead \/ FilemonOpen
           \/ DestroyStart \/ JoinConsumer \/ RemoveWatch \/ Close \/ JoinFilemon
           \/ ToolHandlers \/ ToolArm \/ ToolLeave \/ ToolSignal \/ GuiChoose
           \/ Modify \/ Delete \/ Create \/ Overwrite
  <2> USE DEF Sleep, FilemonLoop, FilemonCall, FilemonRead, FilemonOpen, DestroyStart,
          JoinConsumer, RemoveWatch, Close, JoinFilemon, ToolHandlers, ToolArm, ToolLeave,
          ToolSignal, GuiChoose, Modify, Delete, Create, Overwrite, Text, Shown, Threads
  <2>1. kind' = kind /\ str' = str /\ n' = n /\ fixed' = fixed /\ out' = out
    BY <1>6, Zenon
  <2>2. On' = On
    BY <1>6, Zenon DEF On, Done
  <2> QED BY <2>1, <2>2, Kept, TickerActions, Zenon
<1> QED BY <1>1, <1>2, <1>3, <1>4, <1>5, <1>6, PsTicks, RtTicks, LoadTicks, Zenon
       DEF Next, Consumer, Filemon, Destroy, Tool, World, jmrg_free_vmap

\* Whatever the texts, what the threads, their start and their destroy do to the field is
\* what the ticker does: no segment is skipped or shown twice, and a new text is taken up
\* between two segments.
THEOREM Refinement == Spec => Display!Init /\ [][Display!Next]_(Display!vars)
<1>1. Init => Display!Init
  <2> SUFFICES ASSUME Init PROVE Display!Init
    BY Zenon
  <2>1. cons = "none" /\ str = <<>> /\ out = fixed
    BY Zenon DEF Init
  <2> QED BY <2>1, Zenon DEF Display!Init, Display!Off
<1>2. IInv /\ [Next]_vars => [Display!Next]_(Display!vars)
  <2> SUFFICES ASSUME IInv, [Next]_vars PROVE Ticks
    BY Zenon DEF Ticks
  <2>1. CASE Next
    BY <2>1, StepTicks, Zenon
  <2>2. CASE UNCHANGED vars
    BY <2>2, Zenon DEF vars, Ticks, Display!vars
  <2> QED BY <2>1, <2>2, Zenon
<1> QED BY <1>1, <1>2, Invariance, PTL DEF Spec

-----------------------------------------------------------------------------
(* Liveness, under the fairness of Spec. What enables the fair actions is a hypothesis,
   CanMove: ENABLED is beyond the provers. *)

Leaving == {"d_cons", "d_watch", "d_close", "d_fm", "d_fixed"}

\* destroy has cleared active before it waits, and removed the watch and closed the
\* descriptor before it waits for the monitor.
StopInv ==
    /\ cons \in Done \cup {"loop", "sleep", "work"}
    /\ fm \in Done \cup {"loop", "call", "read", "open", "load", "fallback"}
    /\ at \in Leaving \cup {"off"} => ~active
    /\ at \in {"off", "d_close", "d_fm", "d_fixed"} => ~watch
    /\ at \in {"d_fm", "d_fixed"} => closed

\* As long as the watch is there, so are the file and the descriptor, and the only event is
\* a modification; and there is a monitor, unless destroy is called for the lack of it.
WatchInv ==
    /\ watch => exists /\ ~closed /\ queue \in {<<>>, <<"modify">>}
    /\ active /\ fm = "none" => at = "d_start"

\* An event is merged with an equal one that is still unread.
LEMMA Merged ==
    ASSUME NEW q \in {<<>>, <<"modify">>}
    PROVE  Notified(q, "modify") = <<"modify">> /\ Head(<<"modify">>) = "modify"
<1>1. Append(<<>>, "modify") = <<"modify">> /\ Len(<<"modify">>) = 1 /\ <<"modify">>[1] = "modify"
  OBVIOUS
<1>2. Head(<<"modify">>) = "modify"
  OBVIOUS
<1> QED BY <1>1, <1>2, Zenon DEF Notified

\* No step of a thread, of the user or of the file leaves these two.
LEMMA StopStep == ASSUME StopInv, WatchInv, [Next]_vars PROVE StopInv' /\ WatchInv'
<1> USE DEF StopInv, WatchInv, Leaving, Done
<1>1. CASE Start \/ StartFails
  BY <1>1, Zenon DEF Start, StartFails, Begin
<1>2. CASE ConsumerLoop \/ Sleep \/ PsWork \/ RtWork
  BY <1>2 DEF ConsumerLoop, Sleep, PsWork, RtWork, Notify, File
<1>3. CASE FilemonLoop \/ FilemonCall \/ FilemonRead \/ FilemonOpen
  BY <1>3 DEF FilemonLoop, FilemonCall, FilemonRead, FilemonOpen, Notify, File
<1>4. CASE FilemonLoad \/ FilemonFallback
  BY <1>4 DEF FilemonLoad, FilemonFallback, Notify, File
<1>5. CASE DestroyStart \/ JoinConsumer \/ RemoveWatch \/ Close \/ JoinFilemon \/ RestoreFixed
  BY <1>5 DEF DestroyStart, JoinConsumer, RemoveWatch, Close, JoinFilemon, RestoreFixed,
     Threads, Notify, File
<1>6. CASE Tool \/ ToolSignal \/ GuiChoose \/ Overwrite \/ Dies
  BY <1>6 DEF Tool, ToolHandlers, ToolArm, ToolLeave, ToolSignal, GuiChoose, Overwrite,
     Dies, Threads, Notify, File
<1>7. CASE Modify
  BY <1>7, Merged, Zenon DEF Modify, Threads
<1>8. CASE Delete \/ Create
  BY <1>8 DEF Delete, Create, Threads, Notify
<1>9. CASE UNCHANGED vars
  BY <1>9, Zenon DEF vars
<1> HIDE DEF StopInv, WatchInv
<1> QED BY <1>1, <1>2, <1>3, <1>4, <1>5, <1>6, <1>7, <1>8, <1>9, Zenon
       DEF Next, Consumer, Filemon, Destroy, World, jmrg_free_vmap

\* They hold in every reachable state.
LEMMA StopInvariance == Spec => [](StopInv /\ WatchInv)
<1>1. Init => StopInv /\ WatchInv
  BY Zenon DEF Init, StopInv, WatchInv, Leaving, Done
<1> QED BY <1>1, StopStep, PTL DEF Spec

\* destroy has returned, or the user died, or the monitor is deserted.
Gone == at = "off" \/ Deserted

\* What a step may do while destroy is under way, to it and to the threads it waits for.
LEMMA DestroyStep ==
    ASSUME StopInv, [Next]_vars, at \in Leaving \cup {"d_start"}, at' # "off"
    PROVE  /\ kind' = kind
           /\ \/ at' = at
              \/ at = "d_start" /\ at' = "d_cons"
              \/ at = "d_cons" /\ cons \in Done /\ at' = "d_watch"
              \/ at = "d_watch" /\ at' = "d_close"
              \/ at = "d_close" /\ at' = "d_fm"
              \/ at = "d_fm" /\ fm \in Done /\ at' = "d_fixed"
           /\ \/ cons' = cons
              \/ cons = "loop" /\ (active \/ cons' = "ended")
              \/ cons = "sleep" /\ cons' = IF kind = "ps" THEN "work" ELSE "loop"
              \/ cons = "work" /\ cons' = IF kind = "ps" THEN "loop" ELSE "sleep"
           /\ \/ fm' = fm
              \/ fm = "loop" /\ (active \/ fm' = "ended")
              \/ fm = "call" /\ (closed => fm' = "loop")
              \/ fm = "read" /\ fm' \in {"open", "ended"}
              \/ fm = "open" /\ fm' \in {"load", "loop"}
              \/ fm = "load" /\ fm' \in {"fallback", "loop"}
              \/ fm = "fallback" /\ fm' = "loop"
<1> USE DEF Leaving, Done
<1>1. CASE Consumer
  BY <1>1 DEF Consumer, ConsumerLoop, Sleep, PsWork, RtWork
<1>2. CASE Filemon
  BY <1>2 DEF Filemon, FilemonLoop, FilemonCall, FilemonRead, FilemonOpen, FilemonLoad,
     FilemonFallback
<1>3. CASE Destroy
  BY <1>3 DEF Destroy, DestroyStart, JoinConsumer, RemoveWatch, Close, JoinFilemon,
     RestoreFixed, Threads
<1>4. CASE Tool
  BY <1>4 DEF Tool, ToolHandlers, ToolArm, ToolLeave
<1>5. CASE Start \/ StartFails \/ GuiChoose \/ Dies
  BY <1>5, Zenon DEF Start, StartFails, Begin, GuiChoose, Dies
<1>6. CASE ToolSignal \/ Modify \/ Delete \/ Create \/ Overwrite
  BY <1>6, SMTT(30) DEF ToolSignal, Modify, Delete, Create, Overwrite, Threads
<1>7. CASE UNCHANGED vars
  BY <1>7, Zenon DEF vars
<1> QED BY <1>1, <1>2, <1>3, <1>4, <1>5, <1>6, <1>7, Zenon DEF Next, World, jmrg_free_vmap

\* A step of a thread, or of destroy, moves it.
LEMMA ThreadsMove ==
    /\ Consumer => cons' # cons
    /\ Filemon => fm' # fm
    /\ Destroy => at' # at
<1>1. Consumer => cons' # cons
  BY DEF Consumer, ConsumerLoop, Sleep, PsWork, RtWork
<1>2. Filemon => fm' # fm
  BY DEF Filemon, FilemonLoop, FilemonCall, FilemonRead, FilemonOpen, FilemonLoad,
     FilemonFallback
<1>3. Destroy => at' # at
  BY DEF Destroy, DestroyStart, JoinConsumer, RemoveWatch, Close, JoinFilemon, RestoreFixed
<1> QED BY <1>1, <1>2, <1>3

\* destroy is at p; waits for a consumer that is at c; waits for a monitor that is at f.
At(p) == at = p
WaitsAt(k, c) == at = "d_cons" /\ kind = k /\ cons = c
AwaitsAt(f) == at = "d_fm" /\ fm = f
ConsumerDone == at = "d_cons" /\ cons \in Done
FilemonDone == at = "d_fm" /\ fm \in Done

\* The way of destroy: the consumer has one more sleep or segment before it sees that active
\* is cleared, the monitor one more file to load.
LeavingOn ==
    /\ At("d_start") => At("d_start")' \/ At("d_cons")'
    /\ WaitsAt("ps", "sleep") => WaitsAt("ps", "sleep")' \/ WaitsAt("ps", "work")'
    /\ WaitsAt("ps", "work") => WaitsAt("ps", "work")' \/ WaitsAt("ps", "loop")'
    /\ WaitsAt("ps", "loop") => WaitsAt("ps", "loop")' \/ ConsumerDone'
    /\ WaitsAt("rt", "work") => WaitsAt("rt", "work")' \/ WaitsAt("rt", "sleep")'
    /\ WaitsAt("rt", "sleep") => WaitsAt("rt", "sleep")' \/ WaitsAt("rt", "loop")'
    /\ WaitsAt("rt", "loop") => WaitsAt("rt", "loop")' \/ ConsumerDone'
    /\ ConsumerDone => ConsumerDone' \/ At("d_watch")'
    /\ At("d_watch") => At("d_watch")' \/ At("d_close")'
    /\ At("d_close") => At("d_close")' \/ At("d_fm")'
    /\ AwaitsAt("call") => AwaitsAt("call")' \/ AwaitsAt("loop")'
    /\ AwaitsAt("read") => AwaitsAt("read")' \/ AwaitsAt("open")' \/ FilemonDone'
    /\ AwaitsAt("open") => AwaitsAt("open")' \/ AwaitsAt("load")' \/ AwaitsAt("loop")'
    /\ AwaitsAt("load") => AwaitsAt("load")' \/ AwaitsAt("fallback")' \/ AwaitsAt("loop")'
    /\ AwaitsAt("fallback") => AwaitsAt("fallback")' \/ AwaitsAt("loop")'
    /\ AwaitsAt("loop") => AwaitsAt("loop")' \/ FilemonDone'
    /\ FilemonDone => FilemonDone' \/ At("d_fixed")'
    /\ At("d_fixed") => At("d_fixed")'

\* Every step of the program keeps to it until destroy has returned.
LEMMA LeavingStep == ASSUME StopInv, [Next]_vars, ~Gone' PROVE LeavingOn
<1>1. at' # "off"
  BY DEF Gone
<1>2. CASE at \notin Leaving \cup {"d_start"}
  BY <1>2, Zenon DEF LeavingOn, At, WaitsAt, AwaitsAt, ConsumerDone, FilemonDone, Leaving
<1>3. CASE at \in Leaving \cup {"d_start"}
  <2> USE DEF Done
  <2>1. /\ kind' = kind
        /\ \/ at' = at
           \/ at = "d_start" /\ at' = "d_cons"
           \/ at = "d_cons" /\ cons \in Done /\ at' = "d_watch"
           \/ at = "d_watch" /\ at' = "d_close"
           \/ at = "d_close" /\ at' = "d_fm"
           \/ at = "d_fm" /\ fm \in Done /\ at' = "d_fixed"
    BY <1>1, <1>3, DestroyStep, Zenon
  <2>2. at = "d_cons" =>
          \/ cons' = cons
          \/ cons = "loop" /\ cons' = "ended"
          \/ cons = "sleep" /\ cons' = IF kind = "ps" THEN "work" ELSE "loop"
          \/ cons = "work" /\ cons' = IF kind = "ps" THEN "loop" ELSE "sleep"
    BY <1>1, <1>3, DestroyStep, Zenon DEF StopInv, Leaving
  <2>3. at = "d_fm" =>
          \/ fm' = fm
          \/ fm = "loop" /\ fm' = "ended"
          \/ fm = "call" /\ fm' = "loop"
          \/ fm = "read" /\ fm' \in {"open", "ended"}
          \/ fm = "open" /\ fm' \in {"load", "loop"}
          \/ fm = "load" /\ fm' \in {"fallback", "loop"}
          \/ fm = "fallback" /\ fm' = "loop"
    BY <1>1, <1>3, DestroyStep, Zenon DEF StopInv, Leaving
  <2> QED BY <2>1, <2>2, <2>3 DEF LeavingOn, At, WaitsAt, AwaitsAt, ConsumerDone, FilemonDone
<1> QED BY <1>2, <1>3

\* rds_dynps_destroy and rds_dynrt_destroy return, whatever the texts and wherever the two
\* threads are, unless the file was deleted under the monitor.
THEOREM JoinsBoth == Spec /\ []CanMove => DestroyReturns
<1> DEFINE J == IInv /\ StopInv
           InCons == \/ WaitsAt("ps", "sleep") \/ WaitsAt("ps", "work") \/ WaitsAt("ps", "loop")
                     \/ WaitsAt("rt", "sleep") \/ WaitsAt("rt", "work") \/ WaitsAt("rt", "loop")
           InFilemon == \/ AwaitsAt("call") \/ AwaitsAt("read") \/ AwaitsAt("open")
                        \/ AwaitsAt("load") \/ AwaitsAt("fallback") \/ AwaitsAt("loop")
           ByDestroy == \/ At("d_start") \/ ConsumerDone \/ At("d_watch") \/ At("d_close")
                        \/ FilemonDone \/ At("d_fixed")
<1>1. J /\ At("d_cons") => InCons \/ ConsumerDone
  BY Zenon DEF IInv, TypeOK, StopInv, At, WaitsAt, ConsumerDone
<1>2. J /\ At("d_fm") => InFilemon \/ FilemonDone
  BY Zenon DEF StopInv, At, AwaitsAt, FilemonDone
<1>3. InCons => ConsumerReady
  BY Zenon DEF WaitsAt, ConsumerReady
<1>4. J /\ ~Gone /\ InFilemon => FilemonReady
  BY Zenon DEF StopInv, AwaitsAt, FilemonReady, Gone, Deserted
<1>5. ByDestroy => DestroyReady
  BY Zenon DEF At, ConsumerDone, FilemonDone, DestroyReady, Done
<1>6. <<Consumer>>_vars =>
        /\ ~(WaitsAt("ps", "sleep") /\ WaitsAt("ps", "sleep")')
        /\ ~(WaitsAt("ps", "work") /\ WaitsAt("ps", "work")')
        /\ ~(WaitsAt("ps", "loop") /\ WaitsAt("ps", "loop")')
        /\ ~(WaitsAt("rt", "sleep") /\ WaitsAt("rt", "sleep")')
        /\ ~(WaitsAt("rt", "work") /\ WaitsAt("rt", "work")')
        /\ ~(WaitsAt("rt", "loop") /\ WaitsAt("rt", "loop")')
  BY ThreadsMove, Zenon DEF WaitsAt
<1>7. <<Filemon>>_vars =>
        /\ ~(AwaitsAt("call") /\ AwaitsAt("call")') /\ ~(AwaitsAt("read") /\ AwaitsAt("read")')
        /\ ~(AwaitsAt("open") /\ AwaitsAt("open")') /\ ~(AwaitsAt("load") /\ AwaitsAt("load")')
        /\ ~(AwaitsAt("fallback") /\ AwaitsAt("fallback")')
        /\ ~(AwaitsAt("loop") /\ AwaitsAt("loop")')
  BY ThreadsMove, Zenon DEF AwaitsAt
<1>8. <<Destroy>>_vars =>
        /\ ~(At("d_start") /\ At("d_start")') /\ ~(ConsumerDone /\ ConsumerDone')
        /\ ~(At("d_watch") /\ At("d_watch")') /\ ~(At("d_close") /\ At("d_close")')
        /\ ~(FilemonDone /\ FilemonDone') /\ ~(At("d_fixed") /\ At("d_fixed")')
  BY ThreadsMove, Zenon DEF At, ConsumerDone, FilemonDone
<1>9. (at = "d_start" => At("d_start")) /\ (Gone => at = "off" \/ Deserted)
  BY DEF At, Gone
<1>10. Spec /\ []CanMove => (At("d_cons") ~> At("d_watch") \/ Gone)
  BY <1>1, <1>3, <1>5, <1>6, <1>8, LeavingStep, Invariance, StopInvariance, PTL
     DEF Spec, Fairness, CanMove, LeavingOn
<1>11. Spec /\ []CanMove => (At("d_fm") ~> At("d_fixed") \/ Gone)
  BY <1>2, <1>4, <1>5, <1>7, <1>8, LeavingStep, Invariance, StopInvariance, PTL
     DEF Spec, Fairness, CanMove, LeavingOn
<1> QED BY <1>5, <1>8, <1>9, <1>10, <1>11, LeavingStep, StopInvariance, PTL
        DEF Spec, Fairness, CanMove, DestroyReturns, LeavingOn

\* The monitor is at f and the last change of the file is still before it; that change is
\* loaded, or nobody waits for it any more.
Pending(f) == watch /\ active /\ fm = f /\ (queue # <<>> \/ f \in {"open", "load"})
Seen == str = content \/ ~watch \/ ~active

\* The way of a change: read does not block, its event is not taken for the end of the
\* watch, and the file can be opened.
PendingOn ==
    /\ Pending("none") => Pending("none")'
    /\ Pending("fallback") => Pending("fallback")' \/ Pending("loop")'
    /\ Pending("loop") => Pending("loop")' \/ Pending("call")'
    /\ Pending("call") => Pending("call")' \/ Pending("read")'
    /\ Pending("read") => Pending("read")' \/ Pending("open")'
    /\ Pending("open") => Pending("open")' \/ Pending("load")'
    /\ Pending("load") => Pending("load")'

\* Every step of the program keeps to it until the change is loaded.
LEMMA PendingStep == ASSUME StopInv, WatchInv, [Next]_vars, ~Seen' PROVE PendingOn
<1> USE DEF PendingOn, Pending
<1>1. watch' /\ active' /\ str' # content'
  BY Zenon DEF Seen
<1>2. SUFFICES ASSUME watch, active PROVE PendingOn
  BY Zenon
<1>3. exists /\ ~closed /\ queue \in {<<>>, <<"modify">>} /\ at # "off"
  BY <1>2, Zenon DEF WatchInv, StopInv
<1>4. CASE \/ Consumer \/ Destroy \/ Tool \/ ToolSignal \/ GuiChoose \/ Overwrite
           \/ UNCHANGED vars
  <2>1. fm' = fm /\ (queue' = queue \/ ~watch')
    BY <1>4 DEF Consumer, ConsumerLoop, Sleep, PsWork, RtWork, Destroy, DestroyStart,
       JoinConsumer, RemoveWatch, Close, JoinFilemon, RestoreFixed, Tool, ToolHandlers, ToolArm,
       ToolLeave, ToolSignal, GuiChoose, Overwrite, Threads, Notify, vars
  <2> QED BY <1>1, <2>1, Zenon
<1>5. CASE FilemonLoop \/ FilemonCall \/ FilemonOpen \/ FilemonFallback
  BY <1>1, <1>2, <1>3, <1>5, Zenon DEF FilemonLoop, FilemonCall, FilemonOpen, FilemonFallback, Notify
<1>6. CASE FilemonRead
  <2>1. Head(queue) = "modify"
    BY <1>3, <1>6, Merged, Zenon DEF FilemonRead
  <2>2. fm = "read" /\ fm' = "open"
    BY <1>6, <2>1 DEF FilemonRead
  <2> QED BY <1>1, <2>2, Zenon
<1>7. CASE FilemonLoad
  BY <1>1, <1>7, Zenon DEF FilemonLoad, File
<1>8. CASE Modify
  <2>1. queue' = <<"modify">> /\ fm' = fm
    BY <1>2, <1>3, <1>8, Merged, Zenon DEF Modify, Threads
  <2>2. <<"modify">> # <<>>
    OBVIOUS
  <2> QED BY <1>1, <2>1, <2>2, Zenon
<1>9. CASE Start \/ StartFails \/ Delete \/ Create \/ Dies
  BY <1>1, <1>3, <1>9, Zenon DEF Start, StartFails, Begin, Delete, Create, Dies
<1> QED BY <1>4, <1>5, <1>6, <1>7, <1>8, <1>9, Zenon DEF Next, Filemon, World, jmrg_free_vmap

\* The last change of a watched file is loaded, whatever the texts and however many events
\* one read drops, unless the file is deleted or the user stops.
THEOREM ChangeIsLoaded == Spec /\ []CanMove => FileSeen
<1> DEFINE J == StopInv /\ WatchInv
           InFilemon == \/ Pending("call") \/ Pending("read") \/ Pending("open")
                        \/ Pending("load") \/ Pending("fallback") \/ Pending("loop")
<1>1. J /\ fm # "ended" /\ watch /\ queue # <<>> /\ active => InFilemon \/ Pending("none")
  BY Zenon DEF StopInv, Pending, Done
<1>2. InFilemon => FilemonReady
  BY Zenon DEF Pending, FilemonReady
<1>3. J /\ Pending("none") => DestroyReady
  BY Zenon DEF WatchInv, Pending, DestroyReady
<1>4. <<Filemon>>_vars =>
        /\ ~(Pending("call") /\ Pending("call")') /\ ~(Pending("read") /\ Pending("read")')
        /\ ~(Pending("open") /\ Pending("open")') /\ ~(Pending("load") /\ Pending("load")')
        /\ ~(Pending("fallback") /\ Pending("fallback")')
        /\ ~(Pending("loop") /\ Pending("loop")')
  BY ThreadsMove, Zenon DEF Pending
<1>5. J /\ <<Destroy>>_vars /\ Pending("none") => Seen'
  BY DEF WatchInv, Pending, Seen, Destroy, DestroyStart, JoinConsumer, RemoveWatch, Close,
     JoinFilemon, RestoreFixed
<1>6. Seen => str = content \/ ~watch \/ ~active
  BY DEF Seen
<1> QED BY <1>1, <1>2, <1>3, <1>4, <1>5, <1>6, PendingStep, StopInvariance, PTL
        DEF Spec, Fairness, CanMove, FileSeen, PendingOn

=============================================================================
