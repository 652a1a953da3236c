------------------------- MODULE ChildProcessProofs --------------------------
(***************************************************************************)
(* The two monitors that run a child process and read what it writes, for  *)
(* any lines, alerts and bounds: for each an inductive invariant, that     *)
(* every step keeps it, and that it implies the properties.  MonitorProofs *)
(* states the theorems about the whole.                                    *)
(***************************************************************************)
EXTENDS SuricataMonitor, WazuhMonitor, SequenceTheorems, WellFoundedInduction, TLAPS

-----------------------------------------------------------------------------
\* Numbers and sequences.

\* A set of numbers has a smallest one.
LEMMA Smallest ==
  ASSUME NEW S, S \subseteq Nat, S # {}
  PROVE  \E m \in S : \A n \in S : m <= n
<1>1. OpToRel(<, Nat) = {pair \in Nat \X Nat : pair[1] < pair[2]}
  BY DEF OpToRel
<1>2. PICK m \in S : \A n \in S : <<n, m>> \notin OpToRel(<, Nat)
  BY NatLessThanWellFounded, WFMin
<1>3. \A n \in S : ~(n < m)
  BY <1>1, <1>2
<1> QED
  BY <1>3

\* What is left of a sequence without its first n elements.
LEMMA RestOfSeq ==
  ASSUME NEW S, NEW s \in Seq(S), NEW n \in 0 .. Len(s)
  PROVE  /\ SubSeq(s, n + 1, Len(s)) \in Seq(S)
         /\ Len(SubSeq(s, n + 1, Len(s))) = Len(s) - n
         /\ \A i \in 1 .. Len(s) - n : SubSeq(s, n + 1, Len(s))[i] = s[n + i]
<1> DEFINE rest == SubSeq(s, n + 1, Len(s))
<1>1. Len(s) \in Nat /\ \A i \in n + 1 .. Len(s) : s[i] \in S
  BY LenProperties, ElementOfSeq
<1>2. /\ rest \in Seq(S)
      /\ Len(rest) = IF n + 1 <= Len(s) THEN Len(s) - (n + 1) + 1 ELSE 0
      /\ \A i \in 1 .. Len(s) - (n + 1) + 1 : rest[i] = s[(n + 1) + i - 1]
  <2> HIDE DEF rest
  <2> QED
    BY <1>1, SubSeqProperties DEF rest
<1> HIDE DEF rest
<1>3. /\ Len(rest) = Len(s) - n
      /\ \A i \in 1 .. Len(s) - n : rest[i] = s[n + i]
  BY <1>1, <1>2
<1> QED
  BY <1>2, <1>3 DEF rest

-----------------------------------------------------------------------------
\* Suricata: the log, the thread that reads it, and the end of the child.

\* The pieces in the order in which they are written, and how far the writer has come.
Place(piece) == 2 * piece.line + (IF piece.part = "start" THEN 0 ELSE 1)
Written == 2 * writer.lines + (IF writer.half THEN 0 ELSE 1)

\* From where the thread reads next: a position outside of the log stands for its beginning.
Ahead ==
  LET position == IF tail.step = "read" THEN tail.offset ELSE tail.position
  IN  IF Len(eve) < position THEN 0 ELSE position

\* What was handled comes before what is read and not processed, and that before what is
\* not read yet.
LogInOrder ==
  /\ writer.half => writer.lines > 0
  /\ \A i \in 1 .. Len(eve) :
       /\ Place(eve[i]) <= Written
       /\ \A j \in 1 .. Len(eve) : i < j => Place(eve[i]) < Place(eve[j])

BufferInOrder ==
  \A i \in 1 .. Len(tail.buffer) :
    /\ Place(tail.buffer[i]) <= Written
    /\ \A j \in 1 .. Len(tail.buffer) : i < j => Place(tail.buffer[i]) < Place(tail.buffer[j])
    /\ \A j \in Ahead + 1 .. Len(eve) : Place(tail.buffer[i]) < Place(eve[j])

HandledInOrder ==
  \A i \in 1 .. Len(handled) :
    /\ 2 * handled[i] + 1 <= Written
    /\ \A j \in 1 .. Len(handled) : i < j => handled[i] < handled[j]
    /\ \A j \in 1 .. Len(tail.buffer) : 2 * handled[i] + 1 < Place(tail.buffer[j])
    /\ \A j \in Ahead + 1 .. Len(eve) : 2 * handled[i] + 1 < Place(eve[j])

NothingOpen ==
  /\ tail.step # "read" => tail.buffer = <<>>
  /\ tail.step \in {"start", "position"} => handled = <<>>

OrderInv == LogInOrder /\ BufferInOrder /\ HandledInOrder /\ NothingOpen

\* How much of the log is processed.
Processed == IF tail.step = "read" THEN tail.offset - Len(tail.buffer) ELSE tail.position

Settled(n) == n > before => n \in torn \/ \E i \in 1 .. Len(handled) : handled[i] = n

\* Unless a cut was not seen, the buffer holds the last pieces before the offset, and what
\* is before them is settled; a line of which the beginning was processed alone is torn.
SettledInv ==
  tail.step \notin {"start", "position"} /\ ~cutUnseen =>
    /\ Processed \in 0 .. Len(eve)
    /\ tail.step = "read" =>
         /\ tail.offset <= Len(eve) 
         /\ \A i \in 1 .. Len(tail.buffer) : tail.buffer[i] = eve[Processed + i]
    /\ \A n \in WholeLines(Processed) : Settled(n)
    /\ Processed > 0 /\ eve[Processed].part = "start" =>
         eve[Processed].line <= before \/ eve[Processed].line \in torn

StopInv == stopping = "done" /\ tail.step \in {"start", "restart"} => raced

SuricataInv == SuricataTypeOK /\ OrderInv /\ SettledInv /\ StopInv /\ SuricataStops

TailSteps == {"start", "position", "loop", "size", "read", "poll", "restart", "end"}

LEMMA SuricataTypes ==
  ASSUME SuricataTypeOK
  PROVE  /\ tail \in [step : TailSteps, position : Nat, offset : Nat, buffer : Seq(Chunks)]
         /\ eve \in Seq(Chunks) /\ tail.buffer \in Seq(Chunks) /\ handled \in Seq(1 .. MaxLines)
         /\ Len(eve) \in Nat /\ Len(tail.buffer) \in Nat /\ Len(handled) \in Nat
         /\ \A i \in 1 .. Len(eve) : eve[i] \in Chunks /\ Place(eve[i]) \in Nat
         /\ \A i \in 1 .. Len(tail.buffer) :
              tail.buffer[i] \in Chunks /\ Place(tail.buffer[i]) \in Nat
         /\ \A i \in 1 .. Len(handled) : handled[i] \in 1 .. MaxLines
         /\ Written \in Nat /\ Ahead \in Nat
<1> USE SuricataAssumption
<1>1. /\ tail \in [step : TailSteps, position : Nat, offset : Nat, buffer : Seq(Chunks)]
      /\ eve \in Seq(Chunks) /\ handled \in Seq(1 .. MaxLines)
      /\ writer \in [lines : 0 .. MaxLines, half : BOOLEAN]
  BY DEF SuricataTypeOK, TailSteps
<1>2. \A c \in Chunks : Place(c) \in Nat
  BY DEF Chunks, Place
<1>3. Written \in Nat /\ Ahead \in Nat
  BY <1>1, LenProperties DEF Written, Ahead
<1> QED
  BY <1>1, <1>2, <1>3, LenProperties, ElementOfSeq

LEMMA SuricataStarts == SuricataInit => SuricataInv
<1> SUFFICES ASSUME SuricataInit PROVE SuricataInv
  OBVIOUS
<1> USE SuricataAssumption
<1>1. PICK old \in 0 .. 1 : /\ eve = IF old = 0 THEN <<>> ELSE <<StartOf(1), EndOf(1)>>
                            /\ writer = [lines |-> old, half |-> FALSE]
  BY DEF SuricataInit
<1>2. eve \in Seq(Chunks)
  <2>1. StartOf(1) \in Chunks /\ EndOf(1) \in Chunks
    BY DEF Chunks, StartOf, EndOf
  <2> QED
    BY <1>1, <2>1
<1>3. SuricataTypeOK
  <2>1. tail \in [step : TailSteps, position : Nat, offset : Nat, buffer : Seq(Chunks)]
    BY DEF SuricataInit, TailSteps
  <2>2. writer \in [lines : 0 .. MaxLines, half : BOOLEAN]
    BY <1>1
  <2>3. handled \in Seq(1 .. MaxLines)
    BY DEF SuricataInit
  <2>4. /\ cuts \in 0 .. MaxCuts /\ deaths \in 0 .. MaxDeaths /\ before \in 0 .. MaxLines
        /\ manage_process \in BOOLEAN /\ process = "none" /\ stopping = "no"
        /\ torn = {} /\ cutUnseen = FALSE /\ raced = FALSE
    BY DEF SuricataInit
  <2> QED
    BY <1>2, <2>1, <2>2, <2>3, <2>4 DEF SuricataTypeOK, TailSteps
<1>4. OrderInv
  <2>1. /\ handled = <<>> /\ tail.buffer = <<>> /\ Len(handled) = 0 /\ Len(tail.buffer) = 0
        /\ tail.step = "start"
    BY DEF SuricataInit
  <2>2. CASE old = 0
    <3>1. Len(eve) = 0
      BY <1>1, <2>2
    <3> QED
      BY <1>1, <2>1, <3>1 DEF OrderInv, LogInOrder, BufferInOrder, HandledInOrder, NothingOpen
  <2>3. CASE old = 1
    <3>1. /\ Len(eve) = 2 /\ Place(eve[1]) = 2 /\ Place(eve[2]) = 3 /\ Written = 3
      BY <1>1, <2>3 DEF StartOf, EndOf, Place, Written
    <3> QED
      BY <1>1, <2>1, <3>1 DEF OrderInv, LogInOrder, BufferInOrder, HandledInOrder, NothingOpen
  <2> QED
    BY <2>2, <2>3
<1> QED
  BY <1>3, <1>4 DEF SuricataInit, SuricataInv, SettledInv, StopInv, SuricataStops


-----------------------------------------------------------------------------
\* What a step of the thread, of Suricata or of stop() may have done to what is read.

\* What is read before the next end of a line.
LEMMA FirstEndIs ==
  ASSUME SuricataTypeOK, LineEnds # {}
  PROVE  FirstEnd \in LineEnds /\ \A i \in LineEnds : FirstEnd <= i
<1>1. LineEnds \subseteq Nat
  BY DEF LineEnds
<1>2. \E i \in LineEnds : \A j \in LineEnds : i <= j
  BY <1>1, Smallest
<1> QED
  BY <1>2 DEF FirstEnd

\* A line of the buffer parses if it is the beginning and the end of the same.
LEMMA BufferLine ==
  ASSUME SuricataTypeOK, tail.buffer # <<>>, NEW n \in 1 .. Len(tail.buffer)
  PROVE  LET line == SubSeq(tail.buffer, 1, n)
         IN  /\ line \in Seq(Chunks) /\ Len(line) = n
             /\ \A i \in 1 .. n : line[i] = tail.buffer[i]
             /\ SubSeq(tail.buffer, n + 1, Len(tail.buffer)) \in Seq(Chunks)
             /\ Len(SubSeq(tail.buffer, n + 1, Len(tail.buffer))) = Len(tail.buffer) - n
             /\ \A i \in 1 .. Len(tail.buffer) - n :
                  SubSeq(tail.buffer, n + 1, Len(tail.buffer))[i] = tail.buffer[n + i]
<1>1. /\ Len(tail.buffer) \in Nat
      /\ \A i \in 1 .. Len(tail.buffer) : tail.buffer[i] \in Chunks
  BY SuricataTypes
<1>2. /\ \A i \in 1 .. n : tail.buffer[i] \in Chunks
      /\ \A i \in n + 1 .. Len(tail.buffer) : tail.buffer[i] \in Chunks
  BY <1>1
<1>3. /\ SubSeq(tail.buffer, 1, n) \in Seq(Chunks) /\ Len(SubSeq(tail.buffer, 1, n)) = n
      /\ \A i \in 1 .. n : SubSeq(tail.buffer, 1, n)[i] = tail.buffer[i]
  BY <1>2, SubSeqProperties
<1>4. tail.buffer \in Seq(Chunks) /\ n \in 0 .. Len(tail.buffer)
  BY <1>1, SuricataTypes
<1> QED
  BY <1>3, <1>4, RestOfSeq

\* The thread takes the first n pieces of the buffer as one line: up to the first end, or all.
TakesLine(n) ==
  /\ tail' = [tail EXCEPT !.buffer = SubSeq(@, n + 1, Len(@))]
  /\ \A i \in 1 .. n - 1 : tail.buffer[i].part = "start"
  /\ tail.buffer[n].part = "start" => n = Len(tail.buffer)
  /\ handled' = IF n = 2 /\ tail.buffer[1] = StartOf(tail.buffer[2].line)
                THEN Append(handled, tail.buffer[1].line) ELSE handled
  /\ torn' = IF tail.buffer[n].part = "start" THEN torn \cup {tail.buffer[n].line} ELSE torn

ReadsMore ==
  /\ Len(eve) > tail.offset
  /\ tail' = [tail EXCEPT !.buffer = @ \o SubSeq(eve, tail.offset + 1, Len(eve)),
                          !.offset = Len(eve)]
  /\ UNCHANGED <<handled, torn>>

FindsTheEnd ==
  /\ Len(eve) <= tail.offset /\ tail.buffer = <<>>
  /\ tail' = [tail EXCEPT !.step = "poll", !.position = tail.offset, !.offset = 0]
  /\ UNCHANGED <<handled, torn>>

LEMMA LineTaken ==
  ASSUME SuricataTypeOK, NEW n \in 1 .. Len(tail.buffer),
         ProcessLine(SubSeq(tail.buffer, 1, n))
  PROVE  /\ handled' = IF n = 2 /\ tail.buffer[1] = StartOf(tail.buffer[2].line)
                       THEN Append(handled, tail.buffer[1].line) ELSE handled
         /\ torn' = IF tail.buffer[n].part = "start" THEN torn \cup {tail.buffer[n].line} ELSE torn
<1> DEFINE line == SubSeq(tail.buffer, 1, n)
<1>1. Len(line) = n /\ \A i \in 1 .. n : line[i] = tail.buffer[i]
  <2>1. tail.buffer # <<>>
    BY SuricataTypes
  <2> QED
    BY <2>1, BufferLine
<1>3. ProcessLine(line)
  OBVIOUS
<1> HIDE DEF line
<1>4. n \in 1 .. n /\ 1 \in 1 .. n
  BY SuricataTypes
<1>2. line[n] = tail.buffer[n] /\ line[1] = tail.buffer[1] /\ (n = 2 => line[2] = tail.buffer[2])
  BY <1>1, <1>4
<1> QED
  BY <1>1, <1>2, <1>3 DEF ProcessLine, Parses

LEMMA LineRead ==
  ASSUME SuricataTypeOK, ReadLog
  PROVE  (\E n \in 1 .. Len(tail.buffer) : TakesLine(n)) \/ ReadsMore \/ FindsTheEnd
<1> DEFINE more == SubSeq(eve, tail.offset + 1, Len(eve))
<1>1. /\ Len(eve) \in Nat /\ tail.offset \in Nat /\ Len(tail.buffer) \in Nat
      /\ \A i \in 1 .. Len(eve) : eve[i] \in Chunks
      /\ \A i \in 1 .. Len(tail.buffer) : tail.buffer[i].part \in {"start", "end"}
  BY SuricataTypes DEF Chunks
<1>2. more = <<>> <=> Len(eve) <= tail.offset
  <2>1. CASE Len(eve) <= tail.offset
    BY <1>1, <2>1, SubSeqEmpty
  <2>2. CASE Len(eve) > tail.offset
    <3>1. \A i \in tail.offset + 1 .. Len(eve) : eve[i] \in Chunks
      BY <1>1
    <3>2. Len(more) = Len(eve) - (tail.offset + 1) + 1
      <4> HIDE DEF more
      <4> QED
        BY <1>1, <2>2, <3>1, SubSeqProperties DEF more
    <3> HIDE DEF more
    <3> QED
      BY <1>1, <2>2, <3>2
  <2> QED
    BY <1>1, <2>1, <2>2
<1>3. ASSUME /\ LineEnds # {}
             /\ ProcessLine(SubSeq(tail.buffer, 1, FirstEnd))
             /\ tail' = [tail EXCEPT !.buffer = SubSeq(@, FirstEnd + 1, Len(@))]
      PROVE  \E n \in 1 .. Len(tail.buffer) : TakesLine(n)
  <2>1. FirstEnd \in LineEnds /\ \A i \in LineEnds : FirstEnd <= i
    BY <1>3, FirstEndIs
  <2>2. FirstEnd \in 1 .. Len(tail.buffer) /\ tail.buffer[FirstEnd].part = "end"
    BY <2>1 DEF LineEnds
  <2>3. \A i \in 1 .. FirstEnd - 1 : tail.buffer[i].part = "start"
    BY <1>1, <2>1, <2>2 DEF LineEnds
  <2>4. TakesLine(FirstEnd)
    BY <1>3, <2>2, <2>3, LineTaken DEF TakesLine
  <2> QED
    BY <2>2, <2>4
<1>4. ASSUME /\ LineEnds = {} /\ tail.buffer # <<>>
             /\ ProcessLine(tail.buffer)
             /\ tail' = [tail EXCEPT !.buffer = <<>>]
      PROVE  \E n \in 1 .. Len(tail.buffer) : TakesLine(n)
  <2> DEFINE n == Len(tail.buffer)
  <2>1. tail.buffer \in Seq(Chunks) /\ n \in 1 .. Len(tail.buffer)
    BY <1>1, <1>4, SuricataTypes, EmptySeq
  <2>2. \A i \in 1 .. n : tail.buffer[i].part = "start"
    BY <1>1, <1>4 DEF LineEnds
  <2>3. /\ SubSeq(tail.buffer, 1, n) = tail.buffer
        /\ SubSeq(tail.buffer, n + 1, Len(tail.buffer)) = <<>>
    BY <1>1, <2>1, SubSeqFull, SubSeqEmpty
  <2>4. ProcessLine(SubSeq(tail.buffer, 1, n)) /\ n = Len(tail.buffer)
    BY <1>4, <2>3
  <2>5. tail' = [tail EXCEPT !.buffer = SubSeq(@, n + 1, Len(@))]
    BY <1>4, <2>3
  <2> HIDE DEF n
  <2>6. \A i \in 1 .. n - 1 : tail.buffer[i].part = "start"
    BY <1>1, <2>1, <2>2
  <2>7. TakesLine(n)
    BY <2>1, <2>4, <2>5, <2>6, LineTaken DEF TakesLine
  <2> QED
    BY <2>1, <2>7
<1>5. ASSUME /\ more # <<>>
             /\ tail' = [tail EXCEPT !.buffer = @ \o more, !.offset = Len(eve)]
             /\ UNCHANGED <<handled, torn>>
      PROVE  ReadsMore
  BY <1>1, <1>2, <1>5 DEF ReadsMore
<1>6. ASSUME /\ more = <<>> /\ tail.buffer = <<>>
             /\ tail' = [tail EXCEPT !.step = "poll", !.position = tail.offset, !.offset = 0]
             /\ UNCHANGED <<handled, torn>>
      PROVE  FindsTheEnd
  BY <1>1, <1>2, <1>6 DEF FindsTheEnd
<1> HIDE DEF more
<1> QED
  BY <1>3, <1>4, <1>5, <1>6, Zenon DEF ReadLog, more

LEMMA SuricataTypeStep ==
  ASSUME SuricataTypeOK, OrderInv, SuricataNext
  PROVE  SuricataTypeOK'
<1> USE SuricataAssumption
<1> DEFINE Tails == [step : TailSteps, position : Nat, offset : Nat, buffer : Seq(Chunks)]
<1>1. /\ tail \in Tails /\ Len(eve) \in Nat /\ eve \in Seq(Chunks)
      /\ handled \in Seq(1 .. MaxLines) /\ torn \subseteq 1 .. MaxLines
      /\ writer \in [lines : 0 .. MaxLines, half : BOOLEAN]
      /\ process \in {"none", "running", "ended"}
      /\ \A i \in 1 .. Len(eve) : eve[i] \in Chunks
      /\ \A i \in 1 .. Len(tail.buffer) : tail.buffer[i] \in Chunks
  BY SuricataTypes DEF SuricataTypeOK
<1>2. CASE WriteLine
  <2>1. eve' \in Seq(Chunks) /\ writer' \in [lines : 0 .. MaxLines, half : BOOLEAN]
    <3>1. CASE ~writer.half /\ writer.lines < MaxLines
      <4>1. /\ eve' = Append(eve, StartOf(writer.lines + 1))
            /\ writer' = [lines |-> writer.lines + 1, half |-> TRUE]
        BY <1>2, <3>1 DEF WriteLine
      <4>2. StartOf(writer.lines + 1) \in Chunks
        BY <1>1, <3>1 DEF StartOf, Chunks
      <4> QED
        BY <1>1, <3>1, <4>1, <4>2, AppendProperties
    <3>2. CASE writer.half
      <4>1. /\ eve' = Append(eve, EndOf(writer.lines))
            /\ writer' = [writer EXCEPT !.half = FALSE]
        BY <1>2, <3>2 DEF WriteLine
      <4>2. EndOf(writer.lines) \in Chunks
        BY <1>1, <3>2 DEF OrderInv, LogInOrder, EndOf, Chunks
      <4> QED
        BY <1>1, <4>1, <4>2, AppendProperties
    <3> QED
      BY <1>1, <1>2, <3>1, <3>2 DEF WriteLine
  <2> QED
    BY <1>2, <2>1 DEF WriteLine, SuricataTypeOK
<1>3. CASE SuricataDies
  <2>1. deaths' \in 0 .. MaxDeaths
    BY <1>3 DEF SuricataDies, SuricataTypeOK
  <2>2. writer' \in [lines : 0 .. MaxLines, half : BOOLEAN]
    BY <1>1, <1>3 DEF SuricataDies
  <2> QED
    BY <1>1, <1>3, <2>1, <2>2 DEF SuricataDies, SuricataTypeOK
<1>4. CASE CutLog
  <2>1. cuts' \in 0 .. MaxCuts
    BY <1>4 DEF CutLog, SuricataTypeOK
  <2>2. eve' \in Seq(Chunks)
    BY <1>4, EmptySeq DEF CutLog
  <2>3. cutUnseen' \in BOOLEAN
    BY <1>1, <1>4 DEF CutLog, SuricataTypeOK
  <2> QED
    BY <1>1, <1>4, <2>1, <2>2, <2>3 DEF CutLog, SuricataTypeOK
<1>6. CASE suricata_stop
  <2>1. writer' \in [lines : 0 .. MaxLines, half : BOOLEAN]
    BY <1>1, <1>6 DEF suricata_stop, SuricataTypeOK
  <2>2. stopping' \in {"no", "set", "done"} /\ process' \in {"none", "running", "ended"}
    BY <1>1, <1>6 DEF suricata_stop
  <2>4. raced' \in BOOLEAN
    <3>1. raced' = raced \/ raced' = (tail.step \in {"start", "restart"})
      BY <1>6 DEF suricata_stop
    <3>2. CASE raced' = raced
      BY <3>2 DEF SuricataTypeOK
    <3>3. CASE raced' = (tail.step \in {"start", "restart"})
      <4>1. CASE tail.step \in {"start", "restart"}
        BY <3>3, <4>1
      <4>2. CASE tail.step \notin {"start", "restart"}
        BY <3>3, <4>2
      <4> QED
        BY <4>1, <4>2
    <3> QED
      BY <3>1, <3>2, <3>3
  <2>3. UNCHANGED <<eve, cuts, deaths, manage_process, tail, before, handled, torn, cutUnseen>>
    BY <1>6 DEF suricata_stop
  <2> QED
    BY <2>1, <2>2, <2>3, <2>4 DEF SuricataTypeOK
<1>5. CASE suricata_run
  <2>1. /\ tail' \in Tails /\ handled' \in Seq(1 .. MaxLines) /\ torn' \subseteq 1 .. MaxLines
        /\ before' \in 0 .. MaxLines /\ cutUnseen' \in BOOLEAN
        /\ process' \in {"none", "running", "ended"}
    <3>1. CASE StartTailing \/ RestartSuricata
      BY <1>1, <3>1 DEF StartTailing, RestartSuricata, TailGoto, StartSuricata, SuricataTypeOK,
                       TailSteps
    <3>2. CASE FirstPosition
      BY <1>1, <3>2 DEF FirstPosition, SuricataTypeOK, TailSteps
    <3>3. CASE TailLoop \/ CheckProcess
      BY <1>1, <3>3 DEF TailLoop, CheckProcess, TailGoto, SuricataTypeOK, TailSteps
    <3>4. CASE CheckSize
      BY <1>1, <3>4 DEF CheckSize, PositionAfterCut, SuricataTypeOK, TailSteps
    <3>5. ASSUME ReadLog, NEW n \in 1 .. Len(tail.buffer), TakesLine(n)
          PROVE  /\ tail' \in Tails /\ handled' \in Seq(1 .. MaxLines)
                 /\ torn' \subseteq 1 .. MaxLines
      <4>1. SubSeq(tail.buffer, n + 1, Len(tail.buffer)) \in Seq(Chunks)
        BY <1>1, <3>5, BufferLine, EmptySeq
      <4>2. tail.buffer[1].line \in 1 .. MaxLines /\ tail.buffer[n].line \in 1 .. MaxLines
        BY <1>1 DEF Chunks
      <4>3. tail' \in Tails
        BY <1>1, <3>5, <4>1 DEF TakesLine
      <4> QED
        BY <1>1, <3>5, <4>2, <4>3, AppendProperties DEF TakesLine
    <3>6. ASSUME ReadLog, ReadsMore
          PROVE  /\ tail' \in Tails /\ handled' \in Seq(1 .. MaxLines)
                 /\ torn' \subseteq 1 .. MaxLines
      <4> DEFINE more == SubSeq(eve, tail.offset + 1, Len(eve))
      <4>1. more \in Seq(Chunks)
        BY <1>1, SubSeqProperties
      <4> HIDE DEF more
      <4>2. tail.buffer \o more \in Seq(Chunks)
        BY <1>1, <4>1, ConcatProperties
      <4>3. tail' = [tail EXCEPT !.buffer = @ \o more, !.offset = Len(eve)]
        BY <3>6 DEF ReadsMore, more
      <4>4. tail' \in Tails
        BY <1>1, <4>2, <4>3
      <4> QED
        BY <1>1, <3>6, <4>4 DEF ReadsMore
    <3>7. ASSUME FindsTheEnd
          PROVE  /\ tail' \in Tails /\ handled' \in Seq(1 .. MaxLines)
                 /\ torn' \subseteq 1 .. MaxLines
      BY <1>1, <3>7 DEF FindsTheEnd, TailSteps
    <3>8. CASE ReadLog
      <4>1. process' = process /\ before' = before /\ cutUnseen' = cutUnseen
        BY <3>8 DEF ReadLog
      <4> QED
        BY <3>5, <3>6, <3>7, <3>8, <4>1, LineRead DEF SuricataTypeOK
    <3> QED
      BY <1>5, <3>1, <3>2, <3>3, <3>4, <3>8 DEF suricata_run
  <2> QED
    BY <1>5, <2>1 DEF suricata_run, SuricataTypeOK, TailSteps
<1> QED
  BY <1>2, <1>3, <1>4, <1>5, <1>6 DEF SuricataNext

\* Nothing but the writer moves.
LEMMA OrderKept ==
  ASSUME SuricataTypeOK, SuricataTypeOK', OrderInv,
         eve' = eve, handled' = handled, tail'.buffer = tail.buffer, Ahead' = Ahead,
         Written <= Written', writer'.half => writer'.lines > 0,
         tail'.step = "read" \/ tail'.buffer = <<>>,
         tail'.step \in {"start", "position"} => handled = <<>>
  PROVE  OrderInv'
<1>1. /\ Written \in Nat /\ Written' \in Nat /\ Len(eve) \in Nat
      /\ \A i \in 1 .. Len(eve) : Place(eve[i]) \in Nat
      /\ \A i \in 1 .. Len(tail.buffer) : Place(tail.buffer[i]) \in Nat
      /\ \A i \in 1 .. Len(handled) : handled[i] \in Int
  <2>1. Written' \in Nat
    <3>1. writer' \in [lines : 0 .. MaxLines, half : BOOLEAN]
      BY DEF SuricataTypeOK
    <3> QED
      BY <3>1, SuricataAssumption DEF Written
  <2> QED
    BY <2>1, SuricataTypes
<1> QED
  BY <1>1 DEF OrderInv, LogInOrder, BufferInOrder, HandledInOrder, NothingOpen

LEMMA OrderOfWriting ==
  ASSUME SuricataTypeOK, SuricataTypeOK', OrderInv, WriteLine
  PROVE  OrderInv'
<1> USE SuricataAssumption
<1>1. /\ Written \in Nat /\ Len(eve) \in Nat /\ Ahead \in Nat
      /\ tail.position \in Nat /\ tail.offset \in Nat
      /\ \A i \in 1 .. Len(eve) : Place(eve[i]) \in Nat
      /\ \A i \in 1 .. Len(tail.buffer) : Place(tail.buffer[i]) \in Nat
      /\ \A i \in 1 .. Len(handled) : handled[i] \in Int
  BY SuricataTypes
<1>2. PICK piece \in Chunks : /\ eve' = Append(eve, piece)
                              /\ Place(piece) = Written' /\ Written < Written'
                              /\ Written' \in Nat
                              /\ writer'.half => writer'.lines > 0
  <2>0. writer \in [lines : 0 .. MaxLines, half : BOOLEAN]
    BY DEF SuricataTypeOK
  <2>1. CASE ~writer.half /\ writer.lines < MaxLines
    <3>1. /\ eve' = Append(eve, StartOf(writer.lines + 1))
          /\ writer' = [lines |-> writer.lines + 1, half |-> TRUE]
      BY <2>1 DEF WriteLine
    <3>2. StartOf(writer.lines + 1) \in Chunks
      BY <2>0, <2>1 DEF StartOf, Chunks
    <3> QED
      BY <2>0, <2>1, <3>1, <3>2 DEF Place, StartOf, Written
  <2>2. CASE writer.half
    <3>1. eve' = Append(eve, EndOf(writer.lines)) /\ writer' = [writer EXCEPT !.half = FALSE]
      BY <2>2 DEF WriteLine
    <3>2. EndOf(writer.lines) \in Chunks
      BY <2>0, <2>2 DEF OrderInv, LogInOrder, EndOf, Chunks
    <3> QED
      BY <2>0, <2>2, <3>1, <3>2 DEF Place, EndOf, Written
  <2> QED
    BY <2>1, <2>2 DEF WriteLine
<1>3. /\ Len(eve') = Len(eve) + 1 /\ eve'[Len(eve) + 1] = piece
      /\ \A i \in 1 .. Len(eve) : eve'[i] = eve[i]
  BY <1>2, AppendProperties DEF SuricataTypeOK
<1>4. tail' = tail /\ handled' = handled
  BY DEF WriteLine
<1>5. Ahead' \in Nat /\ Ahead <= Ahead'
  BY <1>1, <1>3, <1>4 DEF Ahead
<1>6. \A i \in 1 .. Len(eve') : \/ i \in 1 .. Len(eve) /\ eve'[i] = eve[i]
                                \/ i = Len(eve) + 1 /\ eve'[i] = piece
  BY <1>1, <1>3
<1>7. \A i \in Ahead' + 1 .. Len(eve') :
        \/ i \in Ahead + 1 .. Len(eve) /\ eve'[i] = eve[i]
        \/ i = Len(eve) + 1 /\ eve'[i] = piece
  BY <1>1, <1>3, <1>5
<1>8. LogInOrder'
  BY <1>1, <1>2, <1>3, <1>6 DEF OrderInv, LogInOrder
<1>9. BufferInOrder'
  BY <1>1, <1>2, <1>4, <1>7 DEF OrderInv, BufferInOrder
<1>10. HandledInOrder'
  BY <1>1, <1>2, <1>4, <1>7 DEF OrderInv, HandledInOrder
<1> QED
  BY <1>4, <1>8, <1>9, <1>10 DEF OrderInv, NothingOpen

LEMMA OrderOfReading ==
  ASSUME SuricataTypeOK, SuricataTypeOK', OrderInv, ReadLog,
         UNCHANGED <<eve, writer>>
  PROVE  OrderInv'
<1>1. /\ Written \in Nat /\ eve \in Seq(Chunks) /\ Len(eve) \in Nat /\ Ahead \in Nat /\ Len(tail.buffer) \in Nat
      /\ tail \in [step : TailSteps, position : Nat, offset : Nat, buffer : Seq(Chunks)]
      /\ Len(handled) \in Nat /\ handled \in Seq(1 .. MaxLines)
      /\ \A i \in 1 .. Len(eve) : eve[i] \in Chunks /\ Place(eve[i]) \in Nat
      /\ \A i \in 1 .. Len(tail.buffer) :
           tail.buffer[i] \in Chunks /\ Place(tail.buffer[i]) \in Nat
      /\ \A i \in 1 .. Len(handled) : handled[i] \in 1 .. MaxLines
  BY SuricataTypes
<1>0. eve' = eve /\ writer' = writer
  OBVIOUS
<1>2. tail.step = "read" /\ Written' = Written /\ LogInOrder'
  BY <1>0 DEF ReadLog, Written, OrderInv, LogInOrder
<1>3. ASSUME NEW n \in 1 .. Len(tail.buffer), TakesLine(n) PROVE OrderInv'
  <2>1. /\ tail'.step = "read" /\ tail'.offset = tail.offset /\ tail'.position = tail.position
        /\ tail'.buffer = SubSeq(tail.buffer, n + 1, Len(tail.buffer))
    BY <1>1, <1>2, <1>3 DEF TakesLine
  <2>2. Ahead' = Ahead
    BY <1>2, <2>1 DEF Ahead
  <2>3. /\ Len(tail'.buffer) = Len(tail.buffer) - n
        /\ \A i \in 1 .. Len(tail.buffer) - n : tail'.buffer[i] = tail.buffer[n + i]
    BY <1>1, <2>1, BufferLine, EmptySeq
  <2>4. \A i \in 1 .. Len(tail'.buffer) :
          n + i \in 1 .. Len(tail.buffer) /\ tail'.buffer[i] = tail.buffer[n + i]
    BY <1>1, <2>3
  <2>7. BufferInOrder'
    BY <1>0, <1>1, <1>2, <2>2, <2>3, <2>4 DEF OrderInv, BufferInOrder
  <2>8. NothingOpen'
    BY <2>1 DEF NothingOpen
  <2>9. \A i \in 1 .. Len(handled) :
          /\ \A j \in 1 .. Len(tail'.buffer) : 2 * handled[i] + 1 < Place(tail'.buffer[j])
          /\ \A j \in Ahead' + 1 .. Len(eve') : 2 * handled[i] + 1 < Place(eve'[j])
    BY <1>0, <1>1, <2>2, <2>4 DEF OrderInv, HandledInOrder
  <2>5. CASE handled' = handled
    <3>1. HandledInOrder'
      BY <1>2, <2>5, <2>9 DEF OrderInv, HandledInOrder
    <3> QED
      BY <1>2, <2>7, <2>8, <3>1 DEF OrderInv
  <2>6. ASSUME n = 2, tail.buffer[1] = StartOf(tail.buffer[2].line),
               handled' = Append(handled, tail.buffer[1].line)
        PROVE  OrderInv'
    <3> DEFINE h == tail.buffer[1].line
    <3>1. 1 \in 1 .. Len(tail.buffer) /\ 2 \in 1 .. Len(tail.buffer)
      BY <1>1, <2>6
    <3>2. /\ h \in 1 .. MaxLines /\ Place(tail.buffer[1]) = 2 * h
          /\ Place(tail.buffer[2]) = 2 * h + 1
      <4>1. Place(tail.buffer[1]) < Place(tail.buffer[2])
        BY <3>1 DEF OrderInv, BufferInOrder
      <4>2. tail.buffer[1] \in Chunks /\ tail.buffer[2] \in Chunks
        BY <1>1, <3>1
      <4> QED
        BY <2>6, <4>1, <4>2 DEF StartOf, Chunks, Place
    <3>3. /\ Len(handled') = Len(handled) + 1 /\ handled'[Len(handled) + 1] = h
          /\ \A i \in 1 .. Len(handled) : handled'[i] = handled[i]
      BY <1>1, <2>6, <3>2, AppendProperties
    <3>4. \A i \in 1 .. Len(handled') : \/ i \in 1 .. Len(handled) /\ handled'[i] = handled[i]
                                        \/ i = Len(handled) + 1 /\ handled'[i] = h
      BY <1>1, <3>3
    <3> HIDE DEF h
    <3>5. \A i \in 1 .. Len(handled) : handled[i] < h
      <4>1. \A i \in 1 .. Len(handled) : 2 * handled[i] + 1 < Place(tail.buffer[1])
        BY <3>1 DEF OrderInv, HandledInOrder
      <4> QED
        BY <1>1, <3>2, <4>1
    <3>6. /\ 2 * h + 1 <= Written
          /\ \A j \in Ahead' + 1 .. Len(eve') : 2 * h + 1 < Place(eve'[j])
      BY <1>0, <1>1, <2>2, <3>1, <3>2 DEF OrderInv, BufferInOrder
    <3>7. \A j \in 1 .. Len(tail'.buffer) : 2 * h + 1 < Place(tail'.buffer[j])
      <4>1. \A j \in 3 .. Len(tail.buffer) : Place(tail.buffer[2]) < Place(tail.buffer[j])
        BY <1>1, <3>1 DEF OrderInv, BufferInOrder
      <4>2. \A j \in 1 .. Len(tail'.buffer) : n + j \in 3 .. Len(tail.buffer)
        BY <1>1, <2>3, <2>6
      <4> QED
        BY <2>4, <3>2, <4>1, <4>2
    <3>8. ASSUME NEW i \in 1 .. Len(handled'), NEW j \in 1 .. Len(handled'), i < j
          PROVE  handled'[i] < handled'[j]
      <4>1. i \in 1 .. Len(handled) /\ handled'[i] = handled[i]
        BY <1>1, <3>3, <3>8
      <4>2. CASE j \in 1 .. Len(handled) /\ handled'[j] = handled[j]
        BY <3>8, <4>1, <4>2 DEF OrderInv, HandledInOrder
      <4> QED
        BY <3>4, <3>5, <4>1, <4>2
    <3>9. \A i \in 1 .. Len(handled) : 2 * handled[i] + 1 <= Written'
      BY <1>2 DEF OrderInv, HandledInOrder
    <3>10. HandledInOrder'
      BY <1>2, <2>9, <3>4, <3>6, <3>7, <3>8, <3>9 DEF HandledInOrder
    <3> QED
      BY <1>2, <2>7, <2>8, <3>10 DEF OrderInv
  <2> QED
    BY <1>3, <2>5, <2>6 DEF TakesLine
<1>4. ASSUME ReadsMore PROVE OrderInv'
  <2> DEFINE more == SubSeq(eve, tail.offset + 1, Len(eve))
  <2>1. Ahead = tail.offset /\ Len(eve) > tail.offset
    BY <1>1, <1>2, <1>4 DEF ReadsMore, Ahead
  <2>2. /\ more \in Seq(Chunks) /\ Len(more) = Len(eve) - tail.offset
        /\ \A i \in 1 .. Len(eve) - tail.offset : more[i] = eve[tail.offset + i]
    <3>1. tail.offset \in 0 .. Len(eve)
      BY <1>1, <2>1
    <3> QED
      BY <1>1, <3>1, RestOfSeq
  <2>3. /\ tail'.step = "read" /\ tail'.offset = Len(eve) /\ tail'.buffer = tail.buffer \o more
        /\ handled' = handled
    BY <1>1, <1>2, <1>4 DEF ReadsMore
  <2>4. Ahead' = Len(eve)
    BY <1>1, <2>3 DEF Ahead
  <2> HIDE DEF more
  <2>5. /\ Len(tail'.buffer) = Len(tail.buffer) + Len(more)
        /\ \A i \in 1 .. Len(tail.buffer) + Len(more) : tail'.buffer[i] =
             IF i <= Len(tail.buffer) THEN tail.buffer[i] ELSE more[i - Len(tail.buffer)]
    <3>1. tail.buffer \in Seq(Chunks) /\ more \in Seq(Chunks)
      BY <2>2, SuricataTypes
    <3>2. /\ Len(tail.buffer \o more) = Len(tail.buffer) + Len(more)
          /\ \A i \in 1 .. Len(tail.buffer) + Len(more) : (tail.buffer \o more)[i] =
               IF i <= Len(tail.buffer) THEN tail.buffer[i] ELSE more[i - Len(tail.buffer)]
      BY <3>1, ConcatProperties
    <3> QED
      BY <2>3, <3>2
  <2> DEFINE ahead == tail.offset - Len(tail.buffer)
  <2>20. ahead \in Int
    BY <1>1
  <2>6. ASSUME NEW i \in 1 .. Len(tail'.buffer), i > Len(tail.buffer)
        PROVE  /\ i + ahead \in Ahead + 1 .. Len(eve) /\ i + ahead \in 1 .. Len(eve)
               /\ tail'.buffer[i] = eve[i + ahead]
    <3>1. i - Len(tail.buffer) \in 1 .. Len(eve) - tail.offset
      BY <1>1, <2>1, <2>2, <2>5, <2>6
    <3>2. more[i - Len(tail.buffer)] = eve[tail.offset + (i - Len(tail.buffer))]
      BY <2>2, <3>1
    <3>3. tail.offset + (i - Len(tail.buffer)) = i + ahead
      BY <1>1, <3>1
    <3>4. i \in 1 .. Len(tail.buffer) + Len(more) /\ ~(i <= Len(tail.buffer))
      BY <1>1, <2>2, <2>5, <2>6
    <3>5. tail'.buffer[i] = more[i - Len(tail.buffer)]
      BY <2>5, <3>4
    <3>6. i + ahead \in Ahead + 1 .. Len(eve) /\ i + ahead \in 1 .. Len(eve)
      BY <1>1, <2>1, <3>1
    <3> QED
      BY <3>2, <3>3, <3>5, <3>6
  <2> HIDE DEF ahead
  <2>7. ASSUME NEW i \in 1 .. Len(tail'.buffer), ~(i > Len(tail.buffer))
        PROVE  i \in 1 .. Len(tail.buffer) /\ tail'.buffer[i] = tail.buffer[i]
    BY <1>1, <2>2, <2>5, <2>7
  <2>8. ASSUME NEW i \in 1 .. Len(tail'.buffer) PROVE Place(tail'.buffer[i]) <= Written
    <3>1. CASE i > Len(tail.buffer)
      BY <2>6, <3>1 DEF OrderInv, LogInOrder
    <3>2. CASE ~(i > Len(tail.buffer))
      BY <2>7, <3>2 DEF OrderInv, BufferInOrder
    <3> QED
      BY <3>1, <3>2
  <2>9. ASSUME NEW i \in 1 .. Len(tail'.buffer), NEW j \in 1 .. Len(tail'.buffer), i < j
        PROVE  Place(tail'.buffer[i]) < Place(tail'.buffer[j])
    <3>1. CASE ~(j > Len(tail.buffer))
      <4>1. ~(i > Len(tail.buffer))
        BY <1>1, <2>9, <3>1
      <4> QED
        BY <2>7, <2>9, <3>1, <4>1 DEF OrderInv, BufferInOrder
    <3>2. CASE ~(i > Len(tail.buffer)) /\ j > Len(tail.buffer)
      BY <2>6, <2>7, <3>2 DEF OrderInv, BufferInOrder
    <3>3. CASE i > Len(tail.buffer) /\ j > Len(tail.buffer)
      <4>1. i + ahead < j + ahead
        BY <2>20, <2>9
      <4> QED
        BY <2>6, <3>3, <4>1 DEF OrderInv, LogInOrder
    <3> QED
      BY <3>1, <3>2, <3>3
  <2>10. ASSUME NEW i \in 1 .. Len(handled), NEW j \in 1 .. Len(tail'.buffer)
         PROVE  2 * handled[i] + 1 < Place(tail'.buffer[j])
    BY <2>6, <2>7 DEF OrderInv, HandledInOrder
  <2>11. BufferInOrder'
    <3>1. \A i \in 1 .. Len(tail'.buffer) : \A j \in Ahead' + 1 .. Len(eve') :
            Place(tail'.buffer[i]) < Place(eve'[j])
      BY <2>4
    <3> QED
      BY <1>2, <2>8, <2>9, <3>1 DEF BufferInOrder
  <2>12. HandledInOrder'
    BY <1>0, <1>1, <1>2, <2>3, <2>4, <2>10 DEF OrderInv, HandledInOrder
  <2> QED
    BY <1>2, <2>3, <2>11, <2>12 DEF OrderInv, NothingOpen
<1>5. ASSUME FindsTheEnd PROVE OrderInv'
  <2>1. /\ tail'.step = "poll" /\ tail'.position = tail.offset /\ tail'.buffer = tail.buffer
        /\ tail.buffer = <<>> /\ handled' = handled
    BY <1>1, <1>5 DEF FindsTheEnd
  <2>2. Ahead' = Ahead
    BY <1>2, <2>1 DEF Ahead
  <2> QED
    <3>1. Written <= Written' /\ (writer'.half => writer'.lines > 0)
      BY <1>0, <1>1, <1>2 DEF LogInOrder
    <3> QED
      BY <1>0, <1>1, <2>1, <2>2, <3>1, OrderKept
<1> QED
  BY <1>3, <1>4, <1>5, LineRead

LEMMA OrderStep ==
  ASSUME SuricataTypeOK, OrderInv, SuricataNext
  PROVE  OrderInv'
<1>1. SuricataTypeOK'
  BY SuricataTypeStep
<1>2. /\ Written \in Nat /\ Len(eve) \in Nat /\ Ahead \in Nat
      /\ tail \in [step : TailSteps, position : Nat, offset : Nat, buffer : Seq(Chunks)]
      /\ writer \in [lines : 0 .. MaxLines, half : BOOLEAN]
  BY SuricataTypes DEF SuricataTypeOK
<1>3. ASSUME writer' \in {writer, [writer EXCEPT !.half = FALSE]}
      PROVE  Written <= Written' /\ (writer'.half => writer'.lines > 0)
  BY <1>2, <1>3, SuricataAssumption DEF Written, OrderInv, LogInOrder
<1>4. CASE WriteLine
  BY <1>1, <1>4, OrderOfWriting
<1>5. CASE SuricataDies \/ suricata_stop
  <2>1. writer' \in {writer, [writer EXCEPT !.half = FALSE]} /\ UNCHANGED <<eve, tail, handled>>
    BY <1>5 DEF SuricataDies, suricata_stop
  <2>2. Ahead' = Ahead
    BY <2>1 DEF Ahead
  <2>3. /\ tail'.step = "read" \/ tail'.buffer = <<>>
        /\ tail'.step \in {"start", "position"} => handled = <<>>
    BY <2>1 DEF OrderInv, NothingOpen
  <2> QED
    BY <1>1, <1>3, <2>1, <2>2, <2>3, OrderKept
<1>6. CASE CutLog
  <2>1. eve' = <<>> /\ Len(eve') = 0 /\ UNCHANGED <<writer, tail, handled>> /\ Written' = Written
    BY <1>6 DEF CutLog, Written
  <2>2. Ahead' \in Nat
    BY <1>2, <2>1 DEF Ahead
  <2>3. LogInOrder'
    BY <2>1 DEF OrderInv, LogInOrder
  <2>6. ~ \E j : j \in Ahead' + 1 .. Len(eve')
    <3>1. Len(eve') = 0
      BY <2>1
    <3> QED
      BY <2>2, <3>1
  <2>4. BufferInOrder'
    BY <2>1, <2>6 DEF OrderInv, BufferInOrder
  <2>5. HandledInOrder'
    BY <2>1, <2>6 DEF OrderInv, HandledInOrder
  <2> QED
    BY <2>1, <2>3, <2>4, <2>5 DEF OrderInv, NothingOpen
<1>7. CASE suricata_run
  <2>1. UNCHANGED <<eve, writer>> /\ writer' \in {writer, [writer EXCEPT !.half = FALSE]}
    BY <1>7 DEF suricata_run
  <2>2. CASE StartTailing \/ TailLoop \/ CheckProcess \/ RestartSuricata
    <3>1. /\ tail'.position = tail.position /\ tail'.buffer = tail.buffer
          /\ tail.step # "read" /\ tail'.step # "read" /\ handled' = handled
          /\ tail'.step \in {"start", "position"} => tail.step \in {"start", "position"}
      BY <1>2, <2>2 DEF StartTailing, TailLoop, CheckProcess, RestartSuricata, TailGoto
    <3>2. Ahead' = Ahead
      BY <2>1, <3>1 DEF Ahead
    <3>3. /\ tail'.step = "read" \/ tail'.buffer = <<>>
          /\ tail'.step \in {"start", "position"} => handled = <<>>
      BY <3>1 DEF OrderInv, NothingOpen
    <3> QED
      BY <1>1, <1>3, <2>1, <3>1, <3>2, <3>3, OrderKept
  <2>3. CASE FirstPosition
    <3>1. /\ tail'.step = "loop" /\ tail'.buffer = tail.buffer /\ tail.buffer = <<>>
          /\ handled' = <<>> /\ Written' = Written
      BY <1>2, <2>1, <2>3 DEF FirstPosition, OrderInv, NothingOpen, Written
    <3>2. LogInOrder'
      BY <2>1, <3>1 DEF OrderInv, LogInOrder
    <3> QED
      BY <3>1, <3>2 DEF OrderInv, BufferInOrder, HandledInOrder, NothingOpen
  <2>4. CASE CheckSize
    <3> DEFINE position == IF Shrunk THEN PositionAfterCut ELSE tail.position
    <3>1. /\ tail'.step \in {"read", "poll"} /\ tail'.position = position
          /\ tail'.offset = position /\ tail'.buffer = tail.buffer /\ handled' = handled
          /\ tail.step = "size"
      BY <1>2, <2>4 DEF CheckSize
    <3>2. position = Ahead /\ position <= Len(eve)
      BY <1>2, <3>1 DEF Ahead, Shrunk, PositionAfterCut
    <3> HIDE DEF position
    <3>3. Ahead' = Ahead
      BY <1>2, <2>1, <3>1, <3>2 DEF Ahead
    <3>4. /\ tail'.step = "read" \/ tail'.buffer = <<>>
          /\ tail'.step \in {"start", "position"} => handled = <<>>
      BY <3>1 DEF OrderInv, NothingOpen
    <3> QED
      BY <1>1, <1>3, <2>1, <3>1, <3>3, <3>4, OrderKept
  <2>5. CASE ReadLog
    BY <1>1, <2>1, <2>5, OrderOfReading
  <2> QED
    BY <1>7, <2>2, <2>3, <2>4, <2>5 DEF suricata_run
<1> QED
  BY <1>4, <1>5, <1>6, <1>7 DEF SuricataNext

-----------------------------------------------------------------------------
\* Nothing of what was read is lost.

LEMMA SettledOfWaiting ==
  ASSUME SuricataTypeOK, SettledInv, UNCHANGED <<before, handled, torn>>,
         tail'.step # "read", tail'.step \notin {"start", "position"} =>
           tail.step \notin {"start", "position"},
         ~cutUnseen' => ~cutUnseen, Processed' = Processed, eve' = eve
  PROVE  SettledInv'
  BY DEF SettledInv, Settled, WholeLines, StartOf, EndOf

LEMMA SettledOfOthers ==
  ASSUME SuricataTypeOK, SettledInv, UNCHANGED <<tail, before, handled, torn>>,
         WriteLine \/ SuricataDies \/ suricata_stop
  PROVE  SettledInv'
<1>1. Processed' = Processed /\ UNCHANGED <<tail, cutUnseen>>
  BY DEF Processed, WriteLine, SuricataDies, suricata_stop
<1>2. CASE UNCHANGED eve
  BY <1>1, <1>2 DEF SettledInv, Settled, WholeLines, StartOf, EndOf
<1>3. CASE WriteLine
  <2> SUFFICES ASSUME tail.step \notin {"start", "position"}, ~cutUnseen
               PROVE  SettledInv'
    BY <1>1 DEF SettledInv
  <2>1. /\ Len(eve') = Len(eve) + 1 /\ Len(eve) \in Nat
        /\ \A i \in 1 .. Len(eve) : eve'[i] = eve[i]
    BY <1>3, AppendProperties, LenProperties DEF WriteLine, SuricataTypeOK, StartOf, EndOf
  <2>2. Processed \in 0 .. Len(eve)
    BY DEF SettledInv
  <2>3. WholeLines(Processed)' = WholeLines(Processed)
    <3>1. \A i \in 2 .. Processed :
            /\ eve'[i] = eve[i] /\ eve'[i - 1] = eve[i - 1] /\ i <= Len(eve) /\ i <= Len(eve')
            /\ i > 2 => eve'[i - 2] = eve[i - 2]
      BY <2>1, <2>2
    <3> QED
      BY <1>1, <3>1 DEF WholeLines, StartOf, EndOf
  <2>4. ASSUME tail.step = "read", NEW i \in 1 .. Len(tail.buffer)
        PROVE  tail.buffer[i] = eve'[Processed + i]
    <3>1. /\ tail.buffer[i] = eve[Processed + i] /\ Processed = tail.offset - Len(tail.buffer)
          /\ tail.offset <= Len(eve)
      BY <2>4 DEF SettledInv, Processed
    <3>2. tail.offset \in Nat /\ Len(tail.buffer) \in Nat
      BY SuricataTypes
    <3>3. Processed + i \in 1 .. Len(eve)
      BY <2>1, <2>2, <3>1, <3>2
    <3> QED
      BY <2>1, <3>1, <3>3
  <2>5. Processed > 0 => eve'[Processed] = eve[Processed]
    BY <2>1, <2>2
  <2>6. UNCHANGED <<before, torn, handled>> /\ Processed \in 0 .. Len(eve')
    BY <2>1, <2>2
  <2>7. \A n \in WholeLines(Processed)' : Settled(n)'
    BY <2>3, <2>6 DEF SettledInv, Settled
  <2>8. tail.step = "read" => tail.offset <= Len(eve')
    BY <2>1, SuricataTypes DEF SettledInv
  <2>9. Processed' > 0 /\ eve'[Processed'].part = "start" =>
          eve'[Processed'].line <= before' \/ eve'[Processed'].line \in torn'
    BY <1>1, <2>5, <2>6 DEF SettledInv
  <2> QED
    BY <1>1, <2>4, <2>6, <2>7, <2>8, <2>9 DEF SettledInv
<1> QED
  BY <1>2, <1>3 DEF SuricataDies, suricata_stop

LEMMA SettledOfLine ==
  ASSUME SuricataTypeOK, SettledInv, ReadLog, UNCHANGED <<eve, before, cutUnseen>>,
         NEW n \in 1 .. Len(tail.buffer), TakesLine(n)
  PROVE  SettledInv'
<1> SUFFICES ASSUME ~cutUnseen PROVE SettledInv'
  BY DEF SettledInv
<1> DEFINE p == Processed
<1>1. /\ tail.offset \in Nat /\ Len(tail.buffer) \in Nat /\ Len(eve) \in Nat
      /\ tail \in [step : TailSteps, position : Nat, offset : Nat, buffer : Seq(Chunks)]
      /\ tail.buffer \in Seq(Chunks) /\ handled \in Seq(1 .. MaxLines)
      /\ \A i \in 1 .. Len(tail.buffer) : tail.buffer[i] \in Chunks
  BY SuricataTypes
<1>2. /\ tail.step = "read" /\ p = tail.offset - Len(tail.buffer)
      /\ p \in 0 .. Len(eve) /\ tail.offset <= Len(eve)
      /\ \A i \in 1 .. Len(tail.buffer) : tail.buffer[i] = eve[p + i]
      /\ \A m \in WholeLines(p) : Settled(m)
      /\ p > 0 /\ eve[p].part = "start" => eve[p].line <= before \/ eve[p].line \in torn
  BY DEF ReadLog, SettledInv, Processed
<1>3. /\ tail'.step = "read" /\ tail'.offset = tail.offset
      /\ tail'.buffer = SubSeq(tail.buffer, n + 1, Len(tail.buffer))
  BY <1>1, <1>2 DEF TakesLine
<1>4. /\ Len(tail'.buffer) = Len(tail.buffer) - n
      /\ \A i \in 1 .. Len(tail.buffer) - n : tail'.buffer[i] = tail.buffer[n + i]
  BY <1>1, <1>3, RestOfSeq
<1>5. Processed' = p + n
  BY <1>1, <1>2, <1>3, <1>4 DEF Processed
<1> HIDE DEF p
<1>6. p + n \in 0 .. Len(eve)
  BY <1>1, <1>2
<1>7. ASSUME NEW i \in 1 .. Len(tail'.buffer) PROVE tail'.buffer[i] = eve[p + n + i]
  <2>1. n + i \in 1 .. Len(tail.buffer) /\ i \in 1 .. Len(tail.buffer) - n
    BY <1>1, <1>4
  <2>2. tail'.buffer[i] = tail.buffer[n + i] /\ tail.buffer[n + i] = eve[p + (n + i)]
    BY <1>2, <1>4, <2>1
  <2>3. p + (n + i) = p + n + i
    BY <1>1, <1>2, <2>1
  <2> QED
    BY <2>2, <2>3
<1>8. \A m \in 1 .. MaxLines : Settled(m) => Settled(m)'
  <2>1. torn \subseteq torn'
    BY DEF TakesLine
  <2>2. ASSUME NEW m, \E i \in 1 .. Len(handled) : handled[i] = m
        PROVE  \E i \in 1 .. Len(handled') : handled'[i] = m
    <3>1. CASE handled' = handled
      BY <2>2, <3>1
    <3>2. CASE handled' = Append(handled, tail.buffer[1].line)
      <4>1. tail.buffer[1].line \in 1 .. MaxLines
        BY <1>1 DEF Chunks
      <4>2. /\ Len(handled') = Len(handled) + 1 /\ Len(handled) \in Nat
            /\ \A i \in 1 .. Len(handled) : handled'[i] = handled[i]
        BY <1>1, <3>2, <4>1, AppendProperties, LenProperties
      <4> QED
        BY <2>2, <4>2
    <3> QED
      BY <3>1, <3>2 DEF TakesLine
  <2> QED
    BY <2>1, <2>2 DEF Settled
<1>9. ASSUME NEW m \in WholeLines(p + n) PROVE Settled(m)'
  <2>1. PICK i \in 2 .. p + n : /\ i <= Len(eve) /\ eve[i - 1] = StartOf(m) /\ eve[i] = EndOf(m)
                                /\ i > 2 => eve[i - 2].part = "end"
    BY DEF WholeLines
  <2>2. m \in 1 .. MaxLines
    BY DEF WholeLines
  <2>3. CASE i <= p
    <3>1. i \in 2 .. p
      BY <1>2, <2>3
    <3>2. m \in WholeLines(p)
      BY <2>1, <2>2, <3>1 DEF WholeLines
    <3> QED
      BY <1>2, <1>8, <2>2, <3>2
  <2>4. ASSUME i > p PROVE Settled(m)'
    <3> DEFINE k == i - p
    <3>1. k \in 1 .. n /\ p + k = i
      BY <1>2, <2>4
    <3> HIDE DEF k
    <3>2. tail.buffer[k] = EndOf(m) /\ tail.buffer[k].part = "end"
      <4>1. k \in 1 .. Len(tail.buffer)
        BY <1>1, <3>1
      <4>2. tail.buffer[k] = eve[i]
        BY <1>2, <3>1, <4>1
      <4> QED
        BY <2>1, <4>2 DEF EndOf
    <3>3. k = n
      <4>1. k \notin 1 .. n - 1
        BY <3>2 DEF TakesLine
      <4>2. n \in Nat
        BY <1>1
      <4> QED
        BY <3>1, <4>1, <4>2
    <3>4. CASE n = 1
      <4>1. i - 1 = p /\ p > 0
        BY <1>2, <2>1, <3>1, <3>3, <3>4
      <4>2. eve[p].part = "start" /\ eve[p].line = m
        BY <2>1, <4>1 DEF StartOf
      <4>3. m <= before \/ m \in torn
        BY <1>2, <4>1, <4>2
      <4>4. Settled(m)
        BY <2>2, <4>3, SuricataAssumption DEF Settled, SuricataTypeOK
      <4> QED
        BY <1>8, <2>2, <4>4
    <3>5. CASE n > 2
      <4>0. p + n = i /\ n \in Int /\ p \in Nat
        BY <1>2, <3>1, <3>3
      <4>1. /\ n - 2 \in 1 .. n - 1 /\ n - 2 \in 1 .. Len(tail.buffer)
            /\ p + (n - 2) = i - 2 /\ i > 2
        BY <1>1, <3>5, <4>0
      <4>2. eve[i - 2] = tail.buffer[n - 2] /\ tail.buffer[n - 2].part = "start"
        BY <1>2, <4>1 DEF TakesLine
      <4> QED
        BY <2>1, <4>1, <4>2
    <3>6. CASE n = 2
      <4>1. 1 \in 1 .. Len(tail.buffer) /\ p + 1 = i - 1
        BY <1>1, <1>2, <2>1, <3>1, <3>3, <3>6
      <4>2. tail.buffer[1] = StartOf(m) /\ tail.buffer[2] = EndOf(m)
        BY <1>2, <2>1, <3>2, <3>3, <3>6, <4>1
      <4>3. handled' = Append(handled, m)
        BY <3>6, <4>2 DEF TakesLine, StartOf, EndOf
      <4>4. Len(handled') = Len(handled) + 1 /\ handled'[Len(handled) + 1] = m /\ Len(handled) \in Nat
        BY <1>1, <2>2, <4>3, AppendProperties, LenProperties
      <4> QED
        BY <4>4 DEF Settled
    <3> QED
      BY <1>1, <3>4, <3>5, <3>6
  <2> QED
    BY <1>2, <2>1, <2>3, <2>4
<1>10. eve[p + n].part = "start" => eve[p + n].line \in torn'
  BY <1>2 DEF TakesLine
<1>11. \A q : WholeLines(q)' = WholeLines(q)
  BY DEF WholeLines, StartOf, EndOf
<1>12. PICK q : q = p + n
  OBVIOUS
<1>13. \A m \in WholeLines(Processed)' : Settled(m)'
  <2>1. WholeLines(Processed)' = WholeLines(q)'
    BY <1>5, <1>12 DEF WholeLines, StartOf, EndOf
  <2> QED
    BY <1>9, <1>11, <1>12, <2>1
<1>14. tail'.offset <= Len(eve') /\ Processed' \in 0 .. Len(eve')
  BY <1>2, <1>3, <1>5, <1>6
<1>15. \A i \in 1 .. Len(tail'.buffer) : tail'.buffer[i] = eve'[Processed' + i]
  BY <1>5, <1>7
<1>16. eve'[Processed'].part = "start" => eve'[Processed'].line \in torn'
  BY <1>5, <1>10
<1> QED
  BY <1>13, <1>14, <1>15, <1>16 DEF SettledInv

LEMMA SettledOfReading ==
  ASSUME SuricataTypeOK, SettledInv, ReadLog, UNCHANGED <<eve, before, cutUnseen>>
  PROVE  SettledInv'
<1>1. /\ tail.offset \in Nat /\ Len(tail.buffer) \in Nat /\ Len(eve) \in Nat
      /\ eve \in Seq(Chunks) /\ tail.buffer \in Seq(Chunks)
      /\ tail \in [step : TailSteps, position : Nat, offset : Nat, buffer : Seq(Chunks)]
  BY SuricataTypes
<1>2. tail.step = "read" /\ Processed = tail.offset - Len(tail.buffer)
  BY DEF ReadLog, Processed
<1>3. ASSUME ReadsMore, ~cutUnseen PROVE SettledInv'
  <2> DEFINE p == Processed
             more == SubSeq(eve, tail.offset + 1, Len(eve))
  <2>1. /\ p \in 0 .. Len(eve) /\ tail.offset \in 0 .. Len(eve)
        /\ \A i \in 1 .. Len(tail.buffer) : tail.buffer[i] = eve[p + i]
    BY <1>1, <1>2, <1>3 DEF SettledInv
  <2>2. /\ more \in Seq(Chunks) /\ Len(more) = Len(eve) - tail.offset
        /\ \A i \in 1 .. Len(eve) - tail.offset : more[i] = eve[tail.offset + i]
    BY <1>1, <2>1, RestOfSeq
  <2>3. /\ tail'.step = "read" /\ tail'.offset = Len(eve) /\ tail'.buffer = tail.buffer \o more
    BY <1>1, <1>2, <1>3 DEF ReadsMore
  <2> HIDE DEF more
  <2>4. /\ Len(tail'.buffer) = Len(tail.buffer) + Len(more)
        /\ \A i \in 1 .. Len(tail.buffer) + Len(more) : tail'.buffer[i] =
             IF i <= Len(tail.buffer) THEN tail.buffer[i] ELSE more[i - Len(tail.buffer)]
    <3>1. /\ Len(tail.buffer \o more) = Len(tail.buffer) + Len(more)
          /\ \A i \in 1 .. Len(tail.buffer) + Len(more) : (tail.buffer \o more)[i] =
               IF i <= Len(tail.buffer) THEN tail.buffer[i] ELSE more[i - Len(tail.buffer)]
      BY <1>1, <2>2, ConcatProperties
    <3> QED
      BY <2>3, <3>1
  <2>5. Processed' = p
    BY <1>1, <1>2, <2>2, <2>3, <2>4 DEF Processed
  <2> HIDE DEF p
  <2>6. ASSUME NEW i \in 1 .. Len(tail'.buffer) PROVE tail'.buffer[i] = eve[p + i]
    <3>1. i \in 1 .. Len(tail.buffer) + Len(more) /\ Len(more) \in Nat
      BY <1>1, <2>1, <2>2, <2>4
    <3>2. CASE i <= Len(tail.buffer)
      <4>1. i \in 1 .. Len(tail.buffer)
        BY <1>1, <3>1, <3>2
      <4> QED
        BY <2>1, <2>4, <3>1, <3>2, <4>1
    <3>3. CASE ~(i <= Len(tail.buffer))
      <4> DEFINE k == i - Len(tail.buffer)
      <4>1. k \in 1 .. Len(eve) - tail.offset /\ tail.offset + k = p + i
        BY <1>1, <1>2, <2>2, <3>1, <3>3 DEF p
      <4>2. tail'.buffer[i] = more[k]
        BY <2>4, <3>1, <3>3
      <4> HIDE DEF k
      <4>3. more[k] = eve[tail.offset + k]
        BY <2>2, <4>1
      <4> QED
        BY <4>1, <4>2, <4>3
    <3> QED
      BY <3>2, <3>3
  <2>7. UNCHANGED <<eve, before, handled, torn, cutUnseen>>
    BY <1>3 DEF ReadsMore
  <2>8. \A m \in WholeLines(Processed)' : Settled(m)'
    <3>1. WholeLines(Processed)' = WholeLines(Processed)
      BY <2>5, <2>7 DEF WholeLines, StartOf, EndOf, p
    <3> QED
      BY <1>2, <1>3, <2>7, <3>1 DEF SettledInv, Settled
  <2>9. Processed' > 0 /\ eve'[Processed'].part = "start" =>
          eve'[Processed'].line <= before' \/ eve'[Processed'].line \in torn'
    BY <1>2, <1>3, <2>5, <2>7 DEF SettledInv, p
  <2>10. /\ Processed' \in 0 .. Len(eve') /\ tail'.offset <= Len(eve')
         /\ \A i \in 1 .. Len(tail'.buffer) : tail'.buffer[i] = eve'[Processed' + i]
    BY <1>1, <2>1, <2>3, <2>5, <2>6, <2>7
  <2> QED
    BY <2>8, <2>9, <2>10 DEF SettledInv
<1>4. ASSUME FindsTheEnd PROVE SettledInv'
  <2>1. tail'.step = "poll" /\ tail'.position = tail.offset /\ Len(tail.buffer) = 0
    BY <1>1, <1>4 DEF FindsTheEnd
  <2>2. Processed' = Processed
    BY <1>1, <1>2, <2>1 DEF Processed
  <2>3. UNCHANGED <<before, handled, torn>>
    BY <1>4 DEF FindsTheEnd
  <2> QED
    BY <1>2, <2>1, <2>2, <2>3, SettledOfWaiting
<1>5. CASE cutUnseen
  BY <1>5 DEF SettledInv
<1> QED
  BY <1>3, <1>4, <1>5, LineRead, SettledOfLine

LEMMA SettledStep ==
  ASSUME SuricataTypeOK, OrderInv, SettledInv, SuricataNext
  PROVE  SettledInv'
<1>1. /\ Len(eve) \in Nat /\ Len(tail.buffer) \in Nat
      /\ tail \in [step : TailSteps, position : Nat, offset : Nat, buffer : Seq(Chunks)]
      /\ \A i \in 1 .. Len(eve) : eve[i] \in Chunks
      /\ writer \in [lines : 0 .. MaxLines, half : BOOLEAN]
  BY SuricataTypes DEF SuricataTypeOK
<1>2. CASE WriteLine \/ SuricataDies \/ suricata_stop
  BY <1>2, SettledOfOthers DEF WriteLine, SuricataDies, suricata_stop
<1>3. CASE CutLog
  <2> SUFFICES ASSUME tail.step \notin {"start", "position"}, ~cutUnseen' PROVE SettledInv'
    BY <1>3 DEF CutLog, SettledInv
  <2>1. /\ ~cutUnseen /\ tail.position = 0 /\ tail.offset = 0
        /\ Len(eve') = 0 /\ UNCHANGED <<tail, before, handled, torn>>
    <3>1. cutUnseen' = (cutUnseen \/ tail.position > 0 \/ tail.offset > 0)
      BY <1>3 DEF CutLog
    <3>2. ~cutUnseen /\ ~(tail.position > 0) /\ ~(tail.offset > 0)
      BY <3>1
    <3>3. eve' = <<>> /\ UNCHANGED <<tail, before, handled, torn>>
      BY <1>3 DEF CutLog
    <3> QED
      BY <1>1, <3>2, <3>3
  <2>2. Processed = 0 /\ Processed' = 0 /\ (tail.step = "read" => Len(tail.buffer) = 0)
    BY <1>1, <2>1 DEF SettledInv, Processed
  <2>3. WholeLines(Processed)' = {}
    BY <2>2 DEF WholeLines
  <2> QED
    BY <2>1, <2>2, <2>3 DEF SettledInv
<1>4. CASE suricata_run
  <2>1. UNCHANGED <<eve, writer>>
    BY <1>4 DEF suricata_run
  <2>2. CASE StartTailing
    BY <1>1, <2>2 DEF StartTailing, TailGoto, SettledInv
  <2>3. CASE TailLoop \/ CheckProcess \/ RestartSuricata
    <3>1. /\ tail'.position = tail.position /\ tail.step \in {"loop", "poll", "restart"}
          /\ tail'.step \notin {"start", "position", "read"}
          /\ UNCHANGED <<before, handled, torn, cutUnseen>>
      BY <1>1, <2>3 DEF TailLoop, CheckProcess, RestartSuricata, TailGoto
    <3>2. Processed' = Processed
      BY <3>1 DEF Processed
    <3> QED
      BY <2>1, <3>1, <3>2, SettledOfWaiting
  <2>4. CASE FirstPosition
    <3>1. /\ tail'.step = "loop" /\ tail'.position = Len(eve) /\ before' = writer.lines
          /\ UNCHANGED <<eve, handled, torn>>
      BY <1>1, <2>1, <2>4 DEF FirstPosition
    <3>2. ASSUME NEW i \in 1 .. Len(eve)
          PROVE  eve[i].line <= writer.lines
      <4>1. Place(eve[i]) <= Written
        BY DEF OrderInv, LogInOrder
      <4>2. eve[i].line \in Nat /\ writer.lines \in Nat
        BY <1>1, SuricataAssumption DEF Chunks
      <4> QED
        BY <4>1, <4>2 DEF Place, Written
    <3>3. Processed' = Len(eve)
      BY <3>1 DEF Processed
    <3>4. ASSUME NEW m \in WholeLines(Processed)' PROVE Settled(m)'
      <4>1. PICK i \in 2 .. Len(eve) : eve[i] = EndOf(m)
        BY <3>1, <3>3, <3>4 DEF WholeLines
      <4>2. eve[i].line = m /\ i \in 1 .. Len(eve)
        BY <4>1 DEF EndOf
      <4>3. m \in Nat /\ writer.lines \in Nat /\ m <= writer.lines
        BY <1>1, <3>2, <4>2, SuricataAssumption DEF Chunks
      <4> QED
        BY <3>1, <4>3 DEF Settled
    <3> QED
      BY <1>1, <3>1, <3>2, <3>3, <3>4 DEF SettledInv
  <2>5. CASE CheckSize
    <3> DEFINE position == IF Shrunk THEN PositionAfterCut ELSE tail.position
    <3>1. /\ tail.step = "size" /\ tail'.step \in {"read", "poll"} /\ tail'.position = position
          /\ tail'.offset = position /\ tail'.buffer = tail.buffer
          /\ cutUnseen' = (cutUnseen /\ ~Shrunk) /\ UNCHANGED <<before, handled, torn>>
      BY <1>1, <2>5 DEF CheckSize
    <3>2. tail.buffer = <<>> /\ Len(tail.buffer) = 0
      BY <3>1 DEF OrderInv, NothingOpen
    <3>3. Processed = tail.position
      BY <3>1 DEF Processed
    <3>4. Processed' = position /\ position \in 0 .. Len(eve)
      BY <1>1, <3>1, <3>2 DEF Processed, Shrunk, PositionAfterCut
    <3>5. /\ Processed' \in 0 .. Len(eve') /\ tail'.offset <= Len(eve')
          /\ \A i \in 1 .. Len(tail'.buffer) : tail'.buffer[i] = eve'[Processed' + i]
      BY <2>1, <3>1, <3>2, <3>4
    <3>6. CASE Shrunk
      <4>1. Processed' = 0
        BY <3>4, <3>6 DEF PositionAfterCut
      <4>2. WholeLines(Processed)' = {}
        BY <4>1 DEF WholeLines
      <4> QED
        BY <3>5, <4>1, <4>2 DEF SettledInv
    <3>7. CASE ~Shrunk
      <4>1. Processed' = Processed /\ cutUnseen' = cutUnseen
        BY <3>1, <3>3, <3>4, <3>7 DEF SuricataTypeOK
      <4>2. WholeLines(Processed)' = WholeLines(Processed)
        BY <2>1, <4>1 DEF WholeLines, StartOf, EndOf
      <4>3. ~cutUnseen => \A n \in WholeLines(Processed)' : Settled(n)'
        BY <3>1, <4>2 DEF SettledInv, Settled
      <4>4. ~cutUnseen /\ Processed' > 0 /\ eve'[Processed'].part = "start" =>
              eve'[Processed'].line <= before' \/ eve'[Processed'].line \in torn'
        BY <2>1, <3>1, <4>1 DEF SettledInv
      <4> QED
        BY <3>5, <4>1, <4>3, <4>4 DEF SettledInv
    <3> QED
      BY <3>6, <3>7
  <2>6. CASE ReadLog
    BY <2>1, <2>6, SettledOfReading DEF ReadLog
  <2> QED
    BY <1>4, <2>2, <2>3, <2>4, <2>5, <2>6 DEF suricata_run
<1> QED
  BY <1>2, <1>3, <1>4 DEF SuricataNext

\* stop() ends Suricata; the thread starts none after the event, but the start under way.
LEMMA StopStep ==
  ASSUME SuricataTypeOK, StopInv, SuricataStops, SuricataNext
  PROVE  StopInv' /\ SuricataStops'
<1>1. tail \in [step : TailSteps, position : Nat, offset : Nat, buffer : Seq(Chunks)]
  BY SuricataTypes
<1> USE DEF StopInv, SuricataStops
<1>2. CASE WriteLine \/ SuricataDies \/ CutLog
  BY <1>2 DEF WriteLine, SuricataDies, CutLog
<1>3. CASE suricata_run
  <2>1. UNCHANGED <<stopping, raced>>
    BY <1>3 DEF suricata_run
  <2>2. tail'.step \in {"start", "restart"} => tail.step \in {"start", "restart"} \/ stopping = "no"
    <3>1. CASE StartTailing \/ FirstPosition \/ TailLoop \/ CheckSize \/ RestartSuricata
      BY <1>1, <3>1 DEF StartTailing, FirstPosition, TailLoop, CheckSize, RestartSuricata, TailGoto
    <3>2. CASE CheckProcess
      BY <1>1, <3>2 DEF CheckProcess, MayRestart, TailGoto
    <3>3. CASE ReadLog
      BY <1>1, <3>3 DEF ReadLog
    <3> QED
      BY <1>3, <3>1, <3>2, <3>3 DEF suricata_run
  <2>3. process' = process \/ tail.step \in {"start", "restart"}
    BY <1>3 DEF suricata_run, StartTailing, FirstPosition, TailLoop, CheckSize, ReadLog,
                CheckProcess, RestartSuricata
  <2> QED
    BY <2>1, <2>2, <2>3
<1>4. CASE suricata_stop
  <2>1. CASE stopping = "no" /\ stopping' = "set"
    BY <2>1
  <2>2. CASE stopping = "set"
    <3>1. /\ process' # "running" /\ raced' = (tail.step \in {"start", "restart"})
          /\ tail' = tail
      BY <1>4, <2>2 DEF suricata_stop
    <3> QED
      BY <3>1
  <2> QED
    BY <1>4, <2>1, <2>2 DEF suricata_stop
<1> QED
  BY <1>2, <1>3, <1>4 DEF SuricataNext

LEMMA AlertsFromInv == SuricataInv => AlertsInOrder
<1> SUFFICES ASSUME SuricataInv PROVE AlertsInOrder
  OBVIOUS
<1>1. \A i, j \in 1 .. Len(handled) : i < j => handled[i] < handled[j]
  BY DEF SuricataInv, OrderInv, HandledInOrder
<1>2. ASSUME tail.step \in {"poll", "restart", "loop", "size", "end"}, ~cutUnseen
      PROVE  \A n \in WholeLines(tail.position) : Settled(n)
  BY <1>2 DEF SuricataInv, SettledInv, Processed
<1> QED
  BY <1>1, <1>2 DEF AlertsInOrder, Settled

LEMMA SuricataKeeps == SuricataInv /\ [SuricataNext]_suricataVars => SuricataInv'
<1>1. ASSUME SuricataInv, SuricataNext
      PROVE  SuricataInv'
  BY <1>1, SuricataTypeStep, OrderStep, SettledStep, StopStep DEF SuricataInv
<1>2. ASSUME SuricataInv, UNCHANGED suricataVars
      PROVE  SuricataInv'
  <2>1. SuricataTypeOK' /\ SuricataStops' /\ StopInv'
    BY <1>2 DEF suricataVars, SuricataInv, SuricataTypeOK, StopInv, SuricataStops
  <2>2. OrderInv'
    BY <1>2 DEF suricataVars, SuricataInv, OrderInv, LogInOrder, BufferInOrder,
                HandledInOrder, NothingOpen, Place, Written, Ahead
  <2>3. SettledInv'
    BY <1>2 DEF suricataVars, SuricataInv, SettledInv, Settled, Processed, WholeLines
  <2> QED
    BY <2>1, <2>2, <2>3 DEF SuricataInv
<1> QED
  BY <1>1, <1>2

-----------------------------------------------------------------------------
\* Wazuh: the file of alerts, the children that print it, and the thread that reads.

InPipe(n) == \E i \in 1 .. Len(child.pipe) : child.pipe[i] = n

\* The pipe holds alerts in their order, which the child has printed.
PipeInv ==
  /\ child.next <= Len(levels) + 1
  /\ \A i \in 1 .. Len(child.pipe) : child.pipe[i] < child.next
  /\ \A i, j \in 1 .. Len(child.pipe) : i < j => child.pipe[i] < child.pipe[j]
  /\ connects = 0 => child.next = 1 /\ child.state = "none" /\ reader # "read"

\* What a child has printed is still in the pipe if it was not read, and what it has not
\* printed, or nobody has read, was passed on by other children only.
PassedInv ==
  \A n \in 1 .. Len(levels) :
    /\ n < child.next /\ levels[n] >= min_level => passed[n] > 0 \/ n \in skipped \/ InPipe(n)
    /\ passed[n] <= connects
    /\ connects > 0 /\ (n >= child.next \/ InPipe(n)) => passed[n] < connects

UnusedInv == \A n \in 1 .. MaxAlerts : n > Len(levels) => passed[n] = 0

ChildStops == wazuhStop = "done" /\ child.state = "running" => racedChild

ChildStopInv == ChildStops /\ (wazuhStop = "done" /\ reader = "connect" => racedChild)

WazuhInv == WazuhTypeOK /\ PipeInv /\ PassedInv /\ UnusedInv /\ ChildStopInv

LEMMA WazuhStarts == WazuhInit => WazuhInv
<1> SUFFICES ASSUME WazuhInit PROVE WazuhInv
  OBVIOUS
<1> USE WazuhAssumption
<1>1. /\ levels = <<>> /\ Len(levels) = 0 /\ child.pipe = <<>> /\ Len(child.pipe) = 0
      /\ child.next = 1 /\ child.state = "none" /\ reader = "check" /\ wazuhStop = "no"
      /\ connects = 0 /\ passed = [n \in 1 .. MaxAlerts |-> 0]
  BY DEF WazuhInit
<1>2. child \in [state : {"none", "running", "ended"}, next : 1 .. MaxAlerts + 1,
                 pipe : Seq(1 .. MaxAlerts)]
  <2>1. <<>> \in Seq(1 .. MaxAlerts) /\ 1 \in 1 .. MaxAlerts + 1
    OBVIOUS
  <2> QED
    BY <2>1 DEF WazuhInit
<1>3. passed \in [1 .. MaxAlerts -> Nat] /\ levels \in Seq(Levels) /\ Len(levels) <= MaxAlerts
  BY <1>1
<1>4. hangUps \in 0 .. MaxHangUps
  <2>1. 0 \in 0 .. MaxHangUps
    OBVIOUS
  <2> QED
    BY <2>1 DEF WazuhInit
<1>6. skipped \subseteq 1 .. MaxAlerts /\ racedChild \in BOOLEAN
  BY DEF WazuhInit
<1>5. WazuhTypeOK
  BY <1>1, <1>2, <1>3, <1>4, <1>6 DEF WazuhTypeOK
<1> QED
  BY <1>1, <1>5 DEF WazuhInv, PipeInv, PassedInv, UnusedInv, ChildStopInv, ChildStops

Children == [state : {"none", "running", "ended"}, next : 1 .. MaxAlerts + 1,
             pipe : Seq(1 .. MaxAlerts)]

LEMMA WazuhTypes ==
  ASSUME WazuhTypeOK
  PROVE  /\ child \in Children /\ levels \in Seq(Levels) /\ child.pipe \in Seq(1 .. MaxAlerts)
         /\ Len(levels) \in 0 .. MaxAlerts /\ Len(child.pipe) \in Nat
         /\ child.next \in 1 .. MaxAlerts + 1
         /\ \A i \in 1 .. Len(levels) : levels[i] \in Int
         /\ \A i \in 1 .. Len(child.pipe) : child.pipe[i] \in 1 .. MaxAlerts
         /\ passed \in [1 .. MaxAlerts -> Nat] /\ connects \in Nat
         /\ reader \in {"check", "connect", "read", "end"}
<1>1. /\ child \in Children /\ levels \in Seq(Levels) /\ Len(levels) <= MaxAlerts
      /\ passed \in [1 .. MaxAlerts -> Nat] /\ connects \in Nat
      /\ reader \in {"check", "connect", "read", "end"}
  BY DEF WazuhTypeOK, Children
<1>2. child.pipe \in Seq(1 .. MaxAlerts) /\ child.next \in 1 .. MaxAlerts + 1
  BY <1>1 DEF Children
<1>3. \A i \in 1 .. Len(levels) : levels[i] \in Int
  BY <1>1, ElementOfSeq, WazuhAssumption DEF Levels
<1>4. \A i \in 1 .. Len(child.pipe) : child.pipe[i] \in 1 .. MaxAlerts
  BY <1>2, ElementOfSeq
<1> QED
  BY <1>1, <1>2, <1>3, <1>4, LenProperties

LEMMA WazuhTypeStep ==
  ASSUME WazuhTypeOK, PipeInv, WazuhNext
  PROVE  WazuhTypeOK'
<1> USE WazuhAssumption
<1>1. /\ child \in Children /\ levels \in Seq(Levels) /\ child.pipe \in Seq(1 .. MaxAlerts)
      /\ Len(levels) \in 0 .. MaxAlerts /\ child.next \in 1 .. MaxAlerts + 1
      /\ \A i \in 1 .. Len(child.pipe) : child.pipe[i] \in 1 .. MaxAlerts
      /\ passed \in [1 .. MaxAlerts -> Nat] /\ connects \in Nat /\ Len(child.pipe) \in Nat
  BY WazuhTypes
<1>2. CASE WazuhAlert
  <2>1. levels' \in Seq(Levels) /\ Len(levels') <= MaxAlerts
    BY <1>1, <1>2, AppendProperties DEF WazuhAlert
  <2> QED
    BY <1>2, <2>1 DEF WazuhAlert, WazuhTypeOK
<1>3. CASE ChildPrints
  <2>1. child.next \in 1 .. MaxAlerts /\ child.next + 1 \in 1 .. MaxAlerts + 1
    BY <1>1, <1>3 DEF ChildPrints
  <2>2. Append(child.pipe, child.next) \in Seq(1 .. MaxAlerts)
    BY <1>1, <2>1, AppendProperties
  <2>3. child' = [child EXCEPT !.next = @ + 1, !.pipe = Append(@, child.next)]
    BY <1>3 DEF ChildPrints
  <2>4. child' \in Children
    BY <1>1, <2>1, <2>2, <2>3 DEF Children
  <2> QED
    BY <1>3, <2>4 DEF ChildPrints, WazuhTypeOK, Children
<1>4. CASE ChildEnds
  <2>1. child' \in Children
    BY <1>1, <1>4 DEF ChildEnds, Children
  <2>2. hangUps' \in 0 .. MaxHangUps
    BY <1>4 DEF ChildEnds, WazuhTypeOK
  <2> QED
    BY <1>4, <2>1, <2>2 DEF ChildEnds, WazuhTypeOK, Children
<1>5. CASE wazuh_run
  <2>1. CASE WhileNotStopped
    BY <1>5, <2>1 DEF wazuh_run, WhileNotStopped, WazuhTypeOK
  <2>2. CASE Connect
    <3> DEFINE begin == IF Len(levels) > TailLines THEN Len(levels) - TailLines + 1 ELSE 1
               fresh == [state |-> "running", next |-> begin, pipe |-> <<>>]
    <3>4. begin \in 1 .. MaxAlerts + 1 /\ 1 .. begin - 1 \subseteq 1 .. MaxAlerts
      BY <1>1
    <3>5. /\ child' = fresh \/ child' = child
          /\ connects' = connects + 1 \/ connects' = connects
          /\ reader' \in {"read", "check"}
          /\ skipped' = skipped \cup {n \in 1 .. begin - 1 : passed[n] = 0} \/ skipped' = skipped
      BY <2>2 DEF Connect
    <3>6. fresh \in Children
      BY <3>4, EmptySeq DEF Children
    <3> HIDE DEF begin, fresh
    <3>1. /\ child' \in Children /\ reader' \in {"check", "connect", "read", "end"}
          /\ connects' \in Nat
      BY <1>1, <3>5, <3>6
    <3>2. hangUps' \in 0 .. MaxHangUps
      BY <2>2 DEF Connect, WazuhTypeOK
    <3>3. skipped' \subseteq 1 .. MaxAlerts
      BY <3>4, <3>5 DEF WazuhTypeOK
    <3> QED
      BY <1>5, <2>2, <3>1, <3>2, <3>3 DEF wazuh_run, Connect, WazuhTypeOK, Children
  <2>3. CASE ReadLine
    <3>2. CASE UNCHANGED <<child, passed, connects, skipped>>
      <4>1. hangUps' \in 0 .. MaxHangUps /\ reader' \in {"read", "check"}
        BY <2>3 DEF ReadLine, WazuhTypeOK
      <4> QED
        BY <1>5, <3>2, <4>1 DEF wazuh_run, WazuhTypeOK
    <3>1. CASE /\ child.pipe # <<>> /\ ProcessAlert(Head(child.pipe))
               /\ child' = [child EXCEPT !.pipe = Tail(@)] /\ UNCHANGED hangUps
      <4>1. Head(child.pipe) \in 1 .. MaxAlerts /\ Tail(child.pipe) \in Seq(1 .. MaxAlerts)
        BY <1>1, <3>1, HeadTailProperties
      <4>2. passed' \in [1 .. MaxAlerts -> Nat]
        <5> DEFINE n == Head(child.pipe)
        <5>1. passed' = passed \/ passed' = [passed EXCEPT ![n] = @ + 1]
          BY <3>1 DEF ProcessAlert
        <5> HIDE DEF n
        <5> QED
          BY <1>1, <5>1
      <4>3. child' \in Children
        BY <1>1, <3>1, <4>1 DEF Children
      <4>4. reader' \in {"read", "check"} /\ UNCHANGED <<hangUps, connects, skipped>>
        BY <2>3, <3>1 DEF ReadLine
      <4> QED
        BY <1>5, <4>2, <4>3, <4>4 DEF wazuh_run, WazuhTypeOK, Children
    <3> QED
      BY <2>3, <3>1, <3>2 DEF ReadLine
  <2> QED
    BY <1>5, <2>1, <2>2, <2>3 DEF wazuh_run
<1>6. CASE wazuh_stop
  <2>1. child' \in Children
    BY <1>1, <1>6 DEF wazuh_stop, Children
  <2>2. racedChild' \in BOOLEAN
    <3>1. CASE reader = "connect"
      BY <1>6, <3>1 DEF wazuh_stop, WazuhTypeOK
    <3>2. CASE reader # "connect"
      BY <1>6, <3>2 DEF wazuh_stop, WazuhTypeOK
    <3> QED
      BY <3>1, <3>2
  <2>3. wazuhStop' \in {"no", "set", "done"}
    BY <1>6 DEF wazuh_stop
  <2> QED
    BY <1>6, <2>1, <2>2, <2>3 DEF wazuh_stop, WazuhTypeOK, Children
<1> QED
  BY <1>2, <1>3, <1>4, <1>5, <1>6 DEF WazuhNext

LEMMA PassedStep ==
  ASSUME WazuhTypeOK, PipeInv, PassedInv, UnusedInv, WazuhNext
  PROVE  PipeInv' /\ PassedInv' /\ UnusedInv'
<1> USE WazuhAssumption
<1>1. /\ child \in Children /\ levels \in Seq(Levels) /\ child.pipe \in Seq(1 .. MaxAlerts)
      /\ Len(levels) \in 0 .. MaxAlerts /\ child.next \in 1 .. MaxAlerts + 1
      /\ \A i \in 1 .. Len(child.pipe) : child.pipe[i] \in 1 .. MaxAlerts
      /\ \A i \in 1 .. Len(levels) : levels[i] \in Int
      /\ passed \in [1 .. MaxAlerts -> Nat] /\ connects \in Nat /\ Len(child.pipe) \in Nat
  BY WazuhTypes
<1>2. CASE WazuhAlert
  <2>1. /\ Len(levels') = Len(levels) + 1 /\ Len(levels') \in 1 .. MaxAlerts
        /\ \A i \in 1 .. Len(levels) : levels'[i] = levels[i]
    BY <1>1, <1>2, AppendProperties DEF WazuhAlert
  <2>2. UNCHANGED <<child, reader, passed, connects, skipped>>
    BY <1>2 DEF WazuhAlert
  <2>3. PipeInv'
    <3>1. child.next <= Len(levels') + 1
      BY <1>1, <2>1 DEF PipeInv
    <3> QED
      BY <2>2, <3>1 DEF PipeInv
  <2>4. UnusedInv'
    BY <1>1, <2>1, <2>2 DEF UnusedInv
  <2>5. ASSUME NEW n \in 1 .. Len(levels')
        PROVE  /\ n < child.next /\ levels'[n] >= min_level =>
                    passed[n] > 0 \/ n \in skipped \/ InPipe(n)
               /\ passed[n] <= connects
               /\ connects > 0 /\ (n >= child.next \/ InPipe(n)) => passed[n] < connects
    <3>1. CASE n \in 1 .. Len(levels)
      BY <2>1, <3>1 DEF PassedInv
    <3>2. CASE n = Len(levels) + 1
      <4>1. passed[n] = 0 /\ ~(n < child.next)
        BY <1>1, <2>1, <3>2 DEF UnusedInv, PipeInv
      <4> QED
        BY <1>1, <4>1
    <3> QED
      BY <1>1, <2>1, <3>1, <3>2
  <2> QED
    BY <2>2, <2>3, <2>4, <2>5 DEF PassedInv, InPipe
<1>3. CASE ChildPrints
  <2>1. /\ child.next <= Len(levels) /\ child.next \in 1 .. MaxAlerts
        /\ UNCHANGED <<levels, reader, passed, connects, skipped>>
        /\ child' = [child EXCEPT !.next = @ + 1, !.pipe = Append(@, child.next)]
        /\ child.state = "running"
    BY <1>1, <1>3 DEF ChildPrints
  <2>2. child'.next = child.next + 1 /\ child'.pipe = Append(child.pipe, child.next)
    BY <1>1, <2>1 DEF Children
  <2>3. /\ Len(child'.pipe) = Len(child.pipe) + 1 /\ child'.pipe[Len(child.pipe) + 1] = child.next
        /\ \A i \in 1 .. Len(child.pipe) : child'.pipe[i] = child.pipe[i]
    BY <1>1, <2>1, <2>2, AppendProperties
  <2>4. \A i \in 1 .. Len(child'.pipe) :
          i \in 1 .. Len(child.pipe) \/ (i = Len(child.pipe) + 1 /\ child'.pipe[i] = child.next)
    BY <1>1, <2>3
  <2>5. PipeInv'
    <3>1. \A i \in 1 .. Len(child'.pipe) : child'.pipe[i] < child'.next
      BY <1>1, <2>2, <2>3, <2>4 DEF PipeInv
    <3>2. ASSUME NEW i \in 1 .. Len(child'.pipe), NEW j \in 1 .. Len(child'.pipe), i < j
          PROVE  child'.pipe[i] < child'.pipe[j]
      <4>1. i \in 1 .. Len(child.pipe) /\ child'.pipe[i] = child.pipe[i]
        BY <1>1, <2>3, <3>2
      <4> QED
        BY <1>1, <2>3, <2>4, <3>2, <4>1 DEF PipeInv
    <3>3. connects' # 0 /\ child'.next <= Len(levels') + 1
      <4>1. connects # 0
        BY <2>1 DEF PipeInv
      <4>2. child.next + 1 <= Len(levels) + 1
        BY <1>1, <2>1
      <4> QED
        BY <2>1, <2>2, <4>1, <4>2
    <3> QED
      BY <3>1, <3>2, <3>3 DEF PipeInv
  <2>6. \A n : InPipe(n)' <=> InPipe(n) \/ n = child.next
    <3>1. ASSUME NEW n, InPipe(n)'
          PROVE  InPipe(n) \/ n = child.next
      BY <2>3, <2>4, <3>1 DEF InPipe
    <3>2. \A i \in 1 .. Len(child.pipe) : i \in 1 .. Len(child'.pipe)
      BY <1>1, <2>3
    <3>3. Len(child.pipe) + 1 \in 1 .. Len(child'.pipe)
      BY <1>1, <2>3
    <3>4. ASSUME NEW n, InPipe(n) \/ n = child.next
          PROVE  InPipe(n)'
      BY <2>3, <3>2, <3>3, <3>4 DEF InPipe
    <3> QED
      BY <3>1, <3>4
  <2>7. ASSUME NEW n \in 1 .. Len(levels)
        PROVE  /\ n < child'.next /\ levels[n] >= min_level =>
                    passed[n] > 0 \/ n \in skipped \/ InPipe(n)'
               /\ passed[n] <= connects
               /\ connects > 0 /\ (n >= child'.next \/ InPipe(n)') => passed[n] < connects
    BY <1>1, <2>2, <2>6 DEF PassedInv
  <2> QED
    BY <2>1, <2>5, <2>7 DEF PassedInv, UnusedInv
<1>4. CASE ChildEnds \/ wazuh_stop
  <2>1. /\ child'.next = child.next /\ child'.pipe = child.pipe
        /\ child.state = "none" => child'.state = "none"
        /\ UNCHANGED <<levels, reader, passed, connects, skipped>>
    BY <1>1, <1>4 DEF ChildEnds, wazuh_stop, Children
  <2> QED
    BY <2>1 DEF PipeInv, PassedInv, UnusedInv, InPipe
<1>5. CASE wazuh_run /\ (WhileNotStopped \/ (Connect /\ reader' = "check"))
  <2>1. UNCHANGED <<levels, child, passed, skipped>> /\ reader' # "read" /\ connects' = connects
    <3>1. CASE wazuh_run /\ WhileNotStopped
      BY <3>1 DEF wazuh_run, WhileNotStopped
    <3>2. CASE wazuh_run /\ Connect /\ reader' = "check"
      BY <3>2 DEF wazuh_run, Connect
    <3> QED
      BY <1>5, <3>1, <3>2
  <2> QED
    BY <2>1 DEF PipeInv, PassedInv, UnusedInv, InPipe
<1>6. CASE wazuh_run /\ Connect /\ reader' # "check"
  <2> DEFINE begin == IF Len(levels) > TailLines THEN Len(levels) - TailLines + 1 ELSE 1
  <2>1. /\ child' = [state |-> "running", next |-> begin, pipe |-> <<>>]
        /\ connects' = connects + 1 /\ UNCHANGED <<levels, passed>>
        /\ skipped' = skipped \cup {n \in 1 .. begin - 1 : passed[n] = 0}
    BY <1>6 DEF wazuh_run, Connect
  <2>2. begin \in 1 .. Len(levels) + 1
    BY <1>1
  <2> HIDE DEF begin
  <2>3. child'.next = begin /\ child'.pipe = <<>> /\ Len(child'.pipe) = 0
    BY <2>1
  <2>4. PipeInv'
    BY <1>1, <2>1, <2>2, <2>3 DEF PipeInv
  <2>5. \A n : ~InPipe(n)'
    BY <2>3 DEF InPipe
  <2>6. ASSUME NEW n \in 1 .. Len(levels)
        PROVE  /\ n < begin => passed[n] > 0 \/ n \in skipped'
               /\ passed[n] < connects'
    <3>1. passed[n] \in Nat /\ passed[n] <= connects
      BY <1>1 DEF PassedInv
    <3>2. n < begin => passed[n] > 0 \/ n \in skipped'
      BY <1>1, <2>1, <2>2, <3>1
    <3> QED
      BY <1>1, <2>1, <3>1, <3>2
  <2>7. PassedInv'
    <3>1. ASSUME NEW n \in 1 .. Len(levels)
          PROVE  /\ n < child'.next => passed'[n] > 0 \/ n \in skipped'
                 /\ passed'[n] <= connects' /\ passed'[n] < connects'
      <4>1. passed[n] \in Nat
        BY <1>1
      <4> QED
        BY <1>1, <2>1, <2>3, <2>6, <4>1
    <3> QED
      BY <2>1, <3>1 DEF PassedInv
  <2> QED
    BY <2>1, <2>4, <2>7 DEF UnusedInv
<1>7. CASE wazuh_run /\ ReadLine
  <2>1. UNCHANGED <<levels, connects, skipped>> /\ reader = "read" /\ connects > 0
    BY <1>1, <1>7 DEF wazuh_run, ReadLine, PipeInv
  <2>2. CASE UNCHANGED <<child, passed>>
    BY <2>1, <2>2 DEF PipeInv, PassedInv, UnusedInv, InPipe
  <2>3. CASE /\ child.pipe # <<>> /\ ProcessAlert(Head(child.pipe))
             /\ child' = [child EXCEPT !.pipe = Tail(@)]
    <3> DEFINE h == Head(child.pipe)
    <3>1. /\ h = child.pipe[1] /\ h \in 1 .. MaxAlerts /\ 1 \in 1 .. Len(child.pipe)
          /\ Len(Tail(child.pipe)) = Len(child.pipe) - 1
          /\ \A i \in 1 .. Len(child.pipe) - 1 : Tail(child.pipe)[i] = child.pipe[i + 1]
      BY <1>1, <2>3, HeadTailProperties, EmptySeq
    <3>2. /\ ProcessAlert(h) /\ child' = [child EXCEPT !.pipe = Tail(@)]
      BY <2>3
    <3> HIDE DEF h
    <3>3. /\ child'.next = child.next /\ Len(child'.pipe) = Len(child.pipe) - 1
          /\ \A i \in 1 .. Len(child'.pipe) :
               i + 1 \in 1 .. Len(child.pipe) /\ child'.pipe[i] = child.pipe[i + 1]
          /\ child'.state = child.state
      <4>1. child'.next = child.next /\ child'.pipe = Tail(child.pipe) /\ child'.state = child.state
        BY <1>1, <3>2 DEF Children
      <4>2. \A i \in 1 .. Len(child.pipe) - 1 : i + 1 \in 1 .. Len(child.pipe)
        BY <1>1
      <4> QED
        BY <3>1, <4>1, <4>2
    <3>4. h < child.next /\ h \in 1 .. Len(levels)
      BY <1>1, <3>1 DEF PipeInv
    <3>5. \A i \in 1 .. Len(child'.pipe) : h < child'.pipe[i]
      BY <1>1, <3>1, <3>3 DEF PipeInv
    <3>6. PipeInv'
      <4>1. \A i \in 1 .. Len(child'.pipe) : child'.pipe[i] < child'.next
        BY <3>3 DEF PipeInv
      <4>2. ASSUME NEW i \in 1 .. Len(child'.pipe), NEW j \in 1 .. Len(child'.pipe), i < j
            PROVE  child'.pipe[i] < child'.pipe[j]
        <5>1. i \in Int /\ j \in Int /\ i + 1 < j + 1
          BY <1>1, <3>3, <4>2
        <5> QED
          BY <3>3, <5>1 DEF PipeInv
      <4>3. child.next <= Len(levels) + 1 /\ connects' # 0
        BY <1>1, <2>1 DEF PipeInv
      <4> QED
        BY <2>1, <3>3, <4>1, <4>2, <4>3 DEF PipeInv
    <3>7. ASSUME NEW n, InPipe(n)'
          PROVE  InPipe(n) /\ n # h
      <4>1. PICK i \in 1 .. Len(child'.pipe) : child'.pipe[i] = n
        BY <3>7 DEF InPipe
      <4>2. n # h
        <5>1. h \in Int /\ h < n
          BY <1>1, <3>1, <3>5, <4>1
        <5>2. n \in Int
          BY <1>1, <3>3, <4>1
        <5> QED
          BY <5>1, <5>2
      <4>3. i + 1 \in 1 .. Len(child.pipe) /\ child.pipe[i + 1] = n
        BY <3>3, <4>1
      <4> QED
        BY <4>2, <4>3 DEF InPipe
    <3>8. \A n : InPipe(n) => InPipe(n)' \/ n = h
      <4>1. SUFFICES ASSUME NEW i \in 1 .. Len(child.pipe), i # 1
                     PROVE  \E j \in 1 .. Len(child'.pipe) : child'.pipe[j] = child.pipe[i]
        BY <3>1 DEF InPipe
      <4>2. i - 1 \in 1 .. Len(child'.pipe) /\ (i - 1) + 1 = i
        BY <1>1, <3>3, <4>1
      <4> QED
        BY <3>3, <4>2
    <3>9. InPipe(h)
      BY <3>1 DEF InPipe
    <3>10. passed' = IF levels[h] < min_level THEN passed ELSE [passed EXCEPT ![h] = @ + 1]
      BY <3>2 DEF ProcessAlert, TooLow
    <3>11. \A n \in 1 .. MaxAlerts : n # h => passed'[n] = passed[n]
      BY <1>1, <3>10
    <3>12. /\ levels[h] >= min_level => passed'[h] > 0
           /\ passed'[h] <= connects
      <4>1. passed[h] < connects
        BY <2>1, <3>4, <3>9 DEF PassedInv
      <4>2. /\ passed[h] \in Nat /\ connects \in Nat /\ levels[h] \in Int /\ min_level \in Int
            /\ [passed EXCEPT ![h] = @ + 1][h] = passed[h] + 1
        BY <1>1, <3>1, <3>4
      <4>3. CASE levels[h] < min_level
        BY <3>10, <4>1, <4>2, <4>3
      <4>4. CASE ~(levels[h] < min_level)
        BY <3>10, <4>1, <4>2, <4>4
      <4> QED
        BY <4>3, <4>4
    <3>13. ASSUME NEW n \in 1 .. Len(levels)
           PROVE  /\ n < child'.next /\ levels[n] >= min_level =>
                       passed'[n] > 0 \/ n \in skipped \/ InPipe(n)'
                  /\ passed'[n] <= connects
                  /\ connects > 0 /\ (n >= child'.next \/ InPipe(n)') => passed'[n] < connects
      <4>1. CASE n = h
        <5>1. ~(n >= child'.next)
          BY <1>1, <3>3, <3>4, <4>1
        <5>2. ~InPipe(n)'
          BY <3>7, <4>1
        <5> QED
          BY <3>12, <4>1, <5>1, <5>2
      <4>2. CASE n # h
        <5>1. passed'[n] = passed[n]
          BY <1>1, <3>11, <4>2
        <5>2. InPipe(n)' <=> InPipe(n)
          BY <3>7, <3>8, <4>2
        <5>3. /\ n < child.next /\ levels[n] >= min_level =>
                   passed[n] > 0 \/ n \in skipped \/ InPipe(n)
              /\ passed[n] <= connects
              /\ connects > 0 /\ (n >= child.next \/ InPipe(n)) => passed[n] < connects
          BY DEF PassedInv
        <5> QED
          BY <3>3, <5>1, <5>2, <5>3
      <4> QED
        BY <4>1, <4>2
    <3>14. UnusedInv'
      BY <1>1, <2>1, <3>4, <3>11 DEF UnusedInv
    <3> QED
      BY <2>1, <3>6, <3>13, <3>14 DEF PassedInv
  <2> QED
    BY <1>7, <2>2, <2>3 DEF ReadLine
<1> QED
  BY <1>2, <1>3, <1>4, <1>5, <1>6, <1>7 DEF WazuhNext, wazuh_run

\* stop() ends the child; the thread starts none after the event, but for the start under way.
LEMMA ChildStopStep ==
  ASSUME WazuhTypeOK, ChildStopInv, WazuhNext
  PROVE  ChildStopInv'
<1> USE DEF ChildStopInv, ChildStops
<1>1. child \in Children
  BY WazuhTypes
<1>2. CASE WazuhAlert \/ ChildPrints \/ ChildEnds
  BY <1>1, <1>2 DEF WazuhAlert, ChildPrints, ChildEnds, Children
<1>3. CASE wazuh_run
  <2>1. CASE WhileNotStopped
    BY <1>3, <2>1 DEF wazuh_run, WhileNotStopped
  <2>2. CASE Connect
    BY <1>3, <2>2 DEF wazuh_run, Connect
  <2>3. CASE ReadLine
    BY <1>1, <1>3, <2>3 DEF wazuh_run, ReadLine, Children
  <2> QED
    BY <1>3, <2>1, <2>2, <2>3 DEF wazuh_run
<1>4. CASE wazuh_stop
  <2>1. CASE wazuhStop' = "set"
    BY <2>1
  <2>2. CASE wazuhStop = "set"
    <3>1. /\ child'.state # "running" /\ racedChild' = (reader = "connect") /\ reader' = reader
      BY <1>1, <1>4, <2>2 DEF wazuh_stop, Children
    <3> QED
      BY <3>1
  <2> QED
    BY <1>4, <2>1, <2>2 DEF wazuh_stop
<1> QED
  BY <1>2, <1>3, <1>4 DEF WazuhNext

LEMMA AlertsPassedFromInv == WazuhInv => AlertsPassed
<1> SUFFICES ASSUME WazuhInv PROVE AlertsPassed
  OBVIOUS
<1>1. \A n : child.pipe = <<>> => ~InPipe(n)
  BY DEF InPipe
<1> QED
  BY <1>1 DEF WazuhInv, PassedInv, AlertsPassed

LEMMA WazuhKeeps == WazuhInv /\ [WazuhNext]_wazuhVars => WazuhInv'
<1>1. ASSUME WazuhInv, WazuhNext
      PROVE  WazuhInv'
  BY <1>1, WazuhTypeStep, PassedStep, ChildStopStep DEF WazuhInv
<1>2. WazuhInv /\ UNCHANGED wazuhVars => WazuhInv'
  BY DEF wazuhVars, WazuhInv, WazuhTypeOK, PipeInv, PassedInv, UnusedInv, ChildStopInv,
         ChildStops, InPipe
<1> QED
  BY <1>1, <1>2
=============================================================================
