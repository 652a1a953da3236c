--------------------------- MODULE SuricataMonitor ---------------------------
(***************************************************************************)
(* monitors/suricata_monitor.py: it starts Suricata, follows eve.json,     *)
(* which Suricata appends to, and starts Suricata again when it ended.     *)
(*                                                                         *)
(* A line of eve.json is written in two pieces, as the writer's buffer may *)
(* end anywhere; the file is a sequence of pieces and a position in it a   *)
(* number of pieces.  Whoever cuts the log truncates it in place.          *)
(* An error of the file system while it is read is not modelled.           *)
(***************************************************************************)
EXTENDS Integers, Sequences, FiniteSets

CONSTANTS
  MaxLines,    \* bound on the lines of eve.json
  MaxCuts,     \* bound on truncations
  MaxDeaths    \* bound on Suricata's unexpected ends

ASSUME SuricataAssumption == MaxLines \in Nat \ {0} /\ {MaxCuts, MaxDeaths} \subseteq Nat

VARIABLES
  eve,         \* the pieces of lines in eve.json
  writer,      \* the lines written so far, and whether the last one lacks its end
  cuts, deaths,
  manage_process,
  process,     \* self.process
  tail,        \* run(): step, _last_position, and the open file's offset and buffer
  stopping,    \* stop(): "no", "set" once stop_event is, "done"
  \* (history)
  before,      \* the lines written before the monitor's first position
  handled,     \* the lines handed to the callback, in that order
  torn,        \* the lines read in two parts
  cutUnseen,   \* has the log been cut since the position was last known to be in it?
  raced        \* was Suricata being started while stop() ended it?

suricataVars == <<eve, writer, cuts, deaths, manage_process, process, tail, stopping,
                  before, handled, torn, cutUnseen, raced>>

StartOf(n) == [line |-> n, part |-> "start"]
EndOf(n) == [line |-> n, part |-> "end"]
Chunks == [line : 1 .. MaxLines, part : {"start", "end"}]

SuricataTypeOK ==
  /\ eve \in Seq(Chunks)
  /\ writer \in [lines : 0 .. MaxLines, half : BOOLEAN]
  /\ cuts \in 0 .. MaxCuts /\ deaths \in 0 .. MaxDeaths
  /\ manage_process \in BOOLEAN
  /\ process \in {"none", "running", "ended"}
  /\ tail \in [step : {"start", "position", "loop", "size", "read", "poll", "restart", "end"},
               position : Nat, offset : Nat, buffer : Seq(Chunks)]
  /\ stopping \in {"no", "set", "done"}
  /\ before \in 0 .. MaxLines /\ handled \in Seq(1 .. MaxLines)
  /\ torn \subseteq 1 .. MaxLines
  /\ cutUnseen \in BOOLEAN /\ raced \in BOOLEAN

\* An eve.json with an old line, or none.
SuricataInit ==
  /\ \E old \in 0 .. 1 :
       /\ eve = IF old = 0 THEN <<>> ELSE <<StartOf(1), EndOf(1)>>
       /\ writer = [lines |-> old, half |-> FALSE]
  /\ cuts = 0 /\ deaths = 0
  /\ manage_process \in BOOLEAN
  /\ process = "none"
  /\ tail = [step |-> "start", position |-> 0, offset |-> 0, buffer |-> <<>>]
  /\ stopping = "no"
  /\ before = MaxLines /\ handled = <<>> /\ torn = {}
  /\ cutUnseen = FALSE /\ raced = FALSE

-----------------------------------------------------------------------------
\* Suricata and its log.

Writing == process = "running" \/ ~manage_process

WriteLine ==
  /\ Writing
  /\ \/ /\ ~writer.half /\ writer.lines < MaxLines
        /\ eve' = Append(eve, StartOf(writer.lines + 1))
        /\ writer' = [lines |-> writer.lines + 1, half |-> TRUE]
     \/ /\ writer.half
        /\ eve' = Append(eve, EndOf(writer.lines))
        /\ writer' = [writer EXCEPT !.half = FALSE]
  /\ UNCHANGED <<cuts, deaths, manage_process, process, tail, stopping, before, handled,
                 torn, cutUnseen, raced>>

\* Suricata ends, a line half-written or not.
SuricataDies ==
  /\ deaths < MaxDeaths /\ deaths' = deaths + 1
  /\ process = "running" /\ process' = "ended"
  /\ writer' = [writer EXCEPT !.half = FALSE]
  /\ UNCHANGED <<eve, cuts, manage_process, tail, stopping, before, handled, torn,
                 cutUnseen, raced>>

CutLog ==
  /\ cuts < MaxCuts /\ cuts' = cuts + 1
  /\ eve' = <<>>
  /\ cutUnseen' = (cutUnseen \/ tail.position > 0 \/ tail.offset > 0)
  /\ UNCHANGED <<writer, deaths, manage_process, process, tail, stopping, before, handled,
                 torn, raced>>

-----------------------------------------------------------------------------
\* run(), one step of the thread after another.

TailGoto(step) == tail' = [tail EXCEPT !.step = step]

\* Popen, or its failure (no binary, no permission), which is logged.
StartSuricata == process' \in {"running", process}

StartTailing ==
  /\ tail.step = "start"
  /\ IF manage_process THEN StartSuricata ELSE UNCHANGED process
  /\ TailGoto("position")
  /\ UNCHANGED <<before, handled, torn, cutUnseen>>

FirstPosition ==
  /\ tail.step = "position"
  /\ tail' = [tail EXCEPT !.step = "loop", !.position = Len(eve)]
  /\ before' = writer.lines
  /\ cutUnseen' = FALSE
  /\ UNCHANGED <<process, handled, torn>>

TailLoop ==
  /\ tail.step = "loop"
  /\ TailGoto(IF stopping = "no" THEN "size" ELSE "end")
  /\ UNCHANGED <<process, before, handled, torn, cutUnseen>>

AtTheEnd == Len(eve)

\* Where a log that was cut is read from.
PositionAfterCut == 0

Changed == Len(eve) # tail.position

\* current_size < self._last_position
Shrunk == Len(eve) < tail.position

CheckSize ==
  LET position == IF Shrunk THEN PositionAfterCut ELSE tail.position
  IN  /\ tail.step = "size"
      /\ tail' = [tail EXCEPT !.step = IF Len(eve) > position THEN "read" ELSE "poll",
                              !.position = position, !.offset = position]
      /\ cutUnseen' = (cutUnseen /\ ~Shrunk)
      /\ UNCHANGED <<process, before, handled, torn>>

\* The first line in the buffer: up to a piece that ends one.
LineEnds == {i \in 1 .. Len(tail.buffer) : tail.buffer[i].part = "end"}
FirstEnd == CHOOSE i \in LineEnds : \A j \in LineEnds : i <= j

\* Is it JSON?
Parses(line) == Len(line) = 2 /\ line[1] = StartOf(line[2].line)

\* json.loads and the callback; what does not parse is passed over.
ProcessLine(line) ==
  /\ handled' = IF Parses(line) THEN Append(handled, line[1].line) ELSE handled
  /\ torn' = IF line[Len(line)].part = "start" THEN torn \cup {line[Len(line)].line} ELSE torn

\* for line in f: a line of the buffer, or else more of the file, or else what is left.
ReadLog ==
  LET more == SubSeq(eve, tail.offset + 1, Len(eve))
  IN  /\ tail.step = "read"
      /\ \/ /\ LineEnds # {}
            /\ ProcessLine(SubSeq(tail.buffer, 1, FirstEnd))
            /\ tail' = [tail EXCEPT !.buffer = SubSeq(@, FirstEnd + 1, Len(@))]
         \/ /\ LineEnds = {} /\ more # <<>>
            /\ tail' = [tail EXCEPT !.buffer = @ \o more, !.offset = Len(eve)]
            /\ UNCHANGED <<handled, torn>>
         \/ /\ LineEnds = {} /\ more = <<>> /\ tail.buffer # <<>>
            /\ ProcessLine(tail.buffer)
            /\ tail' = [tail EXCEPT !.buffer = <<>>]
         \/ /\ LineEnds = {} /\ more = <<>> /\ tail.buffer = <<>>
            /\ tail' = [tail EXCEPT !.step = "poll", !.position = tail.offset,
                              !.offset = 0]
            /\ UNCHANGED <<handled, torn>>
      /\ UNCHANGED <<process, before, cutUnseen>>

EvenIfStopped == TRUE

\* if not self.stop_event.is_set()
MayRestart == stopping = "no"

CheckProcess ==
  /\ tail.step = "poll"
  /\ TailGoto(IF process = "ended" /\ MayRestart THEN "restart" ELSE "loop")
  /\ UNCHANGED <<process, before, handled, torn, cutUnseen>>

RestartSuricata ==
  /\ tail.step = "restart"
  /\ StartSuricata
  /\ TailGoto("loop")
  /\ UNCHANGED <<before, handled, torn, cutUnseen>>

suricata_run ==
  /\ \/ StartTailing \/ FirstPosition \/ TailLoop \/ CheckSize
     \/ ReadLog \/ CheckProcess \/ RestartSuricata
  /\ UNCHANGED <<eve, writer, cuts, deaths, manage_process, stopping, raced>>

\* stop(): the event, and then the process of that moment is terminated or killed.
suricata_stop ==
  /\ \/ /\ stopping = "no" /\ stopping' = "set"
        /\ UNCHANGED <<process, writer, raced>>
     \/ /\ stopping = "set" /\ stopping' = "done"
        /\ process' = IF process = "running" THEN "ended" ELSE process
        /\ writer' = IF process = "running" THEN [writer EXCEPT !.half = FALSE] ELSE writer
        /\ raced' = (tail.step \in {"start", "restart"})
  /\ UNCHANGED <<eve, cuts, deaths, manage_process, tail, before, handled, torn, cutUnseen>>

SuricataNext ==
  \/ WriteLine
  \/ SuricataDies
  \/ CutLog
  \/ suricata_run
  \/ suricata_stop

-----------------------------------------------------------------------------
\* The lines that stand in the log by themselves, up to position p.
WholeLines(p) ==
  {n \in 1 .. MaxLines :
     \E i \in 2 .. p : /\ i <= Len(eve) /\ eve[i - 1] = StartOf(n) /\ eve[i] = EndOf(n)
                       /\ (i > 2 => eve[i - 2].part = "end")}

(* Alerts are reported in the order in which Suricata wrote them, and none twice, however *)
(* the log is cut and Suricata restarted.  And what the position has passed was reported, *)
(* but for a line that was read while only a part of it was written, and unless the log   *)
(* was cut and has grown again unnoticed.  (suricata_monitor.py 141-172)                  *)
AlertsInOrder ==
  /\ \A i, j \in 1 .. Len(handled) : i < j => handled[i] < handled[j]
  /\ tail.step \in {"poll", "restart", "loop", "size", "end"} /\ ~cutUnseen =>
       \A n \in WholeLines(tail.position) :
         n > before => n \in torn \/ \E i \in 1 .. Len(handled) : handled[i] = n

(* After stop() Suricata does not run, unless it was just being started.                  *)
(* (suricata_monitor.py 48-54, 174-187)                                                   *)
SuricataStops == stopping = "done" /\ process = "running" => raced
=============================================================================
