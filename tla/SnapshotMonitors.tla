-------------------------- MODULE SnapshotMonitors --------------------------
(***************************************************************************)
(* monitors/process_monitor.py and monitors/usb_monitor.py: both compare   *)
(* what there is now with what there was an interval ago, and report what  *)
(* came and what went: processes, users, and USB devices.                  *)
(***************************************************************************)
EXTENDS Integers, Sequences, FiniteSets, SequencesExt

CONSTANTS
  Things,      \* names of processes, users and devices
  MaxMoves,    \* bound on what comes and goes
  MaxErrors    \* bound on queries and callbacks that fail

ASSUME SnapshotAssumption == IsFiniteSet(Things) /\ {MaxMoves, MaxErrors} \subseteq Nat

\* What a monitor compares, in the order of its round.
Collections == [process |-> <<"processes", "users">>, usb |-> <<"devices">>]
Monitors == DOMAIN Collections
Kinds == {"processes", "users", "devices"}

VARIABLES
  there,         \* there[kind]: what there is
  last,          \* last_processes and last_pids, last_users, last_devices
  round,         \* round[m]: which collection m is at, and the events not handed on yet
  moves, queryErrors,
  \* (history)
  known,         \* known[kind]: what one knows from the events handed on so far
  untold         \* untold[kind]: the things whose latest report was dropped

snapshotVars == <<there, last, round, moves, queryErrors, known, untold>>

SnapshotTypeOK ==
  /\ there \in [Kinds -> SUBSET Things] /\ last \in [Kinds -> SUBSET Things]
  /\ round \in [Monitors -> [at : 1 .. 2, events : Seq([came : BOOLEAN, thing : Things])]]
  /\ moves \in 0 .. MaxMoves /\ queryErrors \in 0 .. MaxErrors
  /\ known \in [Kinds -> SUBSET Things] /\ untold \in [Kinds -> SUBSET Things]

\* The first snapshot is only remembered.
SnapshotInit ==
  /\ there \in [Kinds -> {{}, Things}]
  /\ last = there
  /\ round = [m \in Monitors |-> [at |-> 1, events |-> <<>>]]
  /\ moves = 0 /\ queryErrors = 0
  /\ known = there /\ untold = [kind \in Kinds |-> {}]

-----------------------------------------------------------------------------

ComesOrGoes(kind, thing) ==
  /\ moves < MaxMoves /\ moves' = moves + 1
  /\ there' = [there EXCEPT ![kind] = IF thing \in @ THEN @ \ {thing} ELSE @ \cup {thing}]
  /\ UNCHANGED <<last, round, queryErrors, known, untold>>

\* What a query gives that fails on its way: the devices so far, no users; a snapshot of the
\* processes raises.
Partly(kind) ==
  CASE kind = "devices" -> SUBSET there[kind]
    [] kind = "users" -> {{}}
    [] kind = "processes" -> {}

WithOldOnes(kind, current) == last[kind] \cup current

\* self.last_devices = current_devices
Remembered(kind, current) == current

Kind(m) == Collections[m][round[m].at]
AfterKind(m) == (round[m].at % Len(Collections[m])) + 1

Compare(m, current) ==
  LET added == current \ last[Kind(m)]
      removed == last[Kind(m)] \ current
      Events(came, things) == SetToSeq([came : {came}, thing : things])
      events == Events(TRUE, added) \o Events(FALSE, removed)
  IN  /\ round' = [round EXCEPT ![m] = [at |-> IF events = <<>> THEN AfterKind(m) ELSE @.at,
                                        events |-> events]]
      /\ last' = [last EXCEPT ![Kind(m)] = Remembered(Kind(m), current)]

\* check_events or check_login_events
CheckEvents(m) ==
  /\ round[m].events = <<>>
  /\ \/ /\ Compare(m, there[Kind(m)])
        /\ UNCHANGED queryErrors
     \/ /\ queryErrors < MaxErrors /\ queryErrors' = queryErrors + 1
        /\ \E current \in Partly(Kind(m)) : Compare(m, current)
     \/ /\ queryErrors < MaxErrors /\ queryErrors' = queryErrors + 1
        /\ Kind(m) = "processes"
        /\ UNCHANGED <<last, round>>
  /\ UNCHANGED <<there, moves, known, untold>>

\* for event in events: self.callback(event).  When it raises, the round is over: the rest is
\* dropped.
HandOn(m) ==
  LET event == Head(round[m].events)
      rest == Tail(round[m].events)
  IN  /\ round[m].events # <<>>
      /\ \/ /\ known' = [known EXCEPT ![Kind(m)] = IF event.came THEN @ \cup {event.thing}
                                                              ELSE @ \ {event.thing}]
            /\ untold' = [untold EXCEPT ![Kind(m)] = @ \ {event.thing}]
            /\ round' = [round EXCEPT ![m] = [at |-> IF rest = <<>> THEN AfterKind(m) ELSE @.at,
                                              events |-> rest]]
            /\ UNCHANGED queryErrors
         \/ /\ queryErrors < MaxErrors /\ queryErrors' = queryErrors + 1
            /\ untold' = [untold EXCEPT ![Kind(m)] =
                              @ \cup {e.thing : e \in ToSet(round[m].events)}]
            /\ round' = [round EXCEPT ![m] = [at |-> 1, events |-> <<>>]]
            /\ UNCHANGED known
      /\ UNCHANGED <<there, last, moves>>

SnapshotNext ==
  \/ \E kind \in Kinds, thing \in Things : ComesOrGoes(kind, thing)
  \/ \E m \in Monitors : CheckEvents(m) \/ HandOn(m)

-----------------------------------------------------------------------------
(* Whoever follows the reports knows what the monitor knows once a round's reports are    *)
(* handed on, through failed queries as well: what a failure reported as gone is reported *)
(* as come again.  Of a thing whose report was dropped with a list that raised one knows  *)
(* it from the next report of that thing on.                                              *)
(* (process_monitor.py 43-150, usb_monitor.py 306-354)                                    *)
ReportsAddUp ==
  \A m \in Monitors : \A i \in 1 .. Len(Collections[m]) :
    LET kind == Collections[m][i]
    IN  round[m].events = <<>> \/ round[m].at # i =>
          known[kind] \ untold[kind] = last[kind] \ untold[kind]
=============================================================================
