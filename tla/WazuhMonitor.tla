---------------------------- MODULE WazuhMonitor ----------------------------
(***************************************************************************)
(* monitors/wazuh_monitor.py: a child process prints the alerts of Wazuh   *)
(* and the monitor's thread reads what it prints.                          *)
(***************************************************************************)
EXTENDS Integers, Sequences, FiniteSets

CONSTANTS
  MaxAlerts,     \* bound on alerts
  MaxHangUps,    \* bound on ends and failed starts of the child, and undecodable lines
  TailLines,     \* how many old lines tail -F begins with (10 in reality)
  min_level

ASSUME WazuhAssumption ==
  {MaxAlerts, MaxHangUps, TailLines} \subseteq Nat /\ min_level \in Int

VARIABLES
  levels,        \* levels[n]: the level of alert n, in the file of alerts
  child,         \* self.process: its state, the next alert it prints, and its pipe; a child
                 \* that self.process no longer names is nobody's
  reader,        \* run(): its step
  hangUps,
  wazuhStop,     \* stop(): "no", "set" once stop_event is, "done"
  \* (history)
  passed,        \* passed[n]: how often alert n was handed to the callback
  connects,      \* how many children were started
  skipped,       \* alerts nobody read that were not among the last lines for a new child
  racedChild     \* was a child being started while stop() ended it?

wazuhVars == <<levels, child, reader, hangUps, wazuhStop, passed, connects, skipped,
               racedChild>>

Levels == {min_level - 1, min_level}

WazuhTypeOK ==
  /\ levels \in Seq(Levels) /\ Len(levels) <= MaxAlerts
  /\ child \in [state : {"none", "running", "ended"}, next : 1 .. MaxAlerts + 1,
                pipe : Seq(1 .. MaxAlerts)]
  /\ reader \in {"check", "connect", "read", "end"}
  /\ hangUps \in 0 .. MaxHangUps
  /\ wazuhStop \in {"no", "set", "done"}
  /\ passed \in [1 .. MaxAlerts -> Nat] /\ connects \in Nat
  /\ skipped \subseteq 1 .. MaxAlerts
  /\ racedChild \in BOOLEAN

WazuhInit ==
  /\ levels = <<>>
  /\ child = [state |-> "none", next |-> 1, pipe |-> <<>>]
  /\ reader = "check"
  /\ hangUps = 0
  /\ wazuhStop = "no"
  /\ passed = [n \in 1 .. MaxAlerts |-> 0]
  /\ connects = 0 /\ skipped = {} /\ racedChild = FALSE

-----------------------------------------------------------------------------
\* Wazuh and the child.

WazuhAlert ==
  /\ Len(levels) < MaxAlerts
  /\ \E level \in Levels : levels' = Append(levels, level)
  /\ UNCHANGED <<child, reader, hangUps, wazuhStop, passed, connects, skipped, racedChild>>

ChildPrints ==
  /\ child.state = "running" /\ child.next <= Len(levels)
  /\ child' = [child EXCEPT !.next = @ + 1, !.pipe = Append(@, child.next)]
  /\ UNCHANGED <<levels, reader, hangUps, wazuhStop, passed, connects, skipped, racedChild>>

\* The container stops, or the connection to it; what is in the pipe can still be read.
ChildEnds ==
  /\ hangUps < MaxHangUps /\ hangUps' = hangUps + 1
  /\ child.state = "running"
  /\ child' = [child EXCEPT !.state = "ended"]
  /\ UNCHANGED <<levels, reader, wazuhStop, passed, connects, skipped, racedChild>>

-----------------------------------------------------------------------------
\* run()

WhileNotStopped ==
  /\ reader = "check"
  /\ reader' = IF wazuhStop = "no" THEN "connect" ELSE "end"
  /\ UNCHANGED <<child, hangUps, passed, connects, skipped>>

\* Popen; an error is logged and leads to the next try.
Connect ==
  LET first == IF Len(levels) > TailLines THEN Len(levels) - TailLines + 1 ELSE 1
  IN  /\ reader = "connect"
      /\ \/ /\ child' = [state |-> "running", next |-> first, pipe |-> <<>>]
            /\ reader' = "read"
            /\ connects' = connects + 1
            /\ skipped' = skipped \cup {n \in 1 .. first - 1 : passed[n] = 0}
            /\ UNCHANGED hangUps
         \/ /\ hangUps < MaxHangUps /\ hangUps' = hangUps + 1
            /\ reader' = "check"
            /\ UNCHANGED <<child, connects, skipped>>
      /\ UNCHANGED passed

AtMost(level) == level <= min_level

\* level < self.min_level
TooLow(level) == level < min_level

\* _process_alert of the line that was read
ProcessAlert(n) ==
  passed' = IF TooLow(levels[n]) THEN passed ELSE [passed EXCEPT ![n] = @ + 1]

\* readline(): a line, or the end of what the child printed, or a line that is not UTF-8.
\* After that one the next child is started beside this one, which nobody ends or reads.
ReadLine ==
  /\ reader = "read"
  /\ \/ /\ child.pipe # <<>>
        /\ ProcessAlert(Head(child.pipe))
        /\ child' = [child EXCEPT !.pipe = Tail(@)]
        /\ reader' = IF wazuhStop = "no" THEN "read" ELSE "check"
        /\ UNCHANGED hangUps
     \/ /\ child.pipe = <<>> /\ child.state = "ended"
        /\ reader' = "check"
        /\ UNCHANGED <<child, passed, hangUps>>
     \/ /\ child.pipe # <<>>
        /\ hangUps < MaxHangUps /\ hangUps' = hangUps + 1
        /\ reader' = "check"
        /\ UNCHANGED <<child, passed>>
  /\ UNCHANGED <<connects, skipped>>

wazuh_run ==
  /\ WhileNotStopped \/ Connect \/ ReadLine
  /\ UNCHANGED <<levels, wazuhStop, racedChild>>

\* stop(); its join gives up after two seconds.
wazuh_stop ==
  /\ \/ /\ wazuhStop = "no" /\ wazuhStop' = "set"
        /\ UNCHANGED <<child, racedChild>>
     \/ /\ wazuhStop = "set" /\ wazuhStop' = "done"
        /\ child' = [child EXCEPT !.state = IF @ = "running" THEN "ended" ELSE @]
        /\ racedChild' = (reader = "connect")
  /\ UNCHANGED <<levels, reader, hangUps, passed, connects, skipped>>

WazuhNext ==
  \/ WazuhAlert
  \/ ChildPrints
  \/ ChildEnds
  \/ wazuh_run
  \/ wazuh_stop

-----------------------------------------------------------------------------
(* An alert that is serious enough and that the child has printed is reported once its    *)
(* pipe is empty; it is lost only if it was no longer among the last lines when the next  *)
(* child started, after one that ended or that was left for a line that is not UTF-8; and *)
(* it is repeated only by new children.  (wazuh_monitor.py 70-111)                        *)
AlertsPassed ==
  \A n \in 1 .. Len(levels) :
    /\ reader = "read" /\ child.pipe = <<>> /\ n < child.next /\ levels[n] >= min_level =>
         passed[n] > 0 \/ n \in skipped
    /\ passed[n] <= connects
=============================================================================
