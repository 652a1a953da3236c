--------------------------- MODULE BrowserMonitor ---------------------------
(***************************************************************************)
(* monitors/browser_monitor.py: every interval it reads the newest visits  *)
(* of each browser's history database that are later than its cursor.      *)
(* A database has one row per URL, with the time of its last visit.        *)
(***************************************************************************)
EXTENDS Integers, Sequences, FiniteSets, SequencesExt, FiniteSetsExt

CONSTANTS
  Browsers,    \* those with a history database
  Urls,
  LIMIT,       \* rows a query returns at most (100 in reality)
  MaxVisits

\* What run() does in a round.
Round == <<"Chrome", "Edge", "report", "Firefox", "report">>

ASSUME BrowserAssumption ==
  /\ Browsers \subseteq {"Chrome", "Edge", "Firefox"}
  /\ LIMIT \in Nat \ {0} /\ MaxVisits \in Nat

VARIABLES
  at,                \* where in its round run() is
  last_visit_time,   \* last_visit_time[b][u]; 0 for a URL without a row
  now,               \* the number of visits, and the time of the latest
  last_timestamp,    \* the cursors
  toReport,          \* the visits read and not handed to the callback yet
  \* (history)
  reported,          \* the visits handed to the callback
  gone               \* visits that were overwritten before they were read, beyond LIMIT, or
                     \* dropped because the callback raised

browserVars == <<at, last_visit_time, now, last_timestamp, toReport, reported, gone>>

Times == 1 .. MaxVisits

BrowserTypeOK ==
  /\ at \in 1 .. Len(Round)
  /\ last_visit_time \in [Browsers -> [Urls -> 0 .. MaxVisits]]
  /\ now \in 0 .. MaxVisits
  /\ last_timestamp \in [Browsers -> 0 .. MaxVisits]
  /\ toReport \in Seq(Times)
  /\ reported \subseteq Times /\ gone \subseteq Times

\* The cursors start at the present time: only later visits count.
BrowserInit ==
  /\ at = 1
  /\ last_visit_time = [b \in Browsers |-> [u \in Urls |-> 0]]
  /\ now = 0
  /\ last_timestamp = [b \in Browsers |-> 0]
  /\ toReport = <<>>
  /\ reported = {} /\ gone = {}

-----------------------------------------------------------------------------

Unread(b) == {last_visit_time[b][u] : u \in Urls} \ 0 .. last_timestamp[b]

Visit(b, u) ==
  /\ now < MaxVisits /\ now' = now + 1
  /\ last_visit_time' = [last_visit_time EXCEPT ![b][u] = now + 1]
  /\ gone' = gone \cup ({last_visit_time[b][u]} \cap Unread(b))
  /\ UNCHANGED <<at, last_timestamp, toReport, reported>>

NextStep == at' = (at % Len(Round)) + 1

OldestRead(rows) == Min(rows)

\* The cursor after these rows.
LatestRead(rows) == Max(rows)

Later(rows, t) == {v \in rows : v > t}

\* SELECT ... WHERE last_visit_time > ? ORDER BY last_visit_time DESC LIMIT 100
Newest(rows) == {t \in rows : Cardinality(Later(rows, t)) < LIMIT}
NewestFirst(rows) ==
  [n \in 1 .. Cardinality(rows) |-> CHOOSE t \in rows : Cardinality(Later(rows, t)) = n - 1]

\* _read_chrome_history for one browser, or _read_firefox_history.  An error is logged and
\* leaves the cursor alone.
ReadHistory(b) ==
  LET rows == Newest(Unread(b))
  IN  /\ Round[at] = b
      /\ NextStep
      /\ \/ /\ b \in Browsers /\ rows # {}
            /\ toReport' = toReport \o NewestFirst(rows)
            /\ last_timestamp' = [last_timestamp EXCEPT ![b] = LatestRead(rows)]
            /\ gone' = gone \cup (Unread(b) \ rows)
         \/ UNCHANGED <<toReport, last_timestamp, gone>>
      /\ UNCHANGED <<last_visit_time, now, reported>>

\* for event in events: self.callback(event).  When it raises, the round is over: the rest is
\* dropped.
Callback ==
  /\ Round[at] = "report"
  /\ \/ /\ toReport # <<>>
        /\ reported' = reported \cup {Head(toReport)}
        /\ toReport' = Tail(toReport)
        /\ UNCHANGED <<at, gone>>
     \/ /\ toReport # <<>>
        /\ gone' = gone \cup ToSet(toReport)
        /\ toReport' = <<>>
        /\ at' = 1
        /\ UNCHANGED reported
     \/ /\ toReport = <<>>
        /\ NextStep
        /\ UNCHANGED <<reported, toReport, gone>>
  /\ UNCHANGED <<last_visit_time, now, last_timestamp>>

BrowserNext ==
  \/ \E b \in Browsers, u \in Urls : Visit(b, u)
  \/ \E b \in {"Chrome", "Edge", "Firefox"} : ReadHistory(b)
  \/ Callback

-----------------------------------------------------------------------------
(* A visit is reported once, and the only ones the cursor passes without a report are the *)
(* URL's earlier visits, those beyond the query's limit, and the rest of a list whose     *)
(* report raised.  (browser_monitor.py 94-131, 156-185, 209-224)                          *)
VisitsReportedOnce ==
  LET waiting == ToSet(toReport)
      unread == UNION {Unread(b) : b \in Browsers}
  IN  /\ reported \cup waiting \cup unread \cup gone = 1 .. now
      /\ reported \cap (waiting \cup unread \cup gone) = {}
      /\ IsInjective(toReport) /\ waiting \cap unread = {}
=============================================================================
