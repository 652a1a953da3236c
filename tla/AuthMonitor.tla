----------------------------- MODULE AuthMonitor -----------------------------
(***************************************************************************)
(* monitors/auth_monitor.py: reports failed logons from the Security event *)
(* log of Windows.  It looks when the number of records has grown, and     *)
(* takes the records whose number is larger than the former count.         *)
(*                                                                         *)
(* The log belongs to Windows: records are numbered as they come; a full   *)
(* log drops the oldest, and clearing it begins the numbers anew.  The     *)
(* code reads backwards with a handle it keeps open; both readings of what *)
(* that means are modelled: each check begins at the newest record, or a   *)
(* check goes on where the one before ended.                               *)
(***************************************************************************)
EXTENDS Integers, FiniteSets

CONSTANTS
  Capacity,    \* of the log, in records
  MaxRecords,  \* that are written
  MaxReadErrors

ASSUME AuthMonitorAssumption ==
  {Capacity, MaxRecords} \subseteq Nat \ {0} /\ MaxReadErrors \in Nat

VARIABLES
  anew,               \* does each check begin at the newest record?
  oldest, newest,     \* record numbers; oldest = newest + 1 when there is none
  failures,           \* the records of event 4625
  written,
  auth,               \* the thread: its step, and num_records
  last_record_count,
  readErrors,
  \* (history)
  checked,            \* has a check read the log?
  reports,            \* how often a record was reported
  first,              \* the count when the monitor was made
  dropped,            \* did the log lose records?
  unread              \* records that a failing check passed over

authVars == <<anew, oldest, newest, failures, written, auth, last_record_count, readErrors,
              checked, reports, first, dropped, unread>>

RecordNumbers == 1 .. MaxRecords

AuthTypeOK ==
  /\ {anew, checked, dropped} \subseteq BOOLEAN
  /\ newest \in 0 .. MaxRecords /\ oldest \in 1 .. newest + 1
  /\ failures \subseteq RecordNumbers /\ unread \subseteq RecordNumbers
  /\ written \in 0 .. MaxRecords
  /\ auth \in [step : {"count", "check", "ended"}, num_records : 0 .. Capacity]
  /\ last_record_count \in 0 .. Capacity
  /\ readErrors \in 0 .. MaxReadErrors
  /\ reports \in [RecordNumbers -> Nat]
  /\ first \in 0 .. Capacity

Count == newest - oldest + 1   \* GetEventLogRecordCount

\* There may be a record already; without the right to read the log the thread ends.
AuthInit ==
  /\ anew \in BOOLEAN
  /\ newest \in {0, 1} /\ oldest = 1 /\ written = newest
  /\ failures \in SUBSET (1 .. newest)
  /\ auth \in [step : {"count", "ended"}, num_records : {0}]
  /\ last_record_count = newest /\ first = newest
  /\ readErrors = 0
  /\ checked = FALSE
  /\ reports = [n \in RecordNumbers |-> 0]
  /\ dropped = FALSE /\ unread = {}

-----------------------------------------------------------------------------
\* Windows.

WriteRecord(failed) ==
  /\ written < MaxRecords /\ written' = written + 1
  /\ newest' = newest + 1
  /\ failures' = IF failed THEN failures \cup {newest'} ELSE failures
  /\ oldest' = IF Count = Capacity THEN oldest + 1 ELSE oldest
  /\ dropped' = (dropped \/ Count = Capacity)
  /\ UNCHANGED <<anew, auth, last_record_count, readErrors, checked, reports, first, unread>>

\* An administrator clears the log.
ClearLog ==
  /\ Count > 0 /\ ~dropped
  /\ newest' = 0 /\ oldest' = 1 /\ failures' = {}
  /\ dropped' = TRUE
  /\ UNCHANGED <<anew, written, auth, last_record_count, readErrors, checked, reports, first,
                 unread>>

-----------------------------------------------------------------------------
\* The thread.

\* An exception here leaves all as it is.
CountRecords ==
  /\ auth.step = "count"
  /\ IF Count > last_record_count
     THEN /\ auth' = [step |-> "check", num_records |-> Count]
          /\ UNCHANGED last_record_count
     ELSE /\ last_record_count' = Count
          /\ UNCHANGED auth
  /\ UNCHANGED <<anew, oldest, newest, failures, written, readErrors, checked, reports, first,
                 dropped, unread>>

IsNewOrLast(n) == n >= last_record_count
IsNew(n) == n > last_record_count

\* Reading backwards ends at the first record that is not new.
Fresh == IF anew \/ ~checked THEN {n \in oldest .. newest : IsNew(n)} ELSE {}

\* _check_new_records: an error in the middle of it reports nothing, and the count is
\* remembered all the same.
_check_new_records ==
  /\ auth.step = "check"
  /\ auth' = [auth EXCEPT !.step = "count"]
  /\ last_record_count' = auth.num_records
  /\ checked' = TRUE
  /\ \/ /\ reports' = [n \in RecordNumbers |->
             IF n \in Fresh \cap failures THEN reports[n] + 1 ELSE reports[n]]
        /\ UNCHANGED <<readErrors, unread>>
     \/ /\ readErrors < MaxReadErrors /\ readErrors' = readErrors + 1
        /\ unread' = unread \cup Fresh
        /\ UNCHANGED reports
  /\ UNCHANGED <<anew, oldest, newest, failures, written, first, dropped>>

\* stop(): the handle is closed, and what the thread does with it fails.
auth_stop ==
  /\ auth.step # "ended"
  /\ auth' = [auth EXCEPT !.step = "ended"]
  /\ UNCHANGED <<anew, oldest, newest, failures, written, last_record_count, readErrors,
                 checked, reports, first, dropped, unread>>

AuthNext ==
  \/ \E failed \in BOOLEAN : WriteRecord(failed)
  \/ ClearLog
  \/ CountRecords
  \/ _check_new_records
  \/ auth_stop

-----------------------------------------------------------------------------
(* As long as the log keeps its records, a failed logon that the monitor has counted was  *)
(* reported, unless its check failed; at most twice, which happens when it is written     *)
(* between the counting and the reading; and none from before the monitor started.  That  *)
(* it was reported at all needs checks that begin at the newest record.                   *)
(* (auth_monitor.py 23-84)                                                                *)
FailuresReported ==
  ~dropped =>
    \A n \in failures :
      /\ reports[n] <= 2
      /\ n <= first => reports[n] = 0
      /\ anew /\ first < n /\ n <= last_record_count => reports[n] > 0 \/ n \in unread
=============================================================================
