--------------------------- MODULE CommandReceiver ---------------------------
(***************************************************************************)
(* Channel B: the thread of FirewallCommandReceiver, which long-polls the  *)
(* commands after its cursor, applies them in order and then moves the     *)
(* cursor.  A poll that fails or brings nothing changes only the delay.    *)
(***************************************************************************)
EXTENDS DesiredStateSync

VARIABLES
  b,         \* the batch of the thread
  attempted  \* (history) the commands the thread has carried to their end, failed or not

bVars == <<b, attempted>>

BPcs == {"idle", "apply", "add", "save"}

\* since: the cursor the poll was made with.  next .. last: the commands still to apply;
\* last is the batch's lastCommandId.
BIdle == [pc |-> "idle", since |-> 0, next |-> 1, last |-> 0]

ReceiverTypeOK ==
  /\ b \in [pc : BPcs, since : 0 .. Len(log), next : 1 .. Len(log) + 1, last : 0 .. Len(log)]
  /\ b.pc \in {"apply", "add"} => b.next <= b.last
  /\ b.pc = "add" => log[b.next].action = "UPSERT_RULE"
  /\ attempted \subseteq 1 .. Len(log)

ReceiverInit == b = BIdle /\ attempted = {}

\* The server answers with any number of the commands after the cursor.
PollCommands ==
  /\ b.pc = "idle"
  /\ \E st \in {store, DefaultState} :
       /\ LoadStore(st)
       /\ \E n \in st.last_command_id + 1 .. Len(log) :
            b' = [pc |-> "apply", since |-> st.last_command_id,
                  next |-> st.last_command_id + 1, last |-> n]
  /\ UNCHANGED <<store, fw, profile, attempted>>

DoneOneLate ==
  /\ attempted' = attempted \cup {b.next}
  /\ b' = [b EXCEPT !.next = @ + 1, !.pc = IF b.next > b.last THEN "save" ELSE "apply"]

\* The end of a command: its errors, if any, go to the log file only.
Done ==
  /\ attempted' = attempted \cup {b.next}
  /\ b' = [b EXCEPT !.next = @ + 1, !.pc = IF b.next = b.last THEN "save" ELSE "apply"]

DeleteRule(cmd) == cmd.action = "DELETE_RULE" /\ RemoveRule("B", cmd.rule) /\ Done

UpsertRule(cmd) ==
  /\ cmd.action = "UPSERT_RULE"
  /\ \/ UpsertRejected(cmd.body) /\ Done
     \/ UpsertNotRun("B", cmd.body) /\ Done
     \/ /\ UpsertRemove("B", cmd.rule, cmd.body)
        /\ b' = [b EXCEPT !.pc = "add"]
        /\ UNCHANGED attempted

EnableProfile(cmd) == cmd.action = "ENABLE_PROFILE" /\ ApplyProfiles("B", cmd.profile) /\ Done

NoEffect(cmd) == cmd.action = "NOOP" /\ UNCHANGED wfasVars /\ Done

\* _upsert_rule converts the ruleId outside any try: the exception ends the batch, and the
\* loop polls again from the old cursor.
Raise(cmd) == cmd.action = "ILL_FORMED" /\ UNCHANGED <<wfasVars, attempted>> /\ b' = BIdle

ApplyCommand ==
  /\ b.pc = "apply"
  /\ \/ DeleteRule(log[b.next])
     \/ UpsertRule(log[b.next])
     \/ EnableProfile(log[b.next])
     \/ NoEffect(log[b.next])
     \/ Raise(log[b.next])
  /\ UNCHANGED store

FinishUpsert ==
  /\ b.pc = "add"
  /\ \E err \in BOOLEAN : UpsertAdd("B", log[b.next].rule, log[b.next].body, err)
  /\ Done
  /\ UNCHANGED store

ServersLatest == Len(log)
OldCursor == b.since

\* lastCommandId of the answer
CursorAfter == b.last

\* Once for the whole batch, whatever failed in it.  An exception of the write is caught by
\* the loop, which polls again from the old cursor.
SaveCursor ==
  /\ b.pc = "save"
  /\ b' = BIdle
  /\ UpdateStore([last_command_id |-> CursorAfter])
  /\ UNCHANGED <<fw, profile, attempted>>

ReceiverStep ==
  /\ \/ PollCommands
     \/ ApplyCommand
     \/ FinishUpsert
     \/ SaveCursor
  /\ UNCHANGED serverVars
=============================================================================
