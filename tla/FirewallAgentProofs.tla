------------------------- MODULE FirewallAgentProofs -------------------------
(***************************************************************************)
(* The firewall's types, channel B's cursor, and that no blocking rule is  *)
(* left that nobody knows of: proved for any rules, commands, actors,      *)
(* failures and crashes.                                                   *)
(***************************************************************************)
EXTENDS FirewallAgent, SequenceTheorems, TLAPS

StoreFields == {"last_revision", "last_command_id"}

\* What the cursor's safety needs to know of types.
CursorTypes ==
  /\ DOMAIN store = StoreFields
  /\ store.last_command_id \in Int
  /\ b \in [pc : BPcs, since : Int, next : Int, last : Int]

\* The commands before next have been carried to their end, and so has the whole batch
\* when its cursor is about to be saved.
BatchInv ==
  /\ CursorBehindAttempts
  /\ b.pc \in {"apply", "add"} => 1 .. b.next - 1 \subseteq attempted /\ b.next <= b.last
  /\ b.pc = "save" => 1 .. b.last \subseteq attempted

CursorInv == CursorTypes /\ BatchInv

LEMMA InitCursor == Init => CursorInv
  BY DEF Init, CursorInv, CursorTypes, BatchInv, CursorBehindAttempts, StoreFields, BPcs,
         Store!Init, DefaultState, ReceiverInit, BIdle

\* A write of the store leaves the old cursor, the written one, or none.
LEMMA UpdateEffect ==
  ASSUME CursorTypes, NEW partial, UpdateStore(partial)
  PROVE  /\ DOMAIN store' = StoreFields
         /\ store'.last_command_id \in {store.last_command_id, 0}
              \cup (IF "last_command_id" \in DOMAIN partial THEN {partial.last_command_id} ELSE {})
<1>1. CASE Store!MergeUpdate(partial)
  BY <1>1 DEF Store!MergeUpdate, Store!Overwrite, CursorTypes, StoreFields
<1>2. CASE Store!MergeUnread(partial)
  BY <1>2 DEF Store!MergeUnread, Store!Overwrite, DefaultState, StoreFields
<1>3. CASE UNCHANGED store
  BY <1>3 DEF CursorTypes
<1> QED
  BY <1>1, <1>2, <1>3 DEF UpdateStore

\* Channel A may lose the cursor, and never moves it forward.
LEMMA SyncCursor == CursorInv /\ A => CursorInv'
<1> SUFFICES ASSUME CursorInv, A PROVE CursorInv'
  OBVIOUS
<1> USE DEF CursorInv
<1>1. UNCHANGED bVars
  BY DEF A
<1>2. CASE UNCHANGED store
  BY <1>1, <1>2 DEF bVars, CursorTypes, BatchInv, CursorBehindAttempts
<1>3. CASE SaveRevision
  <2>1. DOMAIN store' = StoreFields /\ store'.last_command_id \in {store.last_command_id, 0}
    BY <1>3, UpdateEffect DEF SaveRevision
  <2> QED
    BY <1>1, <2>1 DEF bVars, CursorTypes, BatchInv, CursorBehindAttempts
<1> QED
  BY <1>2, <1>3
     DEF A, SyncStep, FetchSnapshot, ListCurrent, RemoveStale, BeginUpsert, EndUpsert, SyncProfiles

LEMMA DoneCursor ==
  ASSUME CursorInv, b.pc \in {"apply", "add"}, Done, UNCHANGED store
  PROVE  CursorInv'
<1> USE DEF CursorInv
<1>1. /\ attempted' = attempted \cup {b.next}
      /\ b'.next = b.next + 1 /\ b'.last = b.last /\ b'.since = b.since
      /\ b'.pc = IF b.next = b.last THEN "save" ELSE "apply"
  BY DEF Done, CursorTypes
<1>2. CursorTypes'
  <2>1. b' = [b EXCEPT !.next = b.next + 1, !.pc = IF b.next = b.last THEN "save" ELSE "apply"]
    BY DEF Done
  <2>2. b' \in [pc : BPcs, since : Int, next : Int, last : Int]
    <3>1. b.next + 1 \in Int /\ (IF b.next = b.last THEN "save" ELSE "apply") \in BPcs
      BY DEF CursorTypes, BPcs
    <3>2. b \in [pc : BPcs, since : Int, next : Int, last : Int]
      BY DEF CursorTypes
    <3> QED
      BY <2>1, <3>1, <3>2
  <2> QED
    BY <2>2 DEF CursorTypes
<1>3. 1 .. b.next \subseteq attempted'
  BY <1>1 DEF BatchInv, CursorTypes
<1>4. CursorBehindAttempts'
  BY <1>1 DEF BatchInv, CursorBehindAttempts
<1>5. b'.pc = "apply" => b.next + 1 <= b.last
  BY <1>1 DEF BatchInv, CursorTypes
<1> QED
  BY <1>1, <1>2, <1>3, <1>4, <1>5 DEF BatchInv, CursorTypes

LEMMA ReceiverCursor == CursorInv /\ B => CursorInv'
<1> SUFFICES ASSUME CursorInv, B PROVE CursorInv'
  OBVIOUS
<1> USE DEF CursorInv
<1>1. CASE PollCommands
  <2>1. PICK st \in {store, DefaultState} : \E n \in st.last_command_id + 1 .. Len(log) :
          b' = [pc |-> "apply", since |-> st.last_command_id,
                next |-> st.last_command_id + 1, last |-> n]
    BY <1>1 DEF PollCommands
  <2>2. st.last_command_id \in Int /\ 1 .. st.last_command_id \subseteq attempted
    BY DEF CursorTypes, BatchInv, CursorBehindAttempts, DefaultState
  <2>3. PICK n \in Int : /\ st.last_command_id + 1 <= n
                         /\ b' = [pc |-> "apply", since |-> st.last_command_id,
                                  next |-> st.last_command_id + 1, last |-> n]
    BY <2>1, <2>2
  <2>4. UNCHANGED <<store, attempted>>
    BY <1>1 DEF PollCommands
  <2> QED
    BY <2>2, <2>3, <2>4 DEF CursorTypes, BatchInv, CursorBehindAttempts, BPcs
<1>2. CASE ApplyCommand
  <2>1. UNCHANGED store /\ b.pc = "apply"
    BY <1>2 DEF ApplyCommand
  <2>2. CASE Done
    BY <2>1, <2>2, DoneCursor
  <2>3. CASE b' = [b EXCEPT !.pc = "add"] /\ UNCHANGED attempted
    BY <2>1, <2>3 DEF CursorTypes, BatchInv, CursorBehindAttempts, BPcs
  <2>4. CASE b' = BIdle /\ UNCHANGED attempted
    BY <2>1, <2>4 DEF BIdle, CursorTypes, BatchInv, CursorBehindAttempts, BPcs
  <2> QED
    BY <1>2, <2>2, <2>3, <2>4
       DEF ApplyCommand, DeleteRule, UpsertRule, EnableProfile, NoEffect, Raise
<1>3. CASE FinishUpsert
  BY <1>3, DoneCursor DEF FinishUpsert
<1>4. CASE SaveCursor
  <2>1. b.pc = "save" /\ b' = BIdle /\ UNCHANGED attempted
    BY <1>4 DEF SaveCursor
  <2>2. DOMAIN store' = StoreFields /\ store'.last_command_id \in {store.last_command_id, 0, b.last}
    BY <1>4, UpdateEffect DEF SaveCursor, CursorAfter
  <2> QED
    BY <2>1, <2>2 DEF BIdle, CursorTypes, BatchInv, CursorBehindAttempts, BPcs
<1> QED
  BY <1>1, <1>2, <1>3, <1>4 DEF B, ReceiverStep

(* Channel B's cursor never passes a command that was not carried to its end: whatever   *)
(* fails, raises, crashes or is lost of the store, a command may be applied again and is *)
(* never skipped.  (command_receiver.py 79-162, local_state_store.py 66-73)              *)
THEOREM CursorCorrect == Spec => []CursorBehindAttempts
<1>1. CursorInv /\ [Next]_vars => CursorInv'
  <2> SUFFICES ASSUME CursorInv, [Next]_vars PROVE CursorInv'
    OBVIOUS
  <2>1. CASE UNCHANGED <<store, bVars>>
    BY <2>1 DEF CursorInv, CursorTypes, BatchInv, CursorBehindAttempts, bVars
  <2>2. CASE Crash
    BY <2>2 DEF Crash, BIdle, BPcs, CursorInv, CursorTypes, BatchInv, CursorBehindAttempts
  <2> QED
    BY <2>1, <2>2, SyncCursor, ReceiverCursor DEF Next, Local, LocalStep, Server, vars
<1>2. CursorInv => CursorBehindAttempts
  BY DEF CursorInv, BatchInv
<1> QED
  BY <1>1, <1>2, InitCursor, PTL DEF Spec

-----------------------------------------------------------------------------
\* What types need beside TypeOK: every script that adds a rule has a rule to add.
CycleToAdd == a.pc \in {"apply", "add"} => a.upsert \subseteq DesiredIds(a.rev)
LogToAdd ==
  \A i \in 1 .. Len(log) :
    /\ log[i].action = "UPSERT_RULE" => log[i].body \in ServerBodies
    /\ log[i].action = "DELETE_RULE" => log[i].body = NoRule

TypeInv == TypeOK /\ CycleToAdd /\ LogToAdd

\* Revisions and commands are added, never changed.
HistoryKept ==
  /\ Len(snapshots) <= Len(snapshots)' /\ Len(log) <= Len(log)'
  /\ \A n \in 0 .. Len(snapshots) : UNCHANGED SnapshotOf(n)
  /\ \A i \in 1 .. Len(log) : UNCHANGED log[i]

LEMMA InitTypes == Init => TypeInv
<1> SUFFICES ASSUME Init PROVE TypeInv
  OBVIOUS
<1>1. WfasTypeOK
  BY WfasAssumption DEF Init, WfasInit, WfasTypeOK, Profiles
<1>2. ServerTypeOK /\ Len(snapshots) = 0 /\ Len(log) = 0
  BY ServerAssumption, EmptySeq DEF Init, ServerInit, ServerTypeOK
<1>3. SyncTypeOK /\ ReceiverTypeOK
  BY <1>2 DEF Init, Store!Init, DefaultState, SyncInit, AIdle, APcs, SyncTypeOK,
              ReceiverInit, BIdle, BPcs, ReceiverTypeOK
<1>4. LocalTypeOK
  BY DEF Init, LocalInit, LIdle, LocalTypeOK
<1>5. CycleToAdd /\ LogToAdd
  BY <1>2 DEF Init, SyncInit, AIdle, CycleToAdd, LogToAdd
<1>6. crashes \in 0 .. MaxCrashes
  BY AgentAssumption DEF Init
<1>7. channel_b \in BOOLEAN /\ dirty \in BOOLEAN /\ clean \in BOOLEAN
  BY DEF Init
<1> QED
  BY <1>1, <1>2, <1>3, <1>4, <1>5, <1>6, <1>7 DEF TypeInv, TypeOK

LEMMA SnapshotTypes ==
  ASSUME ServerTypeOK, NEW n \in 0 .. Len(snapshots)
  PROVE  SnapshotOf(n) \in Snapshot
<1>1. Empty \in Snapshot
  BY DEF Empty, Snapshot
<1>2. CASE n # 0
  BY <1>2, ElementOfSeq DEF ServerTypeOK, SnapshotOf
<1> QED
  BY <1>1, <1>2 DEF SnapshotOf

\* What a command says, by its action.
LEMMA CommandTypes ==
  ASSUME ServerTypeOK, LogToAdd, NEW i \in 1 .. Len(log)
  PROVE  /\ log[i].action \in {"UPSERT_RULE", "DELETE_RULE"} => log[i].rule \in ServerRuleIds
         /\ log[i].action = "UPSERT_RULE" => log[i].body \in ServerBodies
         /\ log[i].action = "ENABLE_PROFILE" => log[i].profile \in Profiles
<1>1. log[i] \in Command
  BY ElementOfSeq DEF ServerTypeOK
<1> QED
  BY <1>1, ServerAssumption DEF Command, LogToAdd

\* The server only adds to its history, and moves to a revision of it.
LEMMA ServerEffect ==
  ASSUME ServerTypeOK, LogToAdd, Server
  PROVE  ServerTypeOK' /\ LogToAdd' /\ HistoryKept
<1> DEFINE Goal == ServerTypeOK' /\ LogToAdd' /\ HistoryKept
<1>0. SnapshotOf(revision) \in Snapshot
  BY SnapshotTypes DEF ServerTypeOK
<1>1. ASSUME NEW snapshot \in Snapshot, NEW command \in Command, Publish(snapshot, command),
             command.action = "UPSERT_RULE" => command.body \in ServerBodies,
             command.action = "DELETE_RULE" => command.body = NoRule
      PROVE  Goal
  <2>1. /\ snapshots' \in Seq(Snapshot) /\ Len(snapshots)' = Len(snapshots) + 1
        /\ \A n \in 1 .. Len(snapshots) : snapshots'[n] = snapshots[n]
    BY <1>1, AppendProperties DEF Publish, ServerTypeOK
  <2>2. /\ log' \in Seq(Command) /\ Len(log)' = Len(log) + 1
        /\ \A i \in 1 .. Len(log) : log'[i] = log[i]
        /\ log'[Len(log) + 1] = command
    BY <1>1, AppendProperties DEF Publish, ServerTypeOK
  <2> QED
    BY <1>1, <2>1, <2>2, ServerAssumption DEF Publish, SnapshotOf, HistoryKept, LogToAdd, ServerTypeOK
<1>2. ASSUME NEW id \in ServerRuleIds, NEW body \in ServerBodies, PutRule(id, body)
      PROVE  Goal
  <2> DEFINE snapshot == [SnapshotOf(revision) EXCEPT !.rules[id] = body]
             command == [action |-> "UPSERT_RULE", rule |-> id, body |-> body]
  <2>1. snapshot \in Snapshot /\ command \in Command
    BY <1>0 DEF Snapshot, Command
  <2>2. Publish(snapshot, command)
    BY <1>2 DEF PutRule
  <2>3. command.action = "UPSERT_RULE" /\ command.body \in ServerBodies
    OBVIOUS
  <2> HIDE DEF snapshot, command, Goal
  <2> QED
    BY <1>1, <2>1, <2>2, <2>3
<1>3. ASSUME NEW id \in ServerRuleIds, DropRule(id)
      PROVE  Goal
  <2> DEFINE snapshot == [SnapshotOf(revision) EXCEPT !.rules[id] = NoRule]
             command == [action |-> "DELETE_RULE", rule |-> id, body |-> NoRule]
  <2>1. snapshot \in Snapshot /\ command \in Command
    BY <1>0 DEF Snapshot, Command
  <2>2. Publish(snapshot, command)
    BY <1>3 DEF DropRule
  <2>3. command.action = "DELETE_RULE" /\ command.body = NoRule
    OBVIOUS
  <2> HIDE DEF snapshot, command, Goal
  <2> QED
    BY <1>1, <2>1, <2>2, <2>3
<1>4. ASSUME NEW p \in Profiles, SwitchProfile(p)
      PROVE  Goal
  <2> DEFINE snapshot == [SnapshotOf(revision) EXCEPT !.profile = p]
             command == [action |-> "ENABLE_PROFILE", profile |-> p]
  <2>1. snapshot \in Snapshot /\ command \in Command
    BY <1>0 DEF Snapshot, Command
  <2>2. Publish(snapshot, command)
    BY <1>4 DEF SwitchProfile
  <2>3. command.action = "ENABLE_PROFILE"
    OBVIOUS
  <2> HIDE DEF snapshot, command, Goal
  <2> QED
    BY <1>1, <2>1, <2>2, <2>3
<1>5. ASSUME OtherCommand PROVE Goal
  <2>1. PICK action \in OtherActions : log' = Append(log, [action |-> action])
    BY <1>5 DEF OtherCommand
  <2>2. [action |-> action] \in Command
    BY DEF Command
  <2>3. /\ log' \in Seq(Command) /\ Len(log)' = Len(log) + 1
        /\ \A i \in 1 .. Len(log) : log'[i] = log[i]
        /\ log'[Len(log) + 1] = [action |-> action]
    BY <2>1, <2>2, AppendProperties DEF ServerTypeOK
  <2> QED
    BY <1>5, <2>3, ServerAssumption DEF OtherCommand, SnapshotOf, HistoryKept, LogToAdd, ServerTypeOK
<1>6. ASSUME Rollback PROVE Goal
  BY <1>6 DEF Rollback, SnapshotOf, HistoryKept, LogToAdd, ServerTypeOK
<1> QED
  BY <1>2, <1>3, <1>4, <1>5, <1>6 DEF Server

\* Whatever a script does, it leaves the firewall well-formed.
LEMMA FaultTypes ==
  ASSUME WfasTypeOK, NEW t, NoFault \/ Fault(t)
  PROVE  faults' \in 0 .. MaxFaults
  BY WfasAssumption DEF WfasTypeOK, NoFault, Fault, CanFail

LEMMA ScriptTypes ==
  ASSUME WfasTypeOK, NEW t, NEW id, NEW body, NEW err, NEW p, NEW ids,
         \/ ListManagedRuleIds(t, ids) \/ RemoveRule(t, id) \/ UpsertRejected(body)
         \/ UpsertNotRun(t, body) \/ UpsertRemove(t, id, body) \/ ApplyProfiles(t, p)
         \/ body \in Bodies /\ UpsertAdd(t, id, body, err)
  PROVE  WfasTypeOK'
<1> USE DEF UpsertRemove
<1>1. NoFault \/ Fault(t)
  BY DEF ListManagedRuleIds, RemoveRule, UpsertRejected, UpsertNotRun, UpsertAdd, ApplyProfiles,
         NoFault, wfasVars
<1>2. faults' \in 0 .. MaxFaults
  BY <1>1, FaultTypes
<1>3. profile' \in Profiles
  BY DEF WfasTypeOK, ListManagedRuleIds, RemoveRule, UpsertRejected, UpsertNotRun, UpsertAdd,
         ApplyProfiles, wfasVars
<1>4. fw' \in {fw, Without(id)} \/ (body \in Bodies /\ fw' \in {fw, With(id, body)})
  BY DEF ListManagedRuleIds, RemoveRule, UpsertRejected, UpsertNotRun, UpsertAdd, ApplyProfiles,
         wfasVars
<1>5. /\ Without(id) \in [RuleIds -> SUBSET Bodies]
      /\ body \in Bodies => With(id, body) \in [RuleIds -> SUBSET Bodies]
  BY DEF WfasTypeOK, Without, With
<1> QED
  BY <1>2, <1>3, <1>4, <1>5 DEF WfasTypeOK

LEMMA StoreTypes ==
  ASSUME TypeInv, NEW partial, UpdateStore(partial),
         \/ \E n \in 0 .. Len(snapshots) : partial = [last_revision |-> n]
         \/ \E n \in 0 .. Len(log) : partial = [last_command_id |-> n]
  PROVE  /\ store' \in [last_revision : 0 .. Len(snapshots), last_command_id : 0 .. Len(log)]
         /\ faults' \in 0 .. MaxFaults
<1> DEFINE Stores == [last_revision : 0 .. Len(snapshots), last_command_id : 0 .. Len(log)]
<1>1. faults' \in 0 .. MaxFaults
  BY FaultTypes DEF TypeInv, TypeOK, UpdateStore
<1>2. store \in Stores /\ DefaultState \in Stores
  BY DEF TypeInv, TypeOK, SyncTypeOK, ServerTypeOK, DefaultState
<1>3. ASSUME NEW s \in Stores PROVE Store!Overwrite(s, partial) \in Stores
  BY DEF Store!Overwrite
<1> QED
  BY <1>1, <1>2, <1>3 DEF UpdateStore, Store!MergeUpdate, Store!MergeUnread

Cycles == [pc : APcs, rev : 0 .. Len(snapshots), remove : SUBSET RuleIds,
           upsert : SUBSET ServerRuleIds, rule : ServerRuleIds \cup {NoRule}]

LEMMA SyncTypes ==
  ASSUME TypeInv, A
  PROVE  TypeInv'
<1> DEFINE WithTypes(c) == /\ c \in Cycles
                           /\ c.pc = "add" => c.rule \in c.upsert
                           /\ c.pc \in {"apply", "add"} => c.upsert \subseteq DesiredIds(c.rev)
           Stores == [last_revision : 0 .. Len(snapshots), last_command_id : 0 .. Len(log)]
<1>1. /\ WfasTypeOK /\ ServerTypeOK /\ a \in Cycles /\ WithTypes(a) /\ store \in Stores
  BY DEF TypeInv, TypeOK, SyncTypeOK, CycleToAdd, Cycles
<1>2. WfasTypeOK' /\ store' \in Stores /\ WithTypes(a')
  <2> USE DEF Cycles, APcs
  <2>1. CASE FetchSnapshot
    <3>1. WfasTypeOK'
      BY <1>1, <2>1, FaultTypes DEF FetchSnapshot, LoadStore, WfasTypeOK
    <3> QED
      BY <1>1, <2>1, <3>1 DEF FetchSnapshot, AIdle, ServerTypeOK
  <2>2. CASE ListCurrent
    <3>1. PICK ids \in SUBSET RuleIds :
            /\ ListManagedRuleIds("A", ids)
            /\ a' = [a EXCEPT !.pc = "apply", !.remove = Stale(ids, a.rev),
                              !.upsert = DesiredIds(a.rev)]
      BY <2>2 DEF ListCurrent
    <3>2. Stale(ids, a.rev) \subseteq RuleIds /\ DesiredIds(a.rev) \subseteq ServerRuleIds
      BY DEF Stale, DesiredIds
    <3>3. WithTypes(a')
      BY <1>1, <3>1, <3>2
    <3>4. WfasTypeOK'
      BY <1>1, <3>1, ScriptTypes
    <3> QED
      BY <1>1, <2>2, <3>3, <3>4 DEF ListCurrent
  <2>3. CASE RemoveStale
    <3>1. PICK id \in a.remove : RemoveRule("A", id) /\ a' = [a EXCEPT !.remove = @ \ {id}]
      BY <2>3 DEF RemoveStale
    <3>2. WithTypes(a')
      BY <1>1, <3>1
    <3>3. WfasTypeOK'
      BY <1>1, <3>1, ScriptTypes
    <3> QED
      BY <1>1, <2>3, <3>2, <3>3 DEF RemoveStale
  <2>4. CASE BeginUpsert
    <3>1. PICK id \in a.upsert :
            LET body == SnapshotOf(a.rev).rules[id] IN
            \/ /\ UpsertRejected(body) \/ UpsertNotRun("A", body)
               /\ a' = [a EXCEPT !.upsert = @ \ {id}]
            \/ /\ UpsertRemove("A", id, body)
               /\ a' = [a EXCEPT !.pc = "add", !.rule = id]
      BY <2>4 DEF BeginUpsert
    <3>2. WithTypes(a')
      BY <1>1, <2>4, <3>1 DEF BeginUpsert
    <3>3. WfasTypeOK'
      BY <1>1, <3>1, ScriptTypes
    <3> QED
      BY <1>1, <2>4, <3>2, <3>3 DEF BeginUpsert
  <2>5. CASE EndUpsert
    <3>1. SnapshotOf(a.rev).rules[a.rule] \in Bodies
      BY <1>1, <2>5, SnapshotTypes, ServerAssumption DEF EndUpsert, DesiredIds, Snapshot
    <3>2. WfasTypeOK'
      BY <1>1, <2>5, <3>1, ScriptTypes DEF EndUpsert
    <3>3. a' = [a EXCEPT !.pc = "apply", !.upsert = @ \ {a.rule}, !.rule = NoRule] /\ a.pc = "add"
      BY <2>5 DEF EndUpsert
    <3>4. WithTypes(a')
      BY <1>1, <3>3
    <3> QED
      BY <1>1, <2>5, <3>2, <3>4 DEF EndUpsert
  <2>6. CASE SyncProfiles
    <3>1. a' = [a EXCEPT !.pc = "save"]
      BY <2>6 DEF SyncProfiles
    <3>2. WithTypes(a')
      BY <1>1, <3>1
    <3>3. WfasTypeOK'
      BY <1>1, <2>6, ScriptTypes DEF SyncProfiles
    <3> QED
      BY <1>1, <2>6, <3>2, <3>3 DEF SyncProfiles
  <2>7. CASE SaveRevision
    <3>1. store' \in Stores /\ faults' \in 0 .. MaxFaults
      BY <1>1, <2>7, StoreTypes DEF SaveRevision
    <3>2. WithTypes(AIdle)
      BY <1>1 DEF AIdle, ServerTypeOK
    <3> QED
      BY <1>1, <2>7, <3>1, <3>2 DEF SaveRevision, WfasTypeOK
  <2> QED
    BY <2>1, <2>2, <2>3, <2>4, <2>5, <2>6, <2>7 DEF A, SyncStep
<1>3. UNCHANGED <<serverVars, bVars, lVars, channel_b, crashes>>
  BY DEF A, SyncStep
<1>4. SyncTypeOK' /\ CycleToAdd'
  BY <1>2, <1>3 DEF serverVars, SyncTypeOK, CycleToAdd, Cycles, DesiredIds, SnapshotOf
<1>5. dirty' \in BOOLEAN /\ clean' \in BOOLEAN
  BY DEF A
<1>6. ServerTypeOK' /\ LogToAdd' /\ ReceiverTypeOK' /\ LocalTypeOK'
  BY <1>3 DEF serverVars, bVars, lVars, TypeInv, TypeOK, ServerTypeOK, LogToAdd, ReceiverTypeOK,
              LocalTypeOK
<1> QED
  BY <1>2, <1>3, <1>4, <1>5, <1>6 DEF TypeInv, TypeOK

Batches == [pc : BPcs, since : 0 .. Len(log), next : 1 .. Len(log) + 1, last : 0 .. Len(log)]

LEMMA DoneTypes ==
  ASSUME TypeInv, b.pc \in {"apply", "add"}, Done
  PROVE  /\ b' \in Batches /\ b'.pc # "add" /\ attempted' \subseteq 1 .. Len(log)
         /\ b'.pc = "apply" => b'.next <= b'.last
<1>1. /\ b \in Batches /\ Len(log) \in Nat /\ b.next <= b.last
      /\ attempted \subseteq 1 .. Len(log)
  BY DEF TypeInv, TypeOK, ReceiverTypeOK, ServerTypeOK, Batches
<1>2. b.next \in 1 .. Len(log) /\ b.next + 1 \in 1 .. Len(log) + 1
  BY <1>1 DEF Batches
<1>3. b' = [b EXCEPT !.next = b.next + 1, !.pc = IF b.next = b.last THEN "save" ELSE "apply"]
  BY DEF Done
<1>4. (IF b.next = b.last THEN "save" ELSE "apply") \in BPcs
  BY DEF BPcs
<1>5. b' \in Batches
  BY <1>1, <1>2, <1>3, <1>4 DEF Batches
<1>6. attempted' \subseteq 1 .. Len(log)
  BY <1>1, <1>2 DEF Done
<1>7. b'.pc # "add" /\ (b'.pc = "apply" => b'.next <= b'.last)
  BY <1>1, <1>3 DEF Batches
<1> QED
  BY <1>5, <1>6, <1>7

LEMMA ReceiverTypes ==
  ASSUME TypeInv, B
  PROVE  TypeInv'
<1> DEFINE WithTypes(c) == /\ c \in Batches
                           /\ c.pc \in {"apply", "add"} => c.next <= c.last
                           /\ c.pc = "add" => log[c.next].action = "UPSERT_RULE"
           Stores == [last_revision : 0 .. Len(snapshots), last_command_id : 0 .. Len(log)]
<1>1. /\ WfasTypeOK /\ ServerTypeOK /\ LogToAdd /\ WithTypes(b) /\ store \in Stores
      /\ attempted \subseteq 1 .. Len(log) /\ Len(log) \in Nat /\ Len(snapshots) \in Nat
  BY DEF TypeInv, TypeOK, SyncTypeOK, ReceiverTypeOK, ServerTypeOK, Batches
<1>2. WithTypes(BIdle)
  BY <1>1 DEF Batches, BIdle, BPcs
<1>3. WfasTypeOK' /\ store' \in Stores /\ WithTypes(b') /\ attempted' \subseteq 1 .. Len(log)
  <2>1. CASE PollCommands
    <3>1. WfasTypeOK'
      BY <1>1, <2>1, FaultTypes DEF PollCommands, LoadStore, WfasTypeOK
    <3>2. PICK st \in {store, DefaultState} : \E n \in st.last_command_id + 1 .. Len(log) :
            b' = [pc |-> "apply", since |-> st.last_command_id,
                  next |-> st.last_command_id + 1, last |-> n]
      BY <2>1 DEF PollCommands
    <3>3. st.last_command_id \in 0 .. Len(log)
      BY <1>1 DEF DefaultState
    <3>4. WithTypes(b')
      BY <1>1, <3>2, <3>3 DEF Batches, BPcs
    <3> QED
      BY <1>1, <2>1, <3>1, <3>4 DEF PollCommands
  <2>2. CASE ApplyCommand
    <3> DEFINE cmd == log[b.next]
    <3>1. b.pc = "apply" /\ b.next \in 1 .. Len(log) /\ UNCHANGED store
      BY <1>1, <2>2 DEF ApplyCommand, Batches
    <3> HIDE DEF cmd
    <3>2. WfasTypeOK'
      <4>1. UNCHANGED wfasVars => WfasTypeOK'
        BY <1>1 DEF wfasVars, WfasTypeOK
      <4> QED
        BY <1>1, <2>2, <4>1, ScriptTypes
           DEF ApplyCommand, DeleteRule, UpsertRule, EnableProfile, NoEffect, Raise, cmd
    <3>3. CASE Done
      BY <1>1, <3>1, <3>2, <3>3, DoneTypes
    <3>4. CASE b' = BIdle /\ UNCHANGED attempted
      BY <1>1, <1>2, <3>1, <3>2, <3>4
    <3>5. CASE cmd.action = "UPSERT_RULE" /\ b' = [b EXCEPT !.pc = "add"] /\ UNCHANGED attempted
      <4>1. WithTypes(b')
        BY <1>1, <3>1, <3>5 DEF cmd, Batches, BPcs
      <4> QED
        BY <1>1, <3>1, <3>2, <3>5, <4>1
    <3> QED
      BY <2>2, <3>3, <3>4, <3>5
         DEF ApplyCommand, DeleteRule, UpsertRule, EnableProfile, NoEffect, Raise, cmd
  <2>3. CASE FinishUpsert
    <3>1. log[b.next].body \in Bodies
      BY <1>1, <2>3, CommandTypes, ServerAssumption DEF FinishUpsert, Batches
    <3>2. WfasTypeOK'
      BY <1>1, <2>3, <3>1, ScriptTypes DEF FinishUpsert
    <3> QED
      BY <1>1, <2>3, <3>2, DoneTypes DEF FinishUpsert
  <2>4. CASE SaveCursor
    <3>1. b.last \in 0 .. Len(log)
      BY <1>1 DEF Batches
    <3>2. store' \in Stores /\ faults' \in 0 .. MaxFaults
      BY <1>1, <2>4, <3>1, StoreTypes DEF SaveCursor, CursorAfter
    <3> QED
      BY <1>1, <1>2, <2>4, <3>2 DEF SaveCursor, WfasTypeOK
  <2> QED
    BY <2>1, <2>2, <2>3, <2>4 DEF B, ReceiverStep
<1>4. UNCHANGED <<serverVars, aVars, lVars, channel_b, crashes>>
  BY DEF B, ReceiverStep
<1>5. ReceiverTypeOK'
  BY <1>3, <1>4 DEF serverVars, ReceiverTypeOK, Batches
<1>6. dirty' \in BOOLEAN /\ clean' \in BOOLEAN
  BY DEF B
<1>7. ServerTypeOK' /\ LogToAdd' /\ LocalTypeOK' /\ CycleToAdd'
  BY <1>4 DEF serverVars, aVars, lVars, TypeInv, TypeOK, ServerTypeOK, LogToAdd, LocalTypeOK,
              CycleToAdd, DesiredIds, SnapshotOf
<1>8. SyncTypeOK'
  BY <1>3, <1>4 DEF serverVars, aVars, TypeInv, TypeOK, SyncTypeOK
<1> QED
  BY <1>3, <1>4, <1>5, <1>6, <1>7, <1>8 DEF TypeInv, TypeOK

LEMMA LocalTypes ==
  ASSUME TypeInv, Local
  PROVE  TypeInv'
<1>1. WfasTypeOK /\ LocalTypeOK
  BY DEF TypeInv, TypeOK
<1>2. WfasTypeOK' /\ LocalTypeOK'
  <2> DEFINE Calls == [pc : {"idle", "add", "unblock"}, remote : Remotes \cup {Any}]
  <2>1. LIdle \in Calls /\ \A remote : RuleIdFor(remote) \in LocalRuleIds
    BY DEF LIdle, RuleIdFor, LocalRuleIds
  <2>2. ASSUME NEW p \in LocalActors, NEW remote \in Remotes \cup {Any}, BlockNetwork(p, remote)
        PROVE  WfasTypeOK' /\ LocalTypeOK'
    <3>1. WfasTypeOK'
      BY <1>1, <2>2, ScriptTypes DEF BlockNetwork
    <3>2. LocalTypeOK'
      BY <1>1, <2>2 DEF BlockNetwork, LocalTypeOK
    <3> QED
      BY <3>1, <3>2
  <2>3. ASSUME NEW p \in LocalActors, BlockAdded(p)
        PROVE  WfasTypeOK' /\ LocalTypeOK'
    <3>1. l[p].remote \in Bodies
      BY <1>1, LocalAssumption DEF LocalTypeOK
    <3>2. WfasTypeOK'
      BY <1>1, <2>3, <3>1, ScriptTypes DEF BlockAdded
    <3> QED
      BY <1>1, <2>1, <2>3, <3>2 DEF BlockAdded, LocalTypeOK
  <2>4. ASSUME NEW p \in LocalActors, UnblockNetwork(p)
        PROVE  WfasTypeOK' /\ LocalTypeOK'
    BY <1>1, <2>4, ScriptTypes DEF UnblockNetwork, LocalTypeOK
  <2>5. ASSUME NEW p \in LocalActors, UnblockSpecific(p)
        PROVE  WfasTypeOK' /\ LocalTypeOK'
    BY <1>1, <2>1, <2>5, ScriptTypes DEF UnblockSpecific, LocalTypeOK
  <2> QED
    BY <2>2, <2>3, <2>4, <2>5 DEF Local, LocalStep
<1>3. UNCHANGED <<serverVars, store, aVars, bVars, channel_b, crashes, historyVars>>
  BY DEF Local, LocalStep
<1> QED
  BY <1>2, <1>3 DEF TypeInv, TypeOK, serverVars, aVars, bVars, historyVars, ServerTypeOK, LogToAdd,
                    CycleToAdd, DesiredIds, SnapshotOf, SyncTypeOK, ReceiverTypeOK

LEMMA ServerTypes ==
  ASSUME TypeInv, Server
  PROVE  TypeInv'
<1>1. ServerTypeOK' /\ LogToAdd' /\ HistoryKept
  BY ServerEffect DEF TypeInv, TypeOK
<1>2. UNCHANGED <<wfasVars, store, aVars, bVars, lVars, channel_b, crashes, historyVars>>
  BY DEF Server
<1>3. /\ Len(snapshots) \in Nat /\ Len(snapshots)' \in Nat
      /\ Len(log) \in Nat /\ Len(log)' \in Nat
  BY <1>1 DEF TypeInv, TypeOK, ServerTypeOK
<1>4. SyncTypeOK'
  BY <1>1, <1>2, <1>3 DEF TypeInv, TypeOK, SyncTypeOK, HistoryKept, aVars
<1>5. ReceiverTypeOK'
  BY <1>1, <1>2, <1>3 DEF TypeInv, TypeOK, ReceiverTypeOK, HistoryKept, bVars
<1>6. CycleToAdd'
  <2>1. a.rev \in 0 .. Len(snapshots)
    BY DEF TypeInv, TypeOK, SyncTypeOK
  <2>2. DesiredIds(a.rev)' = DesiredIds(a.rev)
    BY <1>1, <1>2, <2>1 DEF HistoryKept, DesiredIds, aVars
  <2> QED
    BY <1>2, <2>2 DEF TypeInv, CycleToAdd, aVars
<1>7. WfasTypeOK' /\ LocalTypeOK'
  BY <1>2 DEF TypeInv, TypeOK, WfasTypeOK, LocalTypeOK, wfasVars, lVars
<1>8. crashes' \in 0 .. MaxCrashes
  BY <1>2 DEF TypeInv, TypeOK
<1>9. channel_b' \in BOOLEAN /\ dirty' \in BOOLEAN /\ clean' \in BOOLEAN
  BY <1>2 DEF TypeInv, TypeOK, historyVars
<1> QED
  BY <1>1, <1>4, <1>5, <1>6, <1>7, <1>8, <1>9 DEF TypeInv, TypeOK

\* The scripts that may outlive the agent: of A and B for the server's rules, of the agent's
\* actors for the local ones.
LEMMA PendingTypes ==
  ASSUME TypeInv, NEW script \in Pending
  PROVE  /\ script.body \in Bodies
         /\ \/ a.pc = "add" /\ script.id = a.rule /\ script.body = SnapshotOf(a.rev).rules[a.rule]
            \/ b.pc = "add" /\ script.id = log[b.next].rule /\ script.body = log[b.next].body
            \/ script.id \in LocalRuleIds
<1> USE DEF TypeInv, TypeOK
<1>1. CASE a.pc = "add" /\ script = [id |-> a.rule, body |-> SnapshotOf(a.rev).rules[a.rule]]
  <2>1. a.rule \in DesiredIds(a.rev) /\ a.rev \in 0 .. Len(snapshots)
    BY <1>1 DEF SyncTypeOK, CycleToAdd
  <2>2. SnapshotOf(a.rev).rules[a.rule] \in ServerBodies
    BY <2>1, SnapshotTypes DEF DesiredIds, Snapshot
  <2> QED
    BY <1>1, <2>2, ServerAssumption
<1>2. CASE b.pc = "add" /\ script = [id |-> log[b.next].rule, body |-> log[b.next].body]
  <2>1. b.next \in 1 .. Len(log) /\ log[b.next].action = "UPSERT_RULE"
    BY <1>2 DEF ReceiverTypeOK, ServerTypeOK
  <2> QED
    BY <1>2, <2>1, CommandTypes, ServerAssumption
<1>3. ASSUME NEW p \in AgentActors, script = [id |-> RuleIdFor(l[p].remote), body |-> l[p].remote]
      PROVE  script.id \in LocalRuleIds /\ script.body \in Bodies
  BY <1>3, LocalAssumption DEF LocalTypeOK, RuleIdFor, LocalRuleIds
<1> QED
  BY <1>1, <1>2, <1>3 DEF Pending

LEMMA CrashTypes ==
  ASSUME TypeInv, Crash
  PROVE  TypeInv'
<1>1. WfasTypeOK'
  <2>1. PICK done \in SUBSET {script \in Pending : script.body \notin Refused} :
          fw' = [id \in RuleIds |-> fw[id] \cup {s.body : s \in {t \in done : t.id = id}}]
    BY DEF Crash
  <2>2. \A s \in done : s.body \in Bodies
    BY <2>1, PendingTypes
  <2>3. fw' \in [RuleIds -> SUBSET Bodies]
    BY <2>1, <2>2 DEF TypeInv, TypeOK, WfasTypeOK
  <2> QED
    BY <2>3 DEF Crash, TypeInv, TypeOK, WfasTypeOK
<1>2. ServerTypeOK' /\ LogToAdd' /\ Len(snapshots) \in Nat /\ Len(log) \in Nat
  BY DEF Crash, serverVars, TypeInv, TypeOK, ServerTypeOK, LogToAdd
<1>3. SyncTypeOK' /\ CycleToAdd'
  BY <1>2 DEF Crash, serverVars, AIdle, APcs, TypeInv, TypeOK, SyncTypeOK, CycleToAdd
<1>4. ReceiverTypeOK'
  BY <1>2 DEF Crash, serverVars, BIdle, BPcs, TypeInv, TypeOK, ReceiverTypeOK
<1>5. LocalTypeOK'
  BY DEF Crash, LIdle, TypeInv, TypeOK, LocalTypeOK
<1>6. crashes' \in 0 .. MaxCrashes
  BY AgentAssumption DEF Crash, TypeInv, TypeOK
<1>7. channel_b' \in BOOLEAN /\ dirty' \in BOOLEAN /\ clean' \in BOOLEAN
  BY DEF Crash, TypeInv, TypeOK
<1> QED
  BY <1>1, <1>2, <1>3, <1>4, <1>5, <1>6, <1>7 DEF TypeInv, TypeOK

LEMMA TypeStep == TypeInv /\ [Next]_vars => TypeInv'
<1>1. ASSUME TypeInv, UNCHANGED vars PROVE TypeInv'
  BY <1>1 DEF vars, serverVars, wfasVars, aVars, bVars, lVars, historyVars, TypeInv, TypeOK,
              WfasTypeOK, ServerTypeOK, SyncTypeOK, ReceiverTypeOK, LocalTypeOK, CycleToAdd,
              LogToAdd, DesiredIds, SnapshotOf
<1> QED
  BY <1>1, SyncTypes, ReceiverTypes, LocalTypes, ServerTypes, CrashTypes DEF Next

LEMMA TypesHold == Spec => []TypeInv
  BY InitTypes, TypeStep, PTL DEF Spec

(* The state of the firewall side keeps its shape whatever its actors do at the same      *)
(* time: both channels only name revisions and commands there are, and no script adds a   *)
(* rule without contents.  (desired_state_sync.py 79-122, command_receiver.py 79-162,     *)
(* local_block_controller.py 15-57)                                                       *)
THEOREM TypeCorrect == Spec => []TypeOK
<1>1. TypeInv => TypeOK
  BY DEF TypeInv
<1> QED
  BY <1>1, TypesHold, PTL

-----------------------------------------------------------------------------
\* A local rule that is there was asked for, or the release that is about to remove it is
\* under way; and only actors that live longer than the agent release.
Asked(id) ==
  id \in held \/ (id = RULE_ID_SPECIFIC_IP /\ \E p \in LocalActors : l[p].pc = "unblock")

OrphanInv ==
  /\ \A id \in LocalRuleIds : fw[id] # {} => Asked(id)
  /\ \A p \in AgentActors : l[p].pc # "unblock"

\* The channels only ever remove local rules (which LocalBlockHolds is about).
LEMMA ChannelsAddNoLocalRule ==
  ASSUME TypeInv, A \/ B, NEW id \in LocalRuleIds
  PROVE  fw'[id] \in {fw[id], {}}
<1>1. id \in RuleIds /\ id \notin ServerRuleIds /\ fw \in [RuleIds -> SUBSET Bodies]
  BY WfasAssumption DEF RuleIds, TypeInv, TypeOK, WfasTypeOK
<1>2. \A other : Without(other)[id] \in {fw[id], {}}
  BY <1>1 DEF Without
<1>3. \A other, body : other # id => With(other, body)[id] = fw[id]
  BY <1>1 DEF With
<1>4. CASE A
  <2>1. CASE EndUpsert
    <3>1. a.rule \in ServerRuleIds
      BY <2>1 DEF EndUpsert, TypeInv, TypeOK, SyncTypeOK
    <3> QED
      BY <1>1, <1>3, <2>1, <3>1 DEF EndUpsert, UpsertAdd
  <2> QED
    BY <1>2, <1>4, <2>1
       DEF A, SyncStep, FetchSnapshot, ListCurrent, ListManagedRuleIds, RemoveStale, BeginUpsert,
           RemoveRule, UpsertRejected, UpsertNotRun, UpsertRemove, SyncProfiles, ApplyProfiles,
           SaveRevision, wfasVars
<1>5. CASE B
  <2>1. CASE FinishUpsert
    <3>1. log[b.next].rule \in ServerRuleIds
      <4>1. b.next \in 1 .. Len(log) /\ log[b.next].action = "UPSERT_RULE"
        BY <2>1 DEF FinishUpsert, TypeInv, TypeOK, ReceiverTypeOK, ServerTypeOK
      <4> QED
        BY <4>1, CommandTypes DEF TypeInv, TypeOK
    <3> QED
      BY <1>1, <1>3, <2>1, <3>1 DEF FinishUpsert, UpsertAdd
  <2> QED
    BY <1>2, <1>5, <2>1
       DEF B, ReceiverStep, PollCommands, ApplyCommand, DeleteRule, UpsertRule, EnableProfile,
           NoEffect, Raise, RemoveRule, UpsertRejected, UpsertNotRun, UpsertRemove, ApplyProfiles,
           SaveCursor, wfasVars
<1> QED
  BY <1>4, <1>5

LEMMA LocalOrphans ==
  ASSUME LocalActors \cap Faulty = {}, TypeInv, OrphanInv, Local
  PROVE  OrphanInv'
<1> USE DEF OrphanInv, Asked
<1>1. /\ fw \in [RuleIds -> SUBSET Bodies] /\ LocalRuleIds \subseteq RuleIds
      /\ l \in [LocalActors -> [pc : {"idle", "add", "unblock"}, remote : Remotes \cup {Any}]]
  BY DEF RuleIds, TypeInv, TypeOK, WfasTypeOK, LocalTypeOK
<1>2. \A p \in LocalActors : \A id : RemoveRule(p, id) => fw' = [fw EXCEPT ![id] = {}]
  BY DEF RemoveRule, Without, Fault, CanFail
<1>3. ASSUME NEW p \in LocalActors, NEW remote \in Remotes \cup {Any}, BlockNetwork(p, remote)
      PROVE  OrphanInv'
  <2>1. UNCHANGED held /\ \A q \in LocalActors : l[q].pc = "unblock" <=> l'[q].pc = "unblock"
    BY <1>1, <1>3 DEF BlockNetwork
  <2>2. \A id \in LocalRuleIds : fw'[id] \in {fw[id], {}}
    BY <1>1, <1>2, <1>3 DEF BlockNetwork, UpsertRejected, UpsertNotRun, UpsertRemove, wfasVars
  <2> QED
    BY <2>1, <2>2, LocalAssumption
<1>4. ASSUME NEW p \in LocalActors, BlockAdded(p)
      PROVE  OrphanInv'
  <2> DEFINE rid == RuleIdFor(l[p].remote)
  <2>1. \A q \in LocalActors : l[q].pc = "unblock" <=> l'[q].pc = "unblock"
    BY <1>1, <1>4 DEF BlockAdded, LIdle
  <2>2. PICK err \in BOOLEAN :
          /\ UpsertAdd(p, rid, l[p].remote, err)
          /\ held' = IF err THEN held ELSE held \cup {rid}
    BY <1>4 DEF BlockAdded
  <2>3. ~Fault(p)
    BY DEF Fault, CanFail
  <2>4. \/ fw' = fw /\ held \subseteq held'
        \/ fw' = [fw EXCEPT ![rid] = @ \cup {l[p].remote}] /\ held' = held \cup {rid}
    BY <2>2, <2>3 DEF UpsertAdd, With
  <2> QED
    BY <1>1, <2>1, <2>4, LocalAssumption
<1>5. ASSUME NEW p \in LocalActors, UnblockNetwork(p)
      PROVE  OrphanInv'
  <2>1. p \notin AgentActors /\ l' = [l EXCEPT ![p].pc = "unblock"]
    BY <1>5 DEF UnblockNetwork
  <2>2. l'[p].pc = "unblock" /\ \A q \in AgentActors : l'[q].pc # "unblock"
    BY <1>1, <2>1, LocalAssumption
  <2>3. fw' = [fw EXCEPT ![RULE_ID_EMERGENCY] = {}]
    BY <1>2, <1>5 DEF UnblockNetwork, ids_to_remove
  <2> QED
    BY <1>1, <2>2, <2>3 DEF LocalRuleIds, RULE_ID_EMERGENCY, RULE_ID_SPECIFIC_IP
<1>6. ASSUME NEW p \in LocalActors, UnblockSpecific(p)
      PROVE  OrphanInv'
  <2>1. fw' = [fw EXCEPT ![RULE_ID_SPECIFIC_IP] = {}] /\ held' = held \ {RULE_ID_SPECIFIC_IP}
    BY <1>2, <1>6 DEF UnblockSpecific, ids_to_remove
  <2>2. l' = [l EXCEPT ![p] = LIdle]
    BY <1>6 DEF UnblockSpecific
  <2>3. \A q \in AgentActors : l'[q].pc # "unblock"
    BY <1>1, <2>2, LocalAssumption DEF LIdle
  <2> QED
    BY <1>1, <2>1, <2>3 DEF LocalRuleIds, RULE_ID_EMERGENCY, RULE_ID_SPECIFIC_IP
<1> QED
  BY <1>3, <1>4, <1>5, <1>6 DEF Local, LocalStep

LEMMA CrashOrphans ==
  ASSUME TypeInv, OrphanInv, Crash
  PROVE  OrphanInv'
<1>1. PICK done \in SUBSET {script \in Pending : script.body \notin Refused} :
        /\ fw' = [id \in RuleIds |-> fw[id] \cup {s.body : s \in {t \in done : t.id = id}}]
        /\ held' = held \cup {id \in LocalRuleIds : \E s \in done : s.id = id}
  BY DEF Crash
<1>2. l' = [p \in LocalActors |-> IF p \in AgentActors THEN LIdle ELSE l[p]]
  BY DEF Crash
<1>3. /\ \A p \in AgentActors : l'[p].pc # "unblock"
      /\ \A p \in LocalActors : l[p].pc = "unblock" => l'[p].pc = "unblock"
  BY <1>2, LocalAssumption DEF OrphanInv, LIdle
<1>4. \A id \in LocalRuleIds : fw'[id] # {} => fw[id] # {} \/ id \in held'
  BY <1>1 DEF RuleIds
<1> QED
  BY <1>1, <1>3, <1>4 DEF OrphanInv, Asked

(* When every block has been released and nobody is at work on one, no local rule is left *)
(* to cut the machine off: however many actors block and release at the same time, and    *)
(* however often the agent dies between the halves of a script.  The local actors' own    *)
(* scripts are taken not to fail: unblock_network does not look whether they did.         *)
(* (local_block_controller.py 15-57)                                                      *)
THEOREM NoOrphanBlockHolds ==
  ASSUME LocalActors \cap Faulty = {}
  PROVE  Spec => []NoOrphanBlock
<1>1. Init => OrphanInv
  BY LocalAssumption DEF Init, WfasInit, LocalInit, LIdle, OrphanInv, RuleIds
<1>2. TypeInv /\ OrphanInv /\ [Next]_vars => OrphanInv'
  <2> SUFFICES ASSUME TypeInv, OrphanInv, [Next]_vars PROVE OrphanInv'
    OBVIOUS
  <2>1. CASE A \/ B
    <3>1. UNCHANGED lVars
      BY <2>1 DEF A, B
    <3> QED
      BY <2>1, <3>1, ChannelsAddNoLocalRule DEF OrphanInv, Asked, lVars
  <2>2. CASE Server \/ UNCHANGED vars
    BY <2>2 DEF Server, vars, wfasVars, lVars, OrphanInv, Asked
  <2> QED
    BY <2>1, <2>2, LocalOrphans, CrashOrphans DEF Next
<1>3. OrphanInv => NoOrphanBlock
  BY DEF OrphanInv, Asked, NoOrphanBlock, Present
<1> QED
  BY <1>1, <1>2, <1>3, TypesHold, PTL DEF Spec
=============================================================================
