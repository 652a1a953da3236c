----------------------- MODULE FirewallAgreementProofs -----------------------
(***************************************************************************)
(* When both channels are done the firewall says what the server says:     *)
(* proved for any rules, commands, actors, failures and crashes.           *)
(*                                                                         *)
(* The argument is by who is still going to write a rule.  Channel B owes  *)
(* it a command as long as one about it lies ahead, in the batch or beyond *)
(* the cursor; channel A has it to do as long as its cycle has not come to *)
(* it.  A rule that neither will write again says what it should, or a     *)
(* script that removed it is about to add that.                            *)
(***************************************************************************)
EXTENDS FirewallAgentProofs

\* The cycle and the batch hold what their step needs and no more.
ShapeInv ==
  /\ a.pc \in {"idle", "list", "save"} => a.remove = {} /\ a.upsert = {}
  /\ a.pc = "add" => a.remove = {}
  /\ a.remove \cap DesiredIds(a.rev) = {}
  /\ b.pc # "idle" => b.since < b.next /\ channel_b
  /\ b.pc = "save" => b.next = b.last + 1
  /\ \A i \in attempted : log[i].action # "ILL_FORMED"

OnRule(k, id) == log[k].action \in {"UPSERT_RULE", "DELETE_RULE"} /\ log[k].rule = id
OnProfile(k) == log[k].action = "ENABLE_PROFILE"

\* With channel B the server never goes back, and its revision says of each rule, and of the
\* profiles, what the last command about them says.
LastCommandsTell ==
  \A k \in 1 .. Len(log) :
    /\ \A id \in ServerRuleIds :
         OnRule(k, id) /\ (\A j \in k + 1 .. Len(log) : ~OnRule(j, id)) =>
           SnapshotOf(revision).rules[id] = log[k].body
    /\ OnProfile(k) /\ (\A j \in k + 1 .. Len(log) : ~OnProfile(j)) =>
         SnapshotOf(revision).profile = log[k].profile

LogInv == channel_b => revision = Len(snapshots) /\ LastCommandsTell

\* The first command that B has yet to begin, in this batch or a later one.
NextDue == IF b.pc = "idle" THEN store.last_command_id + 1
           ELSE IF b.pc = "add" THEN b.next + 1 ELSE b.next

BOwes(id) == channel_b /\ \E k \in NextDue .. Len(log) : OnRule(k, id)
BOwesProfile == channel_b /\ \E k \in NextDue .. Len(log) : OnProfile(k)

\* Between the halves of a script for the rule.
AMid(id) == a.pc = "add" /\ a.rule = id
BMid(id) == b.pc = "add" /\ log[b.next].rule = id

ATodo(id) == a.pc = "list" \/ id \in a.remove \/ (id \in a.upsert /\ ~AMid(id))

\* The revision A has applied, or is applying.
Target == IF a.pc = "idle" THEN store.last_revision ELSE a.rev

Settled(id, want) ==
  /\ want \in Refused \cup {NoRule} => fw[id] = {}
  /\ want \in ServerBodies \ (Refused \cup Malformed) =>
       fw[id] \subseteq {want} /\ (fw[id] = {} => AMid(id) \/ BMid(id))

Agreed(id) == BOwes(id) \/ ATodo(id) \/ Settled(id, SnapshotOf(Target).rules[id])

AgreedProfile ==
  \/ BOwesProfile
  \/ a.pc \notin {"idle", "save"}
  \/ SnapshotOf(Target).profile \in Profiles => profile = SnapshotOf(Target).profile

\* No failure since A's last poll that A has not made up for, or is not about to; and, where
\* B writes as well, A is not behind the server.
Reliable == ~dirty \/ (a.pc # "idle" /\ clean)
Covered == Reliable /\ (channel_b => Target = revision)

AgreeInv == Covered => (\A id \in ServerRuleIds : Agreed(id)) /\ AgreedProfile

IInv == TypeInv /\ CursorBehindAttempts /\ ShapeInv /\ LogInv /\ AgreeInv

-----------------------------------------------------------------------------
LEMMA InitAgreement == Init => ShapeInv /\ LogInv /\ AgreeInv
<1> SUFFICES ASSUME Init PROVE ShapeInv /\ LogInv /\ AgreeInv
  OBVIOUS
<1>1. ShapeInv
  BY DEF Init, SyncInit, AIdle, ReceiverInit, BIdle, ShapeInv
<1>2. LogInv
  BY EmptySeq DEF Init, ServerInit, LogInv, LastCommandsTell
<1>3. Target = 0 /\ SnapshotOf(0) = Empty
  BY DEF Init, SyncInit, AIdle, Store!Init, DefaultState, Target, SnapshotOf
<1>4. \A id \in ServerRuleIds : fw[id] = {} /\ Empty.rules[id] = NoRule
  BY DEF Init, WfasInit, RuleIds, Empty
<1>5. \A id \in ServerRuleIds : Agreed(id)
  BY <1>3, <1>4, ServerAssumption DEF Agreed, Settled
<1>6. AgreedProfile
  BY <1>3 DEF AgreedProfile, Empty, Profiles
<1> QED
  BY <1>1, <1>2, <1>5, <1>6 DEF AgreeInv

\* The shape of A's cycle and of B's batch.
LEMMA SyncShape ==
  ASSUME TypeInv, ShapeInv, A
  PROVE  ShapeInv'
<1> USE DEF ShapeInv
<1>1. UNCHANGED <<serverVars, bVars, channel_b>>
  BY DEF A, SyncStep
<1>2. \A n : DesiredIds(n)' = DesiredIds(n)
  BY <1>1 DEF serverVars, DesiredIds, SnapshotOf
<1>3. /\ a'.pc \in {"idle", "list", "save"} => a'.remove = {} /\ a'.upsert = {}
      /\ a'.pc = "add" => a'.remove = {}
      /\ a'.remove \cap DesiredIds(a'.rev) = {}
  <2>0. a \in Cycles
    BY DEF TypeInv, TypeOK, SyncTypeOK, Cycles
  <2>1. CASE FetchSnapshot
    <3>1. a' = [AIdle EXCEPT !.pc = "list", !.rev = revision]
      BY <2>1 DEF FetchSnapshot
    <3> QED
      BY <3>1 DEF AIdle
  <2>2. CASE SaveRevision
    BY <2>2 DEF SaveRevision, AIdle
  <2>3. CASE ListCurrent
    <3>1. PICK ids \in SUBSET RuleIds :
            a' = [a EXCEPT !.pc = "apply", !.remove = Stale(ids, a.rev), !.upsert = DesiredIds(a.rev)]
      BY <2>3 DEF ListCurrent
    <3>2. a'.pc = "apply" /\ a'.remove = Stale(ids, a.rev) /\ a'.rev = a.rev
      BY <2>0, <3>1 DEF Cycles
    <3> QED
      BY <3>2 DEF Stale
  <2>4. CASE RemoveStale
    BY <2>0, <2>4 DEF RemoveStale, Cycles
  <2>5. CASE BeginUpsert
    BY <2>0, <2>5 DEF BeginUpsert, Cycles
  <2>6. CASE EndUpsert
    BY <2>0, <2>6 DEF EndUpsert, Cycles
  <2>7. CASE SyncProfiles
    BY <2>0, <2>7 DEF SyncProfiles, Cycles
  <2> QED
    BY <2>1, <2>2, <2>3, <2>4, <2>5, <2>6, <2>7 DEF A, SyncStep
<1> QED
  BY <1>1, <1>2, <1>3 DEF bVars, serverVars

LEMMA ReceiverShape ==
  ASSUME TypeInv, ShapeInv, B
  PROVE  ShapeInv'
<1> USE DEF ShapeInv
<1>1. UNCHANGED <<serverVars, aVars, channel_b>> /\ channel_b
  BY DEF B, ReceiverStep
<1>2. DesiredIds(a.rev)' = DesiredIds(a.rev) /\ UNCHANGED a
  BY <1>1 DEF serverVars, aVars, DesiredIds, SnapshotOf
<1>3. /\ b'.pc # "idle" => b'.since < b'.next
      /\ b'.pc = "save" => b'.next = b'.last + 1
      /\ \A i \in attempted' : log[i].action # "ILL_FORMED"
  <2>1. b \in Batches
    BY DEF TypeInv, TypeOK, ReceiverTypeOK, Batches
  <2>2. CASE PollCommands
    <3>1. PICK st \in {store, DefaultState} : \E n \in st.last_command_id + 1 .. Len(log) :
            b' = [pc |-> "apply", since |-> st.last_command_id,
                  next |-> st.last_command_id + 1, last |-> n]
      BY <2>2 DEF PollCommands
    <3>2. st.last_command_id \in Int
      BY DEF TypeInv, TypeOK, SyncTypeOK, DefaultState
    <3> QED
      BY <2>2, <3>1, <3>2 DEF PollCommands
  <2>3. CASE b' = BIdle /\ UNCHANGED attempted
    BY <2>3 DEF BIdle
  <2>4. CASE b.pc = "apply" /\ b' = [b EXCEPT !.pc = "add"] /\ UNCHANGED attempted
    BY <2>1, <2>4 DEF Batches
  <2>5. CASE b.pc # "idle" /\ log[b.next].action # "ILL_FORMED" /\ Done
    <3>1. /\ b'.since = b.since /\ b'.last = b.last /\ b'.next = b.next + 1
          /\ b'.pc = IF b.next = b.last THEN "save" ELSE "apply"
          /\ attempted' = attempted \cup {b.next}
      BY <2>1, <2>5 DEF Done, Batches
    <3> QED
      BY <2>1, <2>5, <3>1 DEF Batches
  <2>6. CASE ApplyCommand
    BY <2>3, <2>4, <2>5, <2>6
       DEF ApplyCommand, DeleteRule, UpsertRule, EnableProfile, NoEffect, Raise
  <2>7. CASE FinishUpsert
    <3>1. log[b.next].action = "UPSERT_RULE"
      BY <2>7 DEF FinishUpsert, TypeInv, TypeOK, ReceiverTypeOK
    <3> QED
      BY <2>5, <2>7, <3>1 DEF FinishUpsert
  <2> QED
    BY <2>2, <2>3, <2>6, <2>7 DEF B, ReceiverStep, SaveCursor
<1> QED
  BY <1>1, <1>2, <1>3 DEF serverVars

LEMMA ShapeStep == TypeInv /\ ShapeInv /\ [Next]_vars => ShapeInv'
<1> SUFFICES ASSUME TypeInv, ShapeInv, [Next]_vars PROVE ShapeInv'
  OBVIOUS
<1>1. CASE Local \/ UNCHANGED vars
  BY <1>1 DEF Local, LocalStep, vars, serverVars, aVars, bVars, ShapeInv, DesiredIds, SnapshotOf
<1>2. CASE Server
  <2>1. HistoryKept /\ UNCHANGED <<a, b, attempted, channel_b>>
    BY <1>2, ServerEffect DEF TypeInv, TypeOK, Server, aVars, bVars
  <2>2. DesiredIds(a.rev)' = DesiredIds(a.rev) /\ \A i \in attempted : log'[i] = log[i]
    BY <2>1 DEF HistoryKept, DesiredIds, TypeInv, TypeOK, SyncTypeOK, ReceiverTypeOK
  <2> QED
    BY <2>1, <2>2 DEF ShapeInv
<1>3. CASE Crash
  BY <1>3 DEF Crash, serverVars, AIdle, BIdle, ShapeInv
<1> QED
  BY <1>1, <1>2, <1>3, SyncShape, ReceiverShape DEF Next

-----------------------------------------------------------------------------
\* A change that the server publishes is told by the command it comes with.
LEMMA PublishTells ==
  ASSUME TypeInv, channel_b, LogInv, NEW snapshot \in Snapshot, NEW command \in Command,
         Publish(snapshot, command),
         \A id \in ServerRuleIds :
           snapshot.rules[id] =
             IF command.action \in {"UPSERT_RULE", "DELETE_RULE"} /\ command.rule = id
             THEN command.body ELSE SnapshotOf(revision).rules[id],
         snapshot.profile = IF command.action = "ENABLE_PROFILE" THEN command.profile
                                                                 ELSE SnapshotOf(revision).profile
  PROVE  revision' = Len(snapshots)' /\ LastCommandsTell'
<1>1. /\ Len(snapshots)' = Len(snapshots) + 1 /\ Len(snapshots) \in Nat
      /\ revision' = Len(snapshots) + 1
      /\ snapshots'[Len(snapshots) + 1] = snapshot
  BY AppendProperties DEF Publish, TypeInv, TypeOK, ServerTypeOK
<1>2. /\ Len(log)' = Len(log) + 1 /\ Len(log) \in Nat
      /\ log'[Len(log) + 1] = command
      /\ \A i \in 1 .. Len(log) : log'[i] = log[i]
  BY AppendProperties DEF Publish, TypeInv, TypeOK, ServerTypeOK
<1>3. SnapshotOf(revision)' = snapshot
  BY <1>1 DEF SnapshotOf
<1>4. SUFFICES ASSUME NEW k \in 1 .. Len(log)'
               PROVE  /\ \A id \in ServerRuleIds :
                           OnRule(k, id)' /\ (\A j \in k + 1 .. Len(log)' : ~OnRule(j, id)') =>
                             snapshot.rules[id] = log'[k].body
                      /\ OnProfile(k)' /\ (\A j \in k + 1 .. Len(log)' : ~OnProfile(j)') =>
                           snapshot.profile = log'[k].profile
  BY <1>1, <1>3 DEF LastCommandsTell
<1>5. CASE k = Len(log) + 1
  BY <1>2, <1>5 DEF OnRule, OnProfile
<1>6. CASE k \in 1 .. Len(log)
  <2>1. Len(log) + 1 \in k + 1 .. Len(log)' /\ log'[k] = log[k]
    BY <1>2, <1>6
  <2>2. \A j \in k + 1 .. Len(log) : j \in k + 1 .. Len(log)' /\ log'[j] = log[j]
    BY <1>2, <1>6
  <2>3. /\ \A id \in ServerRuleIds :
             OnRule(k, id) /\ (\A j \in k + 1 .. Len(log) : ~OnRule(j, id)) =>
               SnapshotOf(revision).rules[id] = log[k].body
        /\ OnProfile(k) /\ (\A j \in k + 1 .. Len(log) : ~OnProfile(j)) =>
             SnapshotOf(revision).profile = log[k].profile
    BY <1>6 DEF LogInv, LastCommandsTell
  <2>4. ASSUME NEW id \in ServerRuleIds, OnRule(k, id)',
               \A j \in k + 1 .. Len(log)' : ~OnRule(j, id)'
        PROVE  snapshot.rules[id] = log'[k].body
    <3>1. ~(command.action \in {"UPSERT_RULE", "DELETE_RULE"} /\ command.rule = id)
      BY <1>2, <2>1, <2>4 DEF OnRule
    <3>2. OnRule(k, id) /\ \A j \in k + 1 .. Len(log) : ~OnRule(j, id)
      BY <2>1, <2>2, <2>4 DEF OnRule
    <3> QED
      BY <2>1, <2>3, <3>1, <3>2
  <2>5. ASSUME OnProfile(k)', \A j \in k + 1 .. Len(log)' : ~OnProfile(j)'
        PROVE  snapshot.profile = log'[k].profile
    <3>1. command.action # "ENABLE_PROFILE"
      BY <1>2, <2>1, <2>5 DEF OnProfile
    <3>2. OnProfile(k) /\ \A j \in k + 1 .. Len(log) : ~OnProfile(j)
      BY <2>1, <2>2, <2>5 DEF OnProfile
    <3> QED
      BY <2>1, <2>3, <3>1, <3>2
  <2> QED
    BY <2>4, <2>5
<1> QED
  BY <1>2, <1>5, <1>6

LEMMA ServerLog ==
  ASSUME TypeInv, LogInv, Server
  PROVE  /\ LogInv'
         /\ channel_b => revision' \in {revision, Len(snapshots) + 1}
<1> SUFFICES ASSUME channel_b
             PROVE  /\ revision' = Len(snapshots)' /\ LastCommandsTell'
                    /\ revision' \in {revision, Len(snapshots) + 1}
  BY DEF Server, LogInv
<1> DEFINE Goal == /\ revision' = Len(snapshots)' /\ LastCommandsTell'
                   /\ revision' \in {revision, Len(snapshots) + 1}
<1>0. SnapshotOf(revision) \in Snapshot
  BY SnapshotTypes DEF TypeInv, TypeOK, ServerTypeOK
<1>1. ASSUME NEW id \in ServerRuleIds, NEW body \in ServerBodies, PutRule(id, body)
      PROVE  Goal
  <2> DEFINE snapshot == [SnapshotOf(revision) EXCEPT !.rules[id] = body]
             command == [action |-> "UPSERT_RULE", rule |-> id, body |-> body]
  <2>1. snapshot \in Snapshot /\ command \in Command
    BY <1>0 DEF Snapshot, Command
  <2>2. Publish(snapshot, command)
    BY <1>1 DEF PutRule
  <2>3. \A other \in ServerRuleIds :
          snapshot.rules[other] =
            IF command.action \in {"UPSERT_RULE", "DELETE_RULE"} /\ command.rule = other
            THEN command.body ELSE SnapshotOf(revision).rules[other]
    BY <1>0 DEF Snapshot
  <2>4. snapshot.profile = SnapshotOf(revision).profile /\ command.action # "ENABLE_PROFILE"
    BY <1>0 DEF Snapshot
  <2> HIDE DEF snapshot, command
  <2> QED
    BY <2>1, <2>2, <2>3, <2>4, PublishTells DEF Publish
<1>2. ASSUME NEW id \in ServerRuleIds, DropRule(id)
      PROVE  Goal
  <2> DEFINE snapshot == [SnapshotOf(revision) EXCEPT !.rules[id] = NoRule]
             command == [action |-> "DELETE_RULE", rule |-> id, body |-> NoRule]
  <2>1. snapshot \in Snapshot /\ command \in Command
    BY <1>0 DEF Snapshot, Command
  <2>2. Publish(snapshot, command)
    BY <1>2 DEF DropRule
  <2>3. \A other \in ServerRuleIds :
          snapshot.rules[other] =
            IF command.action \in {"UPSERT_RULE", "DELETE_RULE"} /\ command.rule = other
            THEN command.body ELSE SnapshotOf(revision).rules[other]
    BY <1>0 DEF Snapshot
  <2>4. snapshot.profile = SnapshotOf(revision).profile /\ command.action # "ENABLE_PROFILE"
    BY <1>0 DEF Snapshot
  <2> HIDE DEF snapshot, command
  <2> QED
    BY <2>1, <2>2, <2>3, <2>4, PublishTells DEF Publish
<1>3. ASSUME NEW p \in Profiles, SwitchProfile(p)
      PROVE  Goal
  <2> DEFINE snapshot == [SnapshotOf(revision) EXCEPT !.profile = p]
             command == [action |-> "ENABLE_PROFILE", profile |-> p]
  <2>1. snapshot \in Snapshot /\ command \in Command
    BY <1>0 DEF Snapshot, Command
  <2>2. Publish(snapshot, command)
    BY <1>3 DEF SwitchProfile
  <2>3. \A other \in ServerRuleIds : snapshot.rules[other] = SnapshotOf(revision).rules[other]
    BY <1>0 DEF Snapshot
  <2>4. snapshot.profile = command.profile /\ command.action = "ENABLE_PROFILE"
    BY <1>0 DEF Snapshot
  <2> HIDE DEF snapshot, command
  <2> QED
    BY <2>1, <2>2, <2>3, <2>4, PublishTells DEF Publish
<1>4. ASSUME OtherCommand
      PROVE  Goal
  <2>1. PICK action \in OtherActions : log' = Append(log, [action |-> action])
    BY <1>4 DEF OtherCommand
  <2>2. [action |-> action] \in Command /\ action \notin {"UPSERT_RULE", "DELETE_RULE", "ENABLE_PROFILE"}
    BY ServerAssumption DEF Command
  <2>3. /\ Len(log)' = Len(log) + 1 /\ Len(log) \in Nat
        /\ \A i \in 1 .. Len(log) : log'[i] = log[i]
        /\ log'[Len(log) + 1] = [action |-> action]
    BY <2>1, <2>2, AppendProperties DEF TypeInv, TypeOK, ServerTypeOK
  <2>4. \A i : i = Len(log) + 1 => ~OnProfile(i)' /\ \A id : ~OnRule(i, id)'
    BY <2>2, <2>3 DEF OnRule, OnProfile
  <2>5. \A i \in 1 .. Len(log) : /\ \A id : OnRule(i, id)' <=> OnRule(i, id)
                                 /\ OnProfile(i)' <=> OnProfile(i)
    BY <2>3 DEF OnRule, OnProfile
  <2>6. UNCHANGED <<revision, snapshots>> /\ SnapshotOf(revision)' = SnapshotOf(revision)
    BY <1>4 DEF OtherCommand, SnapshotOf
  <2>7. LastCommandsTell'
    <3> SUFFICES ASSUME NEW k \in 1 .. Len(log)'
                 PROVE  /\ \A id \in ServerRuleIds :
                             OnRule(k, id)' /\ (\A j \in k + 1 .. Len(log)' : ~OnRule(j, id)') =>
                               SnapshotOf(revision).rules[id] = log'[k].body
                        /\ OnProfile(k)' /\ (\A j \in k + 1 .. Len(log)' : ~OnProfile(j)') =>
                             SnapshotOf(revision).profile = log'[k].profile
      BY <2>6 DEF LastCommandsTell
    <3>1. CASE k = Len(log) + 1
      BY <2>4, <3>1
    <3>2. CASE k \in 1 .. Len(log)
      <4>1. \A j \in k + 1 .. Len(log) : j \in k + 1 .. Len(log)' /\ j \in 1 .. Len(log)
        BY <2>3, <3>2
      <4>2. LastCommandsTell
        BY DEF LogInv
      <4> QED
        BY <2>3, <2>5, <3>2, <4>1, <4>2 DEF LastCommandsTell
    <3> QED
      BY <2>3, <3>1, <3>2
  <2> QED
    BY <2>6, <2>7 DEF LogInv
<1> QED
  BY <1>1, <1>2, <1>3, <1>4 DEF Server

LEMMA LogStep == TypeInv /\ LogInv /\ [Next]_vars => LogInv'
<1>1. ASSUME LogInv, UNCHANGED <<serverVars, channel_b>> PROVE LogInv'
  BY <1>1 DEF serverVars, LogInv, LastCommandsTell, OnRule, OnProfile, SnapshotOf
<1> QED
  BY <1>1, ServerLog DEF Next, A, B, Local, LocalStep, SyncStep, ReceiverStep, Crash, vars

-----------------------------------------------------------------------------
\* A failure that B or A meets in a script is on record.
LEMMA SyncFaults ==
  ASSUME TypeInv, A, Reliable', a.pc \in {"list", "apply", "add"}
  PROVE  UNCHANGED <<faults, dirty, clean>>
<1>1. CASE faults' = faults
  BY <1>1 DEF A, ScriptFailed, TypeInv, TypeOK
<1>2. CASE faults' # faults
  BY <1>2 DEF A, ScriptFailed, Reliable
<1> QED
  BY <1>1, <1>2

LEMMA SyncAgreement ==
  ASSUME IInv, A, Covered'
  PROVE  (\A id \in ServerRuleIds : Agreed(id)') /\ AgreedProfile'
<1>1. /\ UNCHANGED <<revision, snapshots, log, b, channel_b>>
      /\ a \in Cycles /\ a.rev \in 0 .. Len(snapshots)
      /\ fw \in [RuleIds -> SUBSET Bodies] /\ ServerRuleIds \subseteq RuleIds
      /\ faults \in Nat /\ faults + 1 # faults
  BY DEF A, SyncStep, serverVars, bVars, IInv, TypeInv, TypeOK, SyncTypeOK, WfasTypeOK, Cycles, RuleIds
<1>2. a.pc \in {"list", "apply", "add"} => UNCHANGED <<faults, dirty, clean>>
  BY SyncFaults DEF IInv, Covered
<1>3. \A n : SnapshotOf(n)' = SnapshotOf(n)
  BY <1>1 DEF SnapshotOf
<1>4. /\ \A id : BMid(id)' <=> BMid(id)
      /\ UNCHANGED store => /\ \A id : BOwes(id)' <=> BOwes(id)
                            /\ BOwesProfile' <=> BOwesProfile
  BY <1>1 DEF BMid, BOwes, BOwesProfile, NextDue, OnRule, OnProfile
<1>5. ASSUME a.pc \in {"apply", "add"}, a'.pc # "idle", a'.rev = a.rev
      PROVE  /\ \A id \in ServerRuleIds : Agreed(id)
             /\ Target = a.rev /\ Target' = a.rev
  BY <1>1, <1>2, <1>5 DEF IInv, AgreeInv, Covered, Reliable, Target
<1>6. CASE FetchSnapshot
  BY <1>6 DEF FetchSnapshot, AIdle, Agreed, ATodo, AgreedProfile
<1>7. CASE ListCurrent
  <2>1. PICK ids \in SUBSET RuleIds :
          /\ ListManagedRuleIds("A", ids)
          /\ a' = [a EXCEPT !.pc = "apply", !.remove = Stale(ids, a.rev), !.upsert = DesiredIds(a.rev)]
    BY <1>7 DEF ListCurrent
  <2>2. /\ a'.pc = "apply" /\ a'.rev = a.rev
        /\ a'.remove = Stale(ids, a.rev) /\ a'.upsert = DesiredIds(a.rev)
    BY <1>1, <2>1 DEF Cycles
  <2>3. ids = Present /\ UNCHANGED fw
    BY <1>1, <1>2, <1>7, <2>1 DEF ListCurrent, ListManagedRuleIds, Fault
  <2>4. ASSUME NEW id \in ServerRuleIds PROVE Agreed(id)'
    <3>1. CASE id \in DesiredIds(a.rev) \/ id \in Present
      BY <2>2, <2>3, <3>1 DEF Agreed, ATodo, AMid, Stale
    <3>2. CASE id \notin DesiredIds(a.rev) /\ id \notin Present
      <4>1. fw'[id] = {} /\ SnapshotOf(a.rev).rules[id] = NoRule
        BY <1>1, <2>3, <3>2 DEF DesiredIds, Present
      <4>2. SnapshotOf(Target)' = SnapshotOf(a.rev)
        BY <1>3, <2>2 DEF Target
      <4> QED
        BY <4>1, <4>2, ServerAssumption DEF Agreed, Settled
    <3> QED
      BY <3>1, <3>2
  <2> QED
    BY <2>2, <2>4 DEF AgreedProfile
<1>8. CASE RemoveStale
  <2>1. PICK stale \in a.remove : RemoveRule("A", stale) /\ a' = [a EXCEPT !.remove = @ \ {stale}]
    BY <1>8 DEF RemoveStale
  <2>2. /\ a.pc = "apply" /\ a'.pc = "apply" /\ a'.rev = a.rev /\ UNCHANGED store
        /\ a'.remove = a.remove \ {stale} /\ a'.upsert = a.upsert
    BY <1>1, <1>8, <2>1 DEF RemoveStale, Cycles
  <2>3. fw' = [fw EXCEPT ![stale] = {}]
    BY <1>1, <1>2, <2>1, <2>2 DEF RemoveRule, Fault, Without
  <2>4. ASSUME NEW id \in ServerRuleIds PROVE Agreed(id)'
    <3>1. CASE id = stale
      <4>1. fw'[id] = {} /\ SnapshotOf(a.rev).rules[id] = NoRule
        BY <1>1, <2>3, <3>1 DEF IInv, ShapeInv, DesiredIds
      <4>2. SnapshotOf(Target)' = SnapshotOf(a.rev)
        BY <1>3, <2>2 DEF Target
      <4> QED
        BY <4>1, <4>2, ServerAssumption DEF Agreed, Settled
    <3>2. CASE id # stale
      <4>1. Agreed(id) /\ SnapshotOf(Target)' = SnapshotOf(Target)
        BY <1>3, <1>5, <2>2
      <4>2. fw'[id] = fw[id] /\ ~AMid(id) /\ ~AMid(id)' /\ (ATodo(id) => ATodo(id)')
        BY <1>1, <2>2, <2>3, <3>2 DEF AMid, ATodo
      <4> QED
        BY <1>4, <2>2, <4>1, <4>2 DEF Agreed, Settled
    <3> QED
      BY <3>1, <3>2
  <2> QED
    BY <2>2, <2>4 DEF AgreedProfile
<1>9. CASE BeginUpsert
  <2>1. PICK new \in a.upsert :
          LET body == SnapshotOf(a.rev).rules[new] IN
          \/ /\ UpsertRejected(body) \/ UpsertNotRun("A", body)
             /\ a' = [a EXCEPT !.upsert = @ \ {new}]
          \/ /\ UpsertRemove("A", new, body)
             /\ a' = [a EXCEPT !.pc = "add", !.rule = new]
    BY <1>9 DEF BeginUpsert
  <2>2. /\ a.pc = "apply" /\ a'.rev = a.rev /\ a'.pc \in {"apply", "add"}
        /\ a'.remove = a.remove /\ UNCHANGED store
    BY <1>1, <1>9, <2>1 DEF BeginUpsert, Cycles
  <2>3. \/ /\ SnapshotOf(a.rev).rules[new] \in Malformed /\ UNCHANGED fw
           /\ a'.pc = "apply" /\ a'.upsert = a.upsert \ {new}
        \/ /\ fw' = [fw EXCEPT ![new] = {}]
           /\ a'.pc = "add" /\ a'.rule = new /\ a'.upsert = a.upsert
    BY <1>1, <1>2, <2>1, <2>2
       DEF UpsertRejected, UpsertNotRun, UpsertRemove, RemoveRule, Fault, Without, wfasVars, Cycles
  <2>4. ASSUME NEW id \in ServerRuleIds PROVE Agreed(id)'
    <3>1. SnapshotOf(Target)' = SnapshotOf(a.rev)
      BY <1>3, <2>2 DEF Target
    <3>2. CASE id = new
      <4>1. \/ SnapshotOf(a.rev).rules[id] \in Malformed
            \/ fw'[id] = {} /\ AMid(id)'
        BY <1>1, <2>3, <3>2 DEF AMid
      <4> QED
        BY <3>1, <4>1, WfasAssumption, ServerAssumption DEF Agreed, Settled
    <3>3. CASE id # new
      <4>1. Agreed(id) /\ SnapshotOf(Target)' = SnapshotOf(Target)
        BY <1>3, <1>5, <2>2
      <4>2. fw'[id] = fw[id] /\ ~AMid(id) /\ ~AMid(id)' /\ (ATodo(id) => ATodo(id)')
        BY <1>1, <2>2, <2>3, <3>3 DEF AMid, ATodo
      <4> QED
        BY <1>4, <2>2, <4>1, <4>2 DEF Agreed, Settled
    <3> QED
      BY <3>2, <3>3
  <2> QED
    BY <2>2, <2>4 DEF AgreedProfile
<1>10. CASE EndUpsert
  <2> DEFINE body == SnapshotOf(a.rev).rules[a.rule]
  <2>1. /\ a.pc = "add" /\ a'.pc = "apply" /\ a'.rev = a.rev /\ UNCHANGED store
        /\ a'.upsert = a.upsert \ {a.rule} /\ a'.remove = a.remove /\ a.remove = {}
        /\ a.rule \in DesiredIds(a.rev)
    BY <1>1, <1>10
       DEF EndUpsert, Cycles, IInv, ShapeInv, TypeInv, TypeOK, SyncTypeOK, CycleToAdd
  <2>2. /\ body \in Refused => fw' = fw
        /\ body \notin Refused => fw' = [fw EXCEPT ![a.rule] = @ \cup {body}]
    BY <1>1, <1>2, <1>10, <2>1 DEF EndUpsert, UpsertAdd, Fault, With
  <2>3. a.rule \in ServerRuleIds /\ body # NoRule
    BY <2>1 DEF DesiredIds
  <2> HIDE DEF body
  <2>4. ASSUME NEW id \in ServerRuleIds PROVE Agreed(id)'
    <3>1. /\ SnapshotOf(Target)' = SnapshotOf(a.rev) /\ SnapshotOf(Target) = SnapshotOf(a.rev)
          /\ Agreed(id)
      BY <1>3, <1>5, <2>1 DEF Target
    <3>2. CASE id = a.rule
      <4>1. ~ATodo(id)
        BY <2>1, <3>2 DEF ATodo, AMid
      <4>2. CASE BOwes(id)
        BY <1>4, <2>1, <4>2 DEF Agreed
      <4>3. CASE Settled(id, body)
        <5>1. body \in Refused => fw'[id] = {}
          BY <2>2, <4>3 DEF Settled
        <5>2. body \in ServerBodies \ (Refused \cup Malformed) => fw'[id] = {body}
          BY <1>1, <2>2, <3>2, <4>3 DEF Settled
        <5> QED
          BY <2>3, <3>1, <3>2, <5>1, <5>2 DEF Agreed, Settled, body
      <4> QED
        BY <3>1, <3>2, <4>1, <4>2, <4>3 DEF Agreed, body
    <3>3. CASE id # a.rule
      <4>1. fw'[id] = fw[id] /\ ~AMid(id) /\ ~AMid(id)' /\ (ATodo(id) => ATodo(id)')
        BY <1>1, <2>1, <2>2, <3>3 DEF AMid, ATodo
      <4> QED
        BY <1>4, <2>1, <3>1, <4>1 DEF Agreed, Settled
    <3> QED
      BY <3>2, <3>3
  <2> QED
    BY <2>1, <2>4 DEF AgreedProfile
<1>11. CASE SyncProfiles
  <2>1. /\ a.pc = "apply" /\ a' = [a EXCEPT !.pc = "save"] /\ UNCHANGED <<store, fw>>
    BY <1>11 DEF SyncProfiles, ApplyProfiles
  <2>2. a'.pc = "save" /\ a'.rev = a.rev /\ a'.remove = a.remove /\ a'.upsert = a.upsert
    BY <1>1, <2>1 DEF Cycles
  <2>3. /\ SnapshotOf(Target)' = SnapshotOf(a.rev) /\ SnapshotOf(Target) = SnapshotOf(a.rev)
        /\ \A id \in ServerRuleIds : Agreed(id)
    BY <1>3, <1>5, <2>1, <2>2 DEF Target
  <2>4. SnapshotOf(a.rev).profile \in Profiles => profile' = SnapshotOf(a.rev).profile
    BY <1>1, <1>2, <1>11, <2>1 DEF SyncProfiles, ApplyProfiles, Fault
  <2>5. \A id \in ServerRuleIds : Agreed(id)'
    BY <1>4, <2>1, <2>2, <2>3 DEF Agreed, Settled, AMid, ATodo
  <2> QED
    BY <2>3, <2>4, <2>5 DEF AgreedProfile
<1>12. CASE SaveRevision
  <2>1. a.pc = "save" /\ a'.pc = "idle" /\ UNCHANGED <<fw, profile>>
    BY <1>12 DEF SaveRevision, AIdle
  <2>2. store'.last_revision = a.rev /\ Reliable
    BY <2>1 DEF A, Covered, Reliable
  <2>3. Target = a.rev /\ Target' = a.rev
    BY <2>1, <2>2 DEF Target
  <2>4. (\A id \in ServerRuleIds : Agreed(id)) /\ AgreedProfile
    BY <1>1, <2>2, <2>3 DEF IInv, AgreeInv, Covered
  <2>5. \A id : ~ATodo(id) /\ ~AMid(id) /\ ~AMid(id)'
    BY <2>1 DEF IInv, ShapeInv, ATodo, AMid
  <2>6. store'.last_command_id \in {store.last_command_id, 0} /\ store.last_command_id \in Nat
    <3>1. CursorTypes
      BY DEF IInv, TypeInv, TypeOK, SyncTypeOK, ReceiverTypeOK, ServerTypeOK, CursorTypes, StoreFields
    <3> QED
      BY <1>12, <3>1, UpdateEffect DEF SaveRevision, IInv, TypeInv, TypeOK, SyncTypeOK
  <2>7. NextDue' \in Int /\ NextDue \in Int /\ NextDue' <= NextDue
    BY <1>1, <2>6 DEF NextDue, IInv, TypeInv, TypeOK, ReceiverTypeOK
  <2>8. (\A id : BOwes(id) => BOwes(id)') /\ (BOwesProfile => BOwesProfile')
    BY <1>1, <2>7 DEF BOwes, BOwesProfile, OnRule, OnProfile
  <2>9. SnapshotOf(Target)' = SnapshotOf(Target)
    BY <1>3, <2>3
  <2> QED
    BY <1>4, <2>1, <2>4, <2>5, <2>8, <2>9 DEF Agreed, Settled, AgreedProfile
<1> QED
  BY <1>6, <1>7, <1>8, <1>9, <1>10, <1>11, <1>12 DEF A, SyncStep

-----------------------------------------------------------------------------
LEMMA ReceiverFaults ==
  ASSUME TypeInv, B, Reliable'
  PROVE  /\ UNCHANGED <<dirty, clean>>
         /\ b.pc \in {"apply", "add"} => UNCHANGED faults
         /\ b.pc = "save" /\ Replaying => store'.last_command_id = b.last
<1> DEFINE soiled == \/ ScriptFailed(b.pc)
                     \/ b.pc = "save" /\ Replaying /\ store'.last_command_id # b.last
<1>1. dirty' = (dirty \/ soiled) /\ clean' = (clean /\ ~soiled)
  BY DEF B
<1>2. ~soiled
  BY <1>1 DEF Reliable
<1>3. UNCHANGED <<dirty, clean>>
  BY <1>1, <1>2 DEF TypeInv, TypeOK
<1> QED
  BY <1>2, <1>3 DEF ScriptFailed

\* What B still owes after it has carried the command k to its end.
LEMMA OwedAfter ==
  ASSUME TypeInv, LogInv, channel_b, Target = revision, UNCHANGED <<log, channel_b>>,
         NEW k \in 1 .. Len(log), NextDue = k, NextDue' = k + 1
  PROVE  /\ \A id \in ServerRuleIds :
              /\ ~OnRule(k, id) /\ BOwes(id) => BOwes(id)'
              /\ OnRule(k, id) => BOwes(id)' \/ SnapshotOf(Target).rules[id] = log[k].body
         /\ ~OnProfile(k) /\ BOwesProfile => BOwesProfile'
         /\ OnProfile(k) => BOwesProfile' \/ SnapshotOf(Target).profile = log[k].profile
<1>1. /\ \A j \in k .. Len(log) : j = k \/ j \in k + 1 .. Len(log)
      /\ \A j : OnProfile(j)' <=> OnProfile(j)
      /\ \A j, id : OnRule(j, id)' <=> OnRule(j, id)
  BY DEF TypeInv, TypeOK, ServerTypeOK, OnProfile, OnRule
<1>2. LastCommandsTell
  BY DEF LogInv
<1> QED
  BY <1>1, <1>2 DEF BOwes, BOwesProfile, LastCommandsTell

LEMMA ReceiverAgreement ==
  ASSUME IInv, B, Covered'
  PROVE  (\A id \in ServerRuleIds : Agreed(id)') /\ AgreedProfile'
<1> USE DEF IInv
<1>1. /\ UNCHANGED <<revision, snapshots, log, a, channel_b>> /\ channel_b
      /\ b \in Batches /\ Len(log) \in Nat
      /\ fw \in [RuleIds -> SUBSET Bodies] /\ ServerRuleIds \subseteq RuleIds
      /\ faults \in Nat /\ faults + 1 # faults
  BY DEF B, ReceiverStep, serverVars, aVars, TypeInv, TypeOK, ReceiverTypeOK, ServerTypeOK,
         WfasTypeOK, Batches, RuleIds
<1>2. /\ UNCHANGED <<dirty, clean>>
      /\ b.pc \in {"apply", "add"} => UNCHANGED faults
      /\ b.pc = "save" /\ Replaying => store'.last_command_id = b.last
  BY ReceiverFaults DEF Covered
<1>3. \A n : SnapshotOf(n)' = SnapshotOf(n)
  BY <1>1 DEF SnapshotOf
<1>4. CursorTypes
  BY DEF TypeInv, TypeOK, SyncTypeOK, ReceiverTypeOK, ServerTypeOK, CursorTypes, StoreFields
<1>5. Target' = Target /\ Target = revision
  <2>1. Target' = revision
    BY <1>1 DEF Covered
  <2>2. CASE UNCHANGED store \/ a.pc # "idle"
    BY <1>1, <2>1, <2>2 DEF Target
  <2>3. CASE SaveCursor /\ a.pc = "idle"
    <3>1. store'.last_revision \in {store.last_revision, 0}
      BY <1>4, <2>3 DEF SaveCursor, UpdateStore, Store!MergeUpdate, Store!MergeUnread,
                        Store!Overwrite, DefaultState, CursorTypes, StoreFields
    <3>2. revision = Len(snapshots) /\ store.last_revision \in 0 .. Len(snapshots)
      BY <1>1 DEF LogInv, TypeInv, TypeOK, SyncTypeOK
    <3> QED
      BY <1>1, <2>1, <2>3, <3>1, <3>2 DEF Target, TypeInv, TypeOK, ServerTypeOK
  <2> QED
    BY <2>2, <2>3 DEF B, ReceiverStep, PollCommands, ApplyCommand, FinishUpsert
<1>6. (\A id \in ServerRuleIds : Agreed(id)) /\ AgreedProfile
  BY <1>1, <1>2, <1>5 DEF AgreeInv, Covered, Reliable
<1>7. /\ \A id : (ATodo(id)' <=> ATodo(id)) /\ (AMid(id)' <=> AMid(id))
      /\ \A k, id : OnRule(k, id)' <=> OnRule(k, id)
      /\ \A k : OnProfile(k)' <=> OnProfile(k)
  BY <1>1 DEF ATodo, AMid, OnRule, OnProfile
<1>8. ASSUME UNCHANGED <<fw, profile>>, b.pc # "add",
             NextDue \in Int, NextDue' \in Int, NextDue' <= NextDue
      PROVE  (\A id \in ServerRuleIds : Agreed(id)') /\ AgreedProfile'
  <2>1. (\A id : BOwes(id) => BOwes(id)') /\ (BOwesProfile => BOwesProfile')
    BY <1>1, <1>7, <1>8 DEF BOwes, BOwesProfile
  <2>2. \A id : ~BMid(id)
    BY <1>8 DEF BMid
  <2> QED
    BY <1>1, <1>3, <1>5, <1>6, <1>7, <1>8, <2>1, <2>2 DEF Agreed, Settled, AgreedProfile
<1>9. CASE PollCommands
  <2>1. PICK st \in {store, DefaultState} : \E n \in st.last_command_id + 1 .. Len(log) :
          b' = [pc |-> "apply", since |-> st.last_command_id,
                next |-> st.last_command_id + 1, last |-> n]
    BY <1>9 DEF PollCommands
  <2>2. b'.pc = "apply" /\ b'.next = st.last_command_id + 1
    BY <2>1
  <2>3. /\ store.last_command_id \in Nat /\ st.last_command_id \in Nat
        /\ st.last_command_id <= store.last_command_id
    BY <1>1, <2>1 DEF TypeInv, TypeOK, SyncTypeOK, DefaultState
  <2> QED
    BY <1>8, <1>9, <2>2, <2>3 DEF PollCommands, NextDue
<1>10. CASE SaveCursor
  <2>1. /\ b.pc = "save" /\ b'.pc = "idle" /\ b.next = b.last + 1 /\ b.since < b.next
        /\ UNCHANGED <<fw, profile>>
    BY <1>10 DEF SaveCursor, BIdle, ShapeInv
  <2>2. /\ store'.last_command_id \in {store.last_command_id, 0, b.last}
        /\ store.last_command_id \in Nat
    BY <1>1, <1>4, <1>10, UpdateEffect
       DEF SaveCursor, CursorAfter, TypeInv, TypeOK, SyncTypeOK
  <2>3. store'.last_command_id <= b.last
    BY <1>1, <1>2, <2>1, <2>2 DEF Replaying, Batches
  <2> QED
    BY <1>1, <1>8, <2>1, <2>2, <2>3 DEF NextDue, Batches
<1>11. CASE FinishUpsert
  <2> DEFINE k == b.next
             rule == log[k].rule
             body == log[k].body
  <2>1. /\ b.pc = "add" /\ k \in 1 .. Len(log) /\ log[k].action = "UPSERT_RULE"
        /\ rule \in ServerRuleIds /\ body \in ServerBodies
    BY <1>1, <1>11, CommandTypes
       DEF FinishUpsert, TypeInv, TypeOK, ReceiverTypeOK, Batches
  <2>2. b'.pc # "add" /\ b'.pc # "idle" /\ b'.next = k + 1
    BY <1>1, <1>11 DEF FinishUpsert, Done, Batches
  <2>3. /\ body \in Refused => fw' = fw
        /\ body \notin Refused => fw' = [fw EXCEPT ![rule] = @ \cup {body}]
        /\ UNCHANGED <<profile, store>>
    BY <1>1, <1>2, <1>11, <2>1 DEF FinishUpsert, UpsertAdd, Fault, With
  <2>4. /\ \A id : BOwes(id)' <=> BOwes(id)
        /\ BOwesProfile' <=> BOwesProfile
    BY <1>1, <1>7, <2>1, <2>2 DEF NextDue, BOwes, BOwesProfile
  <2>5. BOwes(rule) \/ SnapshotOf(Target).rules[rule] = body
    BY <1>1, <1>5, <2>1 DEF BOwes, NextDue, LogInv, LastCommandsTell, OnRule
  <2>6. \A id : ~BMid(id)' /\ (id # rule => ~BMid(id))
    BY <2>1, <2>2 DEF BMid
  <2> HIDE DEF body, rule
  <2>7. ASSUME NEW id \in ServerRuleIds PROVE Agreed(id)'
    <3>1. Agreed(id) /\ SnapshotOf(Target)' = SnapshotOf(Target)
      BY <1>3, <1>5, <1>6
    <3>2. CASE id = rule /\ Settled(id, body) /\ SnapshotOf(Target).rules[id] = body
      <4>1. body \in Refused => fw'[id] = {}
        BY <2>3, <3>2 DEF Settled
      <4>2. body \in ServerBodies \ (Refused \cup Malformed) => fw'[id] = {body}
        BY <1>1, <2>3, <3>2 DEF Settled
      <4>3. body # NoRule
        BY <2>1, ServerAssumption
      <4> QED
        BY <3>1, <3>2, <4>1, <4>2, <4>3 DEF Agreed, Settled
    <3>3. CASE id # rule
      BY <1>1, <1>7, <2>3, <2>4, <2>6, <3>1, <3>3 DEF Agreed, Settled
    <3> QED
      BY <1>7, <2>4, <2>5, <3>1, <3>2, <3>3 DEF Agreed
  <2>8. AgreedProfile'
    BY <1>1, <1>3, <1>5, <1>6, <2>3, <2>4 DEF AgreedProfile
  <2> QED
    BY <2>7, <2>8
<1>12. CASE ApplyCommand
  <2> DEFINE k == b.next
             rule == log[k].rule
             body == log[k].body
  <2>1. b.pc = "apply" /\ k \in 1 .. Len(log) /\ NextDue = k /\ UNCHANGED store
    BY <1>1, <1>12 DEF ApplyCommand, TypeInv, TypeOK, ReceiverTypeOK, Batches, NextDue
  <2>2. \A id : ~BMid(id)
    BY <2>1 DEF BMid
  <2>3. Done => b'.pc \notin {"idle", "add"} /\ b'.next = k + 1 /\ NextDue' = k + 1
    BY <1>1, <2>1 DEF Done, Batches, NextDue
  <2>4. ASSUME NextDue' = k + 1, ~OnProfile(k), UNCHANGED profile PROVE AgreedProfile'
    BY <1>1, <1>3, <1>5, <1>6, <2>1, <2>4, OwedAfter DEF AgreedProfile
  <2>5. ASSUME NextDue' = k + 1, NEW id \in ServerRuleIds, ~OnRule(k, id), fw'[id] = fw[id]
        PROVE  Agreed(id)'
    <3>1. BOwes(id) => BOwes(id)'
      BY <1>1, <1>5, <2>1, <2>5, OwedAfter
    <3> QED
      BY <1>3, <1>5, <1>6, <1>7, <2>2, <2>5, <3>1 DEF Agreed, Settled
  <2>6. ASSUME NextDue' = k + 1, NEW id \in ServerRuleIds, OnRule(k, id),
               \/ body = NoRule /\ fw'[id] = {}
               \/ body \in Malformed
               \/ fw'[id] = {} /\ BMid(id)'
        PROVE  Agreed(id)'
    <3>1. BOwes(id)' \/ SnapshotOf(Target).rules[id] = body
      BY <1>1, <1>5, <2>1, <2>6, OwedAfter
    <3> QED
      BY <1>3, <1>5, <2>6, <3>1, ServerAssumption, WfasAssumption DEF Agreed, Settled
  <2>7. CASE DeleteRule(log[k])
    <3>1. /\ log[k].action = "DELETE_RULE" /\ fw' = [fw EXCEPT ![rule] = {}] /\ UNCHANGED profile
          /\ NextDue' = k + 1 /\ body = NoRule
      BY <1>1, <1>2, <2>1, <2>3, <2>7
         DEF DeleteRule, RemoveRule, Fault, Without, TypeInv, LogToAdd
    <3> HIDE DEF k
    <3>2. \A id \in ServerRuleIds : Agreed(id)'
      BY <1>1, <2>5, <2>6, <3>1 DEF OnRule
    <3> QED
      BY <2>4, <3>1, <3>2 DEF OnProfile
  <2>8. CASE UpsertRule(log[k])
    <3>1. log[k].action = "UPSERT_RULE" /\ UNCHANGED profile
      BY <2>8 DEF UpsertRule, UpsertRejected, UpsertNotRun, UpsertRemove, RemoveRule, wfasVars
    <3>2. CASE UpsertRejected(body) /\ Done
      <4>1. NextDue' = k + 1 /\ body \in Malformed /\ UNCHANGED fw
        BY <2>3, <3>2 DEF UpsertRejected, wfasVars
      <4> QED
        BY <2>4, <2>5, <2>6, <3>1, <4>1 DEF OnProfile
    <3>3. CASE UpsertNotRun("B", body)
      BY <1>1, <1>2, <2>1, <3>3 DEF UpsertNotRun, Fault
    <3>4. CASE UpsertRemove("B", rule, body) /\ b' = [b EXCEPT !.pc = "add"]
      <4>1. b'.pc = "add" /\ b'.next = k /\ NextDue' = k + 1
        BY <1>1, <3>4 DEF Batches, NextDue
      <4>2. fw' = [fw EXCEPT ![rule] = {}]
        BY <1>1, <1>2, <2>1, <3>4 DEF UpsertRemove, RemoveRule, Fault, Without
      <4>3. ASSUME NEW id, id = rule PROVE BMid(id)'
        BY <1>1, <4>1, <4>3 DEF BMid
      <4>4. ASSUME NEW id \in ServerRuleIds PROVE Agreed(id)'
        <5>1. CASE id = rule
          <6>1. OnRule(k, id) /\ fw'[id] = {} /\ BMid(id)'
            BY <1>1, <3>1, <4>2, <4>3, <5>1 DEF OnRule
          <6> QED
            BY <2>6, <4>1, <6>1
        <5>2. CASE id # rule
          <6>1. ~OnRule(k, id) /\ fw'[id] = fw[id]
            BY <1>1, <4>2, <5>2 DEF OnRule
          <6> QED
            BY <2>5, <4>1, <6>1
        <5> QED
          BY <5>1, <5>2
      <4> QED
        BY <2>4, <3>1, <4>1, <4>4 DEF OnProfile
    <3> QED
      BY <2>8, <3>2, <3>3, <3>4 DEF UpsertRule
  <2>9. CASE EnableProfile(log[k])
    <3>1. /\ log[k].action = "ENABLE_PROFILE" /\ NextDue' = k + 1 /\ UNCHANGED fw
          /\ profile' = log[k].profile
      BY <1>1, <1>2, <2>1, <2>3, <2>9, CommandTypes
         DEF EnableProfile, ApplyProfiles, Fault, TypeInv, TypeOK
    <3>2. BOwesProfile' \/ SnapshotOf(Target).profile = log[k].profile
      BY <1>1, <1>5, <2>1, <3>1, OwedAfter DEF OnProfile
    <3>3. AgreedProfile'
      BY <1>3, <1>5, <3>1, <3>2 DEF AgreedProfile
    <3> QED
      BY <2>5, <3>1, <3>3 DEF OnRule
  <2>10. CASE NoEffect(log[k])
    BY <2>3, <2>4, <2>5, <2>10 DEF NoEffect, wfasVars, OnRule, OnProfile
  <2>11. CASE Raise(log[k])
    <3>1. k \notin attempted /\ b'.pc = "idle" /\ UNCHANGED <<fw, profile>>
      BY <2>11 DEF Raise, BIdle, ShapeInv, wfasVars
    <3>2. store.last_command_id \in Nat /\ store.last_command_id < k
      BY <1>1, <2>1, <3>1 DEF CursorBehindAttempts, TypeInv, TypeOK, SyncTypeOK
    <3> QED
      BY <1>8, <2>1, <3>1, <3>2 DEF NextDue
  <2> QED
    BY <1>12, <2>7, <2>8, <2>9, <2>10, <2>11 DEF ApplyCommand
<1> QED
  BY <1>9, <1>10, <1>11, <1>12 DEF B, ReceiverStep

-----------------------------------------------------------------------------
\* The local actors write the local rules only.
LEMMA LocalAgreement ==
  ASSUME IInv, Local, Covered'
  PROVE  (\A id \in ServerRuleIds : Agreed(id)') /\ AgreedProfile'
<1>1. /\ UNCHANGED <<revision, snapshots, log, store, a, b, channel_b, dirty, clean>>
      /\ fw \in [RuleIds -> SUBSET Bodies] /\ ServerRuleIds \subseteq RuleIds
  BY DEF Local, LocalStep, serverVars, aVars, bVars, historyVars, IInv, TypeInv, TypeOK,
         WfasTypeOK, RuleIds
<1>2. /\ \A remote : RuleIdFor(remote) \in LocalRuleIds
      /\ ids_to_remove[1] \in LocalRuleIds /\ ids_to_remove[2] \in LocalRuleIds
  BY DEF RuleIdFor, LocalRuleIds, ids_to_remove
<1>3. \A other \in LocalRuleIds, id \in ServerRuleIds :
        Without(other)[id] = fw[id] /\ \A body : With(other, body)[id] = fw[id]
  BY <1>1, WfasAssumption DEF Without, With
<1>4. UNCHANGED profile /\ \A id \in ServerRuleIds : fw'[id] = fw[id]
  <2>1. PICK p \in LocalActors :
          \/ \E remote \in Remotes \cup {Any} : BlockNetwork(p, remote)
          \/ BlockAdded(p) \/ UnblockNetwork(p) \/ UnblockSpecific(p)
    BY DEF Local, LocalStep
  <2>2. CASE \E remote \in Remotes \cup {Any} : BlockNetwork(p, remote)
    BY <1>2, <1>3, <2>2
       DEF BlockNetwork, UpsertRejected, UpsertNotRun, UpsertRemove, RemoveRule, wfasVars
  <2>3. CASE BlockAdded(p)
    BY <1>2, <1>3, <2>3 DEF BlockAdded, UpsertAdd
  <2>4. CASE UnblockNetwork(p) \/ UnblockSpecific(p)
    BY <1>2, <1>3, <2>4 DEF UnblockNetwork, UnblockSpecific, RemoveRule
  <2> QED
    BY <2>1, <2>2, <2>3, <2>4
<1>5. /\ Covered /\ UNCHANGED <<SnapshotOf(Target), BOwesProfile>>
      /\ \A id : UNCHANGED <<BOwes(id), ATodo(id), AMid(id), BMid(id)>>
  BY <1>1 DEF Covered, Reliable, Target, SnapshotOf, BOwes, BOwesProfile, NextDue, OnRule,
              OnProfile, ATodo, AMid, BMid
<1> QED
  BY <1>1, <1>4, <1>5 DEF IInv, AgreeInv, Agreed, AgreedProfile, Settled

LEMMA ServerAgreement ==
  ASSUME IInv, Server, Covered'
  PROVE  (\A id \in ServerRuleIds : Agreed(id)') /\ AgreedProfile'
<1> USE DEF IInv
<1>1. /\ UNCHANGED <<fw, profile, store, a, b, channel_b, dirty, clean>>
      /\ HistoryKept /\ Len(log) \in Nat /\ Len(log)' \in Nat
      /\ Target \in 0 .. Len(snapshots) /\ Target' = Target
  BY ServerEffect DEF Server, wfasVars, aVars, bVars, historyVars, TypeInv, TypeOK, SyncTypeOK,
                      ServerTypeOK, Target
<1>2. SnapshotOf(Target)' = SnapshotOf(Target)
  BY <1>1 DEF HistoryKept
<1>3. Covered
  <2>1. Reliable
    BY <1>1 DEF Covered, Reliable
  <2>2. channel_b => revision' \in {revision, Len(snapshots) + 1}
    BY ServerLog
  <2>3. Len(snapshots) \in Nat
    BY DEF TypeInv, TypeOK, ServerTypeOK
  <2> QED
    BY <1>1, <2>1, <2>2, <2>3 DEF Covered
<1>4. (\A id \in ServerRuleIds : Agreed(id)) /\ AgreedProfile
  BY <1>3 DEF AgreeInv
<1>5. \A k \in NextDue .. Len(log) :
        /\ k \in NextDue' .. Len(log)' /\ OnProfile(k)' = OnProfile(k)
        /\ \A id : OnRule(k, id)' = OnRule(k, id)
  <2>1. NextDue' = NextDue /\ NextDue \in Nat \ {0}
    BY <1>1 DEF NextDue, TypeInv, TypeOK, SyncTypeOK, ReceiverTypeOK
  <2> QED
    BY <1>1, <2>1 DEF HistoryKept, OnProfile, OnRule
<1>6. (\A id : BOwes(id) => BOwes(id)') /\ (BOwesProfile => BOwesProfile')
  BY <1>1, <1>5 DEF BOwes, BOwesProfile
<1>7. \A id : UNCHANGED <<ATodo(id), AMid(id), BMid(id)>>
  <2>1. b.pc = "add" => log'[b.next] = log[b.next]
    BY <1>1 DEF HistoryKept, TypeInv, TypeOK, ReceiverTypeOK
  <2> QED
    BY <1>1, <2>1 DEF ATodo, AMid, BMid
<1> QED
  BY <1>1, <1>2, <1>4, <1>6, <1>7 DEF Agreed, AgreedProfile, Settled

\* What a thread had begun and not finished when the agent was killed is on record as dirty
\* (A), or ahead of the cursor again (B).
LEMMA CrashAgreement ==
  ASSUME IInv, Crash, Covered'
  PROVE  (\A id \in ServerRuleIds : Agreed(id)') /\ AgreedProfile'
<1> USE DEF IInv
<1>1. /\ UNCHANGED <<revision, snapshots, log, store, profile, channel_b>>
      /\ a'.pc = "idle" /\ b'.pc = "idle" /\ Len(log) \in Nat
  BY DEF Crash, serverVars, AIdle, BIdle, TypeInv, TypeOK, ServerTypeOK
<1>2. ~dirty /\ a.pc = "idle" /\ ~Replaying
  BY <1>1 DEF Crash, Covered, Reliable
<1>3. Covered /\ Target' = Target /\ SnapshotOf(Target)' = SnapshotOf(Target)
  BY <1>1, <1>2 DEF Covered, Reliable, Target, SnapshotOf
<1>4. (\A id \in ServerRuleIds : Agreed(id)) /\ AgreedProfile
  BY <1>3 DEF AgreeInv
<1>5. \A id : ~ATodo(id) /\ ~AMid(id) /\ ~AMid(id)'
  BY <1>1, <1>2 DEF ShapeInv, ATodo, AMid
<1>6. /\ NextDue' \in Int /\ NextDue \in Int /\ NextDue' <= NextDue
      /\ b.pc = "add" => NextDue' <= b.next /\ b.next \in 1 .. Len(log) /\ channel_b
  BY <1>1, <1>2 DEF NextDue, Replaying, ShapeInv, TypeInv, TypeOK, SyncTypeOK, ReceiverTypeOK
<1>7. (\A id : BOwes(id) => BOwes(id)') /\ (BOwesProfile => BOwesProfile')
  BY <1>1, <1>6 DEF BOwes, BOwesProfile, OnRule, OnProfile
<1>8. \A id : BMid(id) => BOwes(id)'
  <2>1. b.pc = "add" => log[b.next].action = "UPSERT_RULE"
    BY DEF TypeInv, TypeOK, ReceiverTypeOK
  <2> QED
    BY <1>1, <1>6, <2>1 DEF BMid, BOwes, OnRule
<1>9. \A id \in ServerRuleIds : BMid(id) \/ fw'[id] = fw[id]
  <2>1. PICK done \in SUBSET {script \in Pending : script.body \notin Refused} :
          fw' = [id \in RuleIds |-> fw[id] \cup {s.body : s \in {t \in done : t.id = id}}]
    BY DEF Crash
  <2>2. \A s \in done : s.id \in LocalRuleIds \/ BMid(s.id)
    BY <1>2, <2>1, PendingTypes DEF BMid
  <2>3. \A id \in ServerRuleIds : id \notin LocalRuleIds /\ id \in RuleIds
    BY WfasAssumption DEF RuleIds
  <2>4. ASSUME NEW id \in ServerRuleIds, ~BMid(id) PROVE fw'[id] = fw[id]
    <3>1. {t \in done : t.id = id} = {}
      BY <2>2, <2>3, <2>4
    <3> QED
      BY <2>1, <2>3, <3>1
  <2> QED
    BY <2>4
<1>10. ASSUME NEW id \in ServerRuleIds PROVE Agreed(id)'
  <2>1. CASE BOwes(id) \/ BMid(id)
    BY <1>7, <1>8, <2>1 DEF Agreed
  <2>2. CASE ~BMid(id) /\ Settled(id, SnapshotOf(Target).rules[id])
    BY <1>3, <1>5, <1>9, <2>2 DEF Agreed, Settled
  <2> QED
    BY <1>4, <1>5, <2>1, <2>2 DEF Agreed
<1>11. AgreedProfile'
  BY <1>1, <1>2, <1>3, <1>4, <1>7 DEF AgreedProfile
<1> QED
  BY <1>10, <1>11

LEMMA AgreeStep == IInv /\ [Next]_vars => AgreeInv'
<1>1. ASSUME IInv, UNCHANGED vars PROVE AgreeInv'
  BY <1>1 DEF vars, serverVars, wfasVars, aVars, bVars, historyVars, IInv, AgreeInv, Covered,
              Reliable, Target, SnapshotOf, Agreed, AgreedProfile, Settled, BOwes, BOwesProfile,
              NextDue, OnRule, OnProfile, ATodo, AMid, BMid
<1> QED
  BY <1>1, SyncAgreement, ReceiverAgreement, LocalAgreement, ServerAgreement, CrashAgreement
     DEF Next, AgreeInv

\* Nobody is still going to write a rule: each says what the server says.
LEMMA AgreementEnough == IInv => QuiescentAgreement
<1> SUFFICES ASSUME IInv, Quiescent, ~dirty PROVE Agrees
  BY DEF QuiescentAgreement
<1>1. a.pc = "idle" /\ Target = revision /\ Covered
  BY DEF Quiescent, Target, Covered, Reliable
<1>2. \A id : ~BOwes(id) /\ ~ATodo(id) /\ ~AMid(id) /\ ~BMid(id)
  BY <1>1 DEF Quiescent, BOwes, NextDue, ATodo, AMid, BMid, IInv, ShapeInv, TypeInv, TypeOK,
              ServerTypeOK
<1>3. ~BOwesProfile
  BY DEF Quiescent, BOwesProfile, NextDue, IInv, TypeInv, TypeOK, ServerTypeOK
<1>4. \A id \in ServerRuleIds : RuleAgrees(id, SnapshotOf(revision).rules[id])
  BY <1>1, <1>2 DEF IInv, AgreeInv, Agreed, Settled, RuleAgrees
<1>5. SnapshotOf(revision).profile \in Profiles => profile = SnapshotOf(revision).profile
  BY <1>1, <1>3 DEF IInv, AgreeInv, AgreedProfile
<1> QED
  BY <1>4, <1>5 DEF Agrees, AgreesWith

(* Whenever both channels have caught up, every rule and the profiles say what the        *)
(* server's snapshot says, unless a script failed, or a cycle of A or a replay of B was   *)
(* cut short, and no cycle of A has made up for it since: however the scripts of the two  *)
(* channels and of the local actors interleave, whatever crashes and whatever cursors     *)
(* are lost.  (desired_state_sync.py 70-122, command_receiver.py 79-162)                  *)
THEOREM QuiescentAgreementHolds == Spec => []QuiescentAgreement
<1>1. Init => ShapeInv /\ LogInv /\ AgreeInv
  BY InitAgreement
<1>2. TypeInv /\ CursorBehindAttempts /\ ShapeInv /\ LogInv /\ AgreeInv /\ [Next]_vars
        => ShapeInv' /\ LogInv' /\ AgreeInv'
  BY ShapeStep, LogStep, AgreeStep DEF IInv
<1>3. TypeInv /\ CursorBehindAttempts /\ ShapeInv /\ LogInv /\ AgreeInv => QuiescentAgreement
  BY AgreementEnough DEF IInv
<1> QED
  BY <1>1, <1>2, <1>3, TypesHold, CursorCorrect, PTL DEF Spec
=============================================================================
