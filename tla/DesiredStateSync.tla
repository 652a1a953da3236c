-------------------------- MODULE DesiredStateSync --------------------------
(***************************************************************************)
(* Channel A: the thread of FirewallDesiredStateSync, which polls the      *)
(* server's snapshot and reconciles the whole firewall with it when its    *)
(* revision differs from the stored one.                                   *)
(*                                                                         *)
(* One action per step at which another thread may run: the poll, each     *)
(* PowerShell script, the write of the store.  A poll that fails and a     *)
(* poll that is skipped change nothing but the delay of the next one.      *)
(* What is only reported (errors, local_rule_ids) is left out, and with it *)
(* the second listing, which serves nothing else.                          *)
(***************************************************************************)
EXTENDS FirewallServer

VARIABLES
  store,   \* LocalStateStore: last_revision and last_command_id
  a        \* the cycle of the thread

aVars == <<a>>

DefaultState == [last_revision |-> 0, last_command_id |-> 0]
Store == INSTANCE StateStore WITH
           Defaults <- DefaultState,
           Partials <- [{"last_revision"} -> 0 .. MaxChanges] \cup [{"last_command_id"} -> 0 .. MaxCommands]

APcs == {"idle", "list", "apply", "add", "save"}

SyncTypeOK ==
  /\ store \in [last_revision : 0 .. Len(snapshots), last_command_id : 0 .. Len(log)]
  /\ a \in [pc : APcs, rev : 0 .. Len(snapshots), remove : SUBSET RuleIds,
            upsert : SUBSET ServerRuleIds, rule : ServerRuleIds \cup {NoRule}]
  /\ a.pc = "add" => a.rule \in a.upsert

\* rev: the snapshot's revision.  remove, upsert: the ids still to remove and to upsert.
\* rule: the upsert whose script is between its two halves.
AIdle == [pc |-> "idle", rev |-> 0, remove |-> {}, upsert |-> {}, rule |-> NoRule]

SyncInit == a = AIdle

\* store.load(): st is what the caller gets.
LoadStore(st) ==
  \/ NoFault /\ st = store
  \/ Fault("store") /\ st = DefaultState

\* store.merge_update(): its read or its write may fail; the failed write raises.
UpdateStore(partial) ==
  \/ NoFault /\ Store!MergeUpdate(partial)
  \/ Fault("store") /\ Store!MergeUnread(partial)
  \/ Fault("store") /\ UNCHANGED store

SkipsRollbacks(local, server) == server <= local

desired_state_should_skip(local, server) == server = local

FetchSnapshot ==
  /\ a.pc = "idle"
  /\ \E st \in {store, DefaultState} :
       /\ LoadStore(st)
       /\ ~desired_state_should_skip(st.last_revision, revision)
  /\ a' = [AIdle EXCEPT !.pc = "list", !.rev = revision]
  /\ UNCHANGED <<store, fw, profile>>

NothingStale(ids, rev) == {}

\* set(current) - desired_ids
Stale(ids, rev) == ids \ DesiredIds(rev)

ListCurrent ==
  /\ a.pc = "list"
  /\ \E ids \in SUBSET RuleIds :
       /\ ListManagedRuleIds("A", ids)
       /\ a' = [a EXCEPT !.pc = "apply",
                         !.remove = Stale(ids, a.rev),
                         !.upsert = DesiredIds(a.rev)]
  /\ UNCHANGED store

\* for rid in sorted(to_remove)
RemoveStale ==
  /\ a.pc = "apply"
  /\ \E id \in a.remove :
       /\ \A other \in a.remove : id <= other
       /\ RemoveRule("A", id)
       /\ a' = [a EXCEPT !.remove = @ \ {id}]
  /\ UNCHANGED store

\* for r in parsed: in the order of the server's list, which is any order.  An upsert that
\* is rejected or does not run is an error in a list, and the loop goes on.
BeginUpsert ==
  /\ a.pc = "apply"
  /\ a.remove = {}
  /\ \E id \in a.upsert :
       LET body == SnapshotOf(a.rev).rules[id] IN
       \/ /\ UpsertRejected(body) \/ UpsertNotRun("A", body)
          /\ a' = [a EXCEPT !.upsert = @ \ {id}]
       \/ /\ UpsertRemove("A", id, body)
          /\ a' = [a EXCEPT !.pc = "add", !.rule = id]
  /\ UNCHANGED store

EndUpsert ==
  /\ a.pc = "add"
  /\ \E err \in BOOLEAN : UpsertAdd("A", a.rule, SnapshotOf(a.rev).rules[a.rule], err)
  /\ a' = [a EXCEPT !.pc = "apply", !.upsert = @ \ {a.rule}, !.rule = NoRule]
  /\ UNCHANGED store

SyncProfiles ==
  /\ a.pc = "apply"
  /\ a.remove = {} /\ a.upsert = {}
  /\ ApplyProfiles("A", SnapshotOf(a.rev).profile)
  /\ a' = [a EXCEPT !.pc = "save"]
  /\ UNCHANGED store

\* The revision is stored whatever the errors of the reconcile.  An exception of the
\* write is caught by the cycle, which starts over after its delay.
SaveRevision ==
  /\ a.pc = "save"
  /\ a' = AIdle
  /\ UpdateStore([last_revision |-> a.rev])
  /\ UNCHANGED <<fw, profile>>

SyncStep ==
  /\ \/ FetchSnapshot
     \/ ListCurrent
     \/ RemoveStale
     \/ BeginUpsert
     \/ EndUpsert
     \/ SyncProfiles
     \/ SaveRevision
  /\ UNCHANGED serverVars
=============================================================================
