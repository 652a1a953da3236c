--------------------------- MODULE FirewallServer ---------------------------
(***************************************************************************)
(* The server side of the firewall integration, which is not in this       *)
(* repository: it is modelled from what the client code sends and reads    *)
(* (and docs/FIREWALL_INTEGRATION.md, 4.3 and 4.4).                        *)
(*                                                                         *)
(* Every change makes a new revision: a snapshot for channel A, and one    *)
(* command for channel B.  A command's id is its position in the log.      *)
(***************************************************************************)
EXTENDS Wfas, Sequences

CONSTANTS
  ServerBodies,  \* what the server's rules may say
  NoRule,        \* the content of a rule the server does not have
  MaxChanges,    \* bound on the revisions
  MaxCommands,   \* bound on the command log
  OtherActions   \* commands without a revision: NOOP, and UPSERT_RULE with an ill-formed ruleId

ASSUME ServerAssumption ==
  /\ ServerBodies \subseteq Bodies
  /\ NoRule \notin Bodies
  /\ MaxChanges \in Nat
  /\ MaxCommands \in Nat
  /\ OtherActions \subseteq {"NOOP", "ILL_FORMED"}

VARIABLES
  revision,   \* the revision GET firewall-desired-state answers with
  snapshots,  \* snapshots[n]: what revision n says
  log         \* the commands of channel B

serverVars == <<revision, snapshots, log>>

Snapshot == [rules : [ServerRuleIds -> ServerBodies \cup {NoRule}], profile : Profiles \cup {"absent"}]
Command == [action : {"UPSERT_RULE", "DELETE_RULE"}, rule : ServerRuleIds,
            body : ServerBodies \cup {NoRule}]
           \cup [action : {"ENABLE_PROFILE"}, profile : Profiles]
           \cup [action : OtherActions]

\* Revision 0 is the agent's default (local_state_store.py, 18): it stands for "no rules".
Empty == [rules |-> [id \in ServerRuleIds |-> NoRule], profile |-> "absent"]
SnapshotOf(n) == IF n = 0 THEN Empty ELSE snapshots[n]
DesiredIds(n) == {id \in ServerRuleIds : SnapshotOf(n).rules[id] # NoRule}

ServerTypeOK ==
  /\ snapshots \in Seq(Snapshot)
  /\ Len(snapshots) <= MaxChanges
  /\ revision \in 0 .. Len(snapshots)
  /\ log \in Seq(Command)

ServerInit ==
  /\ revision = 0
  /\ snapshots = <<>>
  /\ log = <<>>

Publish(snapshot, command) ==
  /\ Len(snapshots) < MaxChanges
  /\ Len(log) < MaxCommands
  /\ snapshots' = Append(snapshots, snapshot)
  /\ revision' = Len(snapshots) + 1
  /\ log' = Append(log, command)

PutRule(id, body) ==
  LET now == SnapshotOf(revision) IN
  /\ now.rules[id] # body
  /\ Publish([now EXCEPT !.rules[id] = body],
             [action |-> "UPSERT_RULE", rule |-> id, body |-> body])

DropRule(id) ==
  LET now == SnapshotOf(revision) IN
  /\ id \in DesiredIds(revision)
  /\ Publish([now EXCEPT !.rules[id] = NoRule],
             [action |-> "DELETE_RULE", rule |-> id, body |-> NoRule])

SwitchProfile(p) ==
  LET now == SnapshotOf(revision) IN
  /\ now.profile # p
  /\ Publish([now EXCEPT !.profile = p], [action |-> "ENABLE_PROFILE", profile |-> p])

\* "NOOP" stands for every command with no bearing on the firewall (KILL_PROCESS and unknown
\* actions too); "ILL_FORMED" for an UPSERT_RULE whose ruleId is no integer.
OtherCommand ==
  /\ Len(log) < MaxCommands
  /\ \E action \in OtherActions : log' = Append(log, [action |-> action])
  /\ UNCHANGED <<revision, snapshots>>

\* The server goes back to what an earlier revision said, under that revision's number
\* (revision_policy.py, 9-11); later changes get numbers never used before.
Rollback ==
  /\ \E n \in 1 .. revision - 1 : revision' = n
  /\ UNCHANGED <<snapshots, log>>
=============================================================================
