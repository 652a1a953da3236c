---------------------------- MODULE FirewallAgent ----------------------------
(***************************************************************************)
(* The firewall side of the agent as a whole: the server, channel A,       *)
(* channel B, the actors that block locally, and the crash of the agent.   *)
(* All of them act on one firewall; A and B also share the state store.    *)
(***************************************************************************)
EXTENDS LocalBlockController

CONSTANT MaxCrashes     \* bound on the crashes of the agent

ASSUME AgentAssumption == MaxCrashes \in Nat

VARIABLES
  channel_b,  \* the configuration: is channel B on?
  crashes,    \* crashes so far
  dirty,      \* (history) a script of A or B failed, or a cycle of A or a replay of B was cut
              \* short, and no cycle of A begun since has got to the end
  clean       \* (history) no script of A or B failed since A's last poll

historyVars == <<dirty, clean>>
vars == <<serverVars, wfasVars, store, aVars, bVars, lVars, channel_b, crashes, historyVars>>

TypeOK ==
  /\ WfasTypeOK
  /\ ServerTypeOK
  /\ SyncTypeOK
  /\ ReceiverTypeOK
  /\ LocalTypeOK
  /\ channel_b \in BOOLEAN
  /\ crashes \in 0 .. MaxCrashes
  /\ dirty \in BOOLEAN /\ clean \in BOOLEAN

Init ==
  /\ ServerInit
  /\ WfasInit
  /\ Store!Init
  /\ SyncInit
  /\ ReceiverInit
  /\ LocalInit
  /\ channel_b \in BOOLEAN
  /\ crashes = 0
  /\ dirty = FALSE /\ clean = TRUE

-----------------------------------------------------------------------------
ScriptFailed(pc) == faults' # faults /\ pc \in {"list", "apply", "add"}

\* B could not read its cursor and applies commands again from the start.
Replaying == b.pc # "idle" /\ b.since < store.last_command_id

A ==
  /\ SyncStep
  /\ dirty' = IF a.pc = "save"
              THEN store'.last_revision # a.rev \/ (dirty /\ ~clean)
              ELSE dirty \/ ScriptFailed(a.pc)
  /\ clean' = (a.pc = "idle" \/ (clean /\ ~ScriptFailed(a.pc)))
  /\ UNCHANGED <<bVars, lVars, channel_b, crashes>>

B ==
  /\ channel_b
  /\ ReceiverStep
  /\ LET soiled == \/ ScriptFailed(b.pc)
                   \/ b.pc = "save" /\ Replaying /\ store'.last_command_id # b.last
     IN dirty' = (dirty \/ soiled) /\ clean' = (clean /\ ~soiled)
  /\ UNCHANGED <<aVars, lVars, channel_b, crashes>>

Local ==
  /\ LocalStep
  /\ UNCHANGED <<aVars, bVars, channel_b, crashes, historyVars>>

\* Without channel B the server may also go back to an earlier revision.  (With it, what
\* the server enqueues on a rollback is not known from this repository.)
Server ==
  /\ \/ \E id \in ServerRuleIds, body \in ServerBodies : PutRule(id, body)
     \/ \E id \in ServerRuleIds : DropRule(id)
     \/ \E p \in Profiles : SwitchProfile(p)
     \/ OtherCommand
     \/ ~channel_b /\ Rollback
  /\ UNCHANGED <<wfasVars, store, aVars, bVars, lVars, channel_b, crashes, historyVars>>

\* The scripts whose first half has run, of the threads that die with the agent.
Pending ==
  (IF a.pc = "add" THEN {[id |-> a.rule, body |-> SnapshotOf(a.rev).rules[a.rule]]} ELSE {})
  \cup (IF b.pc = "add" THEN {[id |-> log[b.next].rule, body |-> log[b.next].body]} ELSE {})
  \cup {[id |-> RuleIdFor(l[p].remote), body |-> l[p].remote] :
          p \in {q \in AgentActors : l[q].pc = "add"}}

\* The agent is killed and started again: its threads start over, and the store is what the
\* file holds.  A PowerShell process may outlive its parent and finish its script.
Crash ==
  /\ crashes < MaxCrashes
  /\ crashes' = crashes + 1
  /\ a' = AIdle
  /\ b' = BIdle
  /\ l' = [p \in LocalActors |-> IF p \in AgentActors THEN LIdle ELSE l[p]]
  /\ \E done \in SUBSET {script \in Pending : script.body \notin Refused} :
       /\ fw' = [id \in RuleIds |-> fw[id] \cup {s.body : s \in {t \in done : t.id = id}}]
       /\ held' = held \cup {id \in LocalRuleIds : \E s \in done : s.id = id}
  /\ dirty' = (dirty \/ a.pc # "idle" \/ Replaying)
  /\ UNCHANGED <<serverVars, profile, faults, store, attempted, channel_b, clean>>

Next == A \/ B \/ Local \/ Server \/ Crash

Spec == Init /\ [][Next]_vars

\* Both threads loop as long as the agent runs, and a network that fails recovers.
FairSpec == Spec /\ WF_vars(A) /\ WF_vars(B)

-----------------------------------------------------------------------------
\* The firewall says what revision n says, for the rules and profiles n determines: a
\* refused rule is absent, a malformed one is left as it was.
RuleAgrees(id, want) ==
  /\ want \in Refused \cup {NoRule} => fw[id] = {}
  /\ want \in ServerBodies \ (Refused \cup Malformed) => fw[id] = {want}

AgreesWith(snapshot) ==
  /\ \A id \in ServerRuleIds : RuleAgrees(id, snapshot.rules[id])
  /\ snapshot.profile \in Profiles => profile = snapshot.profile

Agrees == AgreesWith(SnapshotOf(revision))

\* Neither channel has anything left to do.
Quiescent ==
  /\ a.pc = "idle" /\ store.last_revision = revision
  /\ channel_b => b.pc = "idle" /\ store.last_command_id = Len(log)

(* Whenever both channels have caught up, the firewall says what the server's snapshot   *)
(* says, whatever the interleaving of their scripts, their crashes and the loss of their *)
(* cursors; a failed script, or a cycle of A cut short, is made up for by the next full  *)
(* cycle, that is, by the next change of revision.                                       *)
(* (desired_state_sync.py 70-122, command_receiver.py 79-162)                            *)
QuiescentAgreement == Quiescent /\ ~dirty => Agrees

(* The cursor never passes a command that was not carried to its end: a crash leads to   *)
(* commands applied twice, never to a command skipped.  (command_receiver.py 79-155)     *)
CursorBehindAttempts == 1 .. store.last_command_id \subseteq attempted

(* When every block has been released, no local block rule is left behind to cut the     *)
(* machine off, even when blocks and releases of several actors interleave.              *)
(* (local_block_controller.py 15-57; the local actors' own scripts do not fail here)     *)
NoOrphanBlock ==
  held = {} /\ (\A p \in LocalActors : l[p].pc = "idle") => Present \cap LocalRuleIds = {}

\* Channel B has a command that raises: it comes back to it for ever.
Stuck == \E i \in 1 .. Len(log) : log[i].action = "ILL_FORMED"

(* Once the server stops changing, the firewall comes to agree with it and stays so,     *)
(* unless a script failed and nothing changed since, or an ill-formed command makes B    *)
(* apply those before it over and over.  (desired_state_sync.py 57-122,                  *)
(* command_receiver.py 79-162)                                                           *)
Convergence == [](~(channel_b /\ Stuck)) /\ <>[]~dirty => <>[]Agrees

(* Every command the server issues is eventually behind the cursor, unless one of them   *)
(* raises.  (command_receiver.py 79-162)                                                 *)
CommandsConsumed ==
  \A i \in 1 .. MaxCommands : channel_b /\ i <= Len(log) ~> store.last_command_id >= i \/ Stuck

-----------------------------------------------------------------------------
(* docs/FIREWALL_INTEGRATION.md:144: what channel B failed to apply, the next cycle of   *)
(* channel A restores.                                                                   *)
RepairedByNextSync == ~Agrees ~> Agrees

(* setup_ui.py:1897: a blocked network stays blocked until it is unblocked (but for the  *)
(* moment in which a new block of the same kind replaces the rule).                      *)
LocalBlockHolds ==
  \A id \in held \ Present : \E p \in LocalActors : l[p].pc = "add" /\ RuleIdFor(l[p].remote) = id
=============================================================================
