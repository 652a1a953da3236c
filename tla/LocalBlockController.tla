------------------------ MODULE LocalBlockController ------------------------
(***************************************************************************)
(* Blocks the agent raises by itself, by LocalBlockController.             *)
(* A local actor is whatever runs its methods: the active response and the *)
(* biometric monitor inside the agent, the settings window, or the Wazuh   *)
(* responder, which is a process of its own.                               *)
(***************************************************************************)
EXTENDS CommandReceiver

CONSTANTS
  LocalActors,   \* the actors that may block and unblock
  AgentActors,   \* those that are threads of the agent; they only block
  Any,           \* the remote address that stands for the whole network
  Remotes        \* the addresses an actor may block

ASSUME LocalAssumption ==
  /\ AgentActors \subseteq LocalActors
  /\ LocalActors \cap {"A", "B", "store"} = {}
  /\ Remotes \cup {Any} \subseteq Bodies

VARIABLES
  l,     \* l[p]: the call of actor p
  held   \* (history) the blocks in force: block_network said True and nobody unblocked since

lVars == <<l, held>>

LIdle == [pc |-> "idle", remote |-> Any]

LocalTypeOK ==
  /\ l \in [LocalActors -> [pc : {"idle", "add", "unblock"}, remote : Remotes \cup {Any}]]
  /\ held \subseteq LocalRuleIds

LocalInit == l = [p \in LocalActors |-> LIdle] /\ held = {}

RuleIdFor(remote) == IF remote # Any THEN RULE_ID_SPECIFIC_IP ELSE RULE_ID_EMERGENCY

\* block_network up to the middle of _upsert_rule's script; a script that does not run is
\* an error the caller is told of.
BlockNetwork(p, remote) ==
  /\ l[p].pc = "idle"
  /\ \/ /\ UpsertRejected(remote) \/ UpsertNotRun(p, remote)
        /\ UNCHANGED l
     \/ /\ UpsertRemove(p, RuleIdFor(remote), remote)
        /\ l' = [l EXCEPT ![p] = [pc |-> "add", remote |-> remote]]
  /\ UNCHANGED held

BlockAdded(p) ==
  /\ l[p].pc = "add"
  /\ \E err \in BOOLEAN :
       /\ UpsertAdd(p, RuleIdFor(l[p].remote), l[p].remote, err)
       /\ held' = IF err THEN held ELSE held \cup {RuleIdFor(l[p].remote)}
  /\ l' = [l EXCEPT ![p] = LIdle]

OnlyEmergency == <<RULE_ID_EMERGENCY, RULE_ID_EMERGENCY>>

ids_to_remove == <<RULE_ID_EMERGENCY, RULE_ID_SPECIFIC_IP>>

\* unblock_network() removes 9999 and then 9998, and answers True whatever happens.
UnblockNetwork(p) ==
  /\ p \notin AgentActors
  /\ l[p].pc = "idle"
  /\ RemoveRule(p, ids_to_remove[1])
  /\ held' = {}
  /\ l' = [l EXCEPT ![p].pc = "unblock"]

UnblockSpecific(p) ==
  /\ l[p].pc = "unblock"
  /\ RemoveRule(p, ids_to_remove[2])
  /\ held' = held \ {RULE_ID_SPECIFIC_IP}
  /\ l' = [l EXCEPT ![p] = LIdle]

LocalStep ==
  /\ \E p \in LocalActors :
       \/ \E remote \in Remotes \cup {Any} : BlockNetwork(p, remote)
       \/ BlockAdded(p)
       \/ UnblockNetwork(p)
       \/ UnblockSpecific(p)
  /\ UNCHANGED <<serverVars, store>>
=============================================================================
