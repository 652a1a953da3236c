-------------------------------- MODULE Wfas --------------------------------
(***************************************************************************)
(* The Windows Advanced Firewall as the agent drives it: the PowerShell    *)
(* scripts of src/firewall/wfas_applier.py, each an action of the thread   *)
(* (or process) t that waits for it.                                       *)
(*                                                                         *)
(* Nothing serialises the scripts of two threads, so an upsert is two      *)
(* steps: the rules with that DisplayName are removed, then a new one is   *)
(* added.  fw[id] is the SET of rule contents now in force under the       *)
(* DisplayName "BeaconGuardian/<id>": the firewall allows several rules    *)
(* with one DisplayName, and Remove-NetFirewallRule -DisplayName removes   *)
(* them all.                                                               *)
(*                                                                         *)
(* A script may fail.  A failure is charged to a budget, and the thread    *)
(* sees an error, or none when the code does not look at the failure.      *)
(***************************************************************************)
EXTENDS Integers, FiniteSets

CONSTANTS
  ServerRuleIds,  \* the ruleIds the server gives to its rules
  Bodies,         \* what a rule says: addresses, direction, action, ports
  Malformed,      \* bodies refused before any script runs (empty or ill-formed addresses)
  Refused,        \* bodies that pass the agent's check and New-NetFirewallRule refuses
  Faulty,         \* the threads whose scripts, and the store whose writes, may fail
  MaxFaults       \* bound on the failures of a behaviour

\* local_block_controller.py, 8-9: the two ids the agent keeps for itself.
RULE_ID_EMERGENCY == 9999
RULE_ID_SPECIFIC_IP == 9998
LocalRuleIds == {RULE_ID_EMERGENCY, RULE_ID_SPECIFIC_IP}
RuleIds == ServerRuleIds \cup LocalRuleIds

ASSUME WfasAssumption ==
  /\ ServerRuleIds \subseteq Int
  /\ ServerRuleIds \cap LocalRuleIds = {}
  /\ Malformed \subseteq Bodies
  /\ Refused \subseteq Bodies
  /\ Malformed \cap Refused = {}
  /\ MaxFaults \in Nat

VARIABLES
  fw,       \* fw[id]: the contents of the rules named id
  profile,  \* "on" or "off": the Domain/Private/Public profiles, taken together
  faults    \* failures so far

wfasVars == <<fw, profile, faults>>

Profiles == {"on", "off"}

WfasTypeOK ==
  /\ fw \in [RuleIds -> SUBSET Bodies]
  /\ profile \in Profiles
  /\ faults \in 0 .. MaxFaults

WfasInit ==
  /\ fw = [id \in RuleIds |-> {}]
  /\ profile = "on"
  /\ faults = 0

Present == {id \in RuleIds : fw[id] # {}}
Without(id) == [fw EXCEPT ![id] = {}]
With(id, body) == [fw EXCEPT ![id] = @ \cup {body}]

CanFail(t) == t \in Faulty /\ faults < MaxFaults
Fault(t) == CanFail(t) /\ faults' = faults + 1
NoFault == UNCHANGED faults

\* Get-NetFirewallRule, filtered by the prefix: ids is what the thread is told.  A query
\* that dies is an error in the log and an empty list for the caller.
ListManagedRuleIds(t, ids) ==
  /\ \/ NoFault /\ ids = Present
     \/ Fault(t) /\ ids = {}
  /\ UNCHANGED <<fw, profile>>

\* Remove-NetFirewallRule ... -ErrorAction SilentlyContinue.  Every caller goes on after a
\* failure; one with nothing on stderr is not even an error.
RemoveRule(t, id) ==
  /\ \/ NoFault /\ fw' = Without(id)
     \/ Fault(t) /\ fw' = fw
  /\ UNCHANGED profile

\* _upsert_rule on a body it refuses: it returns before any script runs.
UpsertRejected(body) == body \in Malformed /\ UNCHANGED wfasVars

\* powershell.exe does not start, or times out before it has done anything.
UpsertNotRun(t, body) == body \notin Malformed /\ Fault(t) /\ UNCHANGED <<fw, profile>>

\* The first half of the script: Remove-NetFirewallRule, SilentlyContinue.
UpsertRemove(t, id, body) ==
  /\ body \notin Malformed
  /\ RemoveRule(t, id)

\* The second half: New-NetFirewallRule ... -ErrorAction Stop.  When it fails the rule
\* removed before stays removed; a timeout may also strike after the rule was added.
UpsertAdd(t, id, body, err) ==
  /\ IF body \in Refused
     THEN NoFault /\ fw' = fw /\ err
     ELSE \/ NoFault /\ fw' = With(id, body) /\ ~err
          \/ Fault(t) /\ fw' \in {fw, With(id, body)} /\ err
  /\ UNCHANGED profile

\* Set-NetFirewallProfile for the profiles the payload names; p = "absent" names none.
ApplyProfiles(t, p) ==
  /\ \/ NoFault /\ profile' = (IF p \in Profiles THEN p ELSE profile)
     \/ p \in Profiles /\ Fault(t) /\ UNCHANGED profile
  /\ UNCHANGED fw
=============================================================================
