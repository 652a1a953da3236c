--------------------------- MODULE MCFirewallAgent ---------------------------
(***************************************************************************)
(* Instances of FirewallAgent for TLC: the values the .cfg files give to   *)
(* its constants.  Bodies are told apart only by how the scripts take      *)
(* them, so one of each kind, and a second sound one to tell an old rule   *)
(* from its replacement, are enough.                                       *)
(***************************************************************************)
EXTENDS FirewallAgent

CONSTANTS good, refused, malformed, any, ui, agent

\* Every kind of body.
AllBodies == {good, any, refused, malformed}
MalformedBodies == {malformed}
RefusedBodies == {refused}

\* The settings window, and a thread of the agent.
TwoActors == {ui, agent}
AgentThreads == {agent}

OneRule == {1}
EveryThread == {"A", "B", "store"}
OnlyB == {"B"}
Nobody == {}
OtherCommands == {"NOOP", "ILL_FORMED"}
OnlyAny == {any}
Sound == {any, good}
OnlyGood == {good}
=============================================================================
