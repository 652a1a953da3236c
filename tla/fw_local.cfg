\* The settings window and a thread of the agent block and release, while the channels reconcile
\* and the agent crashes.
CONSTANTS
  good = good
  refused = refused
  malformed = malformed
  any = any
  ui = ui
  agent = agent
  NoRule = NoRule
  ServerRuleIds <- OneRule
  Bodies <- Sound
  ServerBodies <- OnlyAny
  Malformed <- Nobody
  Refused <- Nobody
  Any = any
  Remotes <- OnlyGood
  Faulty <- Nobody
  MaxFaults = 0
  MaxChanges = 2
  OtherActions = {}
  MaxCommands = 2
  LocalActors <- TwoActors
  AgentActors <- AgentThreads
  MaxCrashes = 1

SPECIFICATION Spec

INVARIANT NoOrphanBlock

\* The bounds end every behaviour: the server stops changing and the agent has nothing left to do.
CHECK_DEADLOCK FALSE
