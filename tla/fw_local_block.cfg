\* A local block while channel A reconciles.
CONSTANTS
  good = good
  refused = refused
  malformed = malformed
  any = any
  ui = ui
  agent = agent
  NoRule = NoRule
  ServerRuleIds <- OneRule
  Bodies <- OnlyAny
  ServerBodies <- OnlyAny
  Malformed <- Nobody
  Refused <- Nobody
  Any = any
  Remotes = {}
  Faulty <- Nobody
  MaxFaults = 0
  MaxChanges = 1
  OtherActions = {}
  MaxCommands = 1
  LocalActors <- TwoActors
  AgentActors <- AgentThreads
  MaxCrashes = 0

SPECIFICATION Spec

INVARIANT LocalBlockHolds

\* The bounds end every behaviour: the server stops changing and the agent has nothing left to do.
CHECK_DEADLOCK FALSE
