\* One script of channel B fails once.
CONSTANTS
  good = good
  refused = refused
  malformed = malformed
  any = any
  ui = ui
  agent = agent
  NoRule = NoRule
  ServerRuleIds <- OneRule
  Bodies <- OnlyAny
  ServerBodies <- OnlyAny
  Malformed <- Nobody
  Refused <- Nobody
  Any = any
  Remotes = {}
  Faulty <- OnlyB
  MaxFaults = 1
  MaxChanges = 1
  OtherActions = {}
  MaxCommands = 1
  LocalActors <- Nobody
  AgentActors <- Nobody
  MaxCrashes = 0

SPECIFICATION FairSpec

PROPERTY RepairedByNextSync
\* The bounds end every behaviour: the server stops changing and the agent has nothing left to do.
CHECK_DEADLOCK FALSE
