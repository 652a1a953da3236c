\* Channels A and B under a crash and a failure of a script or of the store; no local blocks.
CONSTANTS
  good = good
  refused = refused
  malformed = malformed
  any = any
  ui = ui
  agent = agent
  NoRule = NoRule
  ServerRuleIds <- OneRule
  Bodies <- AllBodies
  ServerBodies <- AllBodies
  Malformed <- MalformedBodies
  Refused <- RefusedBodies
  Any = any
  Remotes = {}
  Faulty <- EveryThread
  MaxFaults = 1
  MaxChanges = 2
  OtherActions <- OtherCommands
  MaxCommands = 2
  LocalActors <- Nobody
  AgentActors <- Nobody
  MaxCrashes = 1

SPECIFICATION FairSpec

INVARIANTS TypeOK QuiescentAgreement CursorBehindAttempts
PROPERTIES Convergence CommandsConsumed

\* The bounds end every behaviour: the server stops changing and the agent has nothing left to do.
CHECK_DEADLOCK FALSE
