\* The server is down, or the account locked, when the agent starts.
CONSTANTS
  Senders = {sender}
  Pollers = {}
  NoThread = NoThread
  MaxTroubles = 0

SPECIFICATION FairSpec

PROPERTY LoginRetried

\* The agent stops in the end.
CHECK_DEADLOCK FALSE
