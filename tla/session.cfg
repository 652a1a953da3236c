\* One sender, one poller, the heartbeat and the main thread; two troubles of the server.
CONSTANTS
  Senders = {sender}
  Pollers = {poller}
  NoThread = NoThread
  MaxTroubles = 1

SPECIFICATION FairSpec

INVARIANTS TypeOK OneHastyLogin FewWastedTokens
PROPERTIES HeartbeatsResume CallsEnd

\* The agent stops in the end.
CHECK_DEADLOCK FALSE
