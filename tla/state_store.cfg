\* The two channels' threads on one file, with failures and a crash.
CONSTANTS
  Threads <- TwoChannels
  NoThread = NoThread
  Values = {0, 1, 2}
  FieldOf <- FieldsOfChannels
  NoFile = NoFile
  Torn = Torn
  MaxFaults = 2
  MaxCrashes = 1

SPECIFICATION FairSpec

INVARIANTS TypeOK OwnTemporary
PROPERTIES AtomicUpdates CallsReturn
