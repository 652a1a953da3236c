\* Each part of the program with its surroundings.
CONSTANTS
  MaxLines = 3
  MaxCuts = 1
  MaxDeaths = 1
  MaxAlerts = 3
  MaxHangUps = 2
  TailLines = 1
  min_level = 5
  Keys = {k1, k2, k3, k4}
  _max_aggregator_keys = 3
  _max_send_per_interval = 2
  MaxPackets = 6
  Browsers = {"Chrome", "Firefox"}
  Urls = {u1, u2, u3}
  LIMIT = 2
  MaxVisits = 4
  Things = {t1, t2}
  MaxMoves = 2
  MaxErrors = 2
  Paths = {"documents", "drive"}
  InitialPaths <- OneDirectory
  Changes = {c1, c2}
  MaxEntries = 1
  MaxTime = 5
  Handlers = {h1, h2}
  Sources = {"own", "far", "farther"}
  Capacity = 3
  MaxRecords = 4
  MaxReadErrors = 1
  MaxMouseEvents = 4
  MaxWriteErrors = 1
  target_samples = 2
  seq_len = 2
  Trainings = {1, 2, 3, 4}
  MaxTroubles = 1
  MaxResets = 1
  MaxSignals = 3
  MaxClicks = 2
  MaxStarts = 2
  MaxJobs = 2
  MaxPresses = 2
  MaxFlips = 1
  MaxFailures = 1
  Agents = {a1, a2}
  MaxSaves = 1
  MaxKills = 1
  Versions = {0, 1}
  MaxWrites = 3
  MaxWatches = 2

SPECIFICATION Spec

INVARIANTS
  TypeOK
  GuardsWithOneModel
  AlertsInOrder
  AlertsPassed
  PacketsAccounted
  VisitsReportedOnce
  ReportsAddUp
  HeldBackBriefly
  BlockedIsTrue
  OpensAsAsked
  SavesKept
  FailuresReported
  LogKeepsOrder
  AddedIsWatched
  StopIsComplete

\* The bounds end every behaviour.
CHECK_DEADLOCK FALSE
