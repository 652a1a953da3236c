\* Three events through a table of two rows, a row at a time, so that the newer one waits behind
\* the older; the flush thread overlaps with the flush of stop().
CONSTANTS
  MAX_QUEUE_SIZE = 2
  MAX_RETRY = 2
  batch_size = 1
  FlushThreads = {f1}
  Stoppers = {s1}
  MaxEvents = 3
  MaxStops = 1
  MaxCrashes = 1
  MaxUnanswered = 1

SPECIFICATION FairSpec

INVARIANTS TypeOK Bounded Accounted ExpiredWereTried TwiceOnlyForCause
PROPERTY EveryEventLeaves

\* The queue may be stopped for good, with every thread ended.
CHECK_DEADLOCK FALSE
