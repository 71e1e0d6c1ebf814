SPECIFICATION FairSpec
CONSTANTS
  Workers = {w1, w2}
  Sweepers = {s1}
  Readers = {r1}
  PageSize = 2
  MaxRuns = 2
  MaxEvents = 2
CHECK_DEADLOCK FALSE
INVARIANTS
  EveryRunIsExplained
PROPERTIES
  ImplementsOrderedLog
  SilentJobIsSwept
