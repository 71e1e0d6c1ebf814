SPECIFICATION HangSpec
CONSTANTS
  Workers = {w1, w2}
  Sweepers = {s1}
  Readers = {}
  PageSize = 2
  MaxRuns = 2
  MaxEvents = 2
CHECK_DEADLOCK FALSE
PROPERTIES
  SilentJobIsSwept
