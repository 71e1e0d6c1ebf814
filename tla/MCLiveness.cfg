SPECIFICATION FairSpec
CONSTANTS
  Jobs = {j1}
  Dispatchers = {d1}
  Workers = {w1, w2}
  MaxDispatchAttempts = 2
  BatchSize = 1
  MaxGeneration = 1
  MaxFaults = 1
PROPERTIES
  QueuedIsResolved
  RunningIsResolved
  TaskIsRetired
