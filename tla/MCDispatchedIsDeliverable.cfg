SPECIFICATION Spec
CONSTANTS
  Jobs = {j1}
  Dispatchers = {d1, d2}
  Workers = {w1, w2}
  MaxDispatchAttempts = 2
  BatchSize = 1
  MaxGeneration = 1
  MaxFaults = 1
INVARIANT DispatchedIsDeliverable
