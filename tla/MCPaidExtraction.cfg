SPECIFICATION Spec
CONSTANTS
  j1 = j1
  j2 = j2
  w1 = w1
  w2 = w2
  s1 = s1
  Tenant = tenant
  Jobs = {j1, j2}
  Workers = {w1, w2}
  Sessions = {w1, w2, s1}
  Costs = {1, 3}
  Estimate <- Estimates
  Ceiling <- Ceilings
  Lease = 1
  Deployments <- Timings
  DayLength = 2
  MaxAttempts = 2
  MaxRuns <- Runs
  MaxTime = 2
INVARIANTS
  LedgerBalances
  WithinCeilings
  CalledAgainOnlyAfterFailure
  ChargedOnce
  NoDeadlock
PROPERTIES
  ImplementsAtomicLedger
SYMMETRY Interchangeable
