SPECIFICATION Spec
CONSTANTS
  fast = fast
  slow = slow
  Subjects = {s1}
  Operations = {fast, slow}
  Requests = {r1, r2}
  max_requests <- Max
  window <- Win
  MaxWindow = 3
  Grace = 2
  Lag = 1
  Lead = 1
  MaxTime = 7
SYMMETRY Symmetry
INVARIANTS
  WithinLimit
PROPERTIES
  DeniedWhenSpent
