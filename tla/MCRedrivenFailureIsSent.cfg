SPECIFICATION Spec
CONSTANTS
  c1 = c1
  j1 = j1
  w1 = w1
  w2 = w2
  a1 = a1
  a2 = a2
  Channels = {c1}
  LoginAddress = {c1}
  Actors = {a1, a2}
  Lifecycle = {"relationship_recorded", "consented", "active_candidate", "stale", "reviewed"}
  Jobs = {j1}
  Recipient <- ToOne
  Workers = {w1, w2}
  MaxRuns = 2
INVARIANT RedrivenFailureIsSent
SYMMETRY Interchangeable
