SPECIFICATION Spec
CONSTANTS
  Jobs = {j1}
  Keys = {k1, k2}
  Notes = {n1, n2}
  Handlers = {h1, h2}
  MaxFailures = 2
SYMMETRY Symmetry
INVARIANTS
  AnswersAgree
  OneDecisionPerFailure
  KeyNamesAcceptedWork
  RequestsProceed
PROPERTIES
  ImplementsAtomicRoutes
