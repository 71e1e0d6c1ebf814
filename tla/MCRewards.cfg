SPECIFICATION Spec
CONSTANTS
  i1 = i1
  i2 = i2
  Students = {s1}
  Events = {e1, e2}
  Items = {i1, i2}
  Cost <- OneEach
  Points = 1
  Redemptions = {r1, r2, r3, r4}
  Sessions = {h1, h2, h3}
  Reversible <- Everything
INVARIANTS
  LedgerIsExplained
  OneTicketPerItem
  OverdraftIsBounded
PROPERTIES
  ImplementsPointsBook
SYMMETRY Interchangeable
CHECK_DEADLOCK FALSE
