CONSTANTS
  Runs = {r1, r2}
  Visits = {v1, v2}
  Nobody = Nobody
  TTL = 2
  StateAge = 1
  Recognised = 3
  MaxTime = 3
  MaxLinks = 2
  MaxTokens = 2
SPECIFICATION Spec
SYMMETRY Symmetry
INVARIANTS
  RefusedForCause
  TypeOK
  OneFreshLink
  ConnectedBySpending
PROPERTIES
  PromiseSpec
\* The clock ends, and every visit may have ended.
CHECK_DEADLOCK FALSE
