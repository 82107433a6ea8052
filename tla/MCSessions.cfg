CONSTANTS
  MaxByHand = 1
  MaxDown = 1
  Budget = 7
  ProbeTime = 2
  First = 1
  Longest = 4
  Tenants = {t1, t2}
  System = System
  Callers = {s1, s2, s3}
  Pool = {c1, c2}
  Nobody = Nobody
SPECIFICATION SessionsSpec
SYMMETRY Symmetry
INVARIANTS
  SchemaIsWhole
  EndsForCause
  SeesItsOwn
\* A process exits, and a deploy may be over.
CHECK_DEADLOCK FALSE
