CONSTANTS
  j1 = j1  j2 = j2  j3 = j3  ann = ann  bob = bob
  Jobs = {j1, j2}
  LockOf <- Senders
  Workers = {w1, w2}
  MaxAttempts = 2
  MaxLapses = 1
SPECIFICATION Spec
SYMMETRY Symmetry
INVARIANTS
  OneAtATime
  SucceededIsHandled
PROPERTY InArrivalOrder
\* Every message may have been handled.
CHECK_DEADLOCK FALSE
