CONSTANTS
  m1 = m1  m2 = m2  r1 = r1  r2 = r2  ann = ann
  Messages = {m1, m2}
  Requests = {r1, r2}
  BatchOf <- Crossed
  Jobs <- JobIds
  JobsOf <- Jobsof
  LockOf <- Locks
  Workers = {w1, w2}
  MaxAttempts = 1
  MaxLapses = 0
  MaxFailures = 1
SPECIFICATION FairIngressSpec
INVARIANTS
  RowIffItsOneJob
  AnsweredIsStored
PROPERTY AnsweredIsHandled
\* Every message may have been handled.
CHECK_DEADLOCK FALSE
