CONSTANTS
  Jobs = {j1, j2}
  MaxAttempts = 2
  Runs <- AttemptsOfJobs
  Sends = {j1, j2}
  Receipts = {"delivered", "failed"}
  Channels = {c1, c2}
  Nowhere = Nowhere
  Fleet <- WholeFleet
SPECIFICATION AnnounceSpec
SYMMETRY Symmetry
INVARIANTS
  TypeOK
  SentAtMostOnce
  SkippedForCause
  AllSetOnce
  NotSentIsTrue
  AcceptedIsTrue
PROPERTIES
  AcceptedMovesForward
  PromiseSpec
\* Every attempt ends, and the provider may have nothing to report.
CHECK_DEADLOCK FALSE
