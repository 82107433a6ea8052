CONSTANTS
  Runs = {r1}
  Sends = {s1}
  Receipts = {"delivered", "failed"}
SPECIFICATION Spec
INVARIANT ReportsAreKept
CHECK_DEADLOCK FALSE
