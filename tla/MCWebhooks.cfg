CONSTANTS
  MaxChanges = 3
  MaxEvents = 2
SPECIFICATION WebhooksSpec
INVARIANTS
  RefusedAtBootOrNever
  StoresWhatIsOurs
\* A service may refuse to boot.
CHECK_DEADLOCK FALSE
