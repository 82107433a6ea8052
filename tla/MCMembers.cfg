CONSTANTS
  Messages = {1, 2, 3}
  Carries <- Senders
  MaxInvites = 2
  MaxAborts = 1
SPECIFICATION FairSpec
INVARIANTS
  TypeOK
  OnePersonOneTenant
  InvitesBringTheirs
  TurnedAwayForCause
  WaitsAreOrdered
PROPERTIES
  RunsEnd
\* Every message may be over.
CHECK_DEADLOCK FALSE
