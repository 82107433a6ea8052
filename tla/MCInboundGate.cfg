CONSTANTS
  whatsapp = whatsapp  gowa = gowa
  Messages = {1, 2}
  ChannelOf <- Channels
  Workers = {w1, w2}
  Nameless = {1}
  Late = {2}
  MaxFaults = 1
  MaxChanges = 2
SPECIFICATION Spec
SYMMETRY Symmetry
INVARIANTS
  TypeOK
  ContentIsMovedOnce
  ServedWereInvited
  FinishedIsAnswered
  StepIsOffered
\* Every message may have been handled.
CHECK_DEADLOCK FALSE
