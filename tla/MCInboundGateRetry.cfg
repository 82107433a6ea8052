CONSTANTS
  whatsapp = whatsapp  gowa = gowa
  Messages = {1}
  ChannelOf <- Channels
  Workers = {w1, w2}
  Nameless = {}
  Late = {}
  MaxFaults = 1
  MaxChanges = 0
SPECIFICATION Spec
INVARIANT ReleasedIsRetried
CHECK_DEADLOCK FALSE
