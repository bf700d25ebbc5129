\* A quit that was cancelled.
CONSTANTS
  a = a
  b = b
  Identities = {a, b}
  MaxMsgs = 2
  MaxRcpts = 1
  MaxTroubles = 0
  MaxStarts = 1
  Hideable = {}
SPECIFICATION FairSpec
CHECK_DEADLOCK FALSE
PROPERTIES
  SendReachesSent
