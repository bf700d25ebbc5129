\* Liveness in one session.
CONSTANTS
  a = a
  b = b
  Identities = {a}
  MaxMsgs = 2
  MaxRcpts = 1
  MaxTroubles = 1
  MaxStarts = 1
  Hideable = {1}
SPECIFICATION FairSpec
CHECK_DEADLOCK FALSE
PROPERTIES
  OutboxDrains
