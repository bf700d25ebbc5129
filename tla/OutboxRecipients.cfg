\* Several recipients per mail: transfers interrupted between two of them.
CONSTANTS
  a = a
  b = b
  Identities = {a, b}
  MaxMsgs = 2
  MaxRcpts = 2
  MaxTroubles = 1
  MaxStarts = 1
  Hideable = {}
SPECIFICATION Spec
CHECK_DEADLOCK FALSE
SYMMETRY IdentitySymmetry
INVARIANTS
  SentWasDelivered
  NoNeedlessResend
PROPERTIES
  ImplementsMailQueue
