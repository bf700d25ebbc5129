\* Crashes, restarts and quitting; one recipient per mail at most.
CONSTANTS
  a = a
  b = b
  Identities = {a, b}
  MaxMsgs = 2
  MaxRcpts = 1
  MaxTroubles = 1
  MaxStarts = 2
  Hideable = {1}
SPECIFICATION Spec
CHECK_DEADLOCK FALSE
SYMMETRY IdentitySymmetry
INVARIANTS
  TypeOK
  NoMailLost
  NoRequestDropped
  NeverForgotten
  FolderShowsOutbox
PROPERTIES
  SentInOrder
  CancelIsFinal
