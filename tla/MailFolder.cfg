SPECIFICATION Spec
CONSTANTS
  e1 = e1
  Editors <- MCEditors
  MaxMsgs = 3
  MaxNotes = 2
  UintMax = 4
  Hideable = {3}
INVARIANTS
  TypeOK
  StoredIsShown
  ShownIsStored
  UnreadIsCount
  MarksAreSaved
PROPERTIES
  RemovalTakesEffect
