\* Two forks, blocks in any order.
CONSTANTS
  base = base
  root = root
  a1 = a1
  a2 = a2
  c1 = c1
  c2 = c2
  d2 = d2
  d3 = d3
  Blocks = {root, a1, a2, c1, c2, d2, d3}
  Base = base
  Root = root
  Prev <- TreePrev
  Num <- TreeNum
  Sound = {root, a1, a2, c1, d2, d3}
  Early = {a1}
  NTrx = 3
  UserTrx <- TreeTrx
  Coins = {"x", "z", "w", "v"}
  Takes <- TreeTakes
  Gives <- TreeGives
  Funded <- TreeFunded
SPECIFICATION FairSpec
CHECK_DEADLOCK FALSE
INVARIANTS
  TypeOK
  LinkedExactly
  OneChain
  IncludedIsValid
  RecordsMatchChain
  LedgerIsReplay
  PendingIsNew
  PendingFitTogether
PROPERTIES
  PushReturns
