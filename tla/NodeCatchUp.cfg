SPECIFICATION FairSpec
CONSTANTS
  na = na
  nb = nb
  nc = nc
  Nodes = {na, nb, nc}
  Outbound <- Star
  NBlocks = 3
  Prev <- Line
  InitHead <- HeadsLine
  Mints <- NoPairs
  Trxs <- NoPairs
  Limit = 2
  CacheDuration = 2
  UintMax = 7
  MaxBreaks = 0
  MaxSent = 0
INVARIANT ListsFollowOn
PROPERTY CatchesUp
CHECK_DEADLOCK FALSE
