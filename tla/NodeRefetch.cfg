SPECIFICATION FairSpec
CONSTANTS
  na = na
  nb = nb
  nc = nc
  Nodes = {na, nb, nc}
  Outbound <- Star
  NBlocks = 3
  Prev <- Line
  InitHead <- HeadsLine
  Mints <- NoPairs
  Trxs <- NoPairs
  Limit = 2
  CacheDuration = 2
  UintMax = 7
  MaxBreaks = 1
  MaxSent = 0
PROPERTY RequestedIsFetched
CHECK_DEADLOCK FALSE
