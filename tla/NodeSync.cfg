SPECIFICATION Spec
CONSTANTS
  na = na
  nb = nb
  nc = nc
  Nodes = {na, nb, nc}
  Outbound <- Star
  NBlocks = 3
  Prev <- Twigs
  InitHead <- HeadsTwigs
  Mints <- MintsB
  Trxs <- TrxsB
  Limit = 2
  CacheDuration = 0
  UintMax = 7
  MaxBreaks = 1
  MaxSent = 1
INVARIANTS TypeOK NoPeerBlamed InSyncHasNothingToGet OneRequest
CHECK_DEADLOCK FALSE
