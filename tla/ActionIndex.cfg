SPECIFICATION ApiSpec
CONSTANTS
  Nf <- MCNf
  PoolSize = 2
  Name <- MCName
  Rcm <- MCRcm
  ZeroRcm = "zero"
  NoNf = "none"
  TxId = {"keygen", "keygen2", "claimAlice", "rivalAlice", "claimBob", "updateAlice", "releaseAlice", "staleRelease", "underivable", "burn", "sweep", "greedy", "pair", "unbound", "paid", "stray", "strayClaim"}
  Tx <- LifeTx
  Block <- LifeBlock
  MaxHeight = 4
  BatchLimit = 2
  MaxFails = 0
  Lossy = FALSE
  Ua <- MCUa
  UaOf <- MCUaOf
  AddressShaped <- MCAddressShaped
  Empty = ""
  NoFilter = NoFilter
  Query <- MCQuery
  Limit <- MCLimit
  Default = Default
  DefaultLimit = 1
  MaxLimit = 2
  OffsetModulus = 8
  InsertOrder <- MCInsertOrder
  ActionIndex <- MCActionIndex
INVARIANT
  ActionIndexOrders
