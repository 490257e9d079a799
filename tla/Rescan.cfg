SPECIFICATION RescanSpec
CONSTANTS
  Nf <- MCNf
  PoolSize = 2
  Name <- MCName
  Rcm <- MCRcm
  ZeroRcm = "zero"
  NoNf = "none"
  TxId = {"keygen", "keygen2", "claimAlice", "rivalAlice", "claimBob", "updateAlice", "releaseAlice", "staleRelease", "underivable", "burn", "sweep", "greedy", "pair", "unbound", "paid", "stray", "strayClaim"}
  Tx <- RescanTx
  Block <- RescanBlock
  MaxHeight = 4
  BatchLimit = 2
  MaxFails = 2
  Lossy = TRUE
  ReorgsMeanwhile = FALSE
INVARIANTS
  Healed
  LineageIsFold
PROPERTIES
  RescanChangesNothing
  CatchesUp
