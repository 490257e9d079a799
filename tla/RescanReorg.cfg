SPECIFICATION RescanSpec
CONSTANTS
  Nf <- MCNf
  PoolSize = 2
  Name <- MCName
  Rcm <- MCRcm
  ZeroRcm = "zero"
  NoNf = "none"
  TxId = {"keygen", "keygen2", "claimAlice", "rivalAlice", "claimBob", "updateAlice", "releaseAlice", "staleRelease", "underivable", "burn", "sweep", "greedy", "pair", "unbound", "paid", "stray", "strayClaim"}
  Tx <- LifeTx
  Block <- LifeBlock
  MaxHeight = 4
  BatchLimit = 3
  MaxFails = 1
  Lossy = FALSE
  ReorgsMeanwhile = TRUE
INVARIANT
  Healed
