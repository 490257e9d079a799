SPECIFICATION Spec
CONSTANTS
  Nf <- MCNf
  PoolSize = 2
  Name <- MCName
  Rcm <- MCRcm
  ZeroRcm = "zero"
  NoNf = "none"
  TxId = {"keygen", "keygen2", "claimAlice", "rivalAlice", "claimBob", "updateAlice", "releaseAlice", "staleRelease", "underivable", "burn", "sweep", "greedy", "pair", "unbound", "paid", "stray", "strayClaim"}
  Tx <- ShapeTx
  Block <- ShapeBlock
  MaxHeight = 4
  BatchLimit = 1
  MaxFails = 0
  Lossy = FALSE
INVARIANTS
  TypeOK
  LineageIsFold
  ClaimsAreBacked
PROPERTIES
  ImplementsLedger
  AuthorityNeverGrows
