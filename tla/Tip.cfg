SPECIFICATION Spec
CONSTANTS
  Height <- MCHeight
  Unknown = Unknown
  Timeout = 2
  Retry = 1
  Pause = 2
  FallbackAfter = 3
INVARIANTS
  TipIsFresh
  TipFollowsOutages
PROPERTIES
  SyncedIsRecent
  TipReturns
