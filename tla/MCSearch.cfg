SPECIFICATION Spec
CONSTANTS
  Setups <- MCSetups
  MaxPagingWindow = 6
  MaxReferenceTerms = 6
  TotalHitsCap = 6
  DefaultPageSize = 2
  MaxPageSize = 3
  MaxAsks = 2
INVARIANTS PageIsCut CountsHold
CHECK_DEADLOCK FALSE
