SPECIFICATION Spec
CONSTANTS
  Setups <- MCCeiling
  MaxPagingWindow = 6
  MaxReferenceTerms = 6
  TotalHitsCap = 6
  DefaultPageSize = 2
  MaxPageSize = 3
  MaxAsks = 2
INVARIANTS CeilingIsLoud
CHECK_DEADLOCK FALSE
