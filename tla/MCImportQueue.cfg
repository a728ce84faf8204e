CONSTANTS
  j1 = j1
  j2 = j2
  n1 = n1
  n2 = n2
  p1 = p1
  p2 = p2
  Jobs <- TwoJobs
  Names <- TwoNames
  Paths <- TwoPaths
  NameOf <- OwnName
  PathOf <- OwnPath
  MaxCrashes = 1
  MaxCancels = 2
  MaxPauses = 2
  MaxFaults = 1
  Attached <- OneDatabase
  Relations <- TableAndView
  Views <- OneView
  MaxRetries = 2
  MaxChanges = 1
  MaxRefreshes = 2
  MaxFetches = 3
  MaxActions = 2
SPECIFICATION MCSpec
INVARIANTS CompletedHasTable CatalogueOK NothingForgotten ServerShown
PROPERTIES WorkEnds
CHECK_DEADLOCK FALSE
