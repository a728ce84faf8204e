CONSTANTS
  Statements <- MCStatements
  Values <- MCValues
  Streamed <- MCStreamed
  Limited <- MCLimited
  Estimate <- MCEstimate
  PageSize = 2
  Threshold = 4
  MaxRuns = 2
  MaxLoads = 1
  MaxPage = 1
  Pages <- MCPages
  PageRows = 1
  Batches = 2
SPECIFICATION MCSpec
INVARIANTS CacheIsWhole CalmPages SelectionOnPage ExportLeavesNoTrace
PROPERTIES SpinnersStop
CHECK_DEADLOCK FALSE
