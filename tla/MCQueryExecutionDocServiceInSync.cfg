CONSTANTS
  r1 = r1
  r2 = r2
  t1 = t1
  t2 = t2
  duckdb = duckdb
  bigquery = bigquery
  Runs <- TwoRuns
  Tabs <- TwoTabs
  Engines <- BothEngines
  BigQuery <- bigquery
  MaxText = 1
  MaxTableCalls = 0
  MaxConnectionCalls = 0
  MaxFaults = 0
  MaxClock = 0
  MaxTurns = 0
  TTL = 1
  HashSize = 4
  MaxFailed = 1
SPECIFICATION MCSpec
INVARIANT DocServiceInSync
CHECK_DEADLOCK FALSE
