CONSTANTS
  r1 = r1
  r2 = r2
  t1 = t1
  t2 = t2
  duckdb = duckdb
  bigquery = bigquery
  Runs <- TwoRuns
  Tabs <- TwoTabs
  Engines <- BothEngines
  BigQuery <- bigquery
  MaxText = 5
  MaxClock = 3
  MaxTurns = 3
  TTL = 2
  HashSize = 64
  MaxFailed = 1
SPECIFICATION MCFairSpec
INVARIANTS RunsAsMeant ControlIsKept
PROPERTIES StoppedNotSent LoadingEnds
CHECK_DEADLOCK FALSE
