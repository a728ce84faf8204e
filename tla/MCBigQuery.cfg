CONSTANTS
  Calls = {c1}
  Keys <- MCKeys
  MaxAttempts = 2
  MaxTokens = 2
  MaxVersion = 2
  MaxReloads = 1
  Rows = 5
  PageSize = 2
  MaxRows = 4
  Named = TRUE
  Tables = {"t1", "t2"}
  Clicked = {"t1"}
  Slots = {"a", "b"}
  MaxTableCalls = 2
  MaxFaults = 1
  Connections = {"c1", "c2"}
  Orders <- MCOrders
  Kept <- MCKept
  MaxConnectionCalls = 3
SPECIFICATION MCSpec
INVARIANTS CodeOfAttempt ConnectionKept GoneIsGone QueryReturnsAll StorageIsHonest
CHECK_DEADLOCK FALSE
PROPERTIES AttemptsEnd
