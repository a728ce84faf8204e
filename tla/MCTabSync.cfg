SPECIFICATION MCSpec
CONSTANTS
  Windows = {w1, w2}
  MaxTabs = 2
  MaxActs = 3
  Paths = {"p"}
  Left <- MCLeft
  SourceActs = 4
  Uploads = {1, 2}
  Selections <- MCSelections
  Handles = {{}, {"file", "query"}}
  MaxChoices = 1
  MaxFailures = 1
INVARIANTS TabsWellFormed CalmWindows
PROPERTIES NoTabLost WindowsSettle
\* When the users have left, nothing needs to happen.
CHECK_DEADLOCK FALSE
