SPECIFICATION MCSpec
CONSTANTS
  Windows = {w1, w2}
  MaxTabs = 2
  MaxActs = 3
  Paths = {"p"}
  Left <- MCLeft
  SourceActs = 4
  Uploads = {1, 2}
  Selections <- MCSelections
  Handles = {{}, {"file", "query"}}
  MaxChoices = 1
  MaxFailures = 1
PROPERTIES DocLastWriteWins
CHECK_DEADLOCK FALSE
