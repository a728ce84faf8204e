CONSTANTS
  Tabs = {t1, t2}
  NewFiles = {g}
  Saves = {s1, s2}
  MaxClock = 4
SPECIFICATION FairSpec
INVARIANTS EditorAndTimer OwnText
PROPERTIES AutoSaveHeeds DirtyIsTried
CHECK_DEADLOCK FALSE
