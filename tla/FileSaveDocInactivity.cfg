CONSTANTS
  Tabs = {t1, t2}
  NewFiles = {g}
  Saves = {s1, s2}
  MaxClock = 3
SPECIFICATION FairSpec
PROPERTY DocSavesAfterInactivity
CHECK_DEADLOCK FALSE
