SPECIFICATION MCSpec
CONSTANTS
  d1 = d1
  f1 = f1
  a1 = a1
  Databases <- MCDatabases
  Files = {f1}
  Aliases = {a1}
  AliasOf <- MCAliasOf
  Ops = {o1, o2}
  None = None
  MaxStarts = 3
INVARIANTS UniquePaths CalmSources ExplorerFaithful
PROPERTIES UploadAttaches WorkEnds
CHECK_DEADLOCK FALSE
