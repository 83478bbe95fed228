SPECIFICATION Spec
CONSTANTS
  Clients = {c1, c2}
  SnippetIds = {s1}
  FolderIds = {f1}
  Triggers = {t1}
  Bodies = {b1}
  LongBodies = {}
  Plans <- OnlyPro
  InitPlan <- Pro
  FreeSnippets = 1
  FreeFolders = 1
  BatchLimit = 1
  Retention = 1
  VersionBound = 2
  TimeBound = 2
  None = None
SYMMETRY Symmetry
INVARIANTS LinksHaveRows
PROPERTIES NewVersionsOnTop
CHECK_DEADLOCK FALSE
