SPECIFICATION ReaderSpec
CONSTANTS
  Clients = {c1, c2}
  SnippetIds = {s1}
  FolderIds = {f1}
  Triggers = {t1}
  Bodies = {b1, b2}
  LongBodies = {}
  Plans <- OnlyPro
  InitPlan <- Pro
  FreeSnippets = 1
  FreeFolders = 1
  BatchLimit = 1
  Retention = 1
  VersionBound = 2
  TimeBound = 0
  None = None
  Reader = c1
  PageLimit = 1
INVARIANTS ReplicaConverges
PROPERTIES NothingSkipped
CHECK_DEADLOCK FALSE
