SPECIFICATION FairReaderSpec
CONSTANTS
  Clients = {c1, c2}
  SnippetIds = {s1}
  FolderIds = {}
  Triggers = {t1}
  Bodies = {b1}
  LongBodies = {}
  Plans <- LapsedOrPro
  InitPlan <- Pro
  FreeSnippets = 1
  FreeFolders = 1
  BatchLimit = 2
  Retention = 1
  VersionBound = 1
  TimeBound = 0
  None = None
  Reader = c1
  PageLimit = 1
PROPERTIES CatchesUp EveryRequestEnds
CHECK_DEADLOCK FALSE
