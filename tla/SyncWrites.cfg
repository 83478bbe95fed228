SPECIFICATION WriteSpec
CONSTANTS
  Clients = {c1, c2}
  SnippetIds = {s1, s2, s3}
  FolderIds = {f1}
  Triggers = {t1, t2, t3}
  Bodies = {b1, b2}
  LongBodies = {b2}
  Plans <- OnlyFree
  InitPlan <- Free
  FreeSnippets = 1
  FreeFolders = 1
  BatchLimit = 2
  Retention = 1
  VersionBound = 2
  TimeBound = 0
  None = None
SYMMETRY Symmetry
INVARIANTS TypeOK TriggersUnique VersionsGapFree RowsMatchDeltas FreeLimitOverrun
PROPERTIES CommitsAtomically
CHECK_DEADLOCK FALSE
