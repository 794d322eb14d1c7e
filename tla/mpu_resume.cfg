SPECIFICATION ClientSpec
CONSTANTS
  Users = {u1}
  Files = {f1}
  UploadIds = {s1, s2, s3}
  Workers = {w1, w2}
  None = None
  ChunkCount <- ThreeChunks
  Routes <- RoutedHandlers
  Damage = {}
  RedisMayRefuse = FALSE
  DbMayFail = FALSE
  DefaultStatus = 1
  ChunkRootGuarded = FALSE
  Uploader = u1
  Upload = f1
  Quota = 2
  MaxCrashes = 2
INVARIANTS
  ClientTypeOK
  FinishedMeansStored
  FlaggedChunkIsWhole
  ResumedMergeIsWhole
PROPERTIES
  ResumeFinishes
  ProgressKept
CHECK_DEADLOCK FALSE
