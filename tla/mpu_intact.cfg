SPECIFICATION Spec
CONSTANTS
  Users = {u1}
  Files = {f1}
  UploadIds = {s1}
  Workers = {w1, w2}
  None = None
  ChunkCount <- TwoChunks
  Routes <- RoutedHandlers
  Damage <- CutShort
  RedisMayRefuse = FALSE
  DbMayFail = FALSE
  DefaultStatus = 1
  ChunkRootGuarded = FALSE
INVARIANT
  RecordedFileIsIntact
CHECK_DEADLOCK FALSE
