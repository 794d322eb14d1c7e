SPECIFICATION Spec
CONSTANTS
  Users = {u1}
  Files = {f1}
  UploadIds = {s1}
  Workers = {w1, w2}
  None = None
  ChunkCount <- OneChunk
  Routes <- RoutedHandlers
  Damage <- CutShort
  RedisMayRefuse = FALSE
  DbMayFail = FALSE
  DefaultStatus = 1
  ChunkRootGuarded = FALSE
PROPERTY
  ChunksRemovedAtReply
CHECK_DEADLOCK FALSE
