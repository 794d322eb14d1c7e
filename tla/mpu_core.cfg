SPECIFICATION Spec
CONSTANTS
  Users = {u1}
  Files = {f1}
  UploadIds = {s1}
  Workers = {w1, w2}
  None = None
  ChunkCount <- TwoChunks
  Routes <- RoutedHandlers
  Damage <- Garbled
  RedisMayRefuse = FALSE
  DbMayFail = FALSE
  DefaultStatus = 1
  ChunkRootGuarded = FALSE
SYMMETRY Symmetry
INVARIANTS
  TypeOK
  RecordedWasAssembled
  OwnedIsRecorded
  AckedIsOwned
  FlaggedChunkOnDisk
  DamagedOnlyByRemerge
CHECK_DEADLOCK FALSE
