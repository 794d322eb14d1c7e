SPECIFICATION Spec
CONSTANTS
  Users = {u1}
  Files = {f1}
  UploadIds = {s1}
  Workers = {w1, w2}
  None = None
  ChunkCount <- OneChunk
  Routes <- AllHandlers
  Damage <- AnyDamage
  RedisMayRefuse = TRUE
  DbMayFail = TRUE
  DefaultStatus = 1
  ChunkRootGuarded = TRUE
SYMMETRY Symmetry
INVARIANTS
  RecordedWasAssembled
  DamagedOnlyByRemerge
CHECK_DEADLOCK FALSE
