SPECIFICATION Spec
CONSTANTS
  Users = {u1}
  Files = {f1}
  UploadIds = {s1, s2}
  Workers = {w1, w2}
  None = None
  ChunkCount <- OneChunk
  Routes <- AllHandlers
  Damage = {}
  RedisMayRefuse = TRUE
  DbMayFail = FALSE
  DefaultStatus = 0
  ChunkRootGuarded = FALSE
SYMMETRY Symmetry
INVARIANT
  DamagedOnlyByRemerge
PROPERTY
  LedgerSpec
CHECK_DEADLOCK FALSE
