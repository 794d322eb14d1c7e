SPECIFICATION SvcSpec
CONSTANTS
  Users = {u1}
  Files = {f1}
  UploadIds = {s1}
  Workers = {w1, w2}
  None = None
  ChunkCount <- TwoChunks
  Routes <- SvcRoutes
  Damage = {}
  RedisMayRefuse = FALSE
  DbMayFail = FALSE
  DefaultStatus = 1
  ChunkRootGuarded = FALSE
  RpcMayFail = TRUE
SYMMETRY Symmetry
INVARIANTS
  SvcTypeOK
  StoredBeforeTold
  DamagedOnlyByOverlap
  SentOnce
CHECK_DEADLOCK FALSE
