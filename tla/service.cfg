SPECIFICATION FairSpec
CONSTANTS
  Users = {u1}
  Files = {f1}
  Workers = {w1, w2}
  Consumer = Consumer
  Inodes <- Disk
  None = None
  Faults <- AllFaults
  Doors = {"mono", "micro"}
  StoreTypes <- AllStores
  MaxUploads = 2
INVARIANTS
  TypeOK
  AddressHasObject
  DamagedOnlyByOthers
PROPERTIES
  ServedIsWhole
  AddressNeverGoesBack
  UserRowKept
  LedgerSpec
  LocalForGoodOnlyIfLost
CHECK_DEADLOCK FALSE
