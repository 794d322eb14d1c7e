SPECIFICATION FairSpec
CONSTANTS
  Users = {u1}
  Files = {f1}
  Workers = {w1}
  Consumer = Consumer
  Inodes <- Disk
  None = None
  Faults = {}
  Doors = {"mono"}
  StoreTypes = {"oss_async"}
  MaxUploads = 1
PROPERTY
  TransferReachesOSS
CHECK_DEADLOCK FALSE
