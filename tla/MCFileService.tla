------------------------------ MODULE MCFileService ------------------------------
(* Small instances of FileService for TLC. *)
EXTENDS FileService, TLC

\* An upload creates one inode at most, and there are two.
Disk == 0..1

AllFaults == {"disk", "store", "db", "rpc", "channel", "crash"}
AllStores == {"local", "ceph", "oss", "oss_async"}

Symmetry == Permutations(Workers)

================================================================================
