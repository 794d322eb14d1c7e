--------------------------------- MODULE Storage ---------------------------------
(***************************************************************************)
(* What the server (FileStore), the transfer process (Transfer) and the     *)
(* microservices share without a transaction: the two local directories,    *)
(* the object stores Ceph and OSS, and the two MySQL tables of files, with  *)
(* one operator per statement db/ (and its copy in service/dbproxy/orm)     *)
(* runs on them.                                                             *)
(*                                                                         *)
(* A file is named by the sha1 of its content, so every path and every row  *)
(* belongs to one content; what can differ is how much of it is there.  A   *)
(* path names an inode, and a process that has opened the file keeps its     *)
(* inode whatever becomes of the path.                                       *)
(***************************************************************************)
EXTENDS Naturals, Sequences, FiniteSets

CONSTANTS
  Users,     \* user names
  Files,     \* file hashes
  Workers,   \* slots for concurrent requests
  Consumer,  \* the transfer process
  Inodes,    \* inodes of the local disk, used again when nobody refers to them
  None,      \* no inode, user or file
  Faults     \* what may fail

ASSUME StorageAssumption ==
  /\ None \notin Users \cup Files \cup Inodes
  /\ Consumer \notin Workers
  /\ Inodes \subseteq Nat
  /\ Faults \subseteq {"disk", "store", "db", "rpc", "channel", "crash"}

VARIABLES
  path,     \* local directories: the inode of each file, by root
  body,     \* how much of its content an inode holds
  fd,       \* the inode each process has open
  object,   \* the objects of Ceph and OSS
  fileRow,  \* tbl_file: the address of each file, "none" without a row
  userRow   \* tbl_user_file: the row of each user and file

disk    == <<path, body, fd>>
tables  == <<fileRow, userRow>>
storage == <<disk, object, tables>>

--------------------------------------------------------------------------------
(* Data *)

\* TempLocalRootDir, MergeLocalRootDir, and the stores a row may point into.
Root   == {"tmp", "merge"}
Remote == {"ceph", "oss"}
Addr   == Root \cup Remote

\* Absent, shorter than it should be (also empty), whole.
Cell == {"none", "part", "good"}

Procs == Workers \cup {Consumer}

\* A user's row: its status, and whether its file name is the one it was
\* inserted with or one it was given since.
UserRow == [status : {"none", "live", "deleted"}, renamed : BOOLEAN]
NoRow   == [status |-> "none", renamed |-> FALSE]

\* GetFileMeta: select .. from tbl_file where file_sha1=? and status=1.  In db/
\* no row is an error, as any other failure of the statement.
HasFileMeta(f) == fileRow[f] # "none"

\* What is found at address a for file f.
CellAt(a, f) ==
  IF a \in Root
    THEN IF path[a][f] = None THEN "none" ELSE body[path[a][f]]
    ELSE object[a][f]

--------------------------------------------------------------------------------
(* The local disk *)

InUse(i) ==
  \/ \E r \in Root, f \in Files : path[r][f] = i
  \/ \E p \in Procs : fd[p] = i

\* os.Create: an existing file is truncated and keeps its inode.
Create(p, r, f) ==
  IF path[r][f] # None
    THEN /\ body' = [body EXCEPT ![path[r][f]] = "part"]
         /\ fd' = [fd EXCEPT ![p] = path[r][f]]
         /\ UNCHANGED path
    ELSE \E i \in Inodes :
         /\ ~InUse(i)
         /\ \A j \in Inodes : j < i => InUse(j)
         /\ path' = [path EXCEPT ![r][f] = i]
         /\ body' = [body EXCEPT ![i] = "part"]
         /\ fd' = [fd EXCEPT ![p] = i]

\* os.Remove of an address: "oss/.." and "/ceph.." are no files of this disk.
Remove(a, f) ==
  path' = IF a \in Root THEN [path EXCEPT ![a][f] = None] ELSE path

Close(p) == fd' = [fd EXCEPT ![p] = None]

--------------------------------------------------------------------------------
(* Statements on tbl_file and tbl_user_file *)

\* Variant: replace into.
InsertFileReplace(f, a) == fileRow' = [fileRow EXCEPT ![f] = a]

\* insert ignore into tbl_file(.., file_addr, status) with status CanUse.
InsertFile(f, a) ==
  fileRow' = IF fileRow[f] = "none" THEN [fileRow EXCEPT ![f] = a] ELSE fileRow

\* update tbl_file set file_addr=? where file_sha1=?: no row, no effect.
UpdateFileLocation(f, a) ==
  fileRow' = IF fileRow[f] = "none" THEN fileRow ELSE [fileRow EXCEPT ![f] = a]

\* Variant: replace into.
InsertUserFileReplace(n, f) ==
  userRow' = [userRow EXCEPT ![<<n, f>>] = [status |-> "live", renamed |-> FALSE]]

\* insert ignore into tbl_user_file: a deleted row counts as one that exists.
InsertUserFile(n, f) ==
  userRow' = IF userRow[<<n, f>>] = NoRow
               THEN [userRow EXCEPT ![<<n, f>>] = [status |-> "live", renamed |-> FALSE]]
               ELSE userRow

\* update tbl_user_file set status=2 where user_name=? and file_sha1=?
DeleteUserFile(n, f) ==
  userRow' = IF userRow[<<n, f>>] = NoRow
               THEN userRow
               ELSE [userRow EXCEPT ![<<n, f>>] = [status |-> "deleted", renamed |-> @.renamed]]

\* update tbl_user_file set file_name=? where user_name=? and file_sha1=?
RenameFileName(n, f) ==
  userRow' = IF userRow[<<n, f>>] = NoRow
               THEN userRow
               ELSE [userRow EXCEPT ![<<n, f>>] = [status |-> @.status, renamed |-> TRUE]]

--------------------------------------------------------------------------------

StorageInit ==
  /\ path = [r \in Root |-> [f \in Files |-> None]]
  /\ body = [i \in Inodes |-> "part"]
  /\ fd = [p \in Procs |-> None]
  /\ object = [s \in Remote |-> [f \in Files |-> "none"]]
  /\ fileRow = [f \in Files |-> "none"]
  /\ userRow = [nf \in Users \X Files |-> NoRow]

StorageTypeOK ==
  /\ path \in [Root -> [Files -> Inodes \cup {None}]]
  /\ body \in [Inodes -> Cell \ {"none"}]
  /\ fd \in [Procs -> Inodes \cup {None}]
  /\ object \in [Remote -> [Files -> Cell]]
  /\ fileRow \in [Files -> Addr \cup {"none"}]
  /\ userRow \in [Users \X Files -> UserRow]

================================================================================
