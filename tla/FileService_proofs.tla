--------------------------- MODULE FileService_proofs ---------------------------
(***************************************************************************)
(* Type correctness of FileService, for any number of users, files, workers, *)
(* inodes and uploads.  A step of the server belongs to one worker, which     *)
(* changes its own request and descriptor only; a step of the transfer        *)
(* process changes its job and its own descriptor.                            *)
(***************************************************************************)
EXTENDS FileService, TLAPS

\* The types of what the server and its uploads leave behind.
GhostTypeOK ==
  /\ created \in [Files -> 0..MaxUploads]
  /\ assembled \subseteq Files
  /\ acked \subseteq Users \X Files
  /\ deleted \subseteq Files
  /\ unrecorded \subseteq Files

--------------------------------------------------------------------------------
(* Statements and system calls *)

LEMMA InsertFileType ==
  ASSUME StorageTypeOK, NEW f \in Files, NEW a \in Addr, InsertFile(f, a)
  PROVE  fileRow' \in [Files -> Addr \cup {"none"}]
BY DEF InsertFile, StorageTypeOK

LEMMA InsertUserFileType ==
  ASSUME StorageTypeOK, NEW n \in Users, NEW f \in Files, InsertUserFile(n, f)
  PROVE  userRow' \in [Users \X Files -> UserRow]
BY DEF InsertUserFile, StorageTypeOK, UserRow, NoRow

LEMMA MarkType ==
  ASSUME StorageTypeOK, NEW n \in Users, NEW f \in Files,
         DeleteUserFile(n, f) \/ RenameFileName(n, f)
  PROVE  userRow' \in [Users \X Files -> UserRow]
<1>1. <<n, f>> \in Users \X Files /\ userRow[<<n, f>>] \in UserRow
  BY DEF StorageTypeOK
<1>2. /\ [status |-> "deleted", renamed |-> userRow[<<n, f>>].renamed] \in UserRow
      /\ [status |-> userRow[<<n, f>>].status, renamed |-> TRUE] \in UserRow
  BY <1>1 DEF UserRow
<1>3. CASE DeleteUserFile(n, f)
  BY <1>1, <1>2, <1>3 DEF DeleteUserFile, StorageTypeOK
<1>4. CASE RenameFileName(n, f)
  BY <1>1, <1>2, <1>4 DEF RenameFileName, StorageTypeOK
<1> QED
  BY <1>3, <1>4

LEMMA PutType ==
  ASSUME object \in [Remote -> [Files -> Cell]], NEW s \in Remote, NEW f \in Files,
         NEW c \in Cell, object' = [object EXCEPT ![s][f] = c]
  PROVE  object' \in [Remote -> [Files -> Cell]]
<1>1. [object[s] EXCEPT ![f] = c] \in [Files -> Cell]
  OBVIOUS
<1> QED
  BY <1>1

\* os.Create leaves the caller with the inode of the path, and nobody else
\* with another one.
LEMMA CreateType ==
  ASSUME StorageTypeOK, NEW p \in Procs, NEW r \in Root, NEW f \in Files,
         Create(p, r, f)
  PROVE  /\ path' \in [Root -> [Files -> Inodes \cup {None}]]
         /\ body' \in [Inodes -> Cell \ {"none"}]
         /\ fd' \in [Procs -> Inodes \cup {None}]
         /\ fd'[p] \in Inodes
         /\ \A q \in Procs \ {p} : fd'[q] = fd[q]
<1>1. CASE path[r][f] # None
  <2>1. path[r][f] \in Inodes
    BY <1>1 DEF StorageTypeOK
  <2> QED
    BY <1>1, <2>1 DEF Create, StorageTypeOK, Cell
<1>2. CASE path[r][f] = None
  <2>1. PICK i \in Inodes :
          /\ path' = [path EXCEPT ![r][f] = i]
          /\ body' = [body EXCEPT ![i] = "part"]
          /\ fd' = [fd EXCEPT ![p] = i]
    BY <1>2 DEF Create
  <2>2. path' \in [Root -> [Files -> Inodes \cup {None}]]
    BY <2>1 DEF StorageTypeOK
  <2> QED
    BY <2>1, <2>2 DEF StorageTypeOK, Cell
<1> QED
  BY <1>1, <1>2

LEMMA RemoveType ==
  ASSUME StorageTypeOK, NEW a \in Addr, NEW f \in Files, Remove(a, f)
  PROVE  path' \in [Root -> [Files -> Inodes \cup {None}]]
BY DEF Remove, StorageTypeOK

LEMMA CloseType ==
  ASSUME StorageTypeOK, NEW p \in Procs, Close(p)
  PROVE  /\ fd' \in [Procs -> Inodes \cup {None}]
         /\ \A q \in Procs \ {p} : fd'[q] = fd[q]
BY DEF Close, StorageTypeOK

LEMMA PublishType ==
  ASSUME MqTypeOK, NEW m \in Message, Publish(m)
  PROVE  MqTypeOK'
<1>1. m.file \in Files
  BY DEF Message
<1> QED
  BY <1>1 DEF MqTypeOK, Publish, PublishSent, PublishLost, PublishRefused

--------------------------------------------------------------------------------
(* A step of one worker *)

\* The request of worker w alone becomes r, which holds what its next step
\* needs, and no other process has another descriptor.
LEMMA WorkerMoves ==
  ASSUME TypeOK, NEW w \in Workers, NEW r \in Request,
         req' = [req EXCEPT ![w] = r], Holds(r, fd'[w]),
         \A p \in Procs \ {w} : fd'[p] = fd[p],
         StorageTypeOK', MqTypeOK', GhostTypeOK', UNCHANGED <<config, consumer>>
  PROVE  TypeOK'
<1>1. /\ Consumer \in Procs \ {w}
      /\ \A v \in Workers \ {w} : v \in Procs \ {w}
  BY StorageAssumption DEF Procs
<1>2. /\ req' \in [Workers -> Request]
      /\ \A v \in Workers : Holds(req[v], fd[v])'
  BY <1>1 DEF TypeOK, StoreTypeOK
<1>3. StoreTypeOK'
  BY <1>2 DEF TypeOK, StoreTypeOK, GhostTypeOK, config
<1>4. TransferTypeOK'
  BY <1>1 DEF TypeOK, TransferTypeOK, consumer
<1> QED
  BY <1>3, <1>4 DEF TypeOK

\* The same for a step that leaves the storage and the queue alone.
LEMMA WorkerThinks ==
  ASSUME TypeOK, NEW w \in Workers, NEW r \in Request,
         req' = [req EXCEPT ![w] = r], Holds(r, fd[w]),
         GhostTypeOK', UNCHANGED <<storage, mq, config, consumer>>
  PROVE  TypeOK'
<1>1. StorageTypeOK' /\ MqTypeOK' /\ fd' = fd
  BY DEF TypeOK, StorageTypeOK, MqTypeOK, storage, disk, tables, mq
<1> QED
  BY <1>1, WorkerMoves

--------------------------------------------------------------------------------
(* The steps of the server *)

LEMMA IdleType == Idle \in Request /\ \A i \in Inodes \cup {None} : Holds(Idle, i)
BY DEF Idle, Request, Holds, PCs, UploadPCs, DeletePCs, ServePCs

\* What is known of the request of worker w and its descriptor.
LEMMA RequestType ==
  ASSUME TypeOK, NEW w \in Workers
  PROVE  /\ req[w] \in Request
         /\ Holds(req[w], fd[w])
         /\ \A pc \in PCs : [req[w] EXCEPT !.pc = pc] \in Request
         /\ w \in Procs
         /\ fd[w] \in Inodes \cup {None}
<1>1. req[w] \in Request /\ Holds(req[w], fd[w])
  BY DEF TypeOK, StoreTypeOK
<1>2. w \in Procs /\ fd[w] \in Inodes \cup {None}
  BY DEF Procs, TypeOK, StorageTypeOK
<1>3. \A pc \in PCs : [req[w] EXCEPT !.pc = pc] \in Request
  BY <1>1 DEF Request
<1> QED
  BY <1>1, <1>2, <1>3

LEMMA StartUploadType ==
  ASSUME TypeOK, NEW w \in Workers, NEW n \in Users, NEW f \in Files,
         StartUpload(w, n, f), UNCHANGED consumer
  PROVE  TypeOK'
<1>1. LocalRoot \in Root
  BY DEF LocalRoot, Root
<1> DEFINE r == [pc |-> "u_write", user |-> n, file |-> f, addr |-> LocalRoot]
<1>2. r \in Request
  BY <1>1 DEF Request, PCs, UploadPCs, Addr
<1>3. /\ path' \in [Root -> [Files -> Inodes \cup {None}]]
      /\ body' \in [Inodes -> Cell \ {"none"}]
      /\ fd' \in [Procs -> Inodes \cup {None}]
      /\ fd'[w] \in Inodes
      /\ \A q \in Procs \ {w} : fd'[q] = fd[q]
  BY <1>1, CreateType, RequestType DEF TypeOK, StartUpload
<1>4. Holds(r, fd'[w])
  BY <1>1, <1>3 DEF Holds, UploadPCs, DeletePCs, ServePCs
<1>5. StorageTypeOK' /\ MqTypeOK'
  BY <1>3 DEF StartUpload, TypeOK, StorageTypeOK, MqTypeOK, tables, mq
<1>6. GhostTypeOK'
  BY StoreAssumption DEF StartUpload, TypeOK, StoreTypeOK, GhostTypeOK
<1>7. req' = [req EXCEPT ![w] = r] /\ UNCHANGED config
  BY DEF StartUpload
<1> QED
  BY <1>2, <1>3, <1>4, <1>5, <1>6, <1>7, WorkerMoves

\* A request that only begins, or is answered, with nothing else changed.
LEMMA ThinkType ==
  ASSUME TypeOK, NEW w \in Workers, NEW r \in Request,
         req' = [req EXCEPT ![w] = r], Holds(r, fd[w]),
         UNCHANGED <<storage, mq, config, ghosts, consumer>>
  PROVE  TypeOK'
<1>1. GhostTypeOK'
  BY DEF TypeOK, StoreTypeOK, GhostTypeOK, ghosts
<1> QED
  BY <1>1, WorkerThinks

LEMMA StartFastType ==
  ASSUME TypeOK, NEW w \in Workers, NEW n \in Users, NEW f \in Files,
         StartFast(w, n, f) \/ SvcStartFast(w, n, f), UNCHANGED consumer
  PROVE  TypeOK'
<1> DEFINE r == [Idle EXCEPT !.pc = "u_user", !.user = n, !.file = f]
<1>1. r \in Request /\ Holds(r, fd[w])
  BY DEF Idle, Request, Holds, PCs, UploadPCs, DeletePCs, ServePCs
<1> QED
  BY <1>1, ThinkType DEF StartFast, SvcStartFast, StartFastAs

LEMMA StartDeleteType ==
  ASSUME TypeOK, NEW w \in Workers, NEW n \in Users, NEW f \in Files,
         StartDelete(w, n, f), UNCHANGED consumer
  PROVE  TypeOK'
<1> DEFINE r == [Idle EXCEPT !.pc = "x_remove", !.user = n, !.file = f,
                             !.addr = fileRow[f]]
<1>1. fileRow[f] \in Addr
  BY DEF StartDelete, HasFileMeta, TypeOK, StorageTypeOK
<1>2. r \in Request /\ Holds(r, fd[w])
  BY <1>1 DEF Idle, Request, Holds, PCs, UploadPCs, DeletePCs, ServePCs
<1> QED
  BY <1>2, ThinkType DEF StartDelete

LEMMA StartServeType ==
  ASSUME TypeOK, NEW w \in Workers, NEW f \in Files, UNCHANGED consumer,
         \/ StartLink(w, f) \/ StartDownload(w, f) \/ StartDownloadURL(w, f)
         \/ StartRange(w, f)
  PROVE  TypeOK'
<1>1. ASSUME NEW pc \in ServePCs, NEW a \in Addr, StartServe(w, pc, f, a),
             UNCHANGED <<storage, mq, config, ghosts>>
      PROVE  TypeOK'
  <2> DEFINE r == [Idle EXCEPT !.pc = pc, !.file = f, !.addr = a]
  <2>1. r \in Request /\ Holds(r, fd[w])
    BY DEF Idle, Request, Holds, PCs, UploadPCs, DeletePCs, ServePCs
  <2> QED
    BY <1>1, <2>1, ThinkType DEF StartServe
<1>2. /\ {"d_serve", "d_range"} \subseteq ServePCs
      /\ {"oss", "merge"} \subseteq Addr
      /\ {"merge"} \cup Remote \subseteq Addr
  BY DEF ServePCs, Addr, Root, Remote
<1>3. CASE StartLink(w, f)
  BY <1>1, <1>2, <1>3 DEF StartLink
<1>4. CASE StartDownload(w, f)
  BY <1>1, <1>2, <1>4 DEF StartDownload
<1>5. CASE StartDownloadURL(w, f)
  BY <1>1, <1>2, <1>5 DEF StartDownloadURL
<1>6. CASE StartRange(w, f)
  BY <1>1, <1>2, <1>6 DEF StartRange
<1> QED
  BY <1>3, <1>4, <1>5, <1>6

LEMMA StartType ==
  ASSUME TypeOK, NEW w \in Workers, Start(w), UNCHANGED consumer
  PROVE  TypeOK'
BY StartUploadType, StartFastType, StartDeleteType, StartServeType DEF Start

--------------------------------------------------------------------------------
(* The steps of a handler *)

\* Going on at step pc, with what that step needs.
LEMMA GotoIs ==
  ASSUME TypeOK, NEW w \in Workers, NEW pc \in PCs, Goto(w, pc)
  PROVE  req' = [req EXCEPT ![w] = [req[w] EXCEPT !.pc = pc]]
BY RequestType DEF Goto, TypeOK, StoreTypeOK

LEMMA UploadWriteType ==
  ASSUME TypeOK, NEW w \in Workers, UploadWrite(w), UNCHANGED consumer
  PROVE  TypeOK'
<1>1. /\ req[w] \in Request /\ req[w].pc = "u_write" /\ fd[w] \in Inodes
      /\ req[w].file \in Files /\ req[w].user \in Users /\ req[w].addr \in Root
      /\ w \in Procs
  BY RequestType DEF UploadWrite, Holds, UploadPCs
<1>2. body' \in [Inodes -> Cell \ {"none"}]
  BY <1>1 DEF UploadWrite, TypeOK, StorageTypeOK, Cell
<1>3. GhostTypeOK' /\ MqTypeOK' /\ UNCHANGED config
  BY <1>1 DEF UploadWrite, GhostTypeOK, TypeOK, StoreTypeOK, MqTypeOK, mq
<1>4. CASE Goto(w, "u_store") /\ UNCHANGED fd
  <2> DEFINE r == [req[w] EXCEPT !.pc = "u_store"]
  <2>1. r \in Request
    BY RequestType DEF PCs, UploadPCs
  <2>2. Holds(r, fd'[w])
    BY <1>1, <1>4 DEF Request, Holds, UploadPCs, DeletePCs, ServePCs
  <2>3. StorageTypeOK'
    BY <1>2, <1>4 DEF UploadWrite, TypeOK, StorageTypeOK, tables
  <2>4. req' = [req EXCEPT ![w] = r]
    BY <1>4, GotoIs DEF PCs, UploadPCs
  <2> QED
    BY <1>3, <1>4, <2>1, <2>2, <2>3, <2>4, WorkerMoves
<1>5. CASE Close(w) /\ Answer(w)
  <2>1. StorageTypeOK' /\ \A q \in Procs \ {w} : fd'[q] = fd[q]
    BY <1>1, <1>2, <1>5, CloseType DEF UploadWrite, TypeOK, StorageTypeOK, tables
  <2>2. Holds(Idle, fd'[w])
    BY <1>1, <2>1, IdleType DEF StorageTypeOK
  <2> QED
    BY <1>3, <1>5, <2>1, <2>2, IdleType, WorkerMoves DEF Answer
<1> QED
  BY <1>4, <1>5 DEF UploadWrite

\* Where the file goes: the request closes its descriptor and holds an address
\* of the file, or is answered.
LEMMA UploadStoredType ==
  ASSUME TypeOK, NEW w \in Workers, UNCHANGED consumer,
         UploadLocal(w) \/ UploadCeph(w) \/ UploadOss(w) \/ UploadPublish(w)
  PROVE  TypeOK'
<1>1. /\ req[w] \in Request /\ req[w].pc = "u_store" /\ fd[w] \in Inodes
      /\ req[w].file \in Files /\ req[w].user \in Users /\ req[w].addr \in Root
      /\ w \in Procs
  BY RequestType DEF UploadLocal, UploadCeph, UploadOss, UploadPublish, Holds, UploadPCs
<1>2. Close(w) /\ UNCHANGED <<path, body, tables, config, ghosts>>
  BY DEF UploadLocal, UploadCeph, UploadOss, UploadPublish
<1>3. GhostTypeOK'
  BY <1>2 DEF GhostTypeOK, TypeOK, StoreTypeOK, ghosts
<1>4. /\ fd' \in [Procs -> Inodes \cup {None}]
      /\ \A q \in Procs \ {w} : fd'[q] = fd[q]
  BY <1>1, <1>2, CloseType DEF TypeOK
<1>5. body[fd[w]] \in Cell
  BY <1>1 DEF TypeOK, StorageTypeOK
<1>6. object' \in [Remote -> [Files -> Cell]]
  <2>1. {"ceph", "oss"} \subseteq Remote /\ object \in [Remote -> [Files -> Cell]]
    BY DEF TypeOK, StorageTypeOK, Remote
  <2>2. \/ UNCHANGED object
        \/ \E s \in {"ceph", "oss"} :
             object' = [object EXCEPT ![s][req[w].file] = body[fd[w]]]
    BY DEF UploadLocal, UploadCeph, UploadOss, UploadPublish
  <2> QED
    BY <1>1, <1>5, <2>1, <2>2, PutType
<1>7. StorageTypeOK'
  BY <1>2, <1>4, <1>6 DEF TypeOK, StorageTypeOK, tables
<1>8. MqTypeOK'
  <2>1. CASE UNCHANGED mq
    BY <2>1 DEF TypeOK, MqTypeOK, mq
  <2>2. CASE UploadPublish(w)
    <3>1. [file |-> req[w].file, root |-> req[w].addr] \in Message
      BY <1>1 DEF Message
    <3> QED
      BY <2>2, <3>1, PublishType DEF UploadPublish, TypeOK
  <2>3. CASE UploadCeph(w)
    BY <1>1, <2>3 DEF UploadCeph, TypeOK, MqTypeOK
  <2> QED
    BY <2>1, <2>2, <2>3 DEF UploadLocal, UploadOss
<1>9. CASE Answer(w)
  <2>1. Holds(Idle, fd'[w])
    BY <1>1, <1>4, IdleType
  <2> QED
    BY <1>2, <1>3, <1>4, <1>7, <1>8, <1>9, <2>1, IdleType, WorkerMoves DEF Answer
<1>10. ASSUME NEW a \in Addr,
              req' = [req EXCEPT ![w] = [req[w] EXCEPT !.pc = "u_file", !.addr = a]]
       PROVE  TypeOK'
  <2> DEFINE r == [req[w] EXCEPT !.pc = "u_file", !.addr = a]
  <2>1. r \in Request /\ Holds(r, fd'[w])
    BY <1>1 DEF Request, Holds, PCs, UploadPCs, DeletePCs, ServePCs
  <2> QED
    BY <1>2, <1>3, <1>4, <1>7, <1>8, <1>10, <2>1, WorkerMoves
<1>11. CASE Goto(w, "u_file")
  <2>1. req[w].addr \in Addr
    BY <1>1 DEF Addr
  <2>2. req' = [req EXCEPT ![w] =
                  [req[w] EXCEPT !.pc = "u_file", !.addr = req[w].addr]]
    BY <1>1, <1>11 DEF Goto, TypeOK, StoreTypeOK, Request
  <2> QED
    BY <1>10, <2>1, <2>2
<1>12. CASE GotoStored(w, "ceph") \/ GotoStored(w, "oss")
  BY <1>10, <1>12 DEF GotoStored, Addr, Remote
<1> QED
  BY <1>9, <1>11, <1>12 DEF UploadLocal, UploadCeph, UploadOss, UploadPublish

\* The inserts, and the marks of a delete: only a row changes.
LEMMA RowsType ==
  ASSUME TypeOK, NEW w \in Workers, NEW r \in Request,
         req' = [req EXCEPT ![w] = r], Holds(r, fd[w]),
         fileRow' \in [Files -> Addr \cup {"none"}],
         userRow' \in [Users \X Files -> UserRow],
         unrecorded' \subseteq Files,
         UNCHANGED <<disk, object, mq, config, created, assembled, acked, deleted,
                     consumer>>
  PROVE  TypeOK'
<1>1. StorageTypeOK' /\ MqTypeOK' /\ GhostTypeOK' /\ fd' = fd
  BY DEF TypeOK, StorageTypeOK, MqTypeOK, StoreTypeOK, GhostTypeOK, disk, mq
<1> QED
  BY <1>1, WorkerMoves

LEMMA UploadFileType ==
  ASSUME TypeOK, NEW w \in Workers, UploadFile(w) \/ SvcUploadFile(w),
         UNCHANGED consumer
  PROVE  TypeOK'
<1>1. /\ req[w] \in Request /\ req[w].pc = "u_file" /\ req[w].user \in Users
      /\ req[w].file \in Files /\ req[w].addr \in Addr
  BY RequestType DEF UploadFile, SvcUploadFile, Holds, UploadPCs
<1>2. fileRow' \in [Files -> Addr \cup {"none"}]
  <2>1. \/ InsertFile(req[w].file, req[w].addr)
        \/ UNCHANGED fileRow
    BY DEF UploadFile, SvcUploadFile, OrmOnFileUploadFinished
  <2> QED
    BY <1>1, <2>1, InsertFileType DEF TypeOK, StorageTypeOK
<1>3. /\ userRow' \in [Users \X Files -> UserRow]
      /\ unrecorded' \subseteq Files
      /\ UNCHANGED <<disk, object, mq, config, created, assembled, acked, deleted>>
  BY <1>1 DEF UploadFile, SvcUploadFile, TypeOK, StorageTypeOK, StoreTypeOK
<1>4. CASE Answer(w)
  BY <1>2, <1>3, <1>4, IdleType, RequestType, RowsType DEF Answer
<1>5. CASE Goto(w, "u_user")
  <2> DEFINE r == [req[w] EXCEPT !.pc = "u_user"]
  <2>1. r \in Request /\ Holds(r, fd[w])
    BY <1>1 DEF Request, Holds, PCs, UploadPCs, DeletePCs, ServePCs
  <2>2. req' = [req EXCEPT ![w] = r]
    BY <1>5, GotoIs DEF PCs, UploadPCs
  <2> QED
    BY <1>2, <1>3, <2>1, <2>2, RowsType
<1> QED
  BY <1>4, <1>5 DEF UploadFile, SvcUploadFile

LEMMA UploadUserType ==
  ASSUME TypeOK, NEW w \in Workers, UploadUser(w) \/ SvcUploadUser(w),
         UNCHANGED consumer
  PROVE  TypeOK'
<1>1. /\ req[w] \in Request /\ req[w].pc = "u_user" /\ req[w].user \in Users
      /\ req[w].file \in Files
  BY RequestType DEF UploadUser, SvcUploadUser, Holds, UploadPCs
<1>2. userRow' \in [Users \X Files -> UserRow]
  <2>1. \/ InsertUserFile(req[w].user, req[w].file)
        \/ UNCHANGED userRow
    BY DEF UploadUser, SvcUploadUser, OrmOnUserFileUploadFinished
  <2> QED
    BY <1>1, <2>1, InsertUserFileType DEF TypeOK, StorageTypeOK
<1>3. /\ fileRow' \in [Files -> Addr \cup {"none"}]
      /\ unrecorded' \subseteq Files
      /\ UNCHANGED <<disk, object, mq, config, created, assembled, acked, deleted>>
  BY DEF UploadUser, SvcUploadUser, TypeOK, StorageTypeOK, StoreTypeOK, ghosts
<1>4. CASE Answer(w)
  BY <1>2, <1>3, <1>4, IdleType, RequestType, RowsType DEF Answer
<1>5. CASE Goto(w, "u_reply")
  <2> DEFINE r == [req[w] EXCEPT !.pc = "u_reply"]
  <2>1. r \in Request /\ Holds(r, fd[w])
    BY <1>1 DEF Request, Holds, PCs, UploadPCs, DeletePCs, ServePCs
  <2>2. req' = [req EXCEPT ![w] = r]
    BY <1>5, GotoIs DEF PCs, UploadPCs
  <2> QED
    BY <1>2, <1>3, <2>1, <2>2, RowsType
<1> QED
  BY <1>4, <1>5 DEF UploadUser, SvcUploadUser

LEMMA UploadReplyType ==
  ASSUME TypeOK, NEW w \in Workers, UploadReply(w), UNCHANGED consumer
  PROVE  TypeOK'
<1>1. req[w].user \in Users /\ req[w].file \in Files
  BY RequestType DEF UploadReply, Holds, UploadPCs
<1>2. GhostTypeOK'
  BY <1>1 DEF UploadReply, GhostTypeOK, TypeOK, StoreTypeOK
<1> QED
  BY <1>2, IdleType, RequestType, WorkerThinks DEF UploadReply, Answer

LEMMA DeleteType ==
  ASSUME TypeOK, NEW w \in Workers, DeleteRemove(w) \/ DeleteMark(w),
         UNCHANGED consumer
  PROVE  TypeOK'
<1>1. /\ req[w] \in Request /\ req[w].user \in Users /\ req[w].file \in Files
      /\ req[w].addr \in Addr /\ req[w].pc \in DeletePCs
  BY RequestType DEF DeleteRemove, DeleteMark, Holds, DeletePCs
<1>2. CASE DeleteRemove(w)
  <2> DEFINE r == [req[w] EXCEPT !.pc = "x_mark"]
  <2>1. r \in Request /\ Holds(r, fd[w])
    BY <1>1 DEF Request, Holds, PCs, UploadPCs, DeletePCs, ServePCs
  <2>2. req' = [req EXCEPT ![w] = r]
    BY <1>2, GotoIs DEF DeleteRemove, PCs, DeletePCs
  <2>3. path' \in [Root -> [Files -> Inodes \cup {None}]]
    BY <1>1, <1>2, RemoveType DEF DeleteRemove, TypeOK
  <2>4. StorageTypeOK' /\ MqTypeOK' /\ fd' = fd
    BY <1>2, <2>3 DEF DeleteRemove, TypeOK, StorageTypeOK, MqTypeOK, tables, mq
  <2>5. GhostTypeOK' /\ UNCHANGED config
    BY <1>1, <1>2 DEF DeleteRemove, GhostTypeOK, TypeOK, StoreTypeOK
  <2> QED
    BY <2>1, <2>2, <2>4, <2>5, WorkerMoves
<1>3. CASE DeleteMark(w)
  <2>1. userRow' \in [Users \X Files -> UserRow]
    <3>1. DeleteUserFile(req[w].user, req[w].file) \/ UNCHANGED userRow
      BY <1>3 DEF DeleteMark
    <3> QED
      BY <1>1, <3>1, MarkType DEF TypeOK, StorageTypeOK
  <2>2. /\ fileRow' \in [Files -> Addr \cup {"none"}]
        /\ unrecorded' \subseteq Files
        /\ UNCHANGED <<disk, object, mq, config, created, assembled, acked, deleted>>
    BY <1>3 DEF DeleteMark, TypeOK, StorageTypeOK, StoreTypeOK, ghosts
  <2> QED
    BY <1>3, <2>1, <2>2, IdleType, RequestType, RowsType DEF DeleteMark, Answer
<1> QED
  BY <1>2, <1>3

LEMMA DownloadServeType ==
  ASSUME TypeOK, NEW w \in Workers, DownloadServe(w), UNCHANGED consumer
  PROVE  TypeOK'
BY IdleType, RequestType, ThinkType DEF DownloadServe, Answer

LEMMA HandleType ==
  ASSUME TypeOK, NEW w \in Workers, Handle(w), UNCHANGED consumer
  PROVE  TypeOK'
BY UploadWriteType, UploadStoredType, UploadFileType, UploadUserType, UploadReplyType,
   DeleteType, DownloadServeType DEF Handle, DoUpload, SvcDoUpload, UploadStep

LEMMA ServerEnvType ==
  ASSUME TypeOK, ServerEnv, UNCHANGED consumer
  PROVE  TypeOK'
<1>1. ASSUME NEW n \in Users, NEW f \in Files, Rename(n, f)
      PROVE  TypeOK'
  <2>1. userRow' \in [Users \X Files -> UserRow]
    BY <1>1, MarkType DEF Rename, TypeOK
  <2> QED
    BY <1>1, <2>1 DEF Rename, TypeOK, StorageTypeOK, MqTypeOK, StoreTypeOK,
                      TransferTypeOK, disk, mq, server, config, ghosts, consumer
<1>2. CASE ServerCrash
  <2>1. /\ fd' \in [Procs -> Inodes \cup {None}]
        /\ fd'[Consumer] = fd[Consumer]
    BY <1>2, StorageAssumption DEF ServerCrash, TypeOK, StorageTypeOK, Procs
  <2>2. StorageTypeOK' /\ MqTypeOK'
    BY <1>2, <2>1 DEF ServerCrash, DialAtStart, TypeOK, StorageTypeOK, MqTypeOK, tables
  <2>3. StoreTypeOK'
    <3>1. req' \in [Workers -> Request] /\ \A w \in Workers : req'[w] = Idle
      BY <1>2, IdleType DEF ServerCrash
    <3>2. \A w \in Workers : Holds(req[w], fd[w])'
      BY <2>1, <3>1, IdleType DEF Procs
    <3> QED
      BY <1>2, <3>1, <3>2 DEF ServerCrash, TypeOK, StoreTypeOK, config, ghosts
  <2>4. TransferTypeOK'
    BY <2>1 DEF TypeOK, TransferTypeOK, consumer
  <2> QED
    BY <2>2, <2>3, <2>4 DEF TypeOK
<1>3. CASE ServerChannelCloses
  BY <1>3 DEF ServerChannelCloses, ChannelCloses, TypeOK, StorageTypeOK, MqTypeOK,
              StoreTypeOK, TransferTypeOK, storage, disk, tables, server, config,
              ghosts, consumer
<1> QED
  BY <1>1, <1>2, <1>3 DEF ServerEnv

--------------------------------------------------------------------------------
(* The steps of the transfer process *)

\* The transfer moves on: only its job, its descriptor, what it puts and the row
\* it updates change.
LEMMA JobMoves ==
  ASSUME TypeOK, NEW j \in Job, job' = j,
         j # NoJob => j.pc # "idle" /\ j.file \in Files /\ j.root \in Root,
         j.pc \in {"put", "update"} => fd'[Consumer] \in Inodes,
         \A p \in Procs \ {Consumer} : fd'[p] = fd[p],
         consuming' \in BOOLEAN, StorageTypeOK', MqTypeOK', UNCHANGED server
  PROVE  TypeOK'
<1>1. TransferTypeOK'
  BY DEF TypeOK, TransferTypeOK
<1>2. \A w \in Workers : w \in Procs \ {Consumer}
  BY StorageAssumption DEF Procs
<1>3. StoreTypeOK'
  BY <1>2 DEF TypeOK, StoreTypeOK, server, config, ghosts
<1> QED
  BY <1>1, <1>3 DEF TypeOK

LEMMA NoJobType == NoJob \in Job /\ NoJob.pc = "idle"
BY DEF NoJob, Job, JobPCs

\* A job that is at step pc of file and root.
LEMMA JobType ==
  ASSUME TypeOK, job # NoJob
  PROVE  /\ job \in Job
         /\ job.file \in Files /\ job.root \in Root
         /\ \A pc \in {"open", "put", "update"} :
              /\ [job EXCEPT !.pc = pc] \in Job
              /\ [job EXCEPT !.pc = pc].pc = pc
              /\ [job EXCEPT !.pc = pc].file = job.file
              /\ [job EXCEPT !.pc = pc].root = job.root
BY DEF TypeOK, TransferTypeOK, Job, JobPCs

\* A job that is over, its descriptor closed and some messages with it.
LEMMA JobOverType ==
  ASSUME TypeOK, JobDone, UNCHANGED <<path, body, server>>,
         object' \in [Remote -> [Files -> Cell]],
         fileRow' \in [Files -> Addr \cup {"none"}], UNCHANGED <<userRow, channel>>,
         queue' \in Seq(Message), lost' \subseteq Files, consuming' \in BOOLEAN
  PROVE  TypeOK'
<1>1. Consumer \in Procs
  BY DEF Procs
<1>2. /\ fd' \in [Procs -> Inodes \cup {None}]
      /\ \A q \in Procs \ {Consumer} : fd'[q] = fd[q]
  BY <1>1, CloseType DEF JobDone, TypeOK
<1>3. StorageTypeOK' /\ MqTypeOK'
  BY <1>2 DEF TypeOK, StorageTypeOK, MqTypeOK
<1> QED
  BY <1>2, <1>3, NoJobType, JobMoves DEF JobDone

LEMMA LoseBufferedType ==
  ASSUME MqTypeOK, NEW k \in 0..Len(queue), NEW others \in SUBSET Files,
         LoseBuffered(k, others)
  PROVE  queue' \in Seq(Message) /\ lost' \subseteq Files
<1>1. queue' \in Seq(Message)
  BY DEF MqTypeOK, LoseBuffered
<1>2. \A i \in 1..k : queue[i] \in Message
  BY DEF MqTypeOK
<1>3. \A i \in 1..k : queue[i].file \in Files
  BY <1>2 DEF Message
<1> QED
  BY <1>1, <1>3 DEF MqTypeOK, LoseBuffered

LEMMA TakeType ==
  ASSUME TypeOK, Take, UNCHANGED server
  PROVE  TypeOK'
<1>1. Head(queue) \in Message /\ queue' \in Seq(Message)
  BY DEF Take, TypeOK, MqTypeOK
<1> DEFINE j == [pc |-> "open", file |-> Head(queue).file, root |-> Head(queue).root]
<1>2. j \in Job /\ j.file \in Files /\ j.root \in Root
  BY <1>1 DEF Message, Job, JobPCs
<1>3. StorageTypeOK' /\ fd' = fd
  BY DEF Take, TypeOK, StorageTypeOK, storage, disk, tables
<1>4. MqTypeOK'
  BY <1>1 DEF Take, TypeOK, MqTypeOK
<1> QED
  BY <1>2, <1>3, <1>4, JobMoves DEF Take, TypeOK, TransferTypeOK

LEMMA TransferOpenType ==
  ASSUME TypeOK, TransferOpen, UNCHANGED server
  PROVE  TypeOK'
<1>1. job # NoJob
  BY NoJobType DEF TransferOpen
<1>2. job.file \in Files /\ job.root \in Root
  BY <1>1, JobType
<1> DEFINE i == path[job.root][job.file]
<1>3. i \in Inodes \cup {None}
  BY <1>2 DEF TypeOK, StorageTypeOK
<1>4. CASE i = None
  BY <1>2, <1>4, JobOverType DEF TransferOpen, JobLost, TypeOK, StorageTypeOK,
                                MqTypeOK, StoreTypeOK, TransferTypeOK, tables
<1>5. CASE i # None
  <2>1. fd' = [fd EXCEPT ![Consumer] = i] /\ JobGoto("put") /\ UNCHANGED lost
    BY <1>5 DEF TransferOpen
  <2>2. /\ fd' \in [Procs -> Inodes \cup {None}]
        /\ fd'[Consumer] \in Inodes
        /\ \A p \in Procs \ {Consumer} : fd'[p] = fd[p]
    BY <1>3, <1>5, <2>1 DEF TypeOK, StorageTypeOK, Procs
  <2>3. StorageTypeOK' /\ MqTypeOK'
    BY <2>1, <2>2 DEF TransferOpen, TypeOK, StorageTypeOK, MqTypeOK, tables
  <2>4. consuming' \in BOOLEAN
    BY DEF TransferOpen, TypeOK, TransferTypeOK
  <2> QED
    BY <1>1, <1>2, <2>1, <2>2, <2>3, <2>4, JobType, JobMoves DEF JobGoto
<1> QED
  BY <1>4, <1>5

LEMMA TransferPutType ==
  ASSUME TypeOK, TransferPut, UNCHANGED server
  PROVE  TypeOK'
<1>1. job # NoJob /\ job.pc = "put"
  BY NoJobType DEF TransferPut
<1>2. job.file \in Files /\ job.root \in Root
  BY <1>1, JobType
<1>3. body[fd[Consumer]] \in Cell
  BY <1>1 DEF TypeOK, TransferTypeOK, StorageTypeOK
<1>4. object' \in [Remote -> [Files -> Cell]]
  <2>1. "oss" \in Remote /\ object \in [Remote -> [Files -> Cell]]
    BY DEF TypeOK, StorageTypeOK, Remote
  <2>2. CASE object' = [object EXCEPT !["oss"][job.file] = body[fd[Consumer]]]
    BY <1>2, <1>3, <2>1, <2>2, PutType
  <2>3. CASE UNCHANGED object
    BY <2>1, <2>3
  <2> QED
    BY <2>2, <2>3 DEF TransferPut
<1>5. CASE JobLost
  BY <1>2, <1>4, <1>5, JobOverType DEF TransferPut, JobLost, TypeOK, StorageTypeOK,
                                MqTypeOK, StoreTypeOK, TransferTypeOK, tables
<1>6. CASE JobGoto("update") /\ UNCHANGED <<fd, lost>>
  <2>1. StorageTypeOK' /\ MqTypeOK' /\ fd'[Consumer] \in Inodes
    BY <1>1, <1>4, <1>6 DEF TransferPut, TypeOK, StorageTypeOK, MqTypeOK, tables,
                           TransferTypeOK
  <2>2. consuming' \in BOOLEAN
    BY DEF TransferPut, TypeOK, TransferTypeOK
  <2> QED
    BY <1>1, <1>2, <1>6, <2>1, <2>2, JobType, JobMoves DEF JobGoto
<1> QED
  BY <1>5, <1>6 DEF TransferPut

LEMMA TransferUpdateType ==
  ASSUME TypeOK, TransferUpdate, UNCHANGED server
  PROVE  TypeOK'
<1>1. job # NoJob
  BY NoJobType DEF TransferUpdate
<1>2. job.file \in Files /\ job.root \in Root
  BY <1>1, JobType
<1>3. fileRow' \in [Files -> Addr \cup {"none"}]
  BY <1>2 DEF TransferUpdate, UpdateFileLocation, TypeOK, StorageTypeOK, Addr, Remote
<1> QED
  BY <1>2, <1>3, JobOverType DEF TransferUpdate, JobLost, TypeOK, StorageTypeOK,
                                MqTypeOK, StoreTypeOK, TransferTypeOK

LEMMA ConsumeType ==
  ASSUME TypeOK, Consume, UNCHANGED server
  PROVE  TypeOK'
<1>1. CASE ConsumerCrash
  <2> DEFINE others == IF job = NoJob THEN {} ELSE {job.file}
  <2>1. PICK k \in 0..Len(queue) : LoseBuffered(k, others)
    BY <1>1 DEF ConsumerCrash
  <2>2. others \in SUBSET Files
    BY JobType
  <2>3. queue' \in Seq(Message) /\ lost' \subseteq Files
    BY <2>1, <2>2, LoseBufferedType DEF TypeOK
  <2> QED
    BY <1>1, <2>3, JobOverType DEF ConsumerCrash, JobDone, TypeOK, StorageTypeOK, tables
<1>2. CASE ConsumerHangs
  <2>1. PICK k \in 0..Len(queue) : LoseBuffered(k, {})
    BY <1>2 DEF ConsumerHangs
  <2>2. queue' \in Seq(Message) /\ lost' \subseteq Files
    BY <2>1, LoseBufferedType DEF TypeOK
  <2> QED
    BY <1>2, <2>2 DEF ConsumerHangs, TypeOK, StorageTypeOK, MqTypeOK, StoreTypeOK,
                     TransferTypeOK, storage, disk, tables, server, config, ghosts
<1>3. CASE ConsumerStart
  BY <1>3 DEF ConsumerStart, TypeOK, StorageTypeOK, MqTypeOK, StoreTypeOK,
              TransferTypeOK, storage, disk, tables, mq, server, config, ghosts
<1> QED
  BY <1>1, <1>2, <1>3, TakeType, TransferOpenType, TransferPutType, TransferUpdateType
     DEF Consume, TransferStep

--------------------------------------------------------------------------------
(* Type correctness *)

LEMMA InitType == Init => TypeOK
<1> SUFFICES ASSUME Init PROVE TypeOK
  OBVIOUS
<1>1. StorageTypeOK
  BY DEF Init, StorageInit, StorageTypeOK, Cell, UserRow, NoRow
<1>2. MqTypeOK
  BY DEF Init, MqInit, MqTypeOK, DialAtStart
<1>3. StoreTypeOK
  BY StoreAssumption, IdleType DEF Init, StorageInit, StoreInit, StoreTypeOK, Procs
<1>4. TransferTypeOK
  BY NoJobType DEF Init, TransferInit, TransferTypeOK
<1> QED
  BY <1>1, <1>2, <1>3, <1>4 DEF TypeOK

LEMMA NextType == TypeOK /\ [Next]_vars => TypeOK'
<1> SUFFICES ASSUME TypeOK, [Next]_vars PROVE TypeOK'
  OBVIOUS
<1>1. CASE UNCHANGED vars
  BY <1>1 DEF vars, TypeOK, StorageTypeOK, MqTypeOK, StoreTypeOK, TransferTypeOK,
              storage, disk, tables, mq, server, config, ghosts, consumer
<1>2. CASE Server /\ UNCHANGED consumer
  BY <1>2, StartType, HandleType, ServerEnvType DEF Server
<1>3. CASE Consume /\ UNCHANGED server
  BY <1>3, ConsumeType
<1> QED
  BY <1>1, <1>2, <1>3 DEF Next

\* Every variable keeps its type, and every request and transfer holds what its
\* next step reads, for any number of users, files and concurrent requests.
THEOREM TypeCorrect == Spec => []TypeOK
BY InitType, NextType, PTL DEF Spec

================================================================================
