--------------------------- MODULE FileSafety_proofs ---------------------------
(***************************************************************************)
(* Safety of FileService, for any number of users, files, workers, inodes    *)
(* and uploads: what is there once stays (objects, assembled files, rows),    *)
(* so a request or a transfer that has seen something may rely on it later.   *)
(* From that follow where addresses point, that they never go back, and that   *)
(* the server implements UploadLedger.                                        *)
(***************************************************************************)
EXTENDS FileService_proofs

\* What the ledger calls recorded and owned.
Recorded(f) == HasFileMeta(f) \/ f \in unrecorded
Owned(n, f) == userRow[<<n, f>>] # NoRow

InOSS(f) == object["oss"][f] # "none"

\* What request r relies on: what it had done, or seen, before its step.
Relies(r) ==
  /\ r.pc = "u_file" /\ r.addr = "oss" => InOSS(r.file)
  /\ r.pc = "u_file" /\ r.addr = "ceph" => store = "ceph"
  /\ r.pc \in {"u_store", "u_file"} => r.file \in assembled
  /\ r.pc = "u_user" => Recorded(r.file)
  /\ r.pc = "u_reply" => Owned(r.user, r.file)

\* The invariant: what requests rely on, what the transfer relies on, and that
\* there is a transfer only where it is configured, and no row in Ceph then.
SafeInv ==
  /\ \A w \in Workers : Relies(req[w])
  /\ job.pc = "update" => InOSS(job.file)
  /\ AddressHasObject
  /\ store # "oss_async" => queue = <<>> /\ job = NoJob
  /\ \A f \in Files : fileRow[f] = "ceph" => store = "ceph"

\* What no step takes back.
Grows ==
  /\ \A f \in Files : InOSS(f) => InOSS(f)'
  /\ assembled \subseteq assembled'
  /\ \A f \in Files : Recorded(f) => Recorded(f)'
  /\ \A n \in Users, f \in Files : Owned(n, f) => Owned(n, f)'
  /\ UNCHANGED store

--------------------------------------------------------------------------------
(* What no step takes back *)

LEMMA InsertGrows ==
  ASSUME StorageTypeOK, NEW n \in Users, NEW f \in Files,
         InsertUserFile(n, f) \/ DeleteUserFile(n, f) \/ RenameFileName(n, f)
  PROVE  \A m \in Users, g \in Files : Owned(m, g) => Owned(m, g)'
<1> SUFFICES ASSUME NEW m \in Users, NEW g \in Files, Owned(m, g) PROVE Owned(m, g)'
  OBVIOUS
<1>1. <<n, f>> \in Users \X Files /\ <<m, g>> \in Users \X Files
  OBVIOUS
<1>2. CASE userRow' = userRow
  BY <1>2 DEF Owned
<1>3. ASSUME NEW s \in {"live", "deleted"}, NEW b \in BOOLEAN,
             userRow' = [userRow EXCEPT ![<<n, f>>] = [status |-> s, renamed |-> b]]
      PROVE  Owned(m, g)'
  BY <1>1, <1>3 DEF Owned, NoRow, StorageTypeOK
<1>4. ASSUME NEW s \in {"none", "live", "deleted"},
             userRow' = [userRow EXCEPT ![<<n, f>>] = [status |-> s, renamed |-> TRUE]]
      PROVE  Owned(m, g)'
  BY <1>1, <1>4 DEF Owned, NoRow, StorageTypeOK
<1>5. /\ userRow[<<n, f>>].status \in {"none", "live", "deleted"}
      /\ userRow[<<n, f>>].renamed \in BOOLEAN
  BY <1>1 DEF StorageTypeOK, UserRow
<1>6. CASE InsertUserFile(n, f)
  BY <1>2, <1>3, <1>6 DEF InsertUserFile
<1>7. CASE DeleteUserFile(n, f)
  BY <1>1, <1>2, <1>3, <1>5, <1>7 DEF DeleteUserFile, StorageTypeOK
<1>8. CASE RenameFileName(n, f)
  BY <1>1, <1>2, <1>4, <1>5, <1>8 DEF RenameFileName, StorageTypeOK
<1> QED
  BY <1>6, <1>7, <1>8

LEMMA PutGrows ==
  ASSUME StorageTypeOK, NEW s \in Remote, NEW g \in Files, NEW i \in Inodes,
         object' = [object EXCEPT ![s][g] = body[i]]
  PROVE  (\A f \in Files : InOSS(f) => InOSS(f)') /\ (s = "oss" => InOSS(g)')
<1>1. body[i] # "none"
  BY DEF StorageTypeOK
<1> QED
  BY <1>1 DEF StorageTypeOK, InOSS, Remote

LEMMA InsertFileGrows ==
  ASSUME StorageTypeOK, NEW g \in Files, NEW a \in Addr, InsertFile(g, a),
         unrecorded \subseteq unrecorded'
  PROVE  (\A f \in Files : Recorded(f) => Recorded(f)') /\ Recorded(g)'
BY DEF InsertFile, Recorded, HasFileMeta, StorageTypeOK, Addr, Root, Remote

\* A step that changes no object, ghost or row takes nothing back.
LEMMA QuietGrows ==
  ASSUME UNCHANGED <<object, tables, store, assembled, unrecorded>>
  PROVE  Grows
BY DEF Grows, InOSS, Recorded, HasFileMeta, Owned, tables

LEMMA StartGrows ==
  ASSUME NEW w \in Workers, Start(w)
  PROVE  Grows
<1>1. UNCHANGED <<object, tables, store, assembled, unrecorded>>
  BY DEF Start, StartUpload, StartFast, SvcStartFast, StartDelete, StartLink,
         StartDownload, StartDownloadURL, StartRange, storage, config, ghosts
<1> QED
  BY <1>1, QuietGrows

LEMMA HandleGrows ==
  ASSUME TypeOK, NEW w \in Workers, Handle(w)
  PROVE  Grows
<1>1. StorageTypeOK /\ req[w] \in Request /\ Holds(req[w], fd[w])
  BY RequestType DEF TypeOK
<1>2. CASE UploadWrite(w)
  BY <1>2 DEF UploadWrite, Grows, InOSS, Recorded, HasFileMeta, Owned, tables, config
<1>3. CASE UploadLocal(w) \/ UploadPublish(w) \/ UploadReply(w) \/ DeleteRemove(w)
           \/ DownloadServe(w)
  BY <1>3, QuietGrows DEF UploadLocal, UploadPublish, UploadReply, DeleteRemove,
                          DownloadServe, storage, config, ghosts
<1>4. CASE UploadCeph(w) \/ UploadOss(w)
  <2>1. fd[w] \in Inodes /\ req[w].file \in Files
    BY <1>1, <1>4 DEF UploadCeph, UploadOss, Holds
  <2>2. \A f \in Files : InOSS(f) => InOSS(f)'
    BY <1>1, <1>4, <2>1, PutGrows DEF UploadCeph, UploadOss, Remote, InOSS
  <2> QED
    BY <1>4, <2>2 DEF UploadCeph, UploadOss, Grows, Recorded, HasFileMeta, Owned,
                      tables, config, ghosts
<1>5. CASE UploadFile(w) \/ SvcUploadFile(w)
  <2>1. req[w].file \in Files /\ req[w].addr \in Addr
    BY <1>1, <1>5 DEF UploadFile, SvcUploadFile, Holds
  <2>2. unrecorded \subseteq unrecorded'
    BY <1>5 DEF UploadFile, SvcUploadFile
  <2>3. InsertFile(req[w].file, req[w].addr) \/ UNCHANGED fileRow
    BY <1>5 DEF UploadFile, SvcUploadFile, OrmOnFileUploadFinished
  <2>4. \A f \in Files : Recorded(f) => Recorded(f)'
    BY <1>1, <2>1, <2>2, <2>3, InsertFileGrows DEF Recorded, HasFileMeta
  <2> QED
    BY <1>5, <2>4 DEF UploadFile, SvcUploadFile, Grows, InOSS, Owned, config
<1>6. CASE UploadUser(w) \/ SvcUploadUser(w) \/ DeleteMark(w)
  <2>1. req[w].file \in Files /\ req[w].user \in Users
    BY <1>1, <1>6 DEF UploadUser, SvcUploadUser, DeleteMark, Holds, UploadPCs, DeletePCs
  <2>2. \/ InsertUserFile(req[w].user, req[w].file)
        \/ DeleteUserFile(req[w].user, req[w].file)
        \/ UNCHANGED userRow
    BY <1>6 DEF UploadUser, SvcUploadUser, OrmOnUserFileUploadFinished, DeleteMark
  <2>3. \A n \in Users, f \in Files : Owned(n, f) => Owned(n, f)'
    BY <1>1, <2>1, <2>2, InsertGrows DEF Owned
  <2> QED
    BY <1>6, <2>3 DEF UploadUser, SvcUploadUser, DeleteMark, Grows, InOSS, Recorded,
                      HasFileMeta, config, ghosts
<1> QED
  BY <1>2, <1>3, <1>4, <1>5, <1>6 DEF Handle, DoUpload, SvcDoUpload, UploadStep

LEMMA EnvGrows ==
  ASSUME TypeOK, ServerEnv
  PROVE  Grows
<1>1. ASSUME NEW n \in Users, NEW f \in Files, Rename(n, f)
      PROVE  Grows
  BY <1>1, InsertGrows DEF Rename, TypeOK, Grows, InOSS, Recorded, HasFileMeta,
                           server, config, ghosts
<1>2. CASE ServerCrash \/ ServerChannelCloses
  BY <1>2, QuietGrows DEF ServerCrash, ServerChannelCloses, storage, server, config,
                          ghosts
<1> QED
  BY <1>1, <1>2 DEF ServerEnv

LEMMA ConsumeGrows ==
  ASSUME TypeOK, Consume, UNCHANGED server
  PROVE  Grows
<1>1. UNCHANGED <<store, assembled, unrecorded>>
  BY DEF server, config, ghosts
<1>2. CASE Take \/ TransferOpen \/ ConsumerCrash \/ ConsumerHangs \/ ConsumerStart
  BY <1>1, <1>2, QuietGrows DEF Take, TransferOpen, ConsumerCrash, ConsumerHangs,
                                ConsumerStart, storage
<1>3. CASE TransferPut
  <2>1. StorageTypeOK /\ fd[Consumer] \in Inodes /\ job.file \in Files
    BY <1>3, JobType, NoJobType DEF TransferPut, TypeOK, TransferTypeOK
  <2>2. \A f \in Files : InOSS(f) => InOSS(f)'
    BY <1>3, <2>1, PutGrows DEF TransferPut, Remote, InOSS
  <2> QED
    BY <1>1, <1>3, <2>2 DEF TransferPut, Grows, Recorded, HasFileMeta, Owned, tables
<1>4. CASE TransferUpdate
  <2>1. \A f \in Files : Recorded(f) => Recorded(f)'
    BY <1>1, <1>4 DEF TransferUpdate, UpdateFileLocation, Recorded, HasFileMeta, TypeOK,
                      StorageTypeOK
  <2> QED
    BY <1>1, <1>4, <2>1 DEF TransferUpdate, Grows, InOSS, Owned
<1> QED
  BY <1>2, <1>3, <1>4 DEF Consume, TransferStep

\* No step takes back an object, an assembled file or a row.
LEMMA NextGrows ==
  ASSUME TypeOK, [Next]_vars
  PROVE  Grows
<1>1. CASE UNCHANGED vars
  BY <1>1, QuietGrows DEF vars, storage, server, config, ghosts
<1>2. CASE Next
  BY <1>2, StartGrows, HandleGrows, EnvGrows, ConsumeGrows DEF Next, Server
<1> QED
  BY <1>1, <1>2

--------------------------------------------------------------------------------
(* The invariant *)

\* What a request relies on stays.
LEMMA ReliesStays ==
  ASSUME TypeOK, Grows, NEW w \in Workers, Relies(req[w]), req'[w] = req[w]
  PROVE  Relies(req[w])'
<1>1. /\ req[w].pc \in UploadPCs => req[w].file \in Files /\ req[w].user \in Users
  BY RequestType DEF Holds, UploadPCs
<1> QED
  BY <1>1 DEF Relies, Grows, UploadPCs

LEMMA IdleRelies == Relies(Idle) /\ \A w \in Workers : req'[w] = Idle => Relies(req[w])'
BY DEF Relies, Idle

\* The request of worker w alone changes; the rest is as it was.
LEMMA WorkerSafe ==
  ASSUME TypeOK, SafeInv, Grows, NEW w \in Workers,
         \A v \in Workers \ {w} : req'[v] = req[v], Relies(req[w])',
         UNCHANGED consumer,
         store # "oss_async" => UNCHANGED queue,
         AddressHasObject',
         \A f \in Files : fileRow'[f] = "ceph" => store = "ceph"
  PROVE  SafeInv'
<1>1. \A v \in Workers : Relies(req[v])'
  BY ReliesStays DEF SafeInv
<1>2. job'.pc = "update" => InOSS(job.file)'
  <2>1. job.pc = "update" => job.file \in Files
    BY JobType, NoJobType
  <2> QED
    BY <2>1 DEF SafeInv, Grows, consumer
<1> QED
  BY <1>1, <1>2 DEF SafeInv, Grows, consumer

\* The same where no row of tbl_file and no message changes.
LEMMA WorkerSafeQuiet ==
  ASSUME TypeOK, SafeInv, Grows, NEW w \in Workers,
         \A v \in Workers \ {w} : req'[v] = req[v], Relies(req[w])',
         UNCHANGED <<fileRow, queue, consumer>>
  PROVE  SafeInv'
<1>1. AddressHasObject'
  BY DEF SafeInv, AddressHasObject, Grows, InOSS
<1>2. \A f \in Files : fileRow'[f] = "ceph" => store = "ceph"
  BY DEF SafeInv
<1> QED
  BY <1>1, <1>2, WorkerSafe

LEMMA StartSafe ==
  ASSUME TypeOK, SafeInv, NEW w \in Workers, Start(w), UNCHANGED consumer
  PROVE  SafeInv'
<1>1. Grows
  BY StartGrows
<1>2. UNCHANGED <<fileRow, queue>>
  BY DEF Start, StartUpload, StartFast, SvcStartFast, StartDelete, StartLink,
         StartDownload, StartDownloadURL, StartRange, storage, tables, mq
<1>3. ASSUME NEW n \in Users, NEW f \in Files, StartUpload(w, n, f) \/ StartDelete(w, n, f)
      PROVE  SafeInv'
  <2>1. req'[w].pc \in {"u_write", "x_remove"} /\ \A v \in Workers \ {w} : req'[v] = req[v]
    <3>1. \A r : req' = [req EXCEPT ![w] = r] =>
            req'[w] = r /\ \A v \in Workers \ {w} : req'[v] = req[v]
      BY DEF TypeOK, StoreTypeOK
    <3>2. CASE StartUpload(w, n, f)
      BY <3>1, <3>2 DEF StartUpload
    <3>3. CASE StartDelete(w, n, f)
      BY <3>1, <3>3 DEF StartDelete, Idle
    <3> QED
      BY <1>3, <3>2, <3>3
  <2> QED
    BY <1>1, <1>2, <2>1, WorkerSafeQuiet DEF Relies
<1>4. CASE \E f \in Files : \/ StartLink(w, f) \/ StartDownload(w, f)
                            \/ StartDownloadURL(w, f) \/ StartRange(w, f)
  <2>1. req'[w].pc \in {"d_serve", "d_range"} /\ \A v \in Workers \ {w} : req'[v] = req[v]
    BY <1>4 DEF StartLink, StartDownload, StartDownloadURL, StartRange, StartServe, Idle,
                TypeOK, StoreTypeOK
  <2> QED
    BY <1>1, <1>2, <2>1, WorkerSafeQuiet DEF Relies
<1>5. ASSUME NEW n \in Users, NEW f \in Files, StartFast(w, n, f) \/ SvcStartFast(w, n, f)
      PROVE  SafeInv'
  <2>1. /\ req'[w].pc = "u_user" /\ req'[w].file = f
        /\ \A v \in Workers \ {w} : req'[v] = req[v]
    BY <1>5 DEF StartFast, SvcStartFast, StartFastAs, Idle, TypeOK, StoreTypeOK
  <2>2. Recorded(f)'
    BY <1>1, <1>5 DEF StartFast, SvcStartFast, OrmFileAddr, HasFileMeta, Recorded, Grows
  <2> QED
    BY <1>1, <1>2, <2>1, <2>2, WorkerSafeQuiet DEF Relies
<1> QED
  BY <1>3, <1>4, <1>5 DEF Start

LEMMA StoredSafe ==
  ASSUME TypeOK, SafeInv, Grows, NEW w \in Workers, UNCHANGED consumer,
         UploadLocal(w) \/ UploadCeph(w) \/ UploadOss(w) \/ UploadPublish(w)
  PROVE  SafeInv'
<1>1. /\ req[w] \in Request /\ req[w].pc = "u_store" /\ fd[w] \in Inodes
      /\ req[w].file \in Files /\ req[w].addr \in Root /\ w \in Procs
      /\ req[w].file \in assembled
  BY RequestType DEF UploadLocal, UploadCeph, UploadOss, UploadPublish, Holds, UploadPCs,
                     SafeInv, Relies
<1>2. /\ req \in [Workers -> Request]
      /\ UNCHANGED <<fileRow, assembled, store>>
  BY DEF UploadLocal, UploadCeph, UploadOss, UploadPublish, TypeOK, StoreTypeOK, tables,
         config, ghosts
<1>3. \A v \in Workers \ {w} : req'[v] = req[v]
  BY <1>2 DEF UploadLocal, UploadCeph, UploadOss, UploadPublish, Goto, GotoStored, Answer
<1>4. Relies(req[w])'
  <2>1. CASE Answer(w)
    BY <1>2, <2>1, IdleRelies DEF Answer
  <2>2. CASE Goto(w, "u_file")
    <3>1. /\ req'[w].pc = "u_file" /\ req'[w].file = req[w].file
          /\ req'[w].addr = req[w].addr
      BY <1>1, <1>2, <2>2 DEF Goto, Request
    <3> QED
      BY <1>1, <1>2, <3>1 DEF Relies, Root
  <2>3. ASSUME NEW a \in {"ceph", "oss"}, GotoStored(w, a),
               a = "oss" => object'["oss"][req[w].file] # "none",
               a = "ceph" => store = "ceph"
        PROVE  Relies(req[w])'
    <3>1. req'[w].pc = "u_file" /\ req'[w].file = req[w].file /\ req'[w].addr = a
      BY <1>1, <1>2, <2>3 DEF GotoStored, Request
    <3> QED
      BY <1>1, <1>2, <2>3, <3>1 DEF Relies, InOSS
  <2>4. CASE UploadCeph(w)
    BY <2>3, <2>4 DEF UploadCeph
  <2>5. CASE UploadOss(w) /\ ~Answer(w)
    <3>1. object'["oss"][req[w].file] # "none"
      <4>1. object' = [object EXCEPT !["oss"][req[w].file] = body[fd[w]]]
        BY <2>5 DEF UploadOss
      <4>2. StorageTypeOK /\ "oss" \in Remote
        BY DEF TypeOK, Remote
      <4>3. body[fd[w]] # "none"
        BY <1>1, <4>2 DEF StorageTypeOK
      <4> QED
        BY <1>1, <4>1, <4>2, <4>3 DEF StorageTypeOK
    <3> QED
      BY <2>3, <2>5, <3>1 DEF UploadOss
  <2> QED
    BY <2>1, <2>2, <2>4, <2>5 DEF UploadLocal, UploadPublish
<1>5. store # "oss_async" => UNCHANGED queue
  BY DEF UploadLocal, UploadCeph, UploadOss, UploadPublish, mq
<1>6. AddressHasObject' /\ \A f \in Files : fileRow'[f] = "ceph" => store = "ceph"
  BY <1>2 DEF SafeInv, AddressHasObject, Grows, InOSS
<1> QED
  BY <1>3, <1>4, <1>5, <1>6, WorkerSafe

LEMMA UploadFileSafe ==
  ASSUME TypeOK, SafeInv, Grows, NEW w \in Workers, UNCHANGED consumer,
         UploadFile(w) \/ SvcUploadFile(w)
  PROVE  SafeInv'
<1>1. /\ req[w] \in Request /\ req[w].pc = "u_file"
      /\ req[w].file \in Files /\ req[w].addr \in Addr /\ Relies(req[w])
  BY RequestType DEF UploadFile, SvcUploadFile, Holds, SafeInv
<1>2. /\ req \in [Workers -> Request] /\ StorageTypeOK
      /\ UNCHANGED <<object, queue, store, assembled>>
  BY DEF UploadFile, SvcUploadFile, TypeOK, StoreTypeOK, mq, config
<1>3. InsertFile(req[w].file, req[w].addr) \/ UNCHANGED fileRow
  BY DEF UploadFile, SvcUploadFile, OrmOnFileUploadFinished
<1>4. \A v \in Workers \ {w} : req'[v] = req[v]
  BY <1>2 DEF UploadFile, SvcUploadFile, Goto, Answer
<1>5. AddressHasObject' /\ \A f \in Files : fileRow'[f] = "ceph" => store = "ceph"
  BY <1>1, <1>2, <1>3 DEF InsertFile, SafeInv, AddressHasObject, Relies, InOSS,
                          StorageTypeOK
<1>6. Relies(req[w])'
  <2>1. CASE Answer(w)
    BY <1>2, <2>1, IdleRelies DEF Answer
  <2>2. CASE Goto(w, "u_user")
    <3>1. req'[w].pc = "u_user" /\ req'[w].file = req[w].file
      BY <1>1, <1>2, <2>2 DEF Goto, Request
    <3>2. PICK f \in Files : f = req[w].file
      BY <1>1
    <3>3. Recorded(f)'
      <4>1. CASE req[w].file \in unrecorded'
        BY <3>2, <4>1 DEF Recorded
      <4>2. CASE InsertFile(req[w].file, req[w].addr) /\ unrecorded \subseteq unrecorded'
        BY <1>1, <1>2, <3>2, <4>2, InsertFileGrows DEF Recorded, HasFileMeta
      <4>3. CASE UploadFile(w)
        BY <4>1, <4>2, <4>3 DEF UploadFile
      <4>4. CASE SvcUploadFile(w) /\ ~UploadFile(w)
        <5>1. PICK res \in ExecAction :
                /\ OrmOnFileUploadFinished(res, req[w].file, req[w].addr)
                /\ IF IsError(res) THEN Answer(w) ELSE Goto(w, "u_user")
                /\ unrecorded' = IF res = "failed" THEN unrecorded \cup {req[w].file}
                                                   ELSE unrecorded
          BY <4>4 DEF SvcUploadFile
        <5>2. ~IsError(res)
          BY <1>2, <3>1, <5>1 DEF Answer, Idle
        <5> QED
          BY <4>1, <4>2, <5>1, <5>2 DEF OrmOnFileUploadFinished, Executed, IsError,
                                        ExecAction
      <4> QED
        BY <4>3, <4>4
    <3> QED
      BY <3>1, <3>2, <3>3 DEF Relies
  <2> QED
    BY <2>1, <2>2 DEF UploadFile, SvcUploadFile
<1> QED
  BY <1>2, <1>4, <1>5, <1>6, WorkerSafe

LEMMA UploadUserSafe ==
  ASSUME TypeOK, SafeInv, Grows, NEW w \in Workers, UNCHANGED consumer,
         UploadUser(w) \/ SvcUploadUser(w)
  PROVE  SafeInv'
<1>1. /\ req[w] \in Request /\ req[w].pc = "u_user"
      /\ req[w].file \in Files /\ req[w].user \in Users
  BY RequestType DEF UploadUser, SvcUploadUser, Holds, UploadPCs
<1>2. /\ req \in [Workers -> Request] /\ StorageTypeOK
      /\ UNCHANGED <<fileRow, queue>>
  BY DEF UploadUser, SvcUploadUser, TypeOK, StoreTypeOK, mq
<1>3. \A v \in Workers \ {w} : req'[v] = req[v]
  BY <1>2 DEF UploadUser, SvcUploadUser, Goto, Answer
<1>4. Relies(req[w])'
  <2>1. CASE Answer(w)
    BY <1>2, <2>1, IdleRelies DEF Answer
  <2>2. CASE Goto(w, "u_reply") /\ InsertUserFile(req[w].user, req[w].file)
    <3>1. /\ req'[w].pc = "u_reply" /\ req'[w].file = req[w].file
          /\ req'[w].user = req[w].user
      BY <1>1, <1>2, <2>2 DEF Goto, Request
    <3>2. userRow'[<<req[w].user, req[w].file>>] # NoRow
      BY <1>1, <1>2, <2>2 DEF InsertUserFile, Owned, NoRow, StorageTypeOK
    <3> QED
      BY <3>1, <3>2 DEF Relies, Owned
  <2> QED
    BY <2>1, <2>2 DEF UploadUser, SvcUploadUser, OrmOnUserFileUploadFinished, Executed
<1> QED
  BY <1>2, <1>3, <1>4, WorkerSafeQuiet

LEMMA HandleSafe ==
  ASSUME TypeOK, SafeInv, NEW w \in Workers, Handle(w), UNCHANGED consumer
  PROVE  SafeInv'
<1>1. Grows
  BY HandleGrows
<1>2. CASE UploadWrite(w)
  <2>1. /\ req \in [Workers -> Request] /\ req[w] \in Request
        /\ UNCHANGED <<fileRow, queue>>
    BY <1>2 DEF UploadWrite, TypeOK, StoreTypeOK, tables, mq
  <2>2. \A v \in Workers \ {w} : req'[v] = req[v]
    BY <1>2, <2>1 DEF UploadWrite, Goto, Answer
  <2>3. CASE Answer(w)
    BY <1>1, <2>1, <2>2, <2>3, IdleRelies, WorkerSafeQuiet DEF Answer
  <2>4. CASE Goto(w, "u_store") /\ assembled' = assembled \cup {req[w].file}
    <3>1. req'[w].pc = "u_store" /\ req'[w].file = req[w].file
      BY <2>1, <2>4 DEF Goto, Request
    <3>2. Relies(req[w])'
      BY <2>4, <3>1 DEF Relies
    <3> QED
      BY <1>1, <2>1, <2>2, <3>2, WorkerSafeQuiet
  <2> QED
    BY <1>2, <2>3, <2>4 DEF UploadWrite
<1>3. CASE UploadReply(w) \/ DeleteMark(w) \/ DownloadServe(w)
  <2>1. req'[w] = Idle /\ \A v \in Workers \ {w} : req'[v] = req[v]
    BY <1>3 DEF UploadReply, DeleteMark, DownloadServe, Answer, TypeOK, StoreTypeOK
  <2>2. UNCHANGED <<fileRow, queue>>
    BY <1>3 DEF UploadReply, DeleteMark, DownloadServe, storage, tables, mq
  <2> QED
    BY <1>1, <2>1, <2>2, IdleRelies, WorkerSafeQuiet
<1>4. CASE DeleteRemove(w)
  <2>1. /\ req'[w].pc = "x_mark" /\ \A v \in Workers \ {w} : req'[v] = req[v]
        /\ UNCHANGED <<fileRow, queue>>
    BY <1>4 DEF DeleteRemove, Goto, TypeOK, StoreTypeOK, Request, tables, mq
  <2> QED
    BY <1>1, <2>1, WorkerSafeQuiet DEF Relies
<1> QED
  BY <1>1, <1>2, <1>3, <1>4, StoredSafe, UploadFileSafe, UploadUserSafe
     DEF Handle, DoUpload, SvcDoUpload, UploadStep

LEMMA ServerEnvSafe ==
  ASSUME TypeOK, SafeInv, ServerEnv, UNCHANGED consumer
  PROVE  SafeInv'
<1>1. Grows
  BY EnvGrows
<1>2. UNCHANGED <<fileRow, queue>>
  BY DEF ServerEnv, Rename, ServerCrash, ServerChannelCloses, ChannelCloses, storage,
         tables, mq
<1>3. \A w \in Workers : req'[w] \in {req[w], Idle}
  BY DEF ServerEnv, Rename, ServerCrash, ServerChannelCloses, server
<1>4. \A w \in Workers : Relies(req[w])'
  BY <1>1, <1>3, IdleRelies, ReliesStays DEF SafeInv
<1>5. job'.pc = "update" => InOSS(job.file)'
  <2>1. job.pc = "update" => job.file \in Files
    BY JobType, NoJobType
  <2> QED
    BY <1>1, <2>1 DEF SafeInv, Grows, consumer
<1> QED
  BY <1>1, <1>2, <1>4, <1>5 DEF SafeInv, AddressHasObject, Grows, InOSS, consumer

LEMMA ConsumeSafe ==
  ASSUME TypeOK, SafeInv, Consume, UNCHANGED server
  PROVE  SafeInv'
<1>1. Grows
  BY ConsumeGrows
<1>2. \A w \in Workers : Relies(req[w])'
  BY <1>1, ReliesStays DEF SafeInv, server
<1>3. job # NoJob => job \in Job /\ job.file \in Files
  BY JobType
<1>4. store # "oss_async" => queue' = <<>> /\ job' = NoJob
  <2> SUFFICES ASSUME store # "oss_async", queue = <<>>, job = NoJob
               PROVE  queue' = <<>> /\ job' = NoJob
    BY DEF SafeInv
  <2>1. ASSUME NEW k \in 0..Len(queue), NEW others, LoseBuffered(k, others)
        PROVE  queue' = <<>>
    BY <2>1 DEF LoseBuffered
  <2> QED
    BY <2>1, NoJobType DEF Consume, Take, TransferStep, TransferOpen, TransferPut,
                           TransferUpdate, ConsumerCrash, ConsumerHangs, ConsumerStart, mq
<1>5. CASE UNCHANGED fileRow
  <2>1. job'.pc = "update" => InOSS(job.file)'
    <3>1. CASE TransferPut
      <4>1. job # NoJob /\ fd[Consumer] \in Inodes
        BY <3>1, NoJobType DEF TransferPut, TypeOK, TransferTypeOK
      <4>2. CASE /\ object' = [object EXCEPT !["oss"][job.file] = body[fd[Consumer]]]
                 /\ JobGoto("update")
        <5>1. InOSS(job.file)'
          BY <1>3, <4>1, <4>2, PutGrows DEF TypeOK, Remote, JobGoto, Job, InOSS
        <5> QED
          BY <1>3, <4>1, <4>2, <5>1
      <4>3. CASE JobLost
        BY <4>3, NoJobType DEF JobLost, JobDone
      <4> QED
        BY <3>1, <4>2, <4>3 DEF TransferPut
    <3>2. CASE job' = job
      BY <1>1, <1>3, <3>2, NoJobType DEF SafeInv, Grows
    <3>3. CASE job'.pc \in {"idle", "open", "put"}
      BY <3>3
    <3> QED
      BY <1>3, <3>1, <3>2, <3>3, NoJobType
         DEF Consume, TransferStep, Take, TransferOpen, TransferUpdate, ConsumerCrash,
             ConsumerHangs, ConsumerStart, JobLost, JobDone, JobGoto, Job
  <2> QED
    BY <1>1, <1>2, <1>4, <1>5, <2>1 DEF SafeInv, AddressHasObject, Grows, InOSS
<1>6. CASE TransferUpdate
  <2>1. job # NoJob /\ job.pc = "update" /\ job' = NoJob
    BY <1>6, NoJobType DEF TransferUpdate, JobLost, JobDone
  <2>2. UpdateFileLocation(job.file, "oss") \/ UNCHANGED fileRow
    BY <1>6 DEF TransferUpdate
  <2>3. AddressHasObject'
    BY <1>1, <1>3, <2>1, <2>2 DEF UpdateFileLocation, SafeInv, AddressHasObject, Grows,
                                  InOSS, TypeOK, StorageTypeOK
  <2>4. \A f \in Files : fileRow'[f] = "ceph" => store = "ceph"
    BY <1>3, <2>1, <2>2 DEF UpdateFileLocation, SafeInv, TypeOK, StorageTypeOK
  <2> QED
    BY <1>1, <1>2, <1>4, <2>1, <2>3, <2>4, NoJobType DEF SafeInv, Grows
<1> QED
  BY <1>5, <1>6 DEF Consume, TransferStep, Take, TransferOpen, TransferPut, ConsumerCrash,
                    ConsumerHangs, ConsumerStart, storage, tables

--------------------------------------------------------------------------------

LEMMA InitSafe == Init => SafeInv
BY DEF Init, StorageInit, MqInit, StoreInit, TransferInit, SafeInv, Relies, Idle,
       AddressHasObject, NoJob

LEMMA NextSafe == TypeOK /\ SafeInv /\ [Next]_vars => SafeInv'
<1> SUFFICES ASSUME TypeOK, SafeInv, [Next]_vars PROVE SafeInv'
  OBVIOUS
<1>1. CASE UNCHANGED vars
  BY <1>1 DEF vars, SafeInv, Relies, Recorded, HasFileMeta, Owned, InOSS,
              AddressHasObject, storage, tables, mq, server, config, ghosts, consumer
<1>2. CASE Server /\ UNCHANGED consumer
  BY <1>2, StartSafe, HandleSafe, ServerEnvSafe DEF Server
<1>3. CASE Consume /\ UNCHANGED server
  BY <1>3, ConsumeSafe
<1> QED
  BY <1>1, <1>2, <1>3 DEF Next

\* The invariant holds in every state.
THEOREM AlwaysSafe == Spec => [](TypeOK /\ SafeInv)
BY InitType, NextType, InitSafe, NextSafe, PTL DEF Spec

\* A row in OSS has its object, whatever fails, crashes or interleaves.
THEOREM AddressesHaveObjects == Spec => []AddressHasObject
<1>1. SafeInv => AddressHasObject
  BY DEF SafeInv
<1> QED
  BY <1>1, AlwaysSafe, PTL

\* The address of a file never leaves an object store again: an insert finds the
\* row there, and the transfer, the only one to update it, is not configured
\* together with Ceph.
THEOREM AddressesNeverGoBack == Spec => AddressNeverGoesBack
<1> DEFINE Kept == \A f \in Files : fileRow[f] \in Remote => fileRow'[f] = fileRow[f]
<1>1. ASSUME TypeOK, SafeInv, [Next]_vars
      PROVE  Kept
  <2>1. ASSUME NEW g \in Files, NEW a \in Addr, InsertFile(g, a)
        PROVE  Kept
    BY <1>1, <2>1 DEF InsertFile, TypeOK, StorageTypeOK, Remote
  <2>2. ASSUME UpdateFileLocation(job.file, "oss"), job # NoJob
        PROVE  Kept
    <3>1. \A f \in Files : fileRow[f] # "ceph"
      BY <1>1, <2>2 DEF SafeInv
    <3> QED
      BY <1>1, <2>2, <3>1, JobType DEF UpdateFileLocation, TypeOK, StorageTypeOK, Remote
  <2>3. CASE UNCHANGED fileRow
    BY <2>3
  <2>4. ASSUME NEW w \in Workers, UploadFile(w) \/ SvcUploadFile(w)
        PROVE  Kept
    <3>1. req[w].file \in Files /\ req[w].addr \in Addr
      BY <1>1, <2>4, RequestType DEF UploadFile, SvcUploadFile, Holds
    <3> QED
      BY <2>1, <2>3, <2>4, <3>1 DEF UploadFile, SvcUploadFile, OrmOnFileUploadFinished
  <2>5. CASE TransferUpdate
    BY <2>2, <2>3, <2>5, NoJobType DEF TransferUpdate
  <2>6. ASSUME NEW w \in Workers, Start(w) \/ Handle(w),
               ~(UploadFile(w) \/ SvcUploadFile(w))
        PROVE  UNCHANGED fileRow
    BY <2>6 DEF Start, StartUpload, StartFast, SvcStartFast, StartDelete, StartLink,
         StartDownload, StartDownloadURL, StartRange, Handle, DoUpload, SvcDoUpload,
         UploadStep, UploadWrite, UploadLocal, UploadCeph, UploadOss, UploadPublish,
         UploadReply, UploadUser, SvcUploadUser, DeleteRemove, DeleteMark, DownloadServe,
         storage, tables
  <2>7. CASE ServerEnv
    BY <2>3, <2>7 DEF ServerEnv, Rename, ServerCrash, ServerChannelCloses, storage, tables
  <2>8. CASE Consume /\ ~TransferUpdate
    BY <2>3, <2>8 DEF Consume, TransferStep, Take, TransferOpen, TransferPut,
                      ConsumerCrash, ConsumerHangs, ConsumerStart, storage, tables
  <2>9. CASE UNCHANGED vars
    BY <2>3, <2>9 DEF vars, storage, tables
  <2> QED
    BY <1>1, <2>3, <2>4, <2>5, <2>6, <2>7, <2>8, <2>9 DEF Next, Server
<1> QED
  BY <1>1, AlwaysSafe, PTL DEF Spec, AddressNeverGoesBack

\* A name a user gave their file, and a deletion, stay: the inserts ignore a row
\* that is there, and nothing else sets a status but a deletion.
THEOREM UserRowsKept == Spec => UserRowKept
<1> DEFINE Kept == \A nf \in Users \X Files :
                     /\ userRow[nf].renamed => userRow'[nf].renamed
                     /\ userRow[nf].status = "deleted" => userRow'[nf].status = "deleted"
<1>1. ASSUME TypeOK, [Next]_vars
      PROVE  Kept
  <2>1. CASE UNCHANGED userRow
    BY <2>1
  <2>2. ASSUME NEW n \in Users, NEW f \in Files,
               InsertUserFile(n, f) \/ DeleteUserFile(n, f) \/ RenameFileName(n, f)
        PROVE  Kept
    <3> SUFFICES ASSUME NEW nf \in Users \X Files
                 PROVE  /\ userRow[nf].renamed => userRow'[nf].renamed
                        /\ userRow[nf].status = "deleted" => userRow'[nf].status = "deleted"
      OBVIOUS
    <3> DEFINE old == userRow[<<n, f>>]
    <3>1. /\ <<n, f>> \in Users \X Files
          /\ userRow \in [Users \X Files -> UserRow]
          /\ old \in UserRow
      BY <1>1 DEF TypeOK, StorageTypeOK
    <3>2. CASE InsertUserFile(n, f)
      <4>1. userRow'[nf] = userRow[nf] \/ userRow[nf] = NoRow
        BY <3>1, <3>2 DEF InsertUserFile
      <4>2. NoRow.renamed = FALSE /\ NoRow.status = "none"
        BY DEF NoRow
      <4> QED
        BY <4>1, <4>2
    <3>3. CASE DeleteUserFile(n, f)
      <4>1. userRow' = userRow \/ userRow' = [userRow EXCEPT
              ![<<n, f>>] = [status |-> "deleted", renamed |-> old.renamed]]
        BY <3>1, <3>3 DEF DeleteUserFile
      <4>2. /\ userRow'[nf] = userRow[nf] \/ userRow'[nf].status = "deleted"
            /\ userRow'[nf].renamed = userRow[nf].renamed
        BY <3>1, <4>1
      <4> QED
        BY <4>2
    <3>4. CASE RenameFileName(n, f)
      <4>1. userRow' = userRow \/ userRow' = [userRow EXCEPT
              ![<<n, f>>] = [status |-> old.status, renamed |-> TRUE]]
        BY <3>1, <3>4 DEF RenameFileName
      <4>2. /\ userRow'[nf].status = userRow[nf].status
            /\ userRow'[nf] = userRow[nf] \/ userRow'[nf].renamed = TRUE
        BY <3>1, <4>1
      <4> QED
        BY <4>2
    <3> QED
      BY <2>2, <3>2, <3>3, <3>4
  <2>3. ASSUME NEW w \in Workers, UploadUser(w) \/ SvcUploadUser(w) \/ DeleteMark(w)
        PROVE  Kept
    <3>1. req[w].file \in Files /\ req[w].user \in Users
      BY <1>1, <2>3, RequestType
         DEF UploadUser, SvcUploadUser, DeleteMark, Holds, UploadPCs, DeletePCs
    <3> QED
      BY <2>1, <2>2, <2>3, <3>1
         DEF UploadUser, SvcUploadUser, OrmOnUserFileUploadFinished, DeleteMark
  <2>4. ASSUME NEW w \in Workers, Start(w) \/ Handle(w),
               ~(UploadUser(w) \/ SvcUploadUser(w) \/ DeleteMark(w))
        PROVE  UNCHANGED userRow
    BY <2>4 DEF Start, StartUpload, StartFast, SvcStartFast, StartDelete, StartLink,
         StartDownload, StartDownloadURL, StartRange, Handle, DoUpload, SvcDoUpload,
         UploadStep, UploadWrite, UploadLocal, UploadCeph, UploadOss, UploadPublish,
         UploadReply, UploadFile, SvcUploadFile, DeleteRemove, DownloadServe,
         storage, tables
  <2>5. CASE ServerEnv
    BY <2>1, <2>2, <2>5 DEF ServerEnv, Rename, ServerCrash, ServerChannelCloses, storage,
                            tables
  <2>6. CASE Consume
    BY <2>1, <2>6 DEF Consume, TransferStep, Take, TransferOpen, TransferPut,
         TransferUpdate, ConsumerCrash, ConsumerHangs, ConsumerStart, storage, tables
  <2>7. CASE UNCHANGED vars
    BY <2>1, <2>7 DEF vars, storage, tables
  <2> QED
    BY <1>1, <2>1, <2>3, <2>4, <2>5, <2>6, <2>7 DEF Next, Server
<1> QED
  BY <1>1, TypeCorrect, PTL DEF Spec, UserRowKept

--------------------------------------------------------------------------------
(* UploadLedger *)

RecSet == {f \in Files : HasFileMeta(f)} \cup unrecorded
OwnSet == {nf \in Users \X Files : userRow[nf] # NoRow}

LEMMA InsertFileRecords ==
  ASSUME StorageTypeOK, NEW g \in Files, NEW a \in Addr, InsertFile(g, a),
         UNCHANGED unrecorded
  PROVE  RecSet' = RecSet \cup {g}
BY DEF InsertFile, RecSet, HasFileMeta, StorageTypeOK, Addr, Root, Remote

LEMMA UpdateRecords ==
  ASSUME StorageTypeOK, NEW g \in Files, UpdateFileLocation(g, "oss"),
         UNCHANGED unrecorded
  PROVE  RecSet' = RecSet
BY DEF UpdateFileLocation, RecSet, HasFileMeta, StorageTypeOK

LEMMA InsertOwns ==
  ASSUME StorageTypeOK, NEW n \in Users, NEW f \in Files, InsertUserFile(n, f)
  PROVE  OwnSet' = OwnSet \cup {<<n, f>>}
BY DEF InsertUserFile, OwnSet, NoRow, StorageTypeOK

LEMMA MarkOwns ==
  ASSUME StorageTypeOK, NEW n \in Users, NEW f \in Files,
         DeleteUserFile(n, f) \/ RenameFileName(n, f)
  PROVE  OwnSet' = OwnSet
<1> DEFINE old == userRow[<<n, f>>]
<1>1. /\ <<n, f>> \in Users \X Files
      /\ userRow \in [Users \X Files -> UserRow]
      /\ old \in UserRow
  BY DEF StorageTypeOK
<1>2. CASE userRow' = userRow
  BY <1>2 DEF OwnSet
<1>3. ASSUME NEW r \in UserRow, r # NoRow, old # NoRow,
             userRow' = [userRow EXCEPT ![<<n, f>>] = r]
      PROVE  OwnSet' = OwnSet
  BY <1>1, <1>3 DEF OwnSet
<1>4. /\ [status |-> "deleted", renamed |-> old.renamed] \in UserRow
      /\ [status |-> "deleted", renamed |-> old.renamed] # NoRow
      /\ [status |-> old.status, renamed |-> TRUE] \in UserRow
      /\ [status |-> old.status, renamed |-> TRUE] # NoRow
  BY <1>1 DEF UserRow, NoRow
<1>5. CASE DeleteUserFile(n, f)
  BY <1>1, <1>2, <1>3, <1>4, <1>5 DEF DeleteUserFile
<1>6. CASE RenameFileName(n, f)
  BY <1>1, <1>2, <1>3, <1>4, <1>6 DEF RenameFileName
<1> QED
  BY <1>5, <1>6

\* A step that leaves RecSet, OwnSet and both ghosts alone is none of the ledger.
LEMMA LedgerStutters ==
  ASSUME UNCHANGED <<assembled, acked>>, RecSet' = RecSet, OwnSet' = OwnSet
  PROVE  [Ledger!Next]_(Ledger!vars)
BY DEF Ledger!vars, RecSet, OwnSet

LEMMA RowsStutter ==
  ASSUME UNCHANGED <<tables, assembled, acked, unrecorded>>
  PROVE  [Ledger!Next]_(Ledger!vars)
BY LedgerStutters DEF RecSet, OwnSet, HasFileMeta, tables

\* The steps of an upload are the steps of the ledger.
LEMMA UploadLedgerStep ==
  ASSUME TypeOK, SafeInv, NEW w \in Workers, Handle(w)
  PROVE  [Ledger!Next]_(Ledger!vars)
<1>1. StorageTypeOK /\ req[w] \in Request /\ Holds(req[w], fd[w]) /\ Relies(req[w])
  BY RequestType DEF TypeOK, SafeInv
<1>2. CASE UploadWrite(w)
  <2>1. /\ RecSet' = RecSet /\ OwnSet' = OwnSet /\ UNCHANGED acked
        /\ assembled' \in {assembled, assembled \cup {req[w].file}}
    BY <1>2 DEF UploadWrite, RecSet, OwnSet, HasFileMeta, tables
  <2>2. req[w].file \in Files
    BY <1>1, <1>2 DEF UploadWrite, Holds
  <2>3. CASE assembled' = assembled \cup {req[w].file}
    BY <2>1, <2>2, <2>3 DEF Ledger!Next, Ledger!Assemble, RecSet, OwnSet
  <2> QED
    BY <2>1, <2>3, LedgerStutters
<1>3. CASE \/ UploadLocal(w) \/ UploadCeph(w) \/ UploadOss(w) \/ UploadPublish(w)
           \/ DeleteRemove(w) \/ DownloadServe(w)
  BY <1>3, RowsStutter DEF UploadLocal, UploadCeph, UploadOss, UploadPublish,
                           DeleteRemove, DownloadServe, storage, ghosts
<1>4. CASE UploadFile(w) \/ SvcUploadFile(w)
  <2>1. /\ req[w].file \in Files /\ req[w].addr \in Addr /\ req[w].file \in assembled
        /\ OwnSet' = OwnSet /\ UNCHANGED <<assembled, acked>>
    BY <1>1, <1>4 DEF UploadFile, SvcUploadFile, Holds, Relies, OwnSet
  <2>2. RecSet' \in {RecSet, RecSet \cup {req[w].file}}
    <3>1. CASE InsertFile(req[w].file, req[w].addr) /\ UNCHANGED unrecorded
      BY <1>1, <2>1, <3>1, InsertFileRecords
    <3>2. CASE UNCHANGED fileRow /\ unrecorded' \in {unrecorded, unrecorded \cup {req[w].file}}
      BY <3>2 DEF RecSet, HasFileMeta
    <3> QED
      BY <1>4, <3>1, <3>2 DEF UploadFile, SvcUploadFile, OrmOnFileUploadFinished, Executed
  <2>3. CASE RecSet' = RecSet \cup {req[w].file}
    BY <2>1, <2>3 DEF Ledger!Next, Ledger!Record, RecSet, OwnSet
  <2> QED
    BY <2>1, <2>2, <2>3, LedgerStutters
<1>5. CASE UploadUser(w) \/ SvcUploadUser(w)
  <2>1. /\ req[w].file \in Files /\ req[w].user \in Users /\ req[w].file \in RecSet
        /\ RecSet' = RecSet /\ UNCHANGED <<assembled, acked>>
    BY <1>1, <1>5 DEF UploadUser, SvcUploadUser, Holds, UploadPCs, Relies, Recorded,
                      RecSet, HasFileMeta, ghosts
  <2>2. CASE InsertUserFile(req[w].user, req[w].file)
    <3>1. OwnSet' = OwnSet \cup {<<req[w].user, req[w].file>>}
      BY <1>1, <2>1, <2>2, InsertOwns
    <3> QED
      BY <2>1, <3>1 DEF Ledger!Next, Ledger!Own, RecSet, OwnSet
  <2>3. CASE UNCHANGED userRow
    BY <2>1, <2>3, LedgerStutters DEF OwnSet
  <2> QED
    BY <1>5, <2>2, <2>3 DEF UploadUser, SvcUploadUser, OrmOnUserFileUploadFinished
<1>6. CASE UploadReply(w)
  <2>1. /\ req[w].file \in Files /\ req[w].user \in Users
        /\ <<req[w].user, req[w].file>> \in OwnSet
        /\ RecSet' = RecSet /\ OwnSet' = OwnSet /\ UNCHANGED assembled
        /\ acked' = acked \cup {<<req[w].user, req[w].file>>}
    BY <1>1, <1>6 DEF UploadReply, Holds, UploadPCs, Relies, Owned, RecSet, OwnSet,
                      HasFileMeta, storage, tables
  <2> QED
    BY <2>1 DEF Ledger!Next, Ledger!Acknowledge, RecSet, OwnSet
<1>7. CASE DeleteMark(w)
  <2>1. req[w].file \in Files /\ req[w].user \in Users
    BY <1>1, <1>7 DEF DeleteMark, Holds, DeletePCs
  <2>2. OwnSet' = OwnSet
    BY <1>1, <1>7, <2>1, MarkOwns DEF DeleteMark, OwnSet
  <2> QED
    BY <1>7, <2>2, LedgerStutters DEF DeleteMark, RecSet, HasFileMeta, ghosts
<1> QED
  BY <1>2, <1>3, <1>4, <1>5, <1>6, <1>7 DEF Handle, DoUpload, SvcDoUpload, UploadStep

LEMMA NextLedgerStep ==
  ASSUME TypeOK, SafeInv, [Next]_vars
  PROVE  [Ledger!Next]_(Ledger!vars)
<1>1. CASE UNCHANGED vars
  BY <1>1, RowsStutter DEF vars, storage, server, ghosts
<1>2. ASSUME NEW w \in Workers, Start(w)
      PROVE  [Ledger!Next]_(Ledger!vars)
  BY <1>2, RowsStutter DEF Start, StartUpload, StartFast, SvcStartFast, StartDelete,
       StartLink, StartDownload, StartDownloadURL, StartRange, storage, ghosts
<1>3. CASE ServerEnv
  <2>1. ASSUME NEW n \in Users, NEW f \in Files, Rename(n, f)
        PROVE  [Ledger!Next]_(Ledger!vars)
    <3>1. OwnSet' = OwnSet
      BY <2>1, MarkOwns DEF Rename, TypeOK
    <3> QED
      BY <2>1, <3>1, LedgerStutters DEF Rename, RecSet, HasFileMeta, server, ghosts
  <2>2. CASE ServerCrash \/ ServerChannelCloses
    BY <2>2, RowsStutter DEF ServerCrash, ServerChannelCloses, storage, server, ghosts
  <2> QED
    BY <1>3, <2>1, <2>2 DEF ServerEnv
<1>4. CASE Consume /\ UNCHANGED server
  <2>1. CASE TransferUpdate
    <3>1. job.file \in Files
      BY <2>1, NoJobType, JobType DEF TransferUpdate
    <3>2. UNCHANGED <<assembled, acked, unrecorded, userRow>>
      BY <1>4, <2>1 DEF TransferUpdate, server, ghosts
    <3>3. RecSet' = RecSet
      BY <2>1, <3>1, <3>2, UpdateRecords DEF TransferUpdate, TypeOK, RecSet, HasFileMeta
    <3> QED
      BY <3>2, <3>3, LedgerStutters DEF OwnSet
  <2> QED
    BY <1>4, <2>1, RowsStutter DEF Consume, TransferStep, Take, TransferOpen,
         TransferPut, ConsumerCrash, ConsumerHangs, ConsumerStart, storage, server, ghosts
<1> QED
  BY <1>1, <1>2, <1>3, <1>4, UploadLedgerStep DEF Next, Server

\* The server, in either deployment, implements UploadLedger: a file is recorded
\* after it was whole, owned after it was recorded, acknowledged after it was
\* owned, and nothing of that is taken back.
THEOREM ServiceImplementsLedger == Spec => LedgerSpec
<1>1. Init => Ledger!Init
  BY DEF Init, StorageInit, StoreInit, Ledger!Init, HasFileMeta
<1>2. TypeOK /\ SafeInv /\ [Next]_vars => [Ledger!Next]_(Ledger!vars)
  BY NextLedgerStep
<1> QED
  BY <1>1, <1>2, AlwaysSafe, PTL DEF Spec, LedgerSpec, Ledger!Spec

================================================================================
