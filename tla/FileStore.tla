-------------------------------- MODULE FileStore --------------------------------
(***************************************************************************)
(* The requests on whole files: handler/handler.go where the monolith is    *)
(* deployed ("mono"), and service/upload and service/download where the     *)
(* microservices are ("micro"), which reach MySQL through service/dbproxy,   *)
(* by RPC.                                                                   *)
(*                                                                         *)
(* A step is one command against one store: a system call, an object store  *)
(* request, a publish, a statement.  Requests that change nothing (the       *)
(* queries, and any request turned away by its first command) have none.     *)
(***************************************************************************)
EXTENDS MqChannel

CONSTANTS
  Doors,       \* what may be deployed: "mono", "micro"
  StoreTypes,  \* the configurations of CurrentStoreType / AsyncTransferEnable
  MaxUploads   \* bound: uploads of one file

ASSUME StoreAssumption ==
  /\ Doors \subseteq {"mono", "micro"}
  /\ StoreTypes \subseteq {"local", "ceph", "oss", "oss_async"}
  /\ MaxUploads \in Nat

VARIABLES
  door,        \* what is deployed
  store,       \* the configuration it runs with
  req,         \* the request each worker is serving
  created,     \* ghost: uploads begun per file
  assembled,   \* ghost: files whose exact content was once written
  acked,       \* ghost: uploads answered OK
  deleted,     \* ghost: files a delete has removed from a local directory
  unrecorded   \* ghost: files whose insert into tbl_file failed, unnoticed

config == <<door, store>>
ghosts == <<created, assembled, acked, deleted, unrecorded>>
server == <<config, req, ghosts>>

--------------------------------------------------------------------------------

UploadPCs == {"u_write", "u_store", "u_file", "u_user", "u_reply"}
DeletePCs == {"x_remove", "x_mark"}
ServePCs  == {"d_serve", "d_range"}
PCs == {"idle"} \cup UploadPCs \cup DeletePCs \cup ServePCs

Request ==
  [pc   : PCs,
   user : Users \cup {None},
   file : Files \cup {None},
   addr : Addr \cup {"none"}]   \* the address the handler holds

Idle == [pc |-> "idle", user |-> None, file |-> None, addr |-> "none"]

\* fileMeta.Location of an upload that has just been saved.
LocalRoot == IF door = "mono" THEN "tmp" ELSE "merge"

Goto(w, pc)         == req' = [req EXCEPT ![w].pc = pc]
GotoStored(w, addr) ==
  req' = [req EXCEPT ![w] = [@ EXCEPT !.pc = "u_file", !.addr = addr]]
Answer(w)           == req' = [req EXCEPT ![w] = Idle]

--------------------------------------------------------------------------------
(* service/dbproxy: a statement behind an RPC *)

\* What execAction comes back with: the statement's result ("done", or
\* "failed" with Suc FALSE and no error), or an error, from a call that was
\* carried out ("cut") or never was ("unsent").  go-micro may send it again;
\* the statements are idempotent.
ExecAction ==
  {"done"} \cup (IF "db" \in Faults THEN {"failed"} ELSE {})
           \cup (IF "rpc" \in Faults THEN {"cut", "unsent"} ELSE {})

IsError(res)  == res \in {"cut", "unsent"}
Executed(res) == res \in {"done", "cut"}

\* The insert ignore statements of dbproxy, as the call came back.
OrmOnFileUploadFinished(res, f, a) ==
  IF Executed(res) THEN InsertFile(f, a) ELSE UNCHANGED fileRow

OrmOnUserFileUploadFinished(res, n, f) ==
  IF Executed(res) THEN InsertUserFile(n, f) ELSE UNCHANGED userRow

\* GetFileMeta of dbproxy: a file without a row is no error, its data is nil,
\* and QueryUserFileMeta of dbproxy answers a user without a row an empty one.
OrmFileAddr(f) == fileRow[f]

--------------------------------------------------------------------------------
(* DoUploadHandler *)

\* The body is read and hashed, and os.Create of the local path done; errors
\* before that (-1 to -3) change nothing.
StartUpload(w, n, f) ==
  /\ req[w] = Idle
  /\ created[f] < MaxUploads
  /\ Create(w, LocalRoot, f)
  /\ created' = [created EXCEPT ![f] = @ + 1]
  /\ req' = [req EXCEPT ![w] = [pc |-> "u_write", user |-> n, file |-> f,
                                addr |-> LocalRoot]]
  /\ UNCHANGED <<object, tables, mq, config, assembled, acked, deleted, unrecorded>>

\* Variant: the count Write returns is not compared with the size.
UploadWriteUnchecked(w) ==
  /\ req[w].pc = "u_write"
  /\ \E got \in {"good"} \cup (IF "disk" \in Faults THEN {"part"} ELSE {}) :
       /\ body' = [body EXCEPT ![fd[w]] = got]
       /\ assembled' = IF got = "good" THEN assembled \cup {req[w].file} ELSE assembled
  /\ Goto(w, "u_store")
  /\ UNCHANGED <<path, fd, object, tables, mq, config, created, acked, deleted, unrecorded>>

\* newFile.Write: all of it, or a full disk and reply -4; what was written
\* stays where it is.
UploadWrite(w) ==
  /\ req[w].pc = "u_write"
  /\ \/ /\ body' = [body EXCEPT ![fd[w]] = "good"]
        /\ assembled' = assembled \cup {req[w].file}
        /\ Goto(w, "u_store")
        /\ UNCHANGED fd
     \/ /\ "disk" \in Faults
        /\ body' = [body EXCEPT ![fd[w]] = "part"]
        /\ Close(w)
        /\ Answer(w)
        /\ UNCHANGED assembled
  /\ UNCHANGED <<path, object, tables, mq, config, created, acked, deleted, unrecorded>>

\* The file stays where it was saved (StoreLocal).
UploadLocal(w) ==
  /\ store = "local"
  /\ req[w].pc = "u_store"
  /\ Close(w)
  /\ Goto(w, "u_file")
  /\ UNCHANGED <<path, body, object, tables, mq, config, ghosts>>

\* PutObject into Ceph of what the open file holds now; its error is ignored.
UploadCeph(w) ==
  /\ store = "ceph"
  /\ req[w].pc = "u_store"
  /\ \/ /\ object' = [object EXCEPT !["ceph"][req[w].file] = body[fd[w]]]
        /\ UNCHANGED lost
     \/ /\ "store" \in Faults
        /\ lost' = lost \cup {req[w].file}
        /\ UNCHANGED object
  /\ Close(w)
  /\ GotoStored(w, "ceph")
  /\ UNCHANGED <<path, body, tables, channel, queue, config, ghosts>>

\* Variant: the error of the put is ignored, as it is for Ceph.
UploadOssUnchecked(w) ==
  /\ store = "oss"
  /\ req[w].pc = "u_store"
  /\ \/ object' = [object EXCEPT !["oss"][req[w].file] = body[fd[w]]]
     \/ "store" \in Faults /\ UNCHANGED object
  /\ Close(w)
  /\ GotoStored(w, "oss")
  /\ UNCHANGED <<path, body, tables, mq, config, ghosts>>

\* Synchronous PutObject into OSS, or reply -5.
UploadOss(w) ==
  /\ store = "oss"
  /\ req[w].pc = "u_store"
  /\ \/ /\ object' = [object EXCEPT !["oss"][req[w].file] = body[fd[w]]]
        /\ GotoStored(w, "oss")
     \/ /\ "store" \in Faults
        /\ Answer(w)
        /\ UNCHANGED object
  /\ Close(w)
  /\ UNCHANGED <<path, body, tables, mq, config, ghosts>>

\* The transfer message; whether it was published is not acted upon.
UploadPublish(w) ==
  /\ store = "oss_async"
  /\ req[w].pc = "u_store"
  /\ Publish([file |-> req[w].file, root |-> req[w].addr])
  /\ Close(w)
  /\ Goto(w, "u_file")
  /\ UNCHANGED <<path, body, object, tables, config, ghosts>>

\* Variant: the user's row comes first.
UploadFileUserFirst(w) ==
  /\ req[w].pc = "u_file"
  /\ door = "mono"
  /\ InsertUserFile(req[w].user, req[w].file)
  /\ Goto(w, "u_user")
  /\ UNCHANGED <<disk, object, fileRow, mq, config, ghosts>>

\* UpdateFileMetaDB of the monolith; its result is ignored.
UploadFile(w) ==
  /\ req[w].pc = "u_file"
  /\ door = "mono"
  /\ \/ /\ InsertFile(req[w].file, req[w].addr)
        /\ UNCHANGED unrecorded
     \/ /\ "db" \in Faults
        /\ unrecorded' = unrecorded \cup {req[w].file}
        /\ UNCHANGED fileRow
  /\ Goto(w, "u_user")
  /\ UNCHANGED <<disk, object, userRow, mq, config, created, assembled, acked, deleted>>

\* The same insert by RPC: an error is reply -6, a statement that failed is not
\* looked at.
SvcUploadFile(w) ==
  /\ req[w].pc = "u_file"
  /\ door = "micro"
  /\ \E res \in ExecAction :
       /\ OrmOnFileUploadFinished(res, req[w].file, req[w].addr)
       /\ IF IsError(res) THEN Answer(w) ELSE Goto(w, "u_user")
       /\ unrecorded' = IF res = "failed" THEN unrecorded \cup {req[w].file}
                                          ELSE unrecorded
  /\ UNCHANGED <<disk, object, userRow, mq, config, created, assembled, acked, deleted>>

\* OnUserFileUploadFinished of the monolith; a failure is reply -6.
UploadUser(w) ==
  /\ req[w].pc = "u_user"
  /\ door = "mono"
  /\ \/ /\ InsertUserFile(req[w].user, req[w].file)
        /\ Goto(w, "u_reply")
     \/ /\ "db" \in Faults
        /\ Answer(w)
        /\ UNCHANGED userRow
  /\ UNCHANGED <<disk, object, fileRow, mq, config, ghosts>>

\* The same insert by RPC: only a call that came back with Suc is OK.
SvcUploadUser(w) ==
  /\ req[w].pc = "u_user"
  /\ door = "micro"
  /\ \E res \in ExecAction :
       /\ OrmOnUserFileUploadFinished(res, req[w].user, req[w].file)
       /\ IF res = "done" THEN Goto(w, "u_reply") ELSE Answer(w)
  /\ UNCHANGED <<disk, object, fileRow, mq, config, ghosts>>

\* The reply OK.
UploadReply(w) ==
  /\ req[w].pc = "u_reply"
  /\ acked' = acked \cup {<<req[w].user, req[w].file>>}
  /\ Answer(w)
  /\ UNCHANGED <<storage, mq, config, created, assembled, deleted, unrecorded>>

--------------------------------------------------------------------------------
(* TryFastUploadHandler *)

StartFastAs(w, n, f) ==
  req' = [req EXCEPT ![w] = [Idle EXCEPT !.pc = "u_user", !.user = n, !.file = f]]

\* A file with a row is the user's at once; whether it is still there is not
\* looked at.
StartFast(w, n, f) ==
  /\ door = "mono"
  /\ req[w] = Idle
  /\ HasFileMeta(f)
  /\ StartFastAs(w, n, f)
  /\ UNCHANGED <<storage, mq, config, ghosts>>

SvcStartFast(w, n, f) ==
  /\ door = "micro"
  /\ req[w] = Idle
  /\ OrmFileAddr(f) # "none"
  /\ StartFastAs(w, n, f)
  /\ UNCHANGED <<storage, mq, config, ghosts>>

--------------------------------------------------------------------------------
(* FileDeleteHandler, FileMetaUpdateHandler *)

\* GetFileMetaDB: without a row the reply is an error.
StartDelete(w, n, f) ==
  /\ door = "mono"
  /\ req[w] = Idle
  /\ HasFileMeta(f)
  /\ req' = [req EXCEPT ![w] = [Idle EXCEPT !.pc = "x_remove", !.user = n,
                                            !.file = f, !.addr = fileRow[f]]]
  /\ UNCHANGED <<storage, mq, config, ghosts>>

\* os.Remove of the address read; its error is ignored.
DeleteRemove(w) ==
  /\ req[w].pc = "x_remove"
  /\ Remove(req[w].addr, req[w].file)
  /\ deleted' = IF req[w].addr \in Root THEN deleted \cup {req[w].file} ELSE deleted
  /\ Goto(w, "x_mark")
  /\ UNCHANGED <<body, fd, object, tables, mq, config, created, assembled, acked, unrecorded>>

\* Only the user's row is marked: tbl_file keeps its own.
DeleteMark(w) ==
  /\ req[w].pc = "x_mark"
  /\ \/ DeleteUserFile(req[w].user, req[w].file)
     \/ "db" \in Faults /\ UNCHANGED userRow
  /\ Answer(w)
  /\ UNCHANGED <<disk, object, fileRow, mq, config, ghosts>>

\* One statement; the query after it is malformed, so that the reply is an
\* error whether or not the name was changed.
Rename(n, f) ==
  /\ door = "mono"
  /\ RenameFileName(n, f)
  /\ UNCHANGED <<disk, object, fileRow, mq, server>>

--------------------------------------------------------------------------------
(* DownloadHandler, RangeDownloadHandler, DownloadURLHandler *)

StartServe(w, pc, f, a) ==
  req' = [req EXCEPT ![w] = [Idle EXCEPT !.pc = pc, !.file = f, !.addr = a]]

\* The monolith hands out a signed link to a file in OSS, and the client follows
\* it.  (Its links to other files lead to its DownloadHandler, which answers
\* every request with an error: QueryUserFileMeta is malformed SQL.)
StartLink(w, f) ==
  /\ door = "mono"
  /\ req[w] = Idle
  /\ fileRow[f] = "oss"
  /\ StartServe(w, "d_serve", f, "oss")
  /\ UNCHANGED <<storage, mq, config, ghosts>>

\* The download service: from the merge root, Ceph, or OSS; an address in the
\* monolith's directory is "File not found".
StartDownload(w, f) ==
  /\ door = "micro"
  /\ req[w] = Idle
  /\ OrmFileAddr(f) \in {"merge"} \cup Remote
  /\ StartServe(w, "d_serve", f, OrmFileAddr(f))
  /\ UNCHANGED <<storage, mq, config, ghosts>>

\* Its links: to itself for the merge root and Ceph, to OSS.
StartDownloadURL(w, f) ==
  /\ door = "micro"
  /\ req[w] = Idle
  /\ OrmFileAddr(f) = "oss"
  /\ StartServe(w, "d_serve", f, "oss")
  /\ UNCHANGED <<storage, mq, config, ghosts>>

\* A range download takes the merge root's file, whatever the row says, and
\* without one.
StartRange(w, f) ==
  /\ door = "micro"
  /\ req[w] = Idle
  /\ StartServe(w, "d_range", f, "merge")
  /\ UNCHANGED <<storage, mq, config, ghosts>>

\* The client receives what is at the address by now.
DownloadServe(w) ==
  /\ req[w].pc \in ServePCs
  /\ Answer(w)
  /\ UNCHANGED <<storage, mq, config, ghosts>>

--------------------------------------------------------------------------------
(* Environment *)

\* The server stops, with every request, and is started again; it dials anew.
ServerCrash ==
  /\ "crash" \in Faults
  /\ \E w \in Workers : req[w] # Idle
  /\ req' = [w \in Workers |-> Idle]
  /\ fd' = [p \in Procs |-> IF p \in Workers THEN None ELSE fd[p]]
  /\ channel' \in DialAtStart
  /\ UNCHANGED <<path, body, object, tables, queue, lost, config, ghosts>>

ServerChannelCloses ==
  /\ ChannelCloses
  /\ UNCHANGED <<storage, server>>

--------------------------------------------------------------------------------

StoreInit ==
  /\ door \in Doors
  /\ store \in StoreTypes
  /\ req = [w \in Workers |-> Idle]
  /\ created = [f \in Files |-> 0]
  /\ assembled = {}
  /\ acked = {}
  /\ deleted = {}
  /\ unrecorded = {}

Start(w) ==
  \/ \E f \in Files :
       StartLink(w, f) \/ StartDownload(w, f) \/ StartDownloadURL(w, f)
         \/ StartRange(w, f)
  \/ \E n \in Users, f \in Files :
       \/ StartUpload(w, n, f)
       \/ StartFast(w, n, f) \/ SvcStartFast(w, n, f)
       \/ StartDelete(w, n, f)

\* What both DoUploadHandlers do up to their inserts, and their reply.
UploadStep(w) ==
  \/ UploadWrite(w)
  \/ UploadLocal(w) \/ UploadCeph(w) \/ UploadOss(w) \/ UploadPublish(w)
  \/ UploadReply(w)

DoUpload(w)    == door = "mono" /\ (UploadStep(w) \/ UploadFile(w) \/ UploadUser(w))
SvcDoUpload(w) == door = "micro" /\ (UploadStep(w) \/ SvcUploadFile(w) \/ SvcUploadUser(w))

Handle(w) ==
  \/ DoUpload(w) \/ SvcDoUpload(w)
  \/ DeleteRemove(w) \/ DeleteMark(w)
  \/ DownloadServe(w)

ServerEnv ==
  \/ \E n \in Users, f \in Files : Rename(n, f)
  \/ ServerCrash \/ ServerChannelCloses

\* A request r holds what its step reads, and its worker's descriptor is i.
Holds(r, i) ==
  /\ r.pc # "idle" => r.file \in Files
  /\ r.pc \in UploadPCs => r.user \in Users
  /\ r.pc \in {"u_write", "u_store"} => r.addr \in Root /\ i \in Inodes
  /\ r.pc = "u_file" => r.addr \in Addr
  /\ r.pc \in DeletePCs => r.user \in Users /\ r.addr \in Addr
  /\ r.pc \in ServePCs => r.addr \in Addr

StoreTypeOK ==
  /\ door \in Doors
  /\ store \in StoreTypes
  /\ req \in [Workers -> Request]
  /\ \A w \in Workers : Holds(req[w], fd[w])
  /\ created \in [Files -> 0..MaxUploads]
  /\ assembled \subseteq Files
  /\ acked \subseteq Users \X Files
  /\ deleted \subseteq Files
  /\ unrecorded \subseteq Files

================================================================================
