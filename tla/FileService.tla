------------------------------- MODULE FileService -------------------------------
(***************************************************************************)
(* The server (FileStore) and the transfer process (Transfer) at work on   *)
(* the same directories, stores and tables, with the broker between them.    *)
(***************************************************************************)
EXTENDS FileStore, Transfer

vars == <<storage, mq, server, consumer>>

Init == StorageInit /\ MqInit /\ StoreInit /\ TransferInit

Server == (\E w \in Workers : Start(w) \/ Handle(w)) \/ ServerEnv

Consume == TransferStep \/ ConsumerCrash \/ ConsumerHangs \/ ConsumerStart

Next ==
  \/ Server /\ UNCHANGED consumer
  \/ Consume /\ UNCHANGED server

Spec == Init /\ [][Next]_vars

\* The consumer's loop is a goroutine with nothing else to wait for: it takes
\* what is in the queue and goes through with it.  Nothing makes a client send a
\* request, a handler be quick, a store fail, or anybody start the consumer again.
FairSpec == Spec /\ WF_vars(TransferStep /\ UNCHANGED server)

--------------------------------------------------------------------------------
(* Properties *)

\* Every variable has its type, and a request holds what its step reads.
TypeOK == StorageTypeOK /\ MqTypeOK /\ StoreTypeOK /\ TransferTypeOK

\* A row whose address is in OSS has an object there, put by the upload or by the
\* transfer before the row said so (handler.go:104, transfer/main.go:30),
\* whichever of them fails or crashes in between.
AddressHasObject == \A f \in Files :
  fileRow[f] = "oss" => object["oss"][f] # "none"

\* What may have become of file f other than by one upload: a second one, a
\* delete, or a put into Ceph whose error was ignored.
Disturbed(f) ==
  \/ created[f] > 1
  \/ f \in deleted
  \/ store = "ceph" /\ f \in lost

\* One upload of a file, recorded, leaves the whole of it at the address of its
\* row, now and wherever the transfer moves it, whatever fails or crashes
\* (handler.go:83 compares the size written; the put and the row follow).
DamagedOnlyByOthers == \A f \in Files :
  HasFileMeta(f) => CellAt(fileRow[f], f) = "good" \/ Disturbed(f)

\* What a client is served by worker w.
Served(w) == CellAt(req[w].addr, req[w].file)

\* A download that was given the address of a row is served the whole file even
\* if the transfer moves the file before it is read, and a range download, which
\* asks no row, is served no part of a recorded file (download.go:58, :112).
ServedIsWhole ==
  [][\A w \in Workers : DownloadServe(w) /\ ~Disturbed(req[w].file) =>
       IF req[w].pc = "d_serve"
         THEN Served(w) = "good"
         ELSE Served(w) = "part" => ~HasFileMeta(req[w].file)]_vars

\* The address of a file never leaves an object store again: an upload of the
\* file that comes after its transfer does not point the row back at a local
\* copy (db/file.go:15 insert ignore, and the consumer's update).
AddressNeverGoesBack ==
  [][\A f \in Files : fileRow[f] \in Remote => fileRow'[f] = fileRow[f]]_vars

\* What a user made of a row of their files stays: no upload, instant upload or
\* fault takes a new name back, and (db/userfile.go:22, insert ignore) none brings
\* a deleted row back either, whatever it is answered.
UserRowKept ==
  [][\A nf \in Users \X Files :
       /\ userRow[nf].renamed => userRow'[nf].renamed
       /\ userRow[nf].status = "deleted" => userRow'[nf].status = "deleted"]_vars

\* With the asynchronous transfer configured, a recorded local file reaches OSS
\* unless its message, put or update was lost, or the consumer stopped.
LocalForGoodOnlyIfLost == \A f \in Files :
  (store = "oss_async" /\ fileRow[f] \in Root)
    ~> (fileRow[f] = "oss" \/ f \in lost \/ ~consuming)

\* handler/handler.go:90 says of this step that it moves the file to Ceph or OSS,
\* synchronously or asynchronously: with the asynchronous transfer a recorded
\* file reaches OSS.  NOT true of this code even if nothing fails: the message is
\* published before the row is inserted, and the transfer may be done by then.
TransferReachesOSS == \A f \in Files :
  (store = "oss_async" /\ fileRow[f] \in Root) ~> (fileRow[f] = "oss")

--------------------------------------------------------------------------------
\* The ledger of UploadLedger is what these uploads promise as well, except that
\* a handler goes on when its insert into tbl_file fails.
Ledger == INSTANCE UploadLedger WITH
  recorded <- {f \in Files : HasFileMeta(f)} \cup unrecorded,
  owned    <- {nf \in Users \X Files : userRow[nf] # NoRow}
LedgerSpec == Ledger!Spec

================================================================================
