# LookForYou: a verification project

LookForYou is a file store: users sign in, upload files whole or in chunks, get
files they name by hash without uploading them ("fast upload"), and download,
rename and delete them. The repository holds it in two generations:

- the **monolith**: `service/apigw/main.go` starts the gin router of
  `route/router.go`, whose handlers are in `handler/`; they use `meta/`, `db/`
  (MySQL), `cache/redis`, `mq/` (RabbitMQ), `store/` (OSS, Ceph) and `util/`.
  `service/transfer` is a second process that consumes the queue;
- the **microservices** under `service/`, a rewrite in progress: upload,
  download, account and gateway services are there, and the client and the
  statements of the database proxy they call; the dispatch between the two is
  a stub in this commit (`service/dbproxy/rpc/proxy.go:11`).

This directory holds TLA+ specifications of the system, the TLC configurations
that check them on small instances, and proofs for TLAPS. Paths below are
relative to the repository root (`src/` in `PROJECT.json`).

## Inventory

| component | state | operations | what is hard | modules |
|---|---|---|---|---|
| multipart upload, `handler/mpupload.go` | Redis `HASH_UPID_<filehash>` and `MP_<uploadid>`; chunk directory; merge directory; rows of `tbl_file`, `tbl_user_file` | init (new or resumed), upload part, complete, cancel | goroutines over three stores without a transaction; key expiry; crashes; the merge script | `MultipartUpload`, `UploadLedger` |
| resumable client, `test/test_mpupload_resumable.go`, `test/upload_part.go` | what it was answered | init, parts in parallel, complete, run again | finishing after crashes | `ResumeClient` |
| single upload and file operations, `handler/handler.go`, `meta/`, `db/file.go`, `db/userfile.go` | local directories, objects in Ceph and OSS, rows of `tbl_file` and `tbl_user_file` | upload, fast upload, query, rename, delete, download, URL | one physical file shared by its owners; five stores without a transaction | `Storage`, `FileStore`, `FileService` |
| transfer, `service/transfer`, `mq/` | the server's channel, the queue, the message in hand | publish, consume, open, put, update the address | lost messages, a message before its row, channels that close and stay closed | `MqChannel`, `Transfer`, `FileService` |
| accounts, `handler/user.go`, `handler/auth.go`, `db/user.go`, `service/apigw/handler`, `service/account` | `tbl_user`, `tbl_user_token` | sign up, sign in, check token | races for a name, overlapping sign-ins, calls sent twice, the age of a token | `Account` |
| upload microservice, `service/upload/api` | as multipart and single upload | as multipart and single upload | merge without comparison, failures after rows, lost calls | `ServiceUpload`, `FileStore` |
| download microservice, `service/download/api` | none | download, range, URL | the file moves between the look-up and the read | `FileStore` |
| database proxy, `service/dbproxy` | none of its own | remote calls of `orm` | a call is carried out and its answer lost; `Suc` false without an error | in `FileStore`, `ServiceUpload` |
| stores, connections, registry, generated code, pages | none of their own | | | not modelled |

The components meet in five places: requests of one server share the Redis
keys, directories and rows; the transfer process shares `tbl_file` and the
directories with the server and hears from it through the queue; the
microservices reach MySQL through calls to the database proxy; the gateway
reaches the account service through calls that go-micro may give up on and send
again; the resuming client acts on the answers it gets and on what init lists.

How the modules build on each other:

    UploadLedger                             what every upload promises
    MultipartUpload                          chunked upload, monolith
      ResumeClient                           ... and the client that resumes it
      ServiceUpload                          ... as the upload service has it
    Storage                                  directories, object stores, tables
      MqChannel                              the channel and the queue
        FileStore    Transfer                the server, the transfer process
          FileService                        ... at work together
    Account                                  users and tokens

`MultipartUpload` and `FileService` both implement `UploadLedger`. The `MC*`
modules only hold values for TLC, and the `*_proofs` modules hold the theorems.
A definition that a comment calls a *variant* is not part of any specification:
it is a defect the code does not have, kept to see that the property it breaks
would notice.

## The core: `MultipartUpload`

A file is sent as chunks of 5 MB. `init` opens a session, or finds the one
`HASH_UPID_<filehash>` names and lists the chunks flagged in its hash
`MP_<uploadid>`; `uppart` writes a chunk file, compares its sha1 and flags it;
`complete` counts flags, runs a shell script that removes the merged file and
appends the chunks in order, compares the sha1, inserts two rows, deletes both
keys and the chunk directory. `cancel` (not mounted by the router) deletes keys
and chunks.

**Granularity.** One step is one command of one handler against one store: a
Redis command, an `os.Create`, the end of the copy loop, a `sha1sum`, the script's
`rm`, one `cat`, one insert. Every request is a worker with a program counter,
`req[w].pc`; anything may happen between two steps.

| code | actions |
|---|---|
| `InitialMultipartUploadHandler`, mpupload.go:51-155 | `StartInit` (owner check), `InitResume` / `InitFresh` / `InitRefused` (EXISTS), `InitGet`, `InitList` (HGETALL), `InitCount`, `InitMeta`, `InitExpire`, `InitSetHash` |
| `UploadPartHandler`, :158-223 | `StartPart` (create, truncating), `PartCopy` and `PartWrite` (body), `PartVerify`, `PartFlag` |
| `CompleteUploadHandler`, :226-315, `MergeChuncksByShell`, file.go:19-40, 113-135 | `StartComplete`, `MergeStart`, `MergeCat`, `MergeVerify`, `CompleteFile`, `CompleteUser`, `CompleteDelHash`, `CompleteDelMp`, `CompleteReply` |
| `CancelUploadHandler`, :318-362 | `StartCancel`, `CancelDelHash`, `CancelDelMp`, `CancelRemove` |
| Redis expiry, process crash | `ExpireHash`, `ExpireMp`, `Crash` |

**Data.** A chunk file is `"none"`, `"empty"`, `"good"` or `"bad"`; a merged file is
the sequence of what was appended, `0` for bad bytes. sha1 is taken to tell
different contents apart. A refused connection (`RedisMayRefuse`) is refused for
the whole request, as the pool decides when the handler takes it.

**Clients** send requests for sessions they were answered, for the file the
session was opened for, with indexes the file has: `told`, a ghost variable,
holds what was answered. A chunk's bytes may be cut short or garbled, and the
declared sha1 may be that of the good chunk or of other bytes; a good chunk that is
declared wrongly is refused like any mismatch.

**Database.** `DbMayFail` lets any statement fail. A select that fails reads as "not
uploaded" and init goes on (db/userfile.go:64, mpupload.go:67); the result of an insert
is ignored.

**Abstractions worth knowing.** One `cat` is atomic: two merges interleave chunk by
chunk. `ls` happens with the `rm` before it; nothing else changes what it could
see in between that the properties tell apart. A crash takes the scripts
of the server with it. Disk errors other than a short body are left out, and so
are files of 0 bytes (`ChunkCountAssumption`), which this code cannot complete:
the merge of no chunks leaves no file to compare.

### Properties

| name | says | why it could fail |
|---|---|---|
| `RecordedWasAssembled` | a file is recorded only after its exact content was put together | two merges of one path, a part rewritten under a merge, bad bytes that pass the chunk check |
| `OwnedIsRecorded`, `AckedIsOwned` | rows and reply come in order | a crash between the inserts, retries of a completion |
| `FlaggedChunkOnDisk` | what a resuming client skips has a file | order of file and flag, expiry, removal |
| `DamagedOnlyByRemerge` | one completion never damages what it recorded | parts that arrive late, overlapping sessions |
| `LedgerSpec` | refinement of `UploadLedger`: assembled, recorded, owned, acknowledged, never taken back | any of the above |
| `ResumeFinishes` (`ResumeClient`) | running the client again finishes the upload | half merges, half deleted sessions, stale flags |
| `FinishedMeansStored` (`ResumeClient`) | finished means rows and intact file | the same |
| `ResumedMergeIsWhole` (`ResumeClient`) | when a resumed upload is compared, what was merged is the upload | partial merges of crashed completions, chunks of several runs |
| `ProgressKept` (`ResumeClient`) | the session and its flags stay under the file's key until the user owns the file | an init that opens another session, keys deleted too early |

*Damaged only by* means among the chunked handlers, here and in `ServiceUpload`. The
merged file lies in the directory that `FileDeleteHandler` and the upload service's
`DoUploadHandler` remove from and write to as well; these are in `FileService`, and
the two are not composed.

Three statements of the repository about itself do not hold, and a run shows a
behaviour for each:

- `RecordedFileIsIntact` (run `intact`): a second completion of a finished session
  is let through (no key: 0 flags of 0) and removes the merged file first.
- `FlaggedChunkIsWhole` (run `flagged`): a flagged chunk that is sent again is
  truncated first, and the flag stays if the copy fails. In `resume`, where the
  client never sends a listed chunk and no body is damaged, it does hold.
- `ChunksRemovedAtReply` (run `cleanup`): the removal script only matches
  `/data/chunks/`, the configured chunk root is elsewhere.

### `ResumeClient`

The client of `-tcase resume`: init, the first `Quota` chunks the answer does not
list, each in its own goroutine, then complete; `test/README.md:50` tells the user
to run it again until the answer is OK. The model adds at most `MaxCrashes` server
crashes. The client compares the code of the init reply with
`cmn.FileAlreadExists`, which is 10006 (common/code.go:21), where the server answers
-2; it returns all the same, because such a reply carries no upload id
(`AlreadyStored`). The client is alone and has fewer requests under way than the pool
has connections (conn.go:18), so no connection is refused: `ClientAssumption` has
`RedisMayRefuse = FALSE`.

*Fairness.* `WF(ClientStep)`: the user does run the client again, and its
goroutines do send. `WF(Serve(w))` for each worker: gin gives every request a
goroutine of its own, and no handler waits for another one. Crashes and expiry
are not fair; expiry is left out of this specification, because a session lasts
12 hours.

## Files, stores and the transfer: `FileService`

`FileService` is the server (`FileStore`) and the transfer process (`Transfer`), with
the broker between them (`MqChannel`), over the directories, stores and tables
they share (`Storage`).

**Storage.** One operator per statement `db/` runs on the two tables, and one per
system call. A file is named by the sha1 of its content, so a path, object key
or row belongs to one content; what can differ is how much of it is there:
`"none"`, `"part"` or `"good"`. A path names an *inode*: `os.Create` truncates
the inode an existing path names, `os.Remove` takes the path away, and a process
that has opened a file keeps its inode whatever becomes of the path. So a second
upload really does shorten the file a transfer is reading, and a delete does not.

**Two deployments and four configurations.** `door` is `"mono"` or `"micro"`, `store`
is one of `CurrentStoreType` / `AsyncTransferEnable`: local, Ceph, OSS, OSS with
asynchronous transfer. Both are chosen once, in `Init`, from sets that are
constants.

| code | actions |
|---|---|
| `DoUploadHandler`, handler.go:36-143 and service/upload/api/upload.go:36-153 | `StartUpload` (create), `UploadWrite`, then by configuration `UploadLocal` / `UploadCeph` / `UploadOss` / `UploadPublish`; `UploadFile`, `UploadUser` (monolith) or `SvcUploadFile`, `SvcUploadUser` (calls to the proxy); `UploadReply` |
| `TryFastUploadHandler`, handler.go:306-350, upload.go:155-201 | `StartFast`, `SvcStartFast`, then as an upload from its user row on |
| `FileDeleteHandler`, handler.go:283-304 | `StartDelete` (read row), `DeleteRemove`, `DeleteMark` |
| `FileMetaUpdateHandler`, handler.go:251-281 | `Rename` |
| `DownloadURLHandler`, handler.go:352-371; service/download/api/download.go | `StartLink`; `StartDownload`, `StartDownloadURL`, `StartRange`; `DownloadServe` |
| `mq/producer.go` | `DialAtStart`, `PublishSent`, `PublishLost`, `PublishRefused`, `ChannelCloses` |
| `mq/consumer.go` | `Take`, `ConsumerHangs`, `LoseBuffered` |
| `ProcessTransfer`, service/transfer/main.go | `TransferOpen`, `TransferPut`, `TransferUpdate` |
| a process stops and is started | `ServerCrash`, `ConsumerCrash`, `ConsumerStart` |

**Failure** is chosen by `Faults`: a full disk, an object store, a statement, a call
to the proxy (which may be carried out and lose its answer), a connection to
the broker, a crash. An error the handler ignores leads on, one it answers
ends the request, as the code has it. `deleted`, `lost` and `unrecorded` are ghosts
that remember which file something happened to.

**Abstractions worth knowing.** Writing a body, putting an object and serving a
file are one step each. `ProcessTransfer` never closes the file it opened; the
model closes it when the message is done, the code when the garbage collector
gets to it. A publish on a channel that has closed is refused; the library may also
leave it hanging, because nobody reads `notifyClose`: that is a worker that takes no
further step, which the model allows, as no fairness is assumed of handlers. Bodies cut short in the request never reach `os.Create`: the handler
reads the whole body first.

| property | says | why it could fail |
|---|---|---|
| `AddressHasObject` | a row that points into OSS has an object there | order of put and row, in the handler and in the consumer; failures between |
| `DamagedOnlyByOthers` | what a row points to is the whole file, unless a second upload, a delete, or an ignored error of Ceph touched it | a short write that is recorded, a transfer that reads a file that is being written |
| `ServedIsWhole` | what a client is served of an undisturbed recorded file is all of it, also if the transfer moves the file between look-up and read | removal after a transfer; range downloads ask for no row |
| `AddressNeverGoesBack` | a row that points into a store never points to the local disk again | an upload of the same file after its transfer |
| `UserRowKept` | an upload or fault never takes back a new name, or revives a deleted row | insert against replace |
| `LedgerSpec` | refinement of `UploadLedger` | order of the inserts, crashes, lost answers |
| `LocalForGoodOnlyIfLost` | liveness: with asynchronous transfer a recorded local file reaches OSS unless its message, put or update was lost, or the consumer stopped | a message nobody takes |

`UserRowKept` is a statement of what the code does, and a user may well dislike it:
one who deletes a file and uploads it again is told OK and does not get it back.

`TransferReachesOSS` (run `stuck`) does not hold, though nothing fails: the message is
published at handler.go:120, before the row is inserted at :132; the consumer
may be done by then, finds no row to update, and takes that for success
(db/file.go:104).

*Fairness.* `FairSpec` assumes `WF(TransferStep)` alone: the consumer's loop is a
goroutine that waits for nothing but the queue, and `ProcessTransfer` has no wait of
its own. Nothing is assumed of clients, handlers, stores or of whoever starts
a process again; so the conclusion has to allow for `lost` and for a consumer that
stopped.

## The upload service: `ServiceUpload`

`service/upload/api/mpupload.go` shares its first two handlers with the monolith, and
`ServiceUpload` shares their actions: it extends `MultipartUpload` and uses its `InitStep`,
`PartStep`, `StartPart` and `StartComplete` unchanged. What differs is written out:

| code | actions |
|---|---|
| the uploaded check by the proxy, :73 | `SvcStartInit` (a failed call reads as "not uploaded") |
| merge, :272-289 | `SvcMergeStart` (truncate), `SvcCat` (each merge writes at an offset of its own, where the monolith appends) |
| inserts by the proxy, :291-318 | `SvcFile`, `SvcUser` (both are called before either error is looked at) |
| the end, :320-361 | `SvcDelHash`, `SvcDelMp` (0 keys deleted is an error), `SvcPublish` |

| property | says | why it could fail |
|---|---|---|
| `StoredBeforeTold` | a completion that was answered OK or sent to the transfer has both rows | results looked at late, calls carried out and lost, crashes |
| `DamagedOnlyByOverlap` | the recorded file is the right one unless merges overlapped, a chunk was sent again, or a completion found no chunk count | nothing compares the merged file |
| `SentOnce` | completions that race for a session send its transfer once, unless a late part or init brings the hash back | both pass the count check |

`StoredBeforeTold` needs statements that succeed (`DbMayFail = FALSE`): `Suc` is never
looked at, so a statement that fails behind a call that returns is told OK.

## Accounts: `Account`

A request to sign up or in has up to two *attempts*. In the monolith the one
attempt is the handler; with the gateway, attempts are calls of the account
service, which it carries out whether or not the gateway still waits. So a call
that was given up on may change the rows later.

| code | actions |
|---|---|
| `DoSignupHandler`, `DoSignInHandler`, handler/user.go:18-90 | `StartSignup`, `StartSignin`, `ReplySignup`, `ReplySignin` |
| `UserSignup`, `UserSignin`, `UpdateToken`, db/user.go:8-70 | actions of the same names |
| `service/apigw/handler/user.go`, `service/account/handler/user.go` | `GatewaySignup`, `GatewaySignin`; `SvcSignup`, `SvcSignin` |
| go-micro (external) | `Retry`, `GiveUp`, `CallLost` |
| `HTTPInterceptor`, `IsTokenValid`, auth.go, user.go:120-147 | `StartCheck`, `CheckRow` |

A token is the second it was made in. `head`, chosen in `Init`, is what the first
eight digits of its md5 read as, which is arbitrary.

| property | says | why it could fail |
|---|---|---|
| `OneSignupWins` | of racing sign-ups for one name one wins for good, and no other is told so | insert ignore succeeds without a row; calls sent twice |
| `LockedOutOnlyByOverlap` | the token a user was told last is the one in the table, unless sign-ins of theirs overlapped, one was saved and never told, or the next reply is on its way; and the next sign-in that overlaps no other puts an end to it | replace into, late attempts, crashes before the reply |

The code does lock users out when their sign-ins overlap, and the property excuses it
while it lasts (`crossed`). `alone` holds the users whose latest token was made while no
other was untold; its reply takes the user out of `crossed`. A statement that fails may
have been carried out all the same.

`OneSignupWins` does not say that the winner is told: a sign-up that is sent twice may be
refused by its own first attempt.

`CheckedTokenIsFresh` (run `token`) does not hold: `IsTokenValid` reads the head of the md5
as the time the token was made (user.go:128), and `GenToken` puts the time last.

## Runs

| run | instance | shows |
|---|---|---|
| `core` | 1 session, 2 chunks, 2 workers, bodies that may arrive garbled, files a crash leaves short, expiry, crashes | the invariants of `MultipartUpload` |
| `sessions` | 2 upload ids, 1 chunk, 2 workers, cancel, refusing pool | refinement and `DamagedOnlyByRemerge` when sessions overlap |
| `faults` | 1 session, 1 chunk, failing inserts, refusing pool, matching removal script, cancel | what needs no assumption on the inserts or the disk layout |
| `resume` | 3 chunks, 2 per run, 3 upload ids, 2 crashes | the client finishes, from where it was, and finished means stored |
| `service` | 1 user, 1 file, 2 workers, both deployments, all configurations, all faults, at most 2 uploads begun (about 1.1 million states) | everything under `FileService` |
| `microservice` | 1 session, 2 chunks, 2 workers, calls that fail or lose their answer, expiry, crashes (about 4.5 million states) | everything under `ServiceUpload` |
| `account` | 1 user, 2 passwords, 2 workers, 3 seconds, both deployments, all faults (about 520,000 states) | everything under `Account` |
| `intact`, `flagged`, `cleanup`, `stuck`, `token` | the smallest that has the case | the five counterexamples |

*Bounds.* Two workers are the least for every pairwise race; a third would only
repeat one of the two roles, as the handlers share no lock or counter. One file
is enough where files are independent: no statement, path or message is about
two of them, and what one file's messages do to another's is wait. One user is
enough where the code tells users apart only by the key of their own row; the
one step of one user that touches another's file, the removal by a delete, is
about the file and not about who asks. Two chunks are the least with an order, a
missing chunk and a duplicate. One upload id is used once, so their number
bounds the sessions of a behaviour: 2 allow an orphaned session beside a live
one, and in `resume` every crash costs at most one, so 3 are enough for 2
crashes. `MaxUploads` bounds the uploads of a file: 2 are the least for an
upload that meets an earlier one, its transfer or its delete. An upload makes at
most one inode, so 2 of them never run out. `MaxClock` 2 lets two sign-ins fall
into one second (where their tokens are equal) or into different ones; `token`
takes 3, so that a token can be older than its `Day` of 1. `merges` and `closed`
saturate at 2. There is no limit on requests, retries, expiries or (outside
`resume`) crashes. Deadlock is not checked, as a server without requests may
rest.

*Settings.* `DefaultStatus` is the default of the column `tbl_user_file.status`,
which inserts of the monolith leave out and `IsUserFileUploaded` compares with 1; the
schema is not in the repository, so runs take 0 and 1. `Routes` says whether `cancel`
is mounted: the router does not, the client of `test/test_mpupload_cancel.go` calls
it. `microservice` damages no body (`Damage = {}`), to stay within minutes; chunks a crash
leaves empty are in it. For damaged bodies there is the theorem `DamagedByOverlap`: for
bodies cut short without an assumption, for garbled ones under `Declared`.

## Proofs

For any number of users, files, upload ids, workers, chunks and inodes, any
fault set, deployment and configuration:

| module | theorem | property | assumes |
|---|---|---|---|
| `MultipartUpload_proofs` | `TypeCorrect` | `TypeOK` | |
| `UploadSafety_proofs` | `RecordedAssembled` | `RecordedWasAssembled` | |
| | `OwnedRecorded`, `AckedOwned` | `OwnedIsRecorded`, `AckedIsOwned` | inserts succeed |
| | `DamagedByRemerge` | `DamagedOnlyByRemerge` | |
| | `FlaggedOnDisk` | `FlaggedChunkOnDisk` | the removal script does not match the chunk root |
| | `ImplementsLedger` | `Spec => LedgerSpec` | inserts succeed |
| `ResumeClient_proofs` | `ClientTypeCorrect` | `ClientTypeOK` | |
| | `FinishedStored` | `FinishedMeansStored` | inserts succeed |
| | `FlaggedWhole` | `FlaggedChunkIsWhole` | `Declared` |
| | `ResumedMergeWhole` | `ResumedMergeIsWhole` | `Declared` |
| | `ProgressIsKept` | `ProgressKept` | inserts succeed |
| | `ClientIsServed` | `ClientSpec => Spec` | |
| | `ClientImplementsLedger` | `ClientSpec => LedgerSpec` | inserts succeed |
| `FileService_proofs` | `TypeCorrect` | `TypeOK` | |
| `FileSafety_proofs` | `AddressesHaveObjects` | `AddressHasObject` | |
| | `AddressesNeverGoBack`, `UserRowsKept` | `AddressNeverGoesBack`, `UserRowKept` | |
| | `ServiceImplementsLedger` | `Spec => LedgerSpec` | |
| `FileIntact_proofs` | `RecordedIsWhole` | `DamagedOnlyByOthers` | |
| | `ServedWhole` | `ServedIsWhole` | |
| `ServiceUpload_proofs` | `SvcTypeCorrect` | `SvcTypeOK` | |
| | `DamagedByOverlap` | `DamagedOnlyByOverlap` | `Declared` |
| | `OneTransfer` | `SentOnce` | |
| | `RowsBeforeReply` | `StoredBeforeTold` | statements succeed |
| `Account_proofs` | `AccountTypeCorrect` | `TypeOK` | |
| | `SignupWins` | `OneSignupWins` | |
| | `LockedOutByCrossing` | `LockedOutOnlyByOverlap` | |

*Inserts succeed* is `DbMayFail = FALSE` (no statement fails): the results of the inserts are ignored, and
with failing ones the client is told OK and owns nothing, so the theorems would be
false. `Declared` is about the client: the sha1 it declares is that of the chunk it was
to send, as in `test/upload_part.go:48`, which hashes the bytes it posts. Where nothing
garbles a body (`"bad"` is not in `Damage`, as in the runs `resume` and
`microservice`) every behaviour has it: `WholeCopiesDeclare` and
`SvcWholeCopiesDeclare` prove that, so that the two kinds of theorem need no
assumption there. Where bodies may be garbled it lets the disk hold anything
between two steps and only rules out a client that asks for the wrong bytes, of
which the three theorems are false.

### `MultipartUpload`

`TypeOK` is `Typed` (every variable has its type) and `RequestOK` (a request carries what
its step reads). `Typed` is not inductive alone: that `CompleteUser` inserts a pair of
user and file needs a request at that step to carry them. `TypeInv` adds `OriginOK`
(an upload id is used for one file) to both, and is preserved by every action of
`Next`.

The other invariants only concern a completion between its merge and its reply.
`StepKinds` classifies: a step is *quiet* (merged files, rows and ledger stay, and no
request enters those steps) or belongs to a completion. Then

- `RecordedWasAssembled` needs `AssembledOK`: whoever is past the comparison has a
  file in `assembled`, because the comparison found its content there and every
  append that completes a content records it;
- `OwnedIsRecorded` and `AckedIsOwned` need `InsertsOK`: whoever is past an insert has
  made it;
- `DamagedOnlyByRemerge` needs `MergesOK`: with a single merge begun, at most one
  request is merging or recording, and once it has verified nobody is merging;
- `FlaggedChunkOnDisk` needs `PartOnDisk`: a part past `os.Create` has its file;
- the refinement maps `MergeCat` to `Assemble`, the inserts to `Record` and `Own`, the
  reply to `Acknowledge`, and everything else to a stutter.

### `ResumeClient`

That finished means an intact file is not a consequence of `DamagedOnlyByRemerge`:
with crashes the client does merge twice. The invariant `ClientInv` says instead
what one client, that waits for its answers, can have going on: `PhaseOK`, all requests
the server is at belong to the phase the client is in, so that there is at most one
completion and no init beside it; `ContentOK`, what that completion is past (merge,
comparison, inserts) has been done and nothing undoes it. It rests on `TypeInv`
of the server, and `FinishedStored` also on `OwnershipInv`. A step of the client is a
step of the server or a stutter (`ClientNextIsNext`); so `ClientIsServed`, and every
theorem of `MultipartUpload` and its refinement hold of the client too.

`FlaggedChunkIsWhole` and `ResumedMergeIsWhole` are false of clients in general; they
follow from what this one does, and `SessionInv` says it, part by part. What is flagged
is good (`FlagsGood`), because a part that is being served is never one that is
flagged or one another worker serves (`SendingOK`): the client leaves out what init
lists, and an init that is answered holds a session of the whole upload whose flags
it did not touch (`HashOpened`, `OpeningOK`). A completion is let through only by as
many flags as the upload has chunks. Flags are numbers of chunks, so these are all of
them, which is the one argument about cardinalities (`AllOfThem`); then the merge
finds each chunk good and appends them in order (`MergingOK`), starting from an
empty file whatever a crash left there. `EmptiedOK` says in what order a completion takes
the session apart, so that a crash in the middle leaves no session that looks open.

`ProgressKept` needs one fact more, `HashHeld`: an init that is about to write the key
finds there nothing, or its own session. Only the completion takes a session away, and
by then its user owns the file (`OwnershipInv`).

### `FileService`

`TypeOK` is inductive by itself; it says of every request and of the message in
hand what its step reads. `FileSafety_proofs` adds `SafeInv`: a request that is about to
insert an OSS address, and a transfer that is about to update one, has its object;
a request past its write has assembled the file; one about to insert a user's row
has the file's; whoever is about to reply owns the file; and there is no message and
no transfer but in the configuration that has them. Nothing a request relies on
can be taken back: `Grows` says so of objects, assembled files and rows, is shown
once for every action, and carries the invariant over the steps of others.

`DamagedOnlyByOthers` and `ServedIsWhole` need to know where bytes go.
`IntactInv` adds `PathsApart` (no inode belongs to two files, and only one
directory is in use), `WritesOwn` (who writes a file has it open under its own
path, so the only writers are the uploads `created` counts) and `Addresses` (an
address that is held by a request, by a message or by a row is one that its
upload stored), and then `Intact`: of an undisturbed file, each of these
addresses holds the whole content from the write on.

### `ServiceUpload`

`Shape` is the part of `SvcTypeOK` the other proofs need. `StoredInv` adds what a
completion past its inserts has in the tables, given what `failed` recorded of the first
call. `SentInv`: a session that was ended has a hash again only if it is in
`revived`, so that the second `DEL` that finds one adds nothing.

`SvcTypeOK` is not inductive either: a completion's place in the file, what it appends and
whom it stores it for have their types because of where the request came from.
`FormInv` adds that (`Carries`, `Origins`, `Sessions`).

`DamagedOnlyByOverlap` has two halves. `ChunkInv` is about what a merge finds: in a session
none of whose chunks was sent again, a flagged chunk is good and one that is being
sent is not flagged (`SentOK`), so that whoever passes the count check, with a count
there, finds all chunks good, and so it remains until its merge is over (`FindsAll`).
`MergeInv` is about what it leaves: of a file with a single merge, nobody else is
merging or recording, the merge has put a prefix of the chunks at its own offset, which
is the end of the file (`HasPut`), and the row is written when the prefix is the whole.
The exceptions of the property are the places where the two halves break.

### `Account`

`AccountInv` adds to `TypeOK`: an attempt carries what its request asked for
(`AttemptsOK`) and is at a step of its kind (`KindsOK`); an attempt that has added a row, or
found the password right, agrees with `pwd` (`PasswordsOK`); and, of tokens
(`TokensOK`), a user in `alone` has at most one attempt with a token that is not told
yet, which is the row once it is saved (`Single`), and of a user who has not crossed the
row is also known: it is the token told last, or the one being told (`Known`). `Single`
is what lets a reply that overlapped nothing clear `crossed`.

### Only model-checked

- Liveness, which the prover does not do: `ResumeFinishes`, `LocalForGoodOnlyIfLost`.
- The counterexamples.

The assumptions on constants (`NoneAssumption`, `ChunkCountAssumption`,
`ConfigAssumption`, `ClientAssumption`, `StorageAssumption`, `StoreAssumption`,
`RpcAssumption`, `AccountAssumption`) are evaluated by every run of their module.

## Not modelled

- **Stores, connections, registry** (`store/`, `db/mysql`, `config/`, consul):
  wrappers of client libraries without state of their own. **Generated code**
  (`service/account/proto`), entry points and static pages.
- **The proxy's dispatch.** `ExecuteAction` is an empty stub and its generated
  protocol is not in the repository. What a call does is taken from the client that
  makes it and the `orm` function it names. The user functions and listings of `orm`
  have no caller.
- **Queries** (`GetFileMetaHandler`, `FileQueryHandler`, user info) change nothing.
  The listing of a user's files includes deleted ones: it does not look at the
  status.
- **`DownloadHandler` of the monolith** answers every request with an error: the
  statement of `QueryUserFileMeta` is malformed (db/userfile.go:75). For the same
  reason `FileMetaUpdateHandler` answers 500 though the name is changed, which
  `Rename` has.
- **Routes.** As committed, `service/upload/route/router.go` registers `POST
  /file/upload` twice, at which gin panics at start-up; `ServiceUpload` and the
  micro door of `FileStore` are the handlers as they are written. The routers of the
  microservices mount no token check, so there is none to model.
- **Calls between the services** carry go-micro's defaults (one retry, a timeout),
  which are not in the repository. The statements behind the proxy are idempotent,
  so retries of those are not told apart from one call.
- **Files of 0 bytes**, file names (a name is the first one or a later one), sizes,
  disk errors other than a full disk or a short body.
- **Change of configuration** while rows of another one are there: `door` and
  `store` are constant in a behaviour.
- `GetLastFileMetas` and the in-memory map of `meta/filemeta.go`, which no handler
  calls.
