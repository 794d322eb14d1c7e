---------------------------- MODULE MultipartUpload ----------------------------
(***************************************************************************)
(* The resumable chunked upload of the monolith: handler/mpupload.go with   *)
(* the shell helpers of util/file.go, the two Redis key families it keeps   *)
(* (HASH_UPID_<filehash> and MP_<uploadid>), the chunk and merge           *)
(* directories, and the two MySQL inserts of db/file.go and db/userfile.go.*)
(*                                                                         *)
(* Every HTTP request runs in its own goroutine and talks to three stores  *)
(* that share no transaction.  A step of this module is therefore ONE      *)
(* command of a handler against ONE store; requests, crashes and key       *)
(* expiries interleave freely between commands.  A request begins with its *)
(* first command; one that this command turns away changes nothing.        *)
(*                                                                         *)
(* Data is kept to what can be told apart: a chunk file is absent, empty,  *)
(* good (the bytes of that part of the file) or bad (any other bytes), and *)
(* a merged file is the sequence of the chunks appended to it, a good one  *)
(* by its index and a bad one by 0.  sha1 tells these apart.               *)
(***************************************************************************)
EXTENDS Naturals, Sequences, FiniteSets

CONSTANTS
  Users,            \* user names
  Files,            \* file hashes, each the content the client wants stored
  UploadIds,        \* the upload ids time.Now().UnixNano() may generate
  Workers,          \* slots for concurrent requests (goroutines of gin)
  None,             \* no user, file or upload id
  ChunkCount,       \* ceil(filesize / 5MB) of each file
  Routes,           \* the multipart handlers the router mounts
  Damage,           \* how a part may go wrong: its copy leaves the file "empty",
                    \* or it is "bad": other bytes, or another sha1 declared
  RedisMayRefuse,   \* whether the Redis pool may hand out a dead connection
  DbMayFail,        \* whether a statement may fail
  DefaultStatus,    \* default of tbl_user_file.status (the schema is external)
  ChunkRootGuarded  \* whether the chunk root contains "/data/chunks/"

ASSUME NoneAssumption ==
  None \notin Users \cup Files \cup UploadIds
ASSUME ChunkCountAssumption ==
  ChunkCount \in [Files -> Nat \ {0}]
ASSUME ConfigAssumption ==
  /\ Routes \subseteq {"init", "uppart", "complete", "cancel"}
  /\ Damage \subseteq {"empty", "bad"}
  /\ RedisMayRefuse \in BOOLEAN
  /\ DbMayFail \in BOOLEAN
  /\ DefaultStatus \in Nat
  /\ ChunkRootGuarded \in BOOLEAN

VARIABLES
  hashUpid,   \* Redis HASH_UPID_<filehash>: upload id of the file's session
  mp,         \* Redis MP_<uploadid>: the session's hash
  chunk,      \* chunk files ChunckLocalRootDir/<uploadid>/<index>
  merged,     \* merged files MergeLocalRootDir/<filehash>
  tblFile,    \* rows of tbl_file (status CanUse, address in the merge root)
  userFile,   \* rows of tbl_user_file
  req,        \* the request each worker is serving
  fileOf,     \* ghost: the file an upload id was generated for, None if never
  told,       \* ghost: upload ids each user was answered
  acked,      \* ghost: completions answered OK
  assembled,  \* ghost: files whose merged file once had their exact content
  merges      \* ghost: merges begun per file (0, 1, or 2 for "several")

redis == <<hashUpid, mp>>
db    == <<tblFile, userFile>>
ghost == <<told, acked, assembled, merges>>
vars  == <<redis, chunk, merged, db, req, fileOf, ghost>>

--------------------------------------------------------------------------------
(* Data *)

\* Indexes a client numbers the chunks of file f with (test/upload_part.go
\* counts from 1), and the indexes of any file.
Indexes(f) == 1..ChunkCount[f]
Index == UNION {Indexes(f) : f \in Files}

Cell == {"none", "empty", "good", "bad"}

Session == [live : BOOLEAN, count : Nat, flags : SUBSET Index, ttl : BOOLEAN]
NoSession == [live |-> FALSE, count |-> 0, flags |-> {}, ttl |-> FALSE]

\* The content of file f, as a merge in index order would produce it.
Content(f) == [i \in Indexes(f) |-> i]

InitPCs   == {"i_exists", "i_get", "i_list",
              "i_count", "i_meta", "i_expire", "i_sethash"}
PartPCs   == {"p_write", "p_verify", "p_flag"}
MergePCs  == {"m_start", "m_cat", "m_verify"}
RecordPCs == {"c_file", "c_user", "c_delhash", "c_delmp", "c_reply"}
CancelPCs == {"x_delhash", "x_delmp", "x_remove"}
PCs == {"idle"} \cup InitPCs \cup PartPCs \cup MergePCs
         \cup RecordPCs \cup CancelPCs

Request ==
  [pc     : PCs,
   user   : Users \cup {None},
   file   : Files \cup {None},
   upid   : UploadIds \cup {None},
   index  : Index \cup {0},
   chunks : SUBSET Index]      \* chunks a merge has still to append

Idle == [pc |-> "idle", user |-> None, file |-> None, upid |-> None,
         index |-> 0, chunks |-> {}]

\* Worker w goes on at step pc.
Goto(w, pc) == req' = [req EXCEPT ![w].pc = pc]

\* Worker w goes on at step pc with upload id u.
GotoWith(w, pc, u) ==
  req' = [req EXCEPT ![w] = [@ EXCEPT !.pc = pc, !.upid = u]]

\* Worker w has chunks S left to merge.
GotoMerge(w, S) ==
  req' = [req EXCEPT ![w] =
            [@ EXCEPT !.pc = IF S = {} THEN "m_verify" ELSE "m_cat", !.chunks = S]]

\* Worker w answers its request and is free.
Answer(w) == req' = [req EXCEPT ![w] = Idle]

\* Redis commands on a session's hash.  HSET creates a missing key, without
\* a time to live; DEL and expiry remove all its fields.
HSetCount(s, n) == [s EXCEPT !.live = TRUE, !.count = n]
HSetMeta(s)     == [s EXCEPT !.live = TRUE]
HSetFlag(s, i)  == [s EXCEPT !.live = TRUE, !.flags = @ \cup {i}]
Expire(s)       == [s EXCEPT !.ttl = @ \/ s.live]

\* RemovePathByShell(chunk dir of u): the script deletes only below the
\* hard-coded "/data/chunks/", and reports success whether or not it did.
RemovePathByShell(u) ==
  chunk' = IF ChunkRootGuarded
             THEN [chunk EXCEPT ![u] = [i \in Index |-> "none"]]
             ELSE chunk

--------------------------------------------------------------------------------
(* InitialMultipartUploadHandler *)

\* IsUserFileUploaded: select ... where status=1.  Rows are inserted without
\* a status, so they count only if the column defaults to 1.  A select that
\* fails reads as "not uploaded".
IsUserFileUploaded(n, f) == DefaultStatus = 1 /\ <<n, f>> \in userFile

\* A file found to be the user's already is turned away (reply -2).
StartInit(w, n, f) ==
  /\ "init" \in Routes
  /\ req[w].pc = "idle"
  /\ ~IsUserFileUploaded(n, f) \/ DbMayFail
  /\ req' = [req EXCEPT ![w] = [Idle EXCEPT !.pc = "i_exists",
                                            !.user = n, !.file = f]]
  /\ UNCHANGED <<redis, chunk, merged, db, fileOf, ghost>>

\* The reply with upload id u, which the client may never receive.
ReplyUpInfo(w, u) ==
  /\ told' \in {told, told \cup {<<req[w].user, u>>}}
  /\ Answer(w)
  /\ UNCHANGED <<acked, assembled, merges>>

\* EXISTS HASH_UPID_: a live session is resumed.
InitResume(w) ==
  /\ req[w].pc = "i_exists"
  /\ hashUpid[req[w].file] # None
  /\ Goto(w, "i_get")
  /\ UNCHANGED <<redis, chunk, merged, db, fileOf, ghost>>

\* Variant: a session is begun whether or not there is one.
InitFreshAlways(w, u) ==
  /\ req[w].pc = "i_exists"
  /\ fileOf[u] = None
  /\ fileOf' = [fileOf EXCEPT ![u] = req[w].file]
  /\ GotoWith(w, "i_count", u)
  /\ UNCHANGED <<redis, chunk, merged, db, ghost>>

\* EXISTS found nothing: username + nanosecond clock, an id never used before.
InitFresh(w, u) ==
  /\ req[w].pc = "i_exists"
  /\ hashUpid[req[w].file] = None
  /\ fileOf[u] = None
  /\ fileOf' = [fileOf EXCEPT ![u] = req[w].file]
  /\ GotoWith(w, "i_count", u)
  /\ UNCHANGED <<redis, chunk, merged, db, ghost>>

\* A dead connection makes EXISTS read as FALSE and every HSET, EXPIRE and SET
\* a no-op whose error nobody looks at: the client gets an id Redis never saw.
InitRefused(w, u) ==
  /\ RedisMayRefuse
  /\ req[w].pc = "i_exists"
  /\ fileOf[u] = None
  /\ fileOf' = [fileOf EXCEPT ![u] = req[w].file]
  /\ ReplyUpInfo(w, u)
  /\ UNCHANGED <<redis, chunk, merged, db>>

\* Variant: EXISTS alone decides that there is an id to go on with.
InitGetUnchecked(w) ==
  /\ req[w].pc = "i_get"
  /\ GotoWith(w, "i_list", hashUpid[req[w].file])
  /\ UNCHANGED <<redis, chunk, merged, db, fileOf, ghost>>

\* GET HASH_UPID_: gone since EXISTS means redis.ErrNil and an error reply.
InitGet(w) ==
  /\ req[w].pc = "i_get"
  /\ LET u == hashUpid[req[w].file] IN
       IF u = None
         THEN Answer(w)
         ELSE GotoWith(w, "i_list", u)
  /\ UNCHANGED <<redis, chunk, merged, db, fileOf, ghost>>

\* HGETALL MP_: the flagged chunks.  Only a session without any is (re)written.
InitList(w) ==
  /\ req[w].pc = "i_list"
  /\ IF mp[req[w].upid].flags = {}
       THEN Goto(w, "i_count") /\ UNCHANGED ghost
       ELSE ReplyUpInfo(w, req[w].upid)
  /\ UNCHANGED <<redis, chunk, merged, db, fileOf>>

InitCount(w) ==
  /\ req[w].pc = "i_count"
  /\ mp' = [mp EXCEPT ![req[w].upid] = HSetCount(@, ChunkCount[req[w].file])]
  /\ Goto(w, "i_meta")
  /\ UNCHANGED <<hashUpid, chunk, merged, db, fileOf, ghost>>

\* HSET filehash, HSET filesize: two commands whose values nothing ever reads.
InitMeta(w) ==
  /\ req[w].pc = "i_meta"
  /\ mp' = [mp EXCEPT ![req[w].upid] = HSetMeta(@)]
  /\ Goto(w, "i_expire")
  /\ UNCHANGED <<hashUpid, chunk, merged, db, fileOf, ghost>>

InitExpire(w) ==
  /\ req[w].pc = "i_expire"
  /\ mp' = [mp EXCEPT ![req[w].upid] = Expire(@)]
  /\ Goto(w, "i_sethash")
  /\ UNCHANGED <<hashUpid, chunk, merged, db, fileOf, ghost>>

\* SET HASH_UPID_ with EX, then the reply.
InitSetHash(w) ==
  /\ req[w].pc = "i_sethash"
  /\ hashUpid' = [hashUpid EXCEPT ![req[w].file] = req[w].upid]
  /\ ReplyUpInfo(w, req[w].upid)
  /\ UNCHANGED <<mp, chunk, merged, db, fileOf>>

--------------------------------------------------------------------------------
(* UploadPartHandler *)

\* Variant: the flag is set before the chunk file exists.
StartPartFlagFirst(w, u, i) ==
  /\ "uppart" \in Routes
  /\ req[w].pc = "idle"
  /\ \E n \in Users : <<n, u>> \in told
  /\ i \in Indexes(fileOf[u])
  /\ mp' = [mp EXCEPT ![u] = HSetFlag(@, i)]
  /\ req' = [req EXCEPT ![w] = [Idle EXCEPT !.pc = "p_write", !.upid = u,
                                            !.index = i]]
  /\ UNCHANGED <<hashUpid, chunk, merged, db, fileOf, ghost>>

\* A client that was answered upload id u sends chunk i of the file it got u
\* for.  MkdirAll and os.Create: an existing chunk file is truncated.
StartPart(w, u, i) ==
  /\ "uppart" \in Routes
  /\ req[w].pc = "idle"
  /\ \E n \in Users : <<n, u>> \in told
  /\ i \in Indexes(fileOf[u])
  /\ chunk' = [chunk EXCEPT ![u][i] = "empty"]
  /\ req' = [req EXCEPT ![w] = [Idle EXCEPT !.pc = "p_write", !.upid = u,
                                            !.index = i]]
  /\ UNCHANGED <<redis, merged, db, fileOf, ghost>>

\* The copy loop has written some of the body.
PartCopy(w) ==
  /\ "bad" \in Damage
  /\ req[w].pc = "p_write"
  /\ chunk' = [chunk EXCEPT ![req[w].upid][req[w].index] = "bad"]
  /\ UNCHANGED <<redis, merged, db, req, fileOf, ghost>>

\* The body is copied until the first read error, which may come early.
PartWrite(w) ==
  /\ req[w].pc = "p_write"
  /\ \E got \in {"good"} \cup Damage :
       chunk' = [chunk EXCEPT ![req[w].upid][req[w].index] = got]
  /\ Goto(w, "p_verify")
  /\ UNCHANGED <<redis, merged, db, fileOf, ghost>>

\* sha1sum of the file now on disk against the hash the client declared: that
\* of the good chunk, or, of a bad part, that of other bytes.  On a mismatch
\* the handler dereferences a nil error, panics, and gin answers 500; the file
\* stays as it is, and so does a flag set earlier.
PartVerify(w) ==
  LET cell == chunk[req[w].upid][req[w].index] IN
  /\ req[w].pc = "p_verify"
  /\ \/ cell \in {"good"} \cup (Damage \cap {"bad"}) /\ Goto(w, "p_flag")
     \/ (cell # "good" \/ "bad" \in Damage) /\ Answer(w)
  /\ UNCHANGED <<redis, chunk, merged, db, fileOf, ghost>>

\* Variant: chunks are flagged under an index that is off by one.
PartFlagNext(w) ==
  /\ req[w].pc = "p_flag"
  /\ mp' = [mp EXCEPT ![req[w].upid] = HSetFlag(@, req[w].index + 1)]
  /\ Answer(w)
  /\ UNCHANGED <<hashUpid, chunk, merged, db, fileOf, ghost>>

\* HSET MP_ chkidx_i 1 and reply OK.  An expired or deleted key comes back
\* with this flag alone; on a dead connection nothing is stored.
PartFlag(w) ==
  /\ req[w].pc = "p_flag"
  /\ \/ mp' = [mp EXCEPT ![req[w].upid] = HSetFlag(@, req[w].index)]
     \/ RedisMayRefuse /\ UNCHANGED mp
  /\ Answer(w)
  /\ UNCHANGED <<hashUpid, chunk, merged, db, fileOf, ghost>>

--------------------------------------------------------------------------------
(* CompleteUploadHandler *)

\* HGETALL MP_: as many flags as chunkcount says.  A missing key has neither,
\* and 0 = 0 lets the request through.
AllFlagged(s) == Cardinality(s.flags) = s.count

\* A client that was answered upload id u asks to have its file put together.
\* Replies -1 (Redis) and -2 (chunks missing) change nothing.
StartComplete(w, n, u) ==
  /\ "complete" \in Routes
  /\ req[w].pc = "idle"
  /\ <<n, u>> \in told
  /\ AllFlagged(mp[u])
  /\ req' = [req EXCEPT ![w] = [Idle EXCEPT !.pc = "m_start", !.user = n,
                                            !.file = fileOf[u], !.upid = u]]
  /\ UNCHANGED <<redis, chunk, merged, db, fileOf, ghost>>

\* Variant: the chunks are appended to what an earlier merge left behind.
MergeStartAppends(w) ==
  /\ req[w].pc = "m_start"
  /\ GotoMerge(w, {i \in Index : chunk[req[w].upid][i] # "none"})
  /\ UNCHANGED <<redis, chunk, merged, db, fileOf, ghost>>

\* MergeFileCMD: rm -f the merged file, then ls the chunk directory.  The
\* listing commutes with every other step that may come between the two.
MergeStart(w) ==
  LET f == req[w].file
      present == {i \in Index : chunk[req[w].upid][i] # "none"}
  IN
  /\ req[w].pc = "m_start"
  /\ merged' = [merged EXCEPT ![f] = <<>>]
  /\ merges' = [merges EXCEPT ![f] = IF @ < 2 THEN @ + 1 ELSE @]
  /\ GotoMerge(w, present)
  /\ UNCHANGED <<redis, chunk, db, fileOf, told, acked, assembled>>

\* What cat of a chunk file appends.
Bytes(cell, i) ==
  CASE cell = "good" -> <<i>>
    [] cell = "bad"  -> <<0>>
    [] OTHER         -> <<>>

\* cat chunk >> merged, in the order of sort -n.
MergeCat(w, i) ==
  LET f == req[w].file
      out == merged[f] \o Bytes(chunk[req[w].upid][i], i)
  IN
  /\ req[w].pc = "m_cat"
  /\ i \in req[w].chunks
  /\ \A j \in req[w].chunks : i <= j
  /\ merged' = [merged EXCEPT ![f] = out]
  /\ assembled' = IF out = Content(f) THEN assembled \cup {f} ELSE assembled
  /\ GotoMerge(w, req[w].chunks \ {i})
  /\ UNCHANGED <<redis, chunk, db, fileOf, told, acked, merges>>

\* Variants: the merged file's sha1 is not compared, or only its length is.
MergeVerifyNothing(w) ==
  /\ req[w].pc = "m_verify"
  /\ Goto(w, "c_file")
  /\ UNCHANGED <<redis, chunk, merged, db, fileOf, ghost>>

MergeVerifyLength(w) ==
  /\ req[w].pc = "m_verify"
  /\ IF Len(merged[req[w].file]) = ChunkCount[req[w].file]
       THEN Goto(w, "c_file")
       ELSE Answer(w)
  /\ UNCHANGED <<redis, chunk, merged, db, fileOf, ghost>>

\* MergeChuncksByShell compares the merged file's sha1 with the file hash.
MergeVerify(w) ==
  /\ req[w].pc = "m_verify"
  /\ IF merged[req[w].file] = Content(req[w].file)
       THEN Goto(w, "c_file")
       ELSE Answer(w)
  /\ UNCHANGED <<redis, chunk, merged, db, fileOf, ghost>>

\* Variants: the user's row is inserted first; a file recorded before is not
\* given to the user again.
CompleteFileUserFirst(w) ==
  /\ req[w].pc = "c_file"
  /\ userFile' = userFile \cup {<<req[w].user, req[w].file>>}
  /\ Goto(w, "c_user")
  /\ UNCHANGED <<redis, chunk, merged, tblFile, fileOf, ghost>>

CompleteFileOnce(w) ==
  /\ req[w].pc = "c_file"
  /\ tblFile' = tblFile \cup {req[w].file}
  /\ Goto(w, IF req[w].file \in tblFile THEN "c_delhash" ELSE "c_user")
  /\ UNCHANGED <<redis, chunk, merged, userFile, fileOf, ghost>>

\* OnFileUploadFinished: insert ignore.  Its result is not looked at.
CompleteFile(w) ==
  /\ req[w].pc = "c_file"
  /\ \/ tblFile' = tblFile \cup {req[w].file}
     \/ DbMayFail /\ UNCHANGED tblFile
  /\ Goto(w, "c_user")
  /\ UNCHANGED <<redis, chunk, merged, userFile, fileOf, ghost>>

\* OnUserFileUploadFinished: insert ignore.  Its result is not looked at.
CompleteUser(w) ==
  /\ req[w].pc = "c_user"
  /\ \/ userFile' = userFile \cup {<<req[w].user, req[w].file>>}
     \/ DbMayFail /\ UNCHANGED userFile
  /\ Goto(w, "c_delhash")
  /\ UNCHANGED <<redis, chunk, merged, tblFile, fileOf, ghost>>

\* DEL HASH_UPID_<filehash>, whichever session it names by now.
CompleteDelHash(w) ==
  /\ req[w].pc = "c_delhash"
  /\ hashUpid' = [hashUpid EXCEPT ![req[w].file] = None]
  /\ Goto(w, "c_delmp")
  /\ UNCHANGED <<mp, chunk, merged, db, fileOf, ghost>>

\* DEL MP_<uploadid>: a key already gone is error -4.
CompleteDelMp(w) ==
  /\ req[w].pc = "c_delmp"
  /\ mp' = [mp EXCEPT ![req[w].upid] = NoSession]
  /\ IF mp[req[w].upid].live THEN Goto(w, "c_reply") ELSE Answer(w)
  /\ UNCHANGED <<hashUpid, chunk, merged, db, fileOf, ghost>>

\* RemovePathByShell and reply OK.
CompleteReply(w) ==
  /\ req[w].pc = "c_reply"
  /\ RemovePathByShell(req[w].upid)
  /\ acked' = acked \cup {<<req[w].user, req[w].file>>}
  /\ Answer(w)
  /\ UNCHANGED <<redis, merged, db, fileOf, told, assembled, merges>>

--------------------------------------------------------------------------------
(* CancelUploadHandler *)

\* GET HASH_UPID_: without a session the reply is -1.
StartCancel(w, f) ==
  /\ "cancel" \in Routes
  /\ req[w].pc = "idle"
  /\ hashUpid[f] # None
  /\ req' = [req EXCEPT ![w] = [Idle EXCEPT !.pc = "x_delhash", !.file = f,
                                            !.upid = hashUpid[f]]]
  /\ UNCHANGED <<redis, chunk, merged, db, fileOf, ghost>>

CancelDelHash(w) ==
  /\ req[w].pc = "x_delhash"
  /\ hashUpid' = [hashUpid EXCEPT ![req[w].file] = None]
  /\ Goto(w, "x_delmp")
  /\ UNCHANGED <<mp, chunk, merged, db, fileOf, ghost>>

CancelDelMp(w) ==
  /\ req[w].pc = "x_delmp"
  /\ mp' = [mp EXCEPT ![req[w].upid] = NoSession]
  /\ Goto(w, "x_remove")
  /\ UNCHANGED <<hashUpid, chunk, merged, db, fileOf, ghost>>

CancelRemove(w) ==
  /\ req[w].pc = "x_remove"
  /\ RemovePathByShell(req[w].upid)
  /\ Answer(w)
  /\ UNCHANGED <<redis, merged, db, fileOf, ghost>>

--------------------------------------------------------------------------------
(* Environment *)

\* The EX 43200 of HASH_UPID_ runs out.
ExpireHash(f) ==
  /\ hashUpid[f] # None
  /\ hashUpid' = [hashUpid EXCEPT ![f] = None]
  /\ UNCHANGED <<mp, chunk, merged, db, req, fileOf, ghost>>

\* The EXPIRE 43200 of MP_ runs out; a key HSET brought back has none.
ExpireMp(u) ==
  /\ mp[u].ttl
  /\ mp' = [mp EXCEPT ![u] = NoSession]
  /\ UNCHANGED <<hashUpid, chunk, merged, db, req, fileOf, ghost>>

\* The server (with the shell it spawned) stops and is started again: the
\* three stores keep their contents, every request is lost.
Crash ==
  /\ \E w \in Workers : req[w].pc # "idle"
  /\ req' = [w \in Workers |-> Idle]
  /\ UNCHANGED <<redis, chunk, merged, db, fileOf, ghost>>

--------------------------------------------------------------------------------
(* Specification *)

Init ==
  /\ hashUpid = [f \in Files |-> None]
  /\ mp = [u \in UploadIds |-> NoSession]
  /\ chunk = [u \in UploadIds |-> [i \in Index |-> "none"]]
  /\ merged = [f \in Files |-> <<>>]
  /\ tblFile = {}
  /\ userFile = {}
  /\ req = [w \in Workers |-> Idle]
  /\ fileOf = [u \in UploadIds |-> None]
  /\ told = {}
  /\ acked = {}
  /\ assembled = {}
  /\ merges = [f \in Files |-> 0]

\* A client sends a request.
Start(w) ==
  \/ \E n \in Users, f \in Files : StartInit(w, n, f)
  \/ \E u \in UploadIds, i \in Index : StartPart(w, u, i)
  \/ \E n \in Users, u \in UploadIds : StartComplete(w, n, u)
  \/ \E f \in Files : StartCancel(w, f)

\* The handler worker w runs takes its next step.
InitStep(w) ==
  \/ InitResume(w) \/ InitGet(w) \/ InitList(w)
  \/ \E u \in UploadIds : InitFresh(w, u) \/ InitRefused(w, u)
  \/ InitCount(w) \/ InitMeta(w) \/ InitExpire(w) \/ InitSetHash(w)

PartStep(w) ==
  PartCopy(w) \/ PartWrite(w) \/ PartVerify(w) \/ PartFlag(w)

CompleteStep(w) ==
  \/ MergeStart(w) \/ MergeVerify(w)
  \/ \E i \in Index : MergeCat(w, i)
  \/ CompleteFile(w) \/ CompleteUser(w)
  \/ CompleteDelHash(w) \/ CompleteDelMp(w) \/ CompleteReply(w)

CancelStep(w) ==
  CancelDelHash(w) \/ CancelDelMp(w) \/ CancelRemove(w)

Handle(w) == InitStep(w) \/ PartStep(w) \/ CompleteStep(w) \/ CancelStep(w)

Environment ==
  \/ \E f \in Files : ExpireHash(f)
  \/ \E u \in UploadIds : ExpireMp(u)
  \/ Crash

Next ==
  \/ \E w \in Workers : Start(w) \/ Handle(w)
  \/ Environment

Spec == Init /\ [][Next]_vars

--------------------------------------------------------------------------------
(* Properties *)

\* The steps that read a request's upload id, its file and its user.
UpidPCs == (InitPCs \ {"i_exists", "i_get"}) \cup PartPCs \cup MergePCs
             \cup RecordPCs \cup CancelPCs
FilePCs == InitPCs \cup MergePCs \cup RecordPCs \cup CancelPCs
UserPCs == InitPCs \cup MergePCs \cup RecordPCs

\* A request carries what its step reads.
RequestOK == \A w \in Workers :
  /\ req[w].pc \in FilePCs => req[w].file \in Files
  /\ req[w].pc \in UserPCs => req[w].user \in Users
  /\ req[w].pc \in UpidPCs => req[w].upid \in UploadIds
  /\ req[w].pc \in PartPCs => req[w].index \in Index

\* Every variable holds a value of its kind.
Typed ==
  /\ hashUpid \in [Files -> UploadIds \cup {None}]
  /\ mp \in [UploadIds -> Session]
  /\ chunk \in [UploadIds -> [Index -> Cell]]
  /\ merged \in [Files -> Seq(Nat)]
  /\ tblFile \subseteq Files
  /\ userFile \subseteq Users \X Files
  /\ req \in [Workers -> Request]
  /\ fileOf \in [UploadIds -> Files \cup {None}]
  /\ told \subseteq Users \X UploadIds
  /\ acked \subseteq Users \X Files
  /\ assembled \subseteq Files
  /\ merges \in [Files -> 0..2]

\* Every variable has its type, and a request has the fields its step reads: a
\* user and a file to record, an upload id, an index for a part.  (In
\* InitialMultipartUploadHandler the id comes from a key that may be gone
\* since EXISTS found it.)
TypeOK == Typed /\ RequestOK

\* A file gets its row in tbl_file only after its exact content had been
\* assembled in the merge directory: chunks that were damaged, missing, listed
\* too early, or appended by two merges at once never end up recorded.
\* (CompleteUploadHandler: merge, compare sha1, then insert.)
RecordedWasAssembled == tblFile \subseteq assembled

\* A user's file always has its row in tbl_file, whatever crash comes between
\* the two inserts of CompleteUploadHandler (as long as inserts succeed).
OwnedIsRecorded == \A n \in Users, f \in Files :
  <<n, f>> \in userFile => f \in tblFile

\* A client that was answered OK to its completion owns the file in the
\* database (as long as inserts succeed).
AckedIsOwned == acked \subseteq userFile

\* A chunk flagged in Redis, and therefore skipped by a client that resumes and
\* counted by a completion, has a file in the session's chunk directory.
\* (UploadPartHandler writes the file before it sets the flag, and with the
\* chunk root of config/store.go:13 nothing is ever removed.)
FlaggedChunkOnDisk == \A u \in UploadIds :
  \A i \in mp[u].flags : chunk[u][i] # "none"

\* The merged file of a recorded file is its content, unless a completion was
\* served more than once for that file: one merge never damages what it put
\* in place, whatever parts arrive, keys expire or the server crashes.
DamagedOnlyByRemerge == \A f \in tblFile :
  merged[f] = Content(f) \/ merges[f] = 2

\* config/FileStatus.go:5 calls the status every row of tbl_file is inserted
\* with "usable": the file at the row's address is the one its hash names.
\* NOT true of this code: a second completion removes and rebuilds it.
RecordedFileIsIntact == \A f \in tblFile : merged[f] = Content(f)

\* test/signin.go:45 says of ChunkExists, the flags of the session: these
\* chunks exist already and need not be uploaded again.  So a flagged chunk is
\* good unless an upload of it is in progress.  NOT true of this code: a part
\* sent twice truncates the file first, and a failed copy leaves the flag.
FlaggedChunkIsWhole == \A u \in UploadIds : \A i \in mp[u].flags :
  \/ chunk[u][i] = "good"
  \/ \E w \in Workers : /\ req[w].pc \in PartPCs
                       /\ req[w].upid = u
                       /\ req[w].index = i

\* handler/mpupload.go:288 says of the end of CompleteUploadHandler that it
\* deletes the uploaded chunk files.  NOT true of this code: the shell helper
\* only deletes below /data/chunks/, and the chunk root is elsewhere.
ChunksRemovedAtReply ==
  [][\A w \in Workers :
       CompleteReply(w) => \A i \in Index : chunk'[req[w].upid][i] = "none"]_vars

--------------------------------------------------------------------------------
(* Why the properties hold: the parts of the inductive invariant *)

\* An upload id is only ever used for the file it was generated for.
OriginOK ==
  /\ \A f \in Files : hashUpid[f] # None => fileOf[hashUpid[f]] = f
  /\ \A w \in Workers : req[w].pc \in UpidPCs \ PartPCs =>
       fileOf[req[w].upid] = req[w].file
  /\ \A n \in Users, u \in UploadIds : <<n, u>> \in told => fileOf[u] \in Files

\* A part request past os.Create has its file on disk.
PartOnDisk == \A w \in Workers :
  req[w].pc \in PartPCs => chunk[req[w].upid][req[w].index] # "none"

\* What has its content now had it once, and so had what is being recorded.
AssembledOK ==
  /\ \A f \in Files : merged[f] = Content(f) => f \in assembled
  /\ \A w \in Workers : req[w].pc \in RecordPCs => req[w].file \in assembled

\* A completion past an insert has made it.
InsertsOK == \A w \in Workers :
  /\ req[w].pc \in RecordPCs \ {"c_file"} => req[w].file \in tblFile
  /\ req[w].pc \in RecordPCs \ {"c_file", "c_user"} =>
       <<req[w].user, req[w].file>> \in userFile

\* Worker w is putting file f together, or past that.
Merging(w, f)   == req[w].pc \in {"m_cat", "m_verify"} /\ req[w].file = f
Recording(w, f) == req[w].pc \in RecordPCs /\ req[w].file = f

\* Before its first merge nothing is done with a file.
NotBegun(f) ==
  /\ f \notin tblFile
  /\ \A w \in Workers : ~Merging(w, f) /\ ~Recording(w, f)

\* After a single merge one request at most is at it, and what that request
\* has verified stays in place.
BegunOnce(f) ==
  /\ \A w, v \in Workers :
       /\ Merging(w, f) \/ Recording(w, f)
       /\ Merging(v, f) \/ Recording(v, f)
       => w = v
  /\ f \in tblFile \/ (\E w \in Workers : Recording(w, f)) =>
       /\ merged[f] = Content(f)
       /\ \A v \in Workers : ~Merging(v, f)

MergesOK == \A f \in Files :
  /\ merges[f] = 0 => NotBegun(f)
  /\ merges[f] = 1 => BegunOnce(f)

\* What some theorems assume of the clients, and no run does: a client declares
\* the sha1 of the chunk it was to send (test/upload_part.go:48 hashes the bytes
\* it posts), so what passes the comparison is good, whatever a copy that broke
\* off has left on disk.
DeclaresChunk == \A w \in Workers :
  req[w].pc = "p_verify" /\ req'[w].pc = "p_flag" =>
    chunk[req[w].upid][req[w].index] = "good"
Declared == [][DeclaresChunk]_vars

--------------------------------------------------------------------------------
\* What the upload promises, without sessions, chunks, stores or crashes: a
\* file is assembled, then recorded, then owned, then acknowledged, and none
\* of it is ever taken back.
Ledger == INSTANCE UploadLedger WITH recorded <- tblFile, owned <- userFile
LedgerSpec == Ledger!Spec

================================================================================
