------------------------------ MODULE ServiceUpload ------------------------------
(***************************************************************************)
(* The chunked upload of the upload service: service/upload/api/mpupload.go. *)
(* Its first two handlers are the monolith's, word for word but for the      *)
(* codes they reply; its completion is not.  It merges with one redirection  *)
(* instead of appending, compares no sha1, inserts both rows by RPC before   *)
(* it looks at either result, and publishes a transfer at the end.           *)
(***************************************************************************)
EXTENDS MultipartUpload

CONSTANT
  RpcMayFail  \* whether a call of dbproxy may come back with an error

ASSUME RpcAssumption == RpcMayFail \in BOOLEAN

VARIABLES
  pos,        \* the offset a worker's cat writes at next
  failed,     \* whether an insert a worker called came back with an error
  resent,     \* ghost: upload ids a chunk of which was created anew
  blind,      \* ghost: files a completion that found no chunk count was let through for
  closed,     \* ghost: completions that ended each session (0, 1, "several")
  revived,    \* ghost: upload ids whose hash came back after its end
  published   \* ghost: completions whose transfer message was sent

svcGhost == <<resent, blind, closed, revived, published>>
svc      == <<pos, failed, svcGhost>>
svcVars  == <<vars, svc>>

SvcPCs == {"s_cat", "s_file", "s_user", "s_delhash", "s_delmp", "s_publish"}

\* Worker w has chunks S left, and its cat is at offset at.
GotoCat(w, S, at) ==
  /\ req' = [req EXCEPT ![w] =
               [@ EXCEPT !.pc = IF S = {} THEN "s_file" ELSE "s_cat", !.chunks = S]]
  /\ pos' = [pos EXCEPT ![w] = at]

\* Worker w replies and forgets what it knew.
SvcAnswer(w) ==
  /\ Answer(w)
  /\ pos' = [pos EXCEPT ![w] = 0]
  /\ failed' = [failed EXCEPT ![w] = FALSE]

\* File s after bytes b are written at offset at; a gap reads as other bytes.
WrittenAt(s, at, b) ==
  LET end == at + Len(b) IN
  [k \in 1..(IF end > Len(s) THEN end ELSE Len(s)) |->
     CASE k \in at + 1..end -> b[k - at]
       [] k <= Len(s) -> s[k]
       [] OTHER -> 0]

--------------------------------------------------------------------------------
(* InitialMultipartUploadHandler, UploadPartHandler *)

\* A live hash of an upload id whose session a completion has ended.
NoteRevived ==
  revived' = revived \cup {u \in UploadIds : closed[u] # 0 /\ ~mp[u].live /\ mp'[u].live}

\* select .. where status=1: the proxy inserts rows with status 1.
OrmIsUserFileUploaded(n, f) == <<n, f>> \in userFile

\* What the client of the proxy may answer: a call or a select that fails reads
\* as FALSE.
DbcliIsUserFileUploaded(n, f) ==
  {OrmIsUserFileUploaded(n, f)} \cup (IF RpcMayFail \/ DbMayFail THEN {FALSE} ELSE {})

SvcStartInit(w, n, f) ==
  /\ req[w].pc = "idle"
  /\ FALSE \in DbcliIsUserFileUploaded(n, f)
  /\ req' = [req EXCEPT ![w] = [Idle EXCEPT !.pc = "i_exists",
                                            !.user = n, !.file = f]]
  /\ UNCHANGED <<redis, chunk, merged, db, fileOf, ghost, svc>>

SvcInitStep(w) ==
  /\ InitStep(w)
  /\ NoteRevived
  /\ UNCHANGED <<pos, failed, resent, blind, closed, published>>

SvcStartPart(w, u, i) ==
  /\ StartPart(w, u, i)
  /\ resent' = IF chunk[u][i] = "none" THEN resent ELSE resent \cup {u}
  /\ UNCHANGED <<pos, failed, blind, closed, revived, published>>

SvcPartStep(w) ==
  /\ PartStep(w)
  /\ NoteRevived
  /\ UNCHANGED <<pos, failed, resent, blind, closed, published>>

--------------------------------------------------------------------------------
(* CompleteUploadHandler *)

\* Variant: whether all chunks are there is not looked at.
SvcStartCompleteAny(w, n, u) ==
  /\ "complete" \in Routes
  /\ req[w].pc = "idle"
  /\ <<n, u>> \in told
  /\ req' = [req EXCEPT ![w] = [Idle EXCEPT !.pc = "m_start", !.user = n,
                                            !.file = fileOf[u], !.upid = u]]
  /\ blind' = IF mp[u].count = 0 THEN blind \cup {fileOf[u]} ELSE blind
  /\ UNCHANGED <<redis, chunk, merged, db, fileOf, ghost, pos, failed, resent, closed,
                 revived, published>>

\* HGETALL MP_: a missing key, or one without chunkcount and flags, passes the
\* test of the counts, as in the monolith.
SvcStartComplete(w, n, u) ==
  /\ StartComplete(w, n, u)
  /\ blind' = IF mp[u].count = 0 THEN blind \cup {fileOf[u]} ELSE blind
  /\ UNCHANGED <<pos, failed, resent, closed, revived, published>>

\* cd chunks && ls | sort -n | xargs cat > merged: without the directory (that
\* is, without any chunk) cd fails, reply -3; else merged is truncated.
SvcMergeStart(w) ==
  LET f == req[w].file
      present == {i \in Index : chunk[req[w].upid][i] # "none"}
  IN
  /\ req[w].pc = "m_start"
  /\ IF present = {}
       THEN SvcAnswer(w) /\ UNCHANGED <<merged, merges>>
       ELSE /\ merged' = [merged EXCEPT ![f] = <<>>]
            /\ merges' = [merges EXCEPT ![f] = IF @ < 2 THEN @ + 1 ELSE @]
            /\ GotoCat(w, present, 0)
            /\ UNCHANGED failed
  /\ UNCHANGED <<redis, chunk, db, fileOf, told, acked, assembled, svcGhost>>

\* cat copies the next chunk to its own offset, whatever else writes the file.
SvcCat(w, i) ==
  LET f == req[w].file
      b == Bytes(chunk[req[w].upid][i], i)
      out == WrittenAt(merged[f], pos[w], b)
  IN
  /\ req[w].pc = "s_cat"
  /\ i \in req[w].chunks
  /\ \A j \in req[w].chunks : i <= j
  /\ merged' = [merged EXCEPT ![f] = out]
  /\ assembled' = IF out = Content(f) THEN assembled \cup {f} ELSE assembled
  /\ GotoCat(w, req[w].chunks \ {i}, pos[w] + Len(b))
  /\ UNCHANGED <<redis, chunk, db, fileOf, told, acked, merges, failed, svcGhost>>

\* What a call comes back with: the statement's result, whose Suc nobody looks
\* at, or an error, whether or not the statement was carried out.
CallResult == {"done"} \cup (IF DbMayFail THEN {"failed"} ELSE {})
                       \cup (IF RpcMayFail THEN {"cut", "unsent"} ELSE {})
CallError(res) == res \in {"cut", "unsent"}
CallMade(res)  == res \in {"done", "cut"}

\* OnFileUploadFinished by RPC.
SvcFile(w) ==
  /\ req[w].pc = "s_file"
  /\ \E res \in CallResult :
       /\ tblFile' = IF CallMade(res) THEN tblFile \cup {req[w].file} ELSE tblFile
       /\ failed' = [failed EXCEPT ![w] = CallError(res)]
  /\ Goto(w, "s_user")
  /\ UNCHANGED <<redis, chunk, merged, userFile, fileOf, ghost, pos, svcGhost>>

\* Variant: only the error of the last call is looked at.
SvcUserLastError(w) ==
  /\ req[w].pc = "s_user"
  /\ \E res \in CallResult :
       /\ userFile' = IF CallMade(res)
                        THEN userFile \cup {<<req[w].user, req[w].file>>}
                        ELSE userFile
       /\ IF CallError(res)
            THEN SvcAnswer(w)
            ELSE Goto(w, "s_delhash") /\ UNCHANGED <<pos, failed>>
  /\ UNCHANGED <<redis, chunk, merged, tblFile, fileOf, ghost, svcGhost>>

\* OnUserFileUploadFinished by RPC; then reply -4 if either call was an error.
SvcUser(w) ==
  /\ req[w].pc = "s_user"
  /\ \E res \in CallResult :
       /\ userFile' = IF CallMade(res)
                        THEN userFile \cup {<<req[w].user, req[w].file>>}
                        ELSE userFile
       /\ IF failed[w] \/ CallError(res)
            THEN SvcAnswer(w)
            ELSE Goto(w, "s_delhash") /\ UNCHANGED <<pos, failed>>
  /\ UNCHANGED <<redis, chunk, merged, tblFile, fileOf, ghost, svcGhost>>

\* DEL HASH_UPID_<filehash>.
SvcDelHash(w) ==
  /\ req[w].pc = "s_delhash"
  /\ hashUpid' = [hashUpid EXCEPT ![req[w].file] = None]
  /\ Goto(w, "s_delmp")
  /\ UNCHANGED <<mp, chunk, merged, db, fileOf, ghost, svc>>

\* Variant: the count DEL returns is not looked at.
SvcDelMpUncounted(w) ==
  /\ req[w].pc = "s_delmp"
  /\ mp' = [mp EXCEPT ![req[w].upid] = NoSession]
  /\ Goto(w, "s_publish")
  /\ closed' = [closed EXCEPT ![req[w].upid] = IF @ < 2 THEN @ + 1 ELSE @]
  /\ UNCHANGED <<hashUpid, chunk, merged, db, fileOf, ghost, pos, failed, resent, blind,
                 revived, published>>

\* DEL MP_<uploadid>: a key already gone is reply -5, and nothing is published.
SvcDelMp(w) ==
  LET u == req[w].upid IN
  /\ req[w].pc = "s_delmp"
  /\ mp' = [mp EXCEPT ![u] = NoSession]
  /\ IF mp[u].live
       THEN /\ closed' = [closed EXCEPT ![u] = IF @ < 2 THEN @ + 1 ELSE @]
            /\ Goto(w, "s_publish")
            /\ UNCHANGED <<pos, failed>>
       ELSE SvcAnswer(w) /\ UNCHANGED closed
  /\ UNCHANGED <<hashUpid, chunk, merged, db, fileOf, ghost, resent, blind, revived,
                 published>>

\* The transfer message, whose failure only leaves a line in the log, and the
\* reply OK.
SvcPublish(w) ==
  LET done == <<req[w].user, req[w].file>> IN
  /\ req[w].pc = "s_publish"
  /\ published' \in {published, published \cup {done}}
  /\ acked' = acked \cup {done}
  /\ SvcAnswer(w)
  /\ UNCHANGED <<redis, chunk, merged, db, fileOf, told, assembled, merges,
                 resent, blind, closed, revived>>

--------------------------------------------------------------------------------
(* Environment and specification *)

SvcCrash ==
  /\ Crash
  /\ pos' = [w \in Workers |-> 0]
  /\ failed' = [w \in Workers |-> FALSE]
  /\ UNCHANGED svcGhost

SvcExpire ==
  /\ (\E f \in Files : ExpireHash(f)) \/ (\E u \in UploadIds : ExpireMp(u))
  /\ UNCHANGED svc

SvcInit ==
  /\ Init
  /\ pos = [w \in Workers |-> 0]
  /\ failed = [w \in Workers |-> FALSE]
  /\ resent = {}
  /\ blind = {}
  /\ closed = [u \in UploadIds |-> 0]
  /\ revived = {}
  /\ published = {}

SvcStart(w) ==
  \/ \E n \in Users, f \in Files : SvcStartInit(w, n, f)
  \/ \E u \in UploadIds, i \in Index : SvcStartPart(w, u, i)
  \/ \E n \in Users, u \in UploadIds : SvcStartComplete(w, n, u)

SvcComplete(w) ==
  \/ SvcMergeStart(w)
  \/ \E i \in Index : SvcCat(w, i)
  \/ SvcFile(w) \/ SvcUser(w)
  \/ SvcDelHash(w) \/ SvcDelMp(w) \/ SvcPublish(w)

SvcNext ==
  \/ \E w \in Workers : SvcStart(w) \/ SvcInitStep(w) \/ SvcPartStep(w) \/ SvcComplete(w)
  \/ SvcExpire
  \/ SvcCrash

SvcSpec == SvcInit /\ [][SvcNext]_svcVars

--------------------------------------------------------------------------------
(* Properties *)

SvcRequest ==
  [pc     : {"idle", "m_start"} \cup InitPCs \cup PartPCs \cup SvcPCs,
   user   : Users \cup {None},
   file   : Files \cup {None},
   upid   : UploadIds \cup {None},
   index  : Index \cup {0},
   chunks : SUBSET Index]

\* Every variable has its type, and a completion holds what its steps read.
SvcTypeOK ==
  /\ hashUpid \in [Files -> UploadIds \cup {None}]
  /\ mp \in [UploadIds -> Session]
  /\ chunk \in [UploadIds -> [Index -> Cell]]
  /\ merged \in [Files -> Seq(Nat)]
  /\ tblFile \subseteq Files
  /\ userFile \subseteq Users \X Files
  /\ req \in [Workers -> SvcRequest]
  /\ \A w \in Workers : req[w].pc \in {"m_start"} \cup SvcPCs =>
       req[w].user \in Users /\ req[w].file \in Files /\ req[w].upid \in UploadIds
  /\ fileOf \in [UploadIds -> Files \cup {None}]
  /\ told \subseteq Users \X UploadIds
  /\ acked \subseteq Users \X Files
  /\ published \subseteq Users \X Files
  /\ assembled \subseteq Files
  /\ merges \in [Files -> 0..2]
  /\ pos \in [Workers -> Nat]
  /\ failed \in [Workers -> BOOLEAN]
  /\ resent \subseteq UploadIds
  /\ blind \subseteq Files
  /\ closed \in [UploadIds -> 0..2]
  /\ revived \subseteq UploadIds

\* A completion that was answered OK, and one whose transfer was sent, has both
\* rows, though the handler looks at neither result before both calls are over
\* and a call may be carried out and lost (mpupload.go:300, as long as the
\* statements themselves succeed).
StoredBeforeTold == \A done \in acked \cup published :
  done \in userFile /\ done[2] \in tblFile

\* The file at a recorded address is the one its hash names, though nothing
\* compares them, unless a second merge was begun, a chunk was sent again, or a
\* completion that found no chunk count was let through (mpupload.go:261, :276).
DamagedOnlyByOverlap == \A f \in tblFile :
  \/ merged[f] = Content(f)
  \/ merges[f] = 2
  \/ f \in blind
  \/ \E u \in resent : fileOf[u] = f

\* Completions that race for one session end in one transfer: the DEL of
\* mpupload.go:322 lets one of them go on, unless a late part or init brings the
\* hash back.
SentOnce == \A u \in UploadIds : closed[u] = 2 => u \in revived

================================================================================
