-------------------------- MODULE ServiceUpload_proofs --------------------------
(***************************************************************************)
(* What the upload service's completion promises, for any number of users,   *)
(* files, sessions, workers and chunks: rows before the reply and before the  *)
(* transfer message, one transfer for each session, and the right file under   *)
(* every recorded address unless one of four known things happened.          *)
(*                                                                         *)
(* A completion that got past its second call without an error has both      *)
(* rows, of which the first is known only by what failed remembers; a session  *)
(* that was ended once is gone from Redis unless a late HSET brought it back.   *)
(*                                                                         *)
(* The merged file is compared with nothing, so what is in it follows from     *)
(* what the merge finds and does: a session none of whose chunks was sent      *)
(* again has on disk what it has flagged (ChunkInv), a completion that was     *)
(* let through by a chunk count finds all of them, and the only merge of a     *)
(* file writes them one after the other (MergeInv).                         *)
(***************************************************************************)
EXTENDS ServiceUpload, FiniteSetTheorems, TLAPS

\* What the steps below read of the types.
Hash == [live : BOOLEAN, count : Nat, flags : SUBSET Nat, ttl : BOOLEAN]
Shape ==
  /\ hashUpid \in [Files -> UploadIds \cup {None}]
  /\ mp \in [UploadIds -> Hash]
  /\ req \in [Workers -> SvcRequest]
  /\ fileOf \in [UploadIds -> Files \cup {None}]
  /\ failed \in [Workers -> BOOLEAN]
  /\ closed \in [UploadIds -> 0..2]
  /\ \A w \in Workers : req[w].pc \in InitPCs => req[w].file \in Files

\* A completion past its calls has both rows; between them failed tells.
Rows(n, f) == <<n, f>> \in userFile /\ f \in tblFile
StoredInv ==
  /\ \A w \in Workers :
       /\ req[w].pc = "s_user" => failed[w] \/ req[w].file \in tblFile
       /\ req[w].pc \in {"s_delhash", "s_delmp", "s_publish"} =>
            Rows(req[w].user, req[w].file)
  /\ StoredBeforeTold

\* A session that was ended is gone, or came back.
SentInv == \A u \in UploadIds :
  /\ closed[u] # 0 => ~mp[u].live \/ u \in revived
  /\ closed[u] = 2 => u \in revived

\* Where nothing is known of the rows yet.
EarlyPCs == {"idle", "m_start", "s_cat", "s_file"} \cup InitPCs \cup PartPCs

--------------------------------------------------------------------------------
(* Requests *)

LEMMA IndexIsNat == Index \subseteq Nat
BY ChunkCountAssumption DEF Index, Indexes

LEMMA IdleShape == Idle \in SvcRequest /\ Idle.pc = "idle" /\ NoSession \in Hash /\ ~NoSession.live
BY DEF Idle, SvcRequest, NoSession, Hash

\* What EXCEPT makes of worker w, and of no other.
LEMMA ReqIs ==
  ASSUME req \in [Workers -> SvcRequest], NEW w \in Workers, NEW q \in SvcRequest,
         req' = [req EXCEPT ![w] = q]
  PROVE  /\ req' \in [Workers -> SvcRequest] /\ req'[w] = q
         /\ \A v \in Workers \ {w} : req'[v] = req[v]
OBVIOUS

LEMMA GotoIs ==
  ASSUME req \in [Workers -> SvcRequest], NEW w \in Workers,
         NEW pc \in {"idle", "m_start"} \cup InitPCs \cup PartPCs \cup SvcPCs, Goto(w, pc)
  PROVE  /\ req' \in [Workers -> SvcRequest]
         /\ req'[w].pc = pc /\ req'[w].user = req[w].user /\ req'[w].file = req[w].file
         /\ req'[w].upid = req[w].upid /\ req'[w].index = req[w].index
         /\ \A v \in Workers \ {w} : req'[v] = req[v]
<1> DEFINE q == [req[w] EXCEPT !.pc = pc]
<1>1. /\ q \in SvcRequest /\ q.pc = pc /\ q.user = req[w].user /\ q.file = req[w].file
      /\ q.upid = req[w].upid /\ q.index = req[w].index
  BY DEF SvcRequest
<1>2. req' = [req EXCEPT ![w] = q]
  BY DEF Goto
<1> HIDE DEF q
<1> QED
  BY <1>1, <1>2, ReqIs

LEMMA GotoWithIs ==
  ASSUME req \in [Workers -> SvcRequest], NEW w \in Workers, NEW pc \in InitPCs,
         NEW u \in UploadIds, GotoWith(w, pc, u)
  PROVE  /\ req' \in [Workers -> SvcRequest]
         /\ req'[w].pc = pc /\ req'[w].user = req[w].user /\ req'[w].file = req[w].file
         /\ req'[w].upid = u
         /\ \A v \in Workers \ {w} : req'[v] = req[v]
<1> DEFINE q == [req[w] EXCEPT !.pc = pc, !.upid = u]
<1>1. /\ q \in SvcRequest /\ q.pc = pc /\ q.user = req[w].user /\ q.file = req[w].file
      /\ q.upid = u
  BY DEF SvcRequest
<1>2. req' = [req EXCEPT ![w] = q]
  BY DEF GotoWith
<1> HIDE DEF q
<1> QED
  BY <1>1, <1>2, ReqIs

LEMMA AnswerIs ==
  ASSUME req \in [Workers -> SvcRequest], NEW w \in Workers, Answer(w)
  PROVE  /\ req' \in [Workers -> SvcRequest] /\ req'[w].pc = "idle"
         /\ \A v \in Workers \ {w} : req'[v] = req[v]
BY IdleShape, ReqIs DEF Answer

LEMMA SvcAnswerIs ==
  ASSUME Shape, NEW w \in Workers, SvcAnswer(w)
  PROVE  /\ req' \in [Workers -> SvcRequest] /\ req'[w].pc = "idle"
         /\ failed' \in [Workers -> BOOLEAN]
         /\ \A v \in Workers \ {w} : req'[v] = req[v] /\ failed'[v] = failed[v]
BY AnswerIs DEF SvcAnswer, Shape

LEMMA GotoCatIs ==
  ASSUME req \in [Workers -> SvcRequest], NEW w \in Workers, NEW S \in SUBSET Index,
         NEW at, GotoCat(w, S, at)
  PROVE  /\ req' \in [Workers -> SvcRequest] /\ req'[w].pc \in {"s_cat", "s_file"}
         /\ req'[w].pc = (IF S = {} THEN "s_file" ELSE "s_cat") /\ req'[w].chunks = S
         /\ req'[w].user = req[w].user /\ req'[w].file = req[w].file
         /\ req'[w].upid = req[w].upid
         /\ \A v \in Workers \ {w} : req'[v] = req[v]
<1> DEFINE q == [req[w] EXCEPT !.pc = IF S = {} THEN "s_file" ELSE "s_cat", !.chunks = S]
<1>1. /\ q \in SvcRequest /\ q.pc = (IF S = {} THEN "s_file" ELSE "s_cat")
      /\ q.chunks = S /\ q.user = req[w].user /\ q.file = req[w].file
      /\ q.upid = req[w].upid
  BY DEF SvcRequest, SvcPCs
<1>2. req' = [req EXCEPT ![w] = q]
  BY DEF GotoCat
<1> HIDE DEF q
<1> QED
  BY <1>1, <1>2, ReqIs

\* A command of Redis on a session's hash leaves a hash.
LEMMA HashCommands ==
  ASSUME NEW s \in Hash
  PROVE  /\ \A n \in Nat : HSetCount(s, n) \in Hash
         /\ HSetMeta(s) \in Hash /\ Expire(s) \in Hash
         /\ \A i \in Nat : HSetFlag(s, i) \in Hash
<1>1. \A n \in Nat : HSetCount(s, n) \in Hash
  BY DEF HSetCount, Hash
<1>2. HSetMeta(s) \in Hash
  BY DEF HSetMeta, Hash
<1>3. Expire(s) \in Hash
  BY DEF Expire, Hash
<1>4. ASSUME NEW i \in Nat PROVE HSetFlag(s, i) \in Hash
  BY DEF HSetFlag, Hash
<1> QED
  BY <1>1, <1>2, <1>3, <1>4

\* A command for any key leaves hashes.
LEMMA MpIs ==
  ASSUME Shape, NEW u \in UploadIds \cup {None}, NEW s,
         u \in UploadIds => s \in Hash, mp' = [mp EXCEPT ![u] = s]
  PROVE  mp' \in [UploadIds -> Hash]
BY DEF Shape

LEMMA InitMoves ==
  ASSUME Shape, NEW w \in Workers, InitStep(w)
  PROVE  /\ req' \in [Workers -> SvcRequest]
         /\ req'[w].pc \in {"idle"} \cup InitPCs
         /\ req'[w].pc \in InitPCs => req'[w].file \in Files
         /\ \A v \in Workers \ {w} : req'[v] = req[v]
         /\ hashUpid' \in [Files -> UploadIds \cup {None}]
         /\ mp' \in [UploadIds -> Hash]
         /\ fileOf' \in [UploadIds -> Files \cup {None}]
         /\ UNCHANGED <<db, acked>>
<1> DEFINE f == req[w].file
           u == req[w].upid
<1>1. /\ f \in Files \cup {None} /\ u \in UploadIds \cup {None}
      /\ req[w].pc \in InitPCs => f \in Files
      /\ req \in [Workers -> SvcRequest]
      /\ None \notin UploadIds
  BY NoneAssumption DEF Shape, SvcRequest
<1>2. u \in UploadIds =>
        /\ HSetMeta(mp[u]) \in Hash /\ Expire(mp[u]) \in Hash
        /\ f \in Files => HSetCount(mp[u], ChunkCount[f]) \in Hash
  BY HashCommands, ChunkCountAssumption DEF Shape
<1>3. CASE InitResume(w)
  BY <1>1, <1>3, GotoIs DEF InitResume, Shape, InitPCs, redis, db, ghost
<1>4. ASSUME NEW x \in UploadIds, InitFresh(w, x)
      PROVE  /\ req' \in [Workers -> SvcRequest]
             /\ req'[w].pc \in InitPCs /\ req'[w].file \in Files
             /\ \A v \in Workers \ {w} : req'[v] = req[v]
             /\ UNCHANGED <<hashUpid, mp>>
             /\ fileOf' \in [UploadIds -> Files \cup {None}]
             /\ UNCHANGED <<db, acked>>
  <2>1. req[w].pc \in InitPCs /\ "i_count" \in InitPCs
    BY <1>4 DEF InitFresh, InitPCs
  <2> QED
    BY <1>1, <1>4, <2>1, GotoWithIs DEF InitFresh, Shape, redis, db, ghost
<1>5. ASSUME NEW x \in UploadIds, InitRefused(w, x)
      PROVE  /\ req' \in [Workers -> SvcRequest]
             /\ req'[w].pc = "idle"
             /\ \A v \in Workers \ {w} : req'[v] = req[v]
             /\ UNCHANGED <<hashUpid, mp>>
             /\ fileOf' \in [UploadIds -> Files \cup {None}]
             /\ UNCHANGED <<db, acked>>
  BY <1>1, <1>5, AnswerIs DEF InitRefused, ReplyUpInfo, Shape, redis, db
<1>6. CASE InitGet(w)
  <2>1. req[w].pc \in InitPCs /\ "i_list" \in InitPCs
    BY <1>6 DEF InitGet, InitPCs
  <2>2. hashUpid[f] = None \/ hashUpid[f] \in UploadIds
    BY <1>1, <2>1 DEF Shape
  <2> QED
    BY <1>1, <1>6, <2>1, <2>2, AnswerIs, GotoWithIs
       DEF InitGet, Shape, InitPCs, redis, db, ghost
<1>7. CASE InitList(w)
  <2>1. req[w].pc \in InitPCs /\ "i_count" \in InitPCs
    BY <1>7 DEF InitList, InitPCs
  <2> QED
    BY <1>1, <1>7, <2>1, AnswerIs, GotoIs
       DEF InitList, ReplyUpInfo, Shape, InitPCs, redis, db, ghost
<1>8. CASE InitCount(w)
  <2>1. req[w].pc \in InitPCs /\ "i_meta" \in InitPCs
    BY <1>8 DEF InitCount, InitPCs
  <2>2. mp' \in [UploadIds -> Hash]
    BY <1>1, <1>2, <1>8, <2>1, MpIs DEF InitCount
  <2> QED
    BY <1>1, <1>8, <2>1, <2>2, GotoIs DEF InitCount, Shape, db, ghost
<1>9. CASE InitMeta(w)
  <2>1. req[w].pc \in InitPCs /\ "i_expire" \in InitPCs
    BY <1>9 DEF InitMeta, InitPCs
  <2>2. mp' \in [UploadIds -> Hash]
    BY <1>1, <1>2, <1>9, MpIs DEF InitMeta
  <2> QED
    BY <1>1, <1>9, <2>1, <2>2, GotoIs DEF InitMeta, Shape, db, ghost
<1>10. CASE InitExpire(w)
  <2>1. req[w].pc \in InitPCs /\ "i_sethash" \in InitPCs
    BY <1>10 DEF InitExpire, InitPCs
  <2>2. mp' \in [UploadIds -> Hash]
    BY <1>1, <1>2, <1>10, MpIs DEF InitExpire
  <2> QED
    BY <1>1, <1>10, <2>1, <2>2, GotoIs DEF InitExpire, Shape, db, ghost
<1>11. CASE InitSetHash(w)
  <2>1. hashUpid' \in [Files -> UploadIds \cup {None}]
    BY <1>1, <1>11 DEF InitSetHash, Shape
  <2> QED
    BY <1>1, <1>11, <2>1, AnswerIs DEF InitSetHash, ReplyUpInfo, Shape, InitPCs, db
<1>12. \A x \in UploadIds : (InitFresh(w, x) \/ InitRefused(w, x)) =>
         /\ hashUpid' \in [Files -> UploadIds \cup {None}] /\ mp' \in [UploadIds -> Hash]
  BY <1>4, <1>5 DEF Shape
<1> QED
  BY <1>3, <1>4, <1>5, <1>6, <1>7, <1>8, <1>9, <1>10, <1>11, <1>12 DEF InitStep, InitPCs

LEMMA PartMoves ==
  ASSUME Shape, NEW w \in Workers, PartStep(w)
  PROVE  /\ req' \in [Workers -> SvcRequest]
         /\ req'[w].pc \in {"idle"} \cup PartPCs
         /\ \A v \in Workers \ {w} : req'[v] = req[v]
         /\ mp' \in [UploadIds -> Hash]
         /\ UNCHANGED <<hashUpid, fileOf, db, acked>>
<1> DEFINE u == req[w].upid
<1>1. /\ u \in UploadIds \cup {None} /\ req[w].index \in Nat
      /\ req \in [Workers -> SvcRequest] /\ mp \in [UploadIds -> Hash]
  <2>1. req[w] \in SvcRequest /\ mp \in [UploadIds -> Hash] /\ req \in [Workers -> SvcRequest]
    BY DEF Shape
  <2>2. req[w].upid \in UploadIds \cup {None} /\ req[w].index \in Index \cup {0}
    BY <2>1 DEF SvcRequest
  <2>3. \A i \in Index \cup {0} : i \in Nat
    BY IndexIsNat
  <2> QED
    BY <2>1, <2>2, <2>3
<1>2. CASE PartCopy(w)
  BY <1>1, <1>2 DEF PartCopy, PartPCs, redis, db, ghost
<1>3. CASE PartWrite(w)
  BY <1>1, <1>3, GotoIs DEF PartWrite, PartPCs, redis, db, ghost
<1>4. CASE PartVerify(w)
  BY <1>1, <1>4, GotoIs, AnswerIs DEF PartVerify, PartPCs, redis, db, ghost
<1>5. CASE PartFlag(w)
  <2>1. mp' \in [UploadIds -> Hash]
    <3>1. u \in UploadIds => HSetFlag(mp[u], req[w].index) \in Hash
      BY <1>1, HashCommands
    <3> QED
      BY <1>1, <1>5, <3>1, MpIs DEF PartFlag
  <2> QED
    BY <1>1, <1>5, <2>1, AnswerIs DEF PartFlag, db, ghost
<1> QED
  BY <1>2, <1>3, <1>4, <1>5 DEF PartStep

--------------------------------------------------------------------------------
(* The invariants *)

\* Worker w, and no other, moves.
LEMMA ShapeMoves ==
  ASSUME Shape, NEW w \in Workers,
         req' \in [Workers -> SvcRequest], \A v \in Workers \ {w} : req'[v] = req[v],
         req'[w].pc \in InitPCs => req'[w].file \in Files,
         hashUpid' \in [Files -> UploadIds \cup {None}],
         mp' \in [UploadIds -> Hash],
         fileOf' \in [UploadIds -> Files \cup {None}],
         failed' \in [Workers -> BOOLEAN],
         closed' \in [UploadIds -> 0..2]
  PROVE  Shape'
BY DEF Shape

\* Worker w moves to where nothing is known of the rows.
LEMMA StoredQuiet ==
  ASSUME StoredInv, NEW w \in Workers,
         \A v \in Workers \ {w} : req'[v] = req[v] /\ failed'[v] = failed[v],
         req'[w].pc \in EarlyPCs,
         UNCHANGED <<db, acked, published>>
  PROVE  StoredInv'
<1>1. \A pc \in EarlyPCs : pc \notin {"s_user", "s_delhash", "s_delmp", "s_publish"}
  BY DEF EarlyPCs, InitPCs, PartPCs
<1>2. UNCHANGED <<tblFile, userFile>>
  BY DEF db
<1>3. ASSUME NEW v \in Workers
      PROVE  /\ req'[v].pc = "s_user" => failed'[v] \/ req'[v].file \in tblFile'
             /\ req'[v].pc \in {"s_delhash", "s_delmp", "s_publish"} =>
                  Rows(req[v].user, req[v].file)'
  BY <1>1, <1>2 DEF StoredInv, Rows
<1>4. StoredBeforeTold'
  BY <1>2 DEF StoredInv, StoredBeforeTold
<1> QED
  BY <1>3, <1>4 DEF StoredInv

\* No session ends, and none comes back unnoted.
LEMMA SentQuiet ==
  ASSUME SentInv, UNCHANGED closed,
         \/ UNCHANGED <<mp, revived>>
         \/ NoteRevived
         \/ UNCHANGED revived /\ \A u \in UploadIds : mp'[u].live => mp[u].live
  PROVE  SentInv'
BY DEF SentInv, NoteRevived

LEMMA StartMoves ==
  ASSUME Shape, SentInv, NEW w \in Workers, SvcStart(w)
  PROVE  /\ Shape' /\ SentInv'
         /\ StoredInv => StoredInv'
<1>1. req \in [Workers -> SvcRequest]
  BY DEF Shape
<1>2. ASSUME NEW n \in Users, NEW f \in Files, SvcStartInit(w, n, f)
      PROVE  Shape' /\ SentInv' /\ (StoredInv => StoredInv')
  <2> DEFINE q == [Idle EXCEPT !.pc = "i_exists", !.user = n, !.file = f]
  <2>1. q \in SvcRequest /\ q.pc \in InitPCs /\ q.file \in Files
    BY DEF Idle, SvcRequest, InitPCs
  <2>2. req' = [req EXCEPT ![w] = q]
    BY <1>2 DEF SvcStartInit
  <2> HIDE DEF q
  <2>3. /\ req' \in [Workers -> SvcRequest] /\ req'[w] = q
        /\ \A v \in Workers \ {w} : req'[v] = req[v]
    BY <1>1, <2>1, <2>2, ReqIs
  <2>4. UNCHANGED <<hashUpid, mp, fileOf, failed, closed, revived, db, acked, published>>
    BY <1>2 DEF SvcStartInit, redis, ghost, svc, svcGhost
  <2>5. Shape'
    BY <2>1, <2>3, <2>4, ShapeMoves DEF Shape
  <2> QED
    BY <2>1, <2>3, <2>4, <2>5, SentQuiet, StoredQuiet DEF EarlyPCs
<1>3. ASSUME NEW u \in UploadIds, NEW i \in Index, SvcStartPart(w, u, i)
      PROVE  Shape' /\ SentInv' /\ (StoredInv => StoredInv')
  <2> DEFINE q == [Idle EXCEPT !.pc = "p_write", !.upid = u, !.index = i]
  <2>1. q \in SvcRequest /\ q.pc \in PartPCs /\ q.pc \notin InitPCs
    BY DEF Idle, SvcRequest, PartPCs, InitPCs
  <2>2. req' = [req EXCEPT ![w] = q]
    BY <1>3 DEF SvcStartPart, StartPart
  <2> HIDE DEF q
  <2>3. /\ req' \in [Workers -> SvcRequest] /\ req'[w] = q
        /\ \A v \in Workers \ {w} : req'[v] = req[v]
    BY <1>1, <2>1, <2>2, ReqIs
  <2>4. UNCHANGED <<hashUpid, mp, fileOf, failed, closed, revived, db, acked, published>>
    BY <1>3 DEF SvcStartPart, StartPart, redis, ghost
  <2>5. Shape'
    BY <2>1, <2>3, <2>4, ShapeMoves DEF Shape
  <2> QED
    BY <2>1, <2>3, <2>4, <2>5, SentQuiet, StoredQuiet DEF EarlyPCs
<1>4. ASSUME NEW n \in Users, NEW u \in UploadIds, SvcStartComplete(w, n, u)
      PROVE  Shape' /\ SentInv' /\ (StoredInv => StoredInv')
  <2> DEFINE q == [Idle EXCEPT !.pc = "m_start", !.user = n, !.file = fileOf[u], !.upid = u]
  <2>1. q \in SvcRequest /\ q.pc = "m_start"
    BY DEF Idle, SvcRequest, Shape
  <2>2. req' = [req EXCEPT ![w] = q]
    BY <1>4 DEF SvcStartComplete, StartComplete
  <2> HIDE DEF q
  <2>3. /\ req' \in [Workers -> SvcRequest] /\ req'[w] = q
        /\ \A v \in Workers \ {w} : req'[v] = req[v]
    BY <1>1, <2>1, <2>2, ReqIs
  <2>4. UNCHANGED <<hashUpid, mp, fileOf, failed, closed, revived, db, acked, published>>
    BY <1>4 DEF SvcStartComplete, StartComplete, redis, ghost
  <2>5. Shape'
    BY <2>1, <2>3, <2>4, ShapeMoves DEF Shape, InitPCs
  <2> QED
    BY <2>1, <2>3, <2>4, <2>5, SentQuiet, StoredQuiet DEF EarlyPCs
<1> QED
  BY <1>2, <1>3, <1>4 DEF SvcStart

LEMMA EarlyMoves ==
  ASSUME Shape, SentInv, NEW w \in Workers, SvcInitStep(w) \/ SvcPartStep(w)
  PROVE  /\ Shape' /\ SentInv'
         /\ StoredInv => StoredInv'
<1>1. NoteRevived /\ UNCHANGED <<failed, closed, published>>
  BY DEF SvcInitStep, SvcPartStep
<1>2. SentInv'
  BY <1>1, SentQuiet
<1>3. CASE InitStep(w)
  <2>1. Shape'
    BY <1>1, <1>3, InitMoves, ShapeMoves DEF Shape
  <2> QED
    BY <1>1, <1>2, <1>3, <2>1, InitMoves, StoredQuiet DEF EarlyPCs
<1>4. CASE PartStep(w)
  <2>1. /\ req' \in [Workers -> SvcRequest]
        /\ req'[w].pc \in EarlyPCs /\ req'[w].pc \notin InitPCs
        /\ \A v \in Workers \ {w} : req'[v] = req[v]
        /\ mp' \in [UploadIds -> Hash]
        /\ UNCHANGED <<hashUpid, fileOf, db, acked>>
    BY <1>4, PartMoves DEF EarlyPCs, PartPCs, InitPCs
  <2>2. Shape'
    BY <1>1, <2>1, ShapeMoves DEF Shape
  <2> QED
    BY <1>1, <1>2, <2>1, <2>2, StoredQuiet
<1> QED
  BY <1>3, <1>4 DEF SvcInitStep, SvcPartStep

--------------------------------------------------------------------------------
(* The steps of a completion *)

\* Rows are added, and what worker w knows of them is true.
LEMMA StoredMoves ==
  ASSUME StoredInv, NEW w \in Workers,
         \A v \in Workers \ {w} : req'[v] = req[v] /\ failed'[v] = failed[v],
         tblFile \subseteq tblFile', userFile \subseteq userFile',
         req'[w].pc = "s_user" => failed'[w] \/ req'[w].file \in tblFile',
         req'[w].pc \in {"s_delhash", "s_delmp", "s_publish"} =>
           Rows(req[w].user, req[w].file)',
         \A done \in acked' \cup published' :
           done \in acked \cup published \/ (done \in userFile' /\ done[2] \in tblFile')
  PROVE  StoredInv'
<1>1. ASSUME NEW v \in Workers
      PROVE  /\ req'[v].pc = "s_user" => failed'[v] \/ req'[v].file \in tblFile'
             /\ req'[v].pc \in {"s_delhash", "s_delmp", "s_publish"} =>
                  Rows(req[v].user, req[v].file)'
  BY DEF StoredInv, Rows
<1>2. StoredBeforeTold'
  BY DEF StoredInv, StoredBeforeTold
<1> QED
  BY <1>1, <1>2 DEF StoredInv

LEMMA MergeMoves ==
  ASSUME Shape, SentInv, NEW w \in Workers,
         SvcMergeStart(w) \/ \E i \in Index : SvcCat(w, i)
  PROVE  /\ Shape' /\ SentInv'
         /\ StoredInv => StoredInv'
<1>1. UNCHANGED <<hashUpid, mp, fileOf, closed, revived, db, acked, published>>
  BY DEF SvcMergeStart, SvcCat, redis, svcGhost
<1>2. /\ req' \in [Workers -> SvcRequest] /\ req'[w].pc \in {"idle", "s_cat", "s_file"}
      /\ failed' \in [Workers -> BOOLEAN]
      /\ \A v \in Workers \ {w} : req'[v] = req[v] /\ failed'[v] = failed[v]
  <2>1. CASE SvcMergeStart(w)
    <3>1. CASE SvcAnswer(w)
      BY <3>1, SvcAnswerIs
    <3>2. CASE ~SvcAnswer(w)
      BY <2>1, <3>2, GotoCatIs DEF SvcMergeStart, Shape
    <3> QED
      BY <3>1, <3>2
  <2>2. ASSUME NEW i \in Index, SvcCat(w, i)
        PROVE  /\ req' \in [Workers -> SvcRequest] /\ req'[w].pc \in {"s_cat", "s_file"}
               /\ UNCHANGED failed
               /\ \A v \in Workers \ {w} : req'[v] = req[v]
    <3>1. req[w].chunks \ {i} \in SUBSET Index /\ UNCHANGED failed
      BY <2>2 DEF Shape, SvcRequest, SvcCat
    <3> QED
      BY <2>2, <3>1, GotoCatIs DEF SvcCat, Shape
  <2> QED
    BY <2>1, <2>2 DEF Shape
<1>3. Shape'
  BY <1>1, <1>2, ShapeMoves DEF Shape, InitPCs
<1> QED
  BY <1>1, <1>2, <1>3, SentQuiet, StoredQuiet DEF EarlyPCs

LEMMA FileMoves ==
  ASSUME Shape, SentInv, NEW w \in Workers, SvcFile(w)
  PROVE  /\ Shape' /\ SentInv'
         /\ DbMayFail = FALSE /\ StoredInv => StoredInv'
<1>1. UNCHANGED <<hashUpid, mp, fileOf, closed, revived, userFile, acked, published>>
  BY DEF SvcFile, redis, ghost, svcGhost
<1>2. /\ req' \in [Workers -> SvcRequest] /\ req'[w].pc = "s_user"
      /\ req'[w].file = req[w].file
      /\ \A v \in Workers \ {w} : req'[v] = req[v]
  BY GotoIs DEF SvcFile, SvcPCs, Shape
<1>3. PICK res \in CallResult :
        /\ tblFile' = IF CallMade(res) THEN tblFile \cup {req[w].file} ELSE tblFile
        /\ failed' = [failed EXCEPT ![w] = CallError(res)]
  BY DEF SvcFile
<1>4. /\ failed' \in [Workers -> BOOLEAN]
      /\ \A v \in Workers \ {w} : failed'[v] = failed[v]
  BY <1>3 DEF Shape, CallError
<1>5. Shape'
  BY <1>1, <1>2, <1>4, ShapeMoves DEF Shape, InitPCs
<1>6. DbMayFail = FALSE => CallMade(res) \/ CallError(res)
  BY DEF CallResult, CallMade, CallError
<1>7. DbMayFail = FALSE => failed'[w] \/ req'[w].file \in tblFile'
  <2>1. failed'[w] = CallError(res)
    BY <1>3 DEF Shape
  <2> QED
    BY <1>2, <1>3, <1>6, <2>1
<1> QED
  BY <1>1, <1>2, <1>3, <1>4, <1>5, <1>7, SentQuiet, StoredMoves

LEMMA UserMoves ==
  ASSUME Shape, SentInv, NEW w \in Workers, SvcUser(w)
  PROVE  /\ Shape' /\ SentInv'
         /\ DbMayFail = FALSE /\ StoredInv => StoredInv'
<1>1. UNCHANGED <<hashUpid, mp, fileOf, closed, revived, tblFile, acked, published>>
  BY DEF SvcUser, redis, ghost, svcGhost
<1>2. PICK res \in CallResult :
        /\ userFile' = IF CallMade(res)
                         THEN userFile \cup {<<req[w].user, req[w].file>>}
                         ELSE userFile
        /\ IF failed[w] \/ CallError(res)
             THEN SvcAnswer(w)
             ELSE Goto(w, "s_delhash") /\ UNCHANGED <<pos, failed>>
  BY DEF SvcUser
<1>3. CASE SvcAnswer(w)
  <2>1. /\ req' \in [Workers -> SvcRequest] /\ req'[w].pc = "idle"
        /\ failed' \in [Workers -> BOOLEAN]
        /\ \A v \in Workers \ {w} : req'[v] = req[v] /\ failed'[v] = failed[v]
    BY <1>3, SvcAnswerIs
  <2>2. Shape'
    BY <1>1, <2>1, ShapeMoves DEF Shape, InitPCs
  <2> QED
    BY <1>1, <1>2, <2>1, <2>2, SentQuiet, StoredMoves
<1>4. CASE ~SvcAnswer(w)
  <2>1. ~failed[w] /\ ~CallError(res) /\ Goto(w, "s_delhash") /\ UNCHANGED failed
    BY <1>2, <1>4
  <2>2. /\ req' \in [Workers -> SvcRequest] /\ req'[w].pc = "s_delhash"
        /\ req'[w].user = req[w].user /\ req'[w].file = req[w].file
        /\ \A v \in Workers \ {w} : req'[v] = req[v]
    BY <2>1, GotoIs DEF SvcPCs, Shape
  <2>3. Shape'
    BY <1>1, <2>1, <2>2, ShapeMoves DEF Shape, InitPCs
  <2>4. DbMayFail = FALSE => CallMade(res)
    BY <2>1 DEF CallResult, CallMade, CallError
  <2>5. DbMayFail = FALSE /\ StoredInv => Rows(req[w].user, req[w].file)'
    <3>1. StoredInv => req[w].file \in tblFile
      BY <2>1 DEF StoredInv, SvcUser
    <3> QED
      BY <1>1, <1>2, <2>2, <2>4, <3>1 DEF Rows
  <2> QED
    BY <1>1, <1>2, <2>1, <2>2, <2>3, <2>5, SentQuiet, StoredMoves
<1> QED
  BY <1>3, <1>4

LEMMA DelHashMoves ==
  ASSUME Shape, SentInv, NEW w \in Workers, SvcDelHash(w)
  PROVE  /\ Shape' /\ SentInv'
         /\ StoredInv => StoredInv'
<1>1. UNCHANGED <<mp, fileOf, closed, revived, failed, db, acked, published>>
  BY DEF SvcDelHash, ghost, svc, svcGhost
<1>2. /\ req' \in [Workers -> SvcRequest] /\ req'[w].pc = "s_delmp"
      /\ req'[w].user = req[w].user /\ req'[w].file = req[w].file
      /\ \A v \in Workers \ {w} : req'[v] = req[v]
  BY GotoIs DEF SvcDelHash, SvcPCs, Shape
<1>3. hashUpid' \in [Files -> UploadIds \cup {None}]
  BY DEF SvcDelHash, Shape
<1>4. Shape'
  BY <1>1, <1>2, <1>3, ShapeMoves DEF Shape, InitPCs
<1>5. StoredInv => Rows(req[w].user, req[w].file)'
  BY <1>1, <1>2 DEF StoredInv, SvcDelHash, Rows, db
<1> QED
  BY <1>1, <1>2, <1>4, <1>5, SentQuiet, StoredMoves DEF db

LEMMA DelMpMoves ==
  ASSUME Shape, SentInv, NEW w \in Workers, SvcDelMp(w)
  PROVE  /\ Shape' /\ SentInv'
         /\ StoredInv => StoredInv'
<1> DEFINE u == req[w].upid
<1>1. /\ UNCHANGED <<hashUpid, fileOf, revived, db, acked, published>>
      /\ mp' = [mp EXCEPT ![u] = NoSession]
      /\ req[w].pc = "s_delmp"
      /\ mp \in [UploadIds -> Hash] /\ closed \in [UploadIds -> 0..2]
  BY DEF SvcDelMp, ghost, Shape
<1>2. mp' \in [UploadIds -> Hash]
  BY <1>1, IdleShape
<1>3. \A x \in UploadIds : IF x = u THEN ~mp'[x].live ELSE mp'[x] = mp[x]
  BY <1>1, IdleShape
<1>4. CASE mp[u].live
  <2>1. /\ closed' = [closed EXCEPT ![u] = IF @ < 2 THEN @ + 1 ELSE @]
        /\ Goto(w, "s_publish") /\ UNCHANGED failed
    BY <1>4 DEF SvcDelMp
  <2>2. /\ req' \in [Workers -> SvcRequest] /\ req'[w].pc = "s_publish"
        /\ req'[w].user = req[w].user /\ req'[w].file = req[w].file
        /\ \A v \in Workers \ {w} : req'[v] = req[v]
    BY <2>1, GotoIs DEF SvcPCs, Shape
  <2>3. /\ closed' \in [UploadIds -> 0..2]
        /\ \A x \in UploadIds : x # u => closed'[x] = closed[x]
        /\ u \in UploadIds /\ closed'[u] = 2 => closed[u] # 0
    <3>1. \A n \in 0..2 : /\ (IF n < 2 THEN n + 1 ELSE n) \in 0..2
                         /\ (IF n < 2 THEN n + 1 ELSE n) = 2 => n # 0
      OBVIOUS
    <3>2. u \in UploadIds => closed'[u] = IF closed[u] < 2 THEN closed[u] + 1 ELSE closed[u]
      BY <1>1, <2>1
    <3>3. u \in UploadIds => closed[u] \in 0..2
      BY <1>1
    <3>4. closed' \in [UploadIds -> 0..2]
      <4> DEFINE c == IF closed[u] < 2 THEN closed[u] + 1 ELSE closed[u]
      <4>1. closed' = [closed EXCEPT ![u] = c]
        BY <2>1
      <4>2. u \in UploadIds => c \in 0..2
        BY <3>1, <3>3
      <4> HIDE DEF c
      <4> QED
        BY <1>1, <4>1, <4>2
    <3> QED
      BY <1>1, <2>1, <3>1, <3>2, <3>3, <3>4
  <2>4. Shape'
    BY <1>1, <1>2, <2>1, <2>2, <2>3, ShapeMoves DEF Shape, InitPCs
  <2>5. SentInv'
    <3>1. u \in UploadIds /\ closed[u] # 0 => u \in revived
      BY <1>4 DEF SentInv
    <3> QED
      BY <1>1, <1>3, <2>3, <3>1 DEF SentInv
  <2>6. StoredInv => Rows(req[w].user, req[w].file)'
    BY <1>1, <2>2 DEF StoredInv, Rows, db
  <2> QED
    BY <1>1, <2>1, <2>2, <2>4, <2>5, <2>6, StoredMoves DEF db
<1>5. CASE ~mp[u].live
  <2>1. SvcAnswer(w) /\ UNCHANGED closed
    BY <1>5 DEF SvcDelMp
  <2>2. /\ req' \in [Workers -> SvcRequest] /\ req'[w].pc = "idle"
        /\ failed' \in [Workers -> BOOLEAN]
        /\ \A v \in Workers \ {w} : req'[v] = req[v] /\ failed'[v] = failed[v]
    BY <2>1, SvcAnswerIs
  <2>3. Shape'
    BY <1>1, <1>2, <2>1, <2>2, ShapeMoves DEF Shape, InitPCs
  <2> QED
    BY <1>1, <1>3, <2>1, <2>2, <2>3, SentQuiet, StoredQuiet DEF EarlyPCs
<1> QED
  BY <1>4, <1>5

LEMMA PublishMoves ==
  ASSUME Shape, SentInv, NEW w \in Workers, SvcPublish(w)
  PROVE  /\ Shape' /\ SentInv'
         /\ StoredInv => StoredInv'
<1> DEFINE done == <<req[w].user, req[w].file>>
<1>1. /\ UNCHANGED <<hashUpid, mp, fileOf, closed, revived, db>>
      /\ acked' = acked \cup {done} /\ published' \in {published, published \cup {done}}
      /\ req[w].pc = "s_publish" /\ SvcAnswer(w)
  BY DEF SvcPublish, redis
<1>2. /\ req' \in [Workers -> SvcRequest] /\ req'[w].pc = "idle"
      /\ failed' \in [Workers -> BOOLEAN]
      /\ \A v \in Workers \ {w} : req'[v] = req[v] /\ failed'[v] = failed[v]
  BY <1>1, SvcAnswerIs
<1>3. Shape'
  BY <1>1, <1>2, ShapeMoves DEF Shape, InitPCs
<1>4. StoredInv => done \in userFile' /\ done[2] \in tblFile'
  BY <1>1 DEF StoredInv, Rows, db
<1> QED
  BY <1>1, <1>2, <1>3, <1>4, SentQuiet, StoredMoves DEF db

--------------------------------------------------------------------------------
(* Every step *)

LEMMA ExpireMoves ==
  ASSUME Shape, SentInv, SvcExpire
  PROVE  /\ Shape' /\ SentInv'
         /\ StoredInv => StoredInv'
<1>1. /\ UNCHANGED <<req, failed, fileOf, closed, revived, db, acked, published>>
      /\ \/ UNCHANGED mp /\ \E f \in Files : hashUpid' = [hashUpid EXCEPT ![f] = None]
         \/ /\ UNCHANGED hashUpid
            /\ \E u \in UploadIds : mp' = [mp EXCEPT ![u] = NoSession]
  BY DEF SvcExpire, ExpireHash, ExpireMp, ghost, svc, svcGhost
<1>2. /\ hashUpid' \in [Files -> UploadIds \cup {None}]
      /\ mp' \in [UploadIds -> Hash]
      /\ \A u \in UploadIds : mp'[u].live => mp[u].live
  BY <1>1, IdleShape DEF Shape
<1>3. Shape'
  BY <1>1, <1>2 DEF Shape
<1>4. StoredInv => StoredInv'
  BY <1>1 DEF StoredInv, StoredBeforeTold, Rows, db
<1> QED
  BY <1>1, <1>2, <1>3, <1>4, SentQuiet

LEMMA CrashMoves ==
  ASSUME Shape, SentInv, SvcCrash
  PROVE  /\ Shape' /\ SentInv'
         /\ StoredInv => StoredInv'
<1>1. /\ UNCHANGED <<hashUpid, mp, fileOf, closed, revived, db, acked, published>>
      /\ req' = [w \in Workers |-> Idle] /\ failed' = [w \in Workers |-> FALSE]
  BY DEF SvcCrash, Crash, redis, ghost, svcGhost
<1>2. \A w \in Workers : req'[w].pc = "idle"
  BY <1>1, IdleShape
<1>3. Shape'
  BY <1>1, <1>2, IdleShape DEF Shape, InitPCs
<1>4. StoredInv => StoredInv'
  BY <1>1, <1>2 DEF StoredInv, StoredBeforeTold, db
<1> QED
  BY <1>1, <1>3, <1>4, SentQuiet

LEMMA StutterMoves ==
  ASSUME Shape, SentInv, UNCHANGED svcVars
  PROVE  /\ Shape' /\ SentInv'
         /\ StoredInv => StoredInv'
<1>1. UNCHANGED <<hashUpid, mp, req, fileOf, failed, closed, revived, db, acked, published>>
  BY DEF svcVars, vars, redis, ghost, svc, svcGhost
<1>2. Shape'
  BY <1>1 DEF Shape
<1>3. StoredInv => StoredInv'
  BY <1>1 DEF StoredInv, StoredBeforeTold, Rows, db
<1> QED
  BY <1>1, <1>2, <1>3, SentQuiet

LEMMA NextMoves ==
  ASSUME Shape, SentInv, [SvcNext]_svcVars
  PROVE  /\ Shape' /\ SentInv'
         /\ DbMayFail = FALSE /\ StoredInv => StoredInv'
<1>1. ASSUME NEW w \in Workers, SvcComplete(w)
      PROVE  /\ Shape' /\ SentInv'
             /\ DbMayFail = FALSE /\ StoredInv => StoredInv'
  BY <1>1, MergeMoves, FileMoves, UserMoves, DelHashMoves, DelMpMoves, PublishMoves
     DEF SvcComplete
<1> QED
  BY <1>1, StartMoves, EarlyMoves, ExpireMoves, CrashMoves, StutterMoves DEF SvcNext

LEMMA InitHolds == SvcInit => Shape /\ SentInv /\ StoredInv
<1> SUFFICES ASSUME SvcInit PROVE Shape /\ SentInv /\ StoredInv
  OBVIOUS
<1>1. \A w \in Workers : req[w] = Idle
  BY DEF SvcInit, Init
<1>2. Shape
  BY <1>1, IdleShape DEF SvcInit, Init, Shape, InitPCs
<1>3. SentInv
  BY IdleShape DEF SvcInit, Init, SentInv
<1>4. StoredInv
  BY <1>1, IdleShape DEF SvcInit, Init, StoredInv, StoredBeforeTold
<1> QED
  BY <1>2, <1>3, <1>4

--------------------------------------------------------------------------------
(* Every variable has its type *)

\* The variables Shape says nothing of.
StoresOK ==
  /\ chunk \in [UploadIds -> [Index -> Cell]]
  /\ merged \in [Files -> Seq(Nat)]
  /\ tblFile \subseteq Files
  /\ userFile \subseteq Users \X Files
  /\ told \subseteq Users \X UploadIds
  /\ acked \subseteq Users \X Files
  /\ published \subseteq Users \X Files
  /\ assembled \subseteq Files
  /\ merges \in [Files -> 0..2]
  /\ pos \in [Workers -> Nat]
  /\ resent \subseteq UploadIds
  /\ blind \subseteq Files
  /\ revived \subseteq UploadIds

\* Steps that know the file of the request, and those that know its session.
CompletePCs == {"m_start"} \cup SvcPCs
KnownPCs    == InitPCs \cup CompletePCs
NamedPCs    == (InitPCs \ {"i_exists", "i_get"}) \cup CompletePCs

\* The request of worker w carries what its steps read, and its upload id was
\* generated for its file.
Carries(w) ==
  /\ req[w].pc \in KnownPCs => req[w].user \in Users /\ req[w].file \in Files
  /\ req[w].pc \in NamedPCs =>
       req[w].upid \in UploadIds /\ fileOf[req[w].upid] = req[w].file
  /\ req[w].pc \in PartPCs =>
       /\ req[w].upid \in UploadIds /\ fileOf[req[w].upid] \in Files
       /\ req[w].index \in Indexes(fileOf[req[w].upid])

\* An upload id in Redis or with a client is one of the file it stands for.
Origins ==
  /\ \A f \in Files : hashUpid[f] # None => fileOf[hashUpid[f]] = f
  /\ \A n \in Users, u \in UploadIds : <<n, u>> \in told => fileOf[u] \in Files

\* A chunk count is that of the file the upload id was generated for; so are the
\* indexes of its flags and of its chunk files.
NumberOf(u, i) == fileOf[u] \in Files /\ i \in Indexes(fileOf[u])
Sessions == \A u \in UploadIds :
  /\ mp[u].count # 0 => fileOf[u] \in Files /\ mp[u].count = ChunkCount[fileOf[u]]
  /\ \A i \in mp[u].flags : NumberOf(u, i)
  /\ \A i \in Index : chunk[u][i] # "none" => NumberOf(u, i)

FormInv == StoresOK /\ (\A w \in Workers : Carries(w)) /\ Origins /\ Sessions

LEMMA TypeFollows == Shape /\ FormInv => SvcTypeOK
<1> SUFFICES ASSUME Shape, FormInv PROVE SvcTypeOK
  OBVIOUS
<1>1. mp \in [UploadIds -> Session]
  <2>1. \A u \in UploadIds : mp[u] \in Hash /\ mp[u].flags \subseteq Index
    BY DEF Shape, FormInv, Sessions, NumberOf, Index
  <2>2. \A s \in Hash : s.flags \subseteq Index => s \in Session
    BY DEF Hash, Session
  <2> QED
    BY <2>1, <2>2 DEF Shape
<1>2. \A w \in Workers : req[w].pc \in {"m_start"} \cup SvcPCs =>
        req[w].user \in Users /\ req[w].file \in Files /\ req[w].upid \in UploadIds
  BY DEF FormInv, Carries, KnownPCs, NamedPCs, CompletePCs
<1> QED
  BY <1>1, <1>2 DEF SvcTypeOK, Shape, FormInv, StoresOK

\* Upload ids keep the file they were generated for.
Grows == \A u \in UploadIds : fileOf[u] # None => fileOf'[u] = fileOf[u]

\* Worker w, and no other, moves, to a request that carries what it needs, and
\* what the step stores is of the file the upload id was generated for.
LEMMA FormMoves ==
  ASSUME Shape, FormInv, NEW w \in Workers, Grows,
         \A v \in Workers \ {w} : req'[v] = req[v],
         StoresOK', Carries(w)',
         \A f \in Files : hashUpid'[f] \in {None, hashUpid[f]} \/ fileOf'[hashUpid'[f]] = f,
         \A n \in Users, u \in UploadIds :
           <<n, u>> \in told' => <<n, u>> \in told \/ fileOf'[u] \in Files,
         \A u \in UploadIds :
           /\ \/ mp'[u].count \in {0, mp[u].count}
              \/ fileOf'[u] \in Files /\ mp'[u].count = ChunkCount[fileOf'[u]]
           /\ \A i \in mp'[u].flags : i \in mp[u].flags \/ NumberOf(u, i)'
           /\ \A i \in Index : chunk'[u][i] # "none" => chunk[u][i] # "none" \/ NumberOf(u, i)'
  PROVE  FormInv'
<1>1. \A u \in UploadIds : fileOf[u] \in Files => fileOf'[u] = fileOf[u]
  BY NoneAssumption DEF Grows
<1>2. ASSUME NEW v \in Workers PROVE Carries(v)'
  <2>1. CASE v = w
    BY <2>1
  <2>2. CASE v # w
    <3>1. req'[v] = req[v] /\ Carries(v)
      BY <2>2 DEF FormInv
    <3>2. NamedPCs \subseteq KnownPCs
      BY DEF NamedPCs, KnownPCs
    <3> QED
      BY <1>1, <3>1, <3>2 DEF Carries
  <2> QED
    BY <2>1, <2>2
<1>3. Origins'
  <2>1. ASSUME NEW f \in Files, hashUpid'[f] # None PROVE fileOf'[hashUpid'[f]] = f
    <3>1. hashUpid'[f] = hashUpid[f] => hashUpid[f] \in UploadIds /\ fileOf[hashUpid[f]] = f
      BY <2>1 DEF FormInv, Origins, Shape
    <3> QED
      BY <1>1, <2>1, <3>1
  <2> QED
    BY <1>1, <2>1 DEF FormInv, Origins
<1>4. Sessions'
  <2> SUFFICES ASSUME NEW u \in UploadIds
               PROVE  /\ mp'[u].count # 0 =>
                           fileOf'[u] \in Files /\ mp'[u].count = ChunkCount[fileOf'[u]]
                      /\ \A i \in mp'[u].flags : NumberOf(u, i)'
                      /\ \A i \in Index : chunk'[u][i] # "none" => NumberOf(u, i)'
    BY DEF Sessions
  <2>1. \A i : NumberOf(u, i) => NumberOf(u, i)'
    BY <1>1 DEF NumberOf
  <2>2. /\ mp[u].count # 0 => fileOf[u] \in Files /\ mp[u].count = ChunkCount[fileOf[u]]
        /\ \A i \in mp[u].flags : NumberOf(u, i)
        /\ \A i \in Index : chunk[u][i] # "none" => NumberOf(u, i)
    BY DEF FormInv, Sessions
  <2> QED
    BY <1>1, <2>1, <2>2
<1> QED
  BY <1>2, <1>3, <1>4 DEF FormInv

\* As above, where nothing but a worker's request and ghosts or rows change.
LEMMA FormQuiet ==
  ASSUME Shape, FormInv, NEW w \in Workers,
         \A v \in Workers \ {w} : req'[v] = req[v],
         UNCHANGED <<mp, chunk, fileOf, told>>,
         \A f \in Files : hashUpid'[f] \in {None, hashUpid[f]},
         StoresOK', Carries(w)'
  PROVE  FormInv'
BY FormMoves DEF Grows

\* A worker that does not serve carries nothing.
LEMMA IdleCarries ==
  ASSUME NEW w \in Workers
  PROVE  req'[w].pc = "idle" => Carries(w)'
BY DEF Carries, KnownPCs, NamedPCs, CompletePCs, InitPCs, PartPCs, SvcPCs

LEMMA CarriesKnown ==
  ASSUME FormInv, NEW w \in Workers
  PROVE  /\ req[w].pc \in KnownPCs => req[w].user \in Users /\ req[w].file \in Files
         /\ req[w].pc \in NamedPCs =>
              req[w].upid \in UploadIds /\ fileOf[req[w].upid] = req[w].file
BY DEF FormInv, Carries

\* An init request that goes on knows its user, its file and, once it has asked
\* Redis or the clock, an upload id of that file.
LEMMA InitCarries ==
  ASSUME NEW w \in Workers, req'[w].pc \in InitPCs,
         req'[w].user \in Users, req'[w].file \in Files,
         req'[w].pc \notin {"i_exists", "i_get"} =>
           req'[w].upid \in UploadIds /\ fileOf'[req'[w].upid] = req'[w].file
  PROVE  Carries(w)'
BY DEF Carries, KnownPCs, NamedPCs, CompletePCs, InitPCs, PartPCs, SvcPCs

\* What a step of an init request leaves alone, and what it stores.
InitFrame ==
  /\ UNCHANGED <<chunk, merged, db, acked, assembled, merges>>
  /\ Grows
  /\ told' \subseteq Users \X UploadIds
  /\ \A f \in Files : hashUpid'[f] \in {None, hashUpid[f]} \/ fileOf'[hashUpid'[f]] = f
  /\ \A n \in Users, u \in UploadIds :
       <<n, u>> \in told' => <<n, u>> \in told \/ fileOf'[u] \in Files
  /\ \A u \in UploadIds :
       /\ mp'[u].flags = mp[u].flags
       /\ \/ mp'[u].count = mp[u].count
          \/ fileOf'[u] \in Files /\ mp'[u].count = ChunkCount[fileOf'[u]]

\* The reply with upload id u.
LEMMA ReplyTold ==
  ASSUME Shape, FormInv, NEW w \in Workers, NEW u \in UploadIds,
         req[w].user \in Users, fileOf'[u] \in Files, ReplyUpInfo(w, u)
  PROVE  /\ told' \subseteq Users \X UploadIds
         /\ \A n \in Users, x \in UploadIds :
              <<n, x>> \in told' => <<n, x>> \in told \/ fileOf'[x] \in Files
         /\ UNCHANGED <<acked, assembled, merges>>
         /\ Carries(w)'
<1>1. Carries(w)'
  BY AnswerIs, IdleCarries DEF ReplyUpInfo, Shape
<1>2. \/ told' = told
      \/ told' = told \cup {<<req[w].user, u>>}
  BY DEF ReplyUpInfo
<1>3. told \subseteq Users \X UploadIds
  BY DEF FormInv, StoresOK
<1> QED
  BY <1>1, <1>2, <1>3 DEF ReplyUpInfo

LEMMA InitIs ==
  ASSUME Shape, FormInv, NEW w \in Workers, InitStep(w)
  PROVE  InitFrame /\ Carries(w)'
<1> DEFINE f == req[w].file
           u == req[w].upid
<1>1. /\ req[w].pc \in InitPCs => f \in Files /\ req[w].user \in Users
      /\ req[w].pc \in InitPCs \ {"i_exists", "i_get"} => u \in UploadIds /\ fileOf[u] = f
      /\ req \in [Workers -> SvcRequest]
      /\ None \notin UploadIds /\ None \notin Files
      /\ told \subseteq Users \X UploadIds
  BY CarriesKnown, NoneAssumption
     DEF Shape, FormInv, StoresOK, KnownPCs, NamedPCs
<1>2. /\ hashUpid \in [Files -> UploadIds \cup {None}] /\ mp \in [UploadIds -> Hash]
      /\ fileOf \in [UploadIds -> Files \cup {None}]
  BY DEF Shape
<1>3. CASE InitResume(w)
  <2>1. req[w].pc \in InitPCs
    BY <1>3 DEF InitResume, InitPCs
  <2>2. Carries(w)'
    BY <1>1, <1>3, <2>1, GotoIs, InitCarries DEF InitResume, InitPCs
  <2> QED
    BY <1>1, <1>3, <2>2 DEF InitResume, InitFrame, Grows, redis, ghost
<1>4. ASSUME NEW x \in UploadIds, InitFresh(w, x) PROVE InitFrame /\ Carries(w)'
  <2>1. req[w].pc \in InitPCs /\ "i_count" \in InitPCs
    BY <1>4 DEF InitFresh, InitPCs
  <2>2. fileOf[x] = None /\ fileOf'[x] = f /\ Grows
    BY <1>2, <1>4 DEF InitFresh, Grows
  <2>3. Carries(w)'
    BY <1>1, <1>4, <2>1, <2>2, GotoWithIs, InitCarries DEF InitFresh
  <2> QED
    BY <1>1, <1>4, <2>2, <2>3 DEF InitFresh, InitFrame, redis, ghost
<1>5. ASSUME NEW x \in UploadIds, InitRefused(w, x) PROVE InitFrame /\ Carries(w)'
  <2>1. req[w].pc \in InitPCs
    BY <1>5 DEF InitRefused, InitPCs
  <2>2. fileOf[x] = None /\ fileOf'[x] = f /\ Grows
    BY <1>2, <1>5 DEF InitRefused, Grows
  <2> QED
    BY <1>1, <1>5, <2>1, <2>2, ReplyTold DEF InitRefused, InitFrame, redis
<1>6. CASE InitGet(w)
  <2>1. req[w].pc \in InitPCs /\ "i_list" \in InitPCs
    BY <1>6 DEF InitGet, InitPCs
  <2>2. Carries(w)'
    <3>1. CASE hashUpid[f] = None
      BY <1>1, <1>6, <3>1, AnswerIs, IdleCarries DEF InitGet
    <3>2. CASE hashUpid[f] # None
      <4>1. hashUpid[f] \in UploadIds /\ fileOf[hashUpid[f]] = f
        BY <1>1, <1>2, <2>1, <3>2 DEF FormInv, Origins
      <4> QED
        BY <1>1, <1>6, <2>1, <3>2, <4>1, GotoWithIs, InitCarries DEF InitGet
    <3> QED
      BY <3>1, <3>2
  <2> QED
    BY <1>1, <1>6, <2>2 DEF InitGet, InitFrame, Grows, redis, ghost
<1>7. CASE InitList(w)
  <2>1. req[w].pc \in InitPCs \ {"i_exists", "i_get"} /\ "i_count" \in InitPCs
    BY <1>7 DEF InitList, InitPCs
  <2>2. CASE mp[u].flags = {}
    <3>1. Carries(w)'
      BY <1>1, <1>7, <2>1, <2>2, GotoIs, InitCarries DEF InitList
    <3> QED
      BY <1>1, <1>7, <2>2, <3>1 DEF InitList, InitFrame, Grows, redis, ghost
  <2>3. CASE mp[u].flags # {}
    BY <1>1, <1>7, <2>1, <2>3, ReplyTold DEF InitList, InitFrame, Grows, redis
  <2> QED
    BY <2>2, <2>3
<1>8. CASE InitCount(w)
  <2>1. req[w].pc \in InitPCs \ {"i_exists", "i_get"} /\ "i_meta" \in InitPCs
    BY <1>8 DEF InitCount, InitPCs
  <2>2. Carries(w)'
    BY <1>1, <1>8, <2>1, GotoIs, InitCarries DEF InitCount
  <2>3. \A x \in UploadIds : /\ mp'[x].flags = mp[x].flags
                            /\ mp'[x].count = IF x = u THEN ChunkCount[f] ELSE mp[x].count
    BY <1>2, <1>8 DEF InitCount, HSetCount, Hash
  <2> QED
    BY <1>1, <1>8, <2>1, <2>2, <2>3 DEF InitCount, InitFrame, Grows, ghost
<1>9. CASE InitMeta(w)
  <2>1. req[w].pc \in InitPCs \ {"i_exists", "i_get"} /\ "i_expire" \in InitPCs
    BY <1>9 DEF InitMeta, InitPCs
  <2>2. Carries(w)'
    BY <1>1, <1>9, <2>1, GotoIs, InitCarries DEF InitMeta
  <2>3. \A x \in UploadIds : mp'[x].flags = mp[x].flags /\ mp'[x].count = mp[x].count
    BY <1>2, <1>9 DEF InitMeta, HSetMeta, Hash
  <2> QED
    BY <1>1, <1>9, <2>2, <2>3 DEF InitMeta, InitFrame, Grows, ghost
<1>10. CASE InitExpire(w)
  <2>1. req[w].pc \in InitPCs \ {"i_exists", "i_get"} /\ "i_sethash" \in InitPCs
    BY <1>10 DEF InitExpire, InitPCs
  <2>2. Carries(w)'
    BY <1>1, <1>10, <2>1, GotoIs, InitCarries DEF InitExpire
  <2>3. \A x \in UploadIds : mp'[x].flags = mp[x].flags /\ mp'[x].count = mp[x].count
    BY <1>2, <1>10 DEF InitExpire, Expire, Hash
  <2> QED
    BY <1>1, <1>10, <2>2, <2>3 DEF InitExpire, InitFrame, Grows, ghost
<1>11. CASE InitSetHash(w)
  <2>1. req[w].pc \in InitPCs \ {"i_exists", "i_get"}
    BY <1>11 DEF InitSetHash, InitPCs
  <2>2. \A x \in Files : hashUpid'[x] = IF x = f THEN u ELSE hashUpid[x]
    BY <1>2, <1>11 DEF InitSetHash
  <2> QED
    BY <1>1, <1>11, <2>1, <2>2, ReplyTold DEF InitSetHash, InitFrame, Grows
<1> QED
  BY <1>3, <1>4, <1>5, <1>6, <1>7, <1>8, <1>9, <1>10, <1>11 DEF InitStep


\* A part request that goes on keeps its session and its index.
LEMMA PartCarries ==
  ASSUME FormInv, NEW w \in Workers, req[w].pc \in PartPCs, UNCHANGED fileOf,
         req'[w].pc \in PartPCs, req'[w].upid = req[w].upid, req'[w].index = req[w].index
  PROVE  Carries(w)'
BY DEF FormInv, Carries, KnownPCs, NamedPCs, CompletePCs, InitPCs, PartPCs, SvcPCs

\* One chunk file gets other bytes.
LEMMA ChunkIs ==
  ASSUME FormInv, NEW u \in UploadIds, NEW i \in Index, NEW c \in Cell,
         chunk' = [chunk EXCEPT ![u][i] = c]
  PROVE  /\ chunk' \in [UploadIds -> [Index -> Cell]]
         /\ \A x \in UploadIds, j \in Index :
              chunk'[x][j] = IF x = u /\ j = i THEN c ELSE chunk[x][j]
<1>1. chunk \in [UploadIds -> [Index -> Cell]]
  BY DEF FormInv, StoresOK
<1>2. chunk' = [chunk EXCEPT ![u] = [chunk[u] EXCEPT ![i] = c]]
  OBVIOUS
<1> QED
  BY <1>1, <1>2

\* The steps of a part request, told apart by what they change.
LEMMA PartIs ==
  ASSUME Shape, FormInv, NEW w \in Workers, PartStep(w)
  PROVE  /\ req[w].pc \in PartPCs
         /\ req[w].upid \in UploadIds /\ req[w].index \in Index
         /\ NumberOf(req[w].upid, req[w].index)
         /\ UNCHANGED <<hashUpid, merged, db, fileOf, ghost>>
         /\ chunk' \in [UploadIds -> [Index -> Cell]]
         /\ \A x \in UploadIds, j \in Index :
              x # req[w].upid \/ j # req[w].index => chunk'[x][j] = chunk[x][j]
         /\ \A x \in UploadIds :
              /\ mp'[x].count = mp[x].count
              /\ mp'[x].flags \in {mp[x].flags, mp[x].flags \cup
                                     (IF x = req[w].upid THEN {req[w].index} ELSE {})}
         /\ Carries(w)'
<1> DEFINE u == req[w].upid
           i == req[w].index
<1>1. req[w].pc \in PartPCs
  BY DEF PartStep, PartCopy, PartWrite, PartVerify, PartFlag, PartPCs
<1>2. u \in UploadIds /\ i \in Index /\ NumberOf(u, i)
  BY <1>1 DEF FormInv, Carries, NumberOf, Index
<1>3. /\ req \in [Workers -> SvcRequest] /\ mp \in [UploadIds -> Hash]
      /\ chunk \in [UploadIds -> [Index -> Cell]]
  BY DEF Shape, FormInv, StoresOK
<1>4. CASE PartCopy(w)
  <2>1. "bad" \in Cell /\ UNCHANGED <<redis, merged, db, req, fileOf, ghost>>
    BY <1>4 DEF PartCopy, Cell
  <2>2. Carries(w)'
    BY <1>1, <2>1, PartCarries
  <2> QED
    BY <1>1, <1>2, <1>4, <2>1, <2>2, ChunkIs DEF PartCopy, redis
<1>5. CASE PartWrite(w)
  <2>1. Carries(w)'
    BY <1>1, <1>3, <1>5, GotoIs, PartCarries DEF PartWrite, PartPCs
  <2>2. PICK c \in {"good"} \cup Damage : chunk' = [chunk EXCEPT ![u][i] = c]
    BY <1>5 DEF PartWrite
  <2>3. c \in Cell
    BY <2>2, ConfigAssumption DEF Cell
  <2>4. /\ chunk' \in [UploadIds -> [Index -> Cell]]
        /\ \A x \in UploadIds, j \in Index : x # u \/ j # i => chunk'[x][j] = chunk[x][j]
    <3>1. u \in UploadIds /\ i \in Index
      BY <1>2
    <3>2. chunk' = [chunk EXCEPT ![u][i] = c]
      BY <2>2
    <3> HIDE DEF u, i
    <3> QED
      BY ZenonT(30), <2>3, <3>1, <3>2, ChunkIs
  <2>5. UNCHANGED <<hashUpid, mp, merged, db, fileOf, ghost>>
    BY <1>5 DEF PartWrite, redis
  <2> QED
    BY <1>1, <1>2, <2>1, <2>4, <2>5
<1>6. CASE PartVerify(w)
  <2>1. Carries(w)'
    BY <1>1, <1>3, <1>6, GotoIs, AnswerIs, IdleCarries, PartCarries DEF PartVerify, PartPCs
  <2> QED
    BY <1>1, <1>2, <1>3, <1>6, <2>1 DEF PartVerify, redis
<1>7. CASE PartFlag(w)
  <2>1. Carries(w)'
    BY <1>3, <1>7, AnswerIs, IdleCarries DEF PartFlag
  <2>2. \A x \in UploadIds :
          /\ mp'[x].count = mp[x].count
          /\ mp'[x].flags \in {mp[x].flags, mp[x].flags \cup (IF x = u THEN {i} ELSE {})}
    <3>1. mp' = mp \/ mp' = [mp EXCEPT ![u] = HSetFlag(mp[u], i)]
      BY <1>7 DEF PartFlag
    <3>2. HSetFlag(mp[u], i).count = mp[u].count
          /\ HSetFlag(mp[u], i).flags = mp[u].flags \cup {i}
      BY <1>2, <1>3 DEF HSetFlag, Hash
    <3> HIDE DEF u, i
    <3> QED
      BY <1>2, <1>3, <3>1, <3>2
  <2> QED
    BY <1>1, <1>2, <1>3, <1>7, <2>1, <2>2 DEF PartFlag
<1> QED
  BY <1>4, <1>5, <1>6, <1>7 DEF PartStep

LEMMA EarlyForm ==
  ASSUME Shape, FormInv, NEW w \in Workers, SvcInitStep(w) \/ SvcPartStep(w)
  PROVE  FormInv'
<1>1. UNCHANGED <<pos, resent, blind, published>> /\ revived' \subseteq UploadIds
  BY DEF SvcInitStep, SvcPartStep, NoteRevived, FormInv, StoresOK
<1>2. CASE InitStep(w)
  <2>1. InitFrame /\ Carries(w)' /\ \A v \in Workers \ {w} : req'[v] = req[v]
    BY <1>2, InitIs, InitMoves
  <2>2. StoresOK'
    BY <1>1, <2>1 DEF InitFrame, FormInv, StoresOK, db
  <2> QED
    BY <2>1, <2>2, FormMoves DEF InitFrame
<1>3. CASE PartStep(w)
  <2>1. PICK u \in UploadIds, i \in Index :
        /\ NumberOf(u, i)
        /\ UNCHANGED <<hashUpid, merged, db, fileOf, ghost>>
        /\ chunk' \in [UploadIds -> [Index -> Cell]]
        /\ \A x \in UploadIds, j \in Index : x # u \/ j # i => chunk'[x][j] = chunk[x][j]
        /\ \A x \in UploadIds :
             /\ mp'[x].count = mp[x].count
             /\ mp'[x].flags \in {mp[x].flags, mp[x].flags \cup (IF x = u THEN {i} ELSE {})}
        /\ Carries(w)'
    BY <1>3, PartIs
  <2>2. \A v \in Workers \ {w} : req'[v] = req[v]
    BY <1>3, PartMoves
  <2>3. StoresOK'
    BY <1>1, <2>1 DEF FormInv, StoresOK, db, ghost
  <2>4. NumberOf(u, i)' /\ Grows
    BY <2>1 DEF NumberOf, Grows
  <2>5. UNCHANGED <<hashUpid, told>>
    BY <2>1 DEF ghost
  <2>6. ASSUME NEW x \in UploadIds
        PROVE  /\ mp'[x].count \in {0, mp[x].count}
               /\ \A j \in mp'[x].flags : j \in mp[x].flags \/ NumberOf(x, j)'
               /\ \A j \in Index : chunk'[x][j] # "none" =>
                    chunk[x][j] # "none" \/ NumberOf(x, j)'
    BY <2>1, <2>4
  <2> QED
    BY <2>1, <2>2, <2>3, <2>4, <2>5, <2>6, FormMoves
<1> QED
  BY <1>2, <1>3 DEF SvcInitStep, SvcPartStep


LEMMA StartForm ==
  ASSUME Shape, FormInv, NEW w \in Workers, SvcStart(w)
  PROVE  FormInv'
<1>1. req \in [Workers -> SvcRequest] /\ fileOf \in [UploadIds -> Files \cup {None}]
  BY DEF Shape
<1>2. ASSUME NEW n \in Users, NEW f \in Files, SvcStartInit(w, n, f) PROVE FormInv'
  <2> DEFINE q == [Idle EXCEPT !.pc = "i_exists", !.user = n, !.file = f]
  <2>1. q \in SvcRequest /\ q.pc = "i_exists" /\ q.user = n /\ q.file = f
    BY DEF Idle, SvcRequest, InitPCs
  <2>2. req' = [req EXCEPT ![w] = q]
    BY <1>2 DEF SvcStartInit
  <2> HIDE DEF q
  <2>3. req'[w] = q /\ \A v \in Workers \ {w} : req'[v] = req[v]
    BY <1>1, <2>1, <2>2, ReqIs
  <2>4. Carries(w)'
    BY <2>1, <2>3, InitCarries DEF InitPCs
  <2>5. UNCHANGED <<redis, chunk, merged, db, fileOf, ghost, svc>>
    BY <1>2 DEF SvcStartInit
  <2>6. StoresOK'
    BY <2>5 DEF FormInv, StoresOK, db, ghost, svc, svcGhost
  <2> QED
    BY <2>3, <2>4, <2>5, <2>6, FormQuiet DEF redis, ghost
<1>3. ASSUME NEW u \in UploadIds, NEW i \in Index, SvcStartPart(w, u, i) PROVE FormInv'
  <2> DEFINE q == [Idle EXCEPT !.pc = "p_write", !.upid = u, !.index = i]
  <2>1. q \in SvcRequest /\ q.pc = "p_write" /\ q.upid = u /\ q.index = i
    BY DEF Idle, SvcRequest, PartPCs
  <2>2. req' = [req EXCEPT ![w] = q]
    BY <1>3 DEF SvcStartPart, StartPart
  <2> HIDE DEF q
  <2>3. req'[w] = q /\ \A v \in Workers \ {w} : req'[v] = req[v]
    BY <1>1, <2>1, <2>2, ReqIs
  <2>4. NumberOf(u, i)
    BY <1>3 DEF SvcStartPart, StartPart, FormInv, Origins, NumberOf
  <2>5. /\ UNCHANGED <<redis, merged, db, fileOf, ghost, pos, blind, revived, published>>
        /\ resent' \subseteq resent \cup {u}
        /\ chunk' = [chunk EXCEPT ![u][i] = "empty"]
    BY <1>3 DEF SvcStartPart, StartPart
  <2>6. Carries(w)'
    BY <2>1, <2>3, <2>4, <2>5
       DEF Carries, NumberOf, KnownPCs, NamedPCs, CompletePCs, InitPCs, PartPCs, SvcPCs
  <2>7. /\ chunk' \in [UploadIds -> [Index -> Cell]]
        /\ \A x \in UploadIds, j \in Index :
             chunk'[x][j] = IF x = u /\ j = i THEN "empty" ELSE chunk[x][j]
    <3>1. "empty" \in Cell
      BY DEF Cell
    <3> QED
      BY ZenonT(30), <2>5, <3>1, ChunkIs
  <2>8. StoresOK'
    BY <2>5, <2>7 DEF FormInv, StoresOK, db, ghost
  <2>9. NumberOf(u, i)' /\ Grows
    BY <2>4, <2>5 DEF NumberOf, Grows
  <2> QED
    BY <2>3, <2>5, <2>6, <2>7, <2>8, <2>9, FormMoves DEF redis, ghost
<1>4. ASSUME NEW n \in Users, NEW u \in UploadIds, SvcStartComplete(w, n, u) PROVE FormInv'
  <2> DEFINE q == [Idle EXCEPT !.pc = "m_start", !.user = n, !.file = fileOf[u], !.upid = u]
  <2>1. q \in SvcRequest /\ q.pc = "m_start" /\ q.user = n /\ q.file = fileOf[u] /\ q.upid = u
    BY <1>1 DEF Idle, SvcRequest
  <2>2. req' = [req EXCEPT ![w] = q]
    BY <1>4 DEF SvcStartComplete, StartComplete
  <2> HIDE DEF q
  <2>3. req'[w] = q /\ \A v \in Workers \ {w} : req'[v] = req[v]
    BY <1>1, <2>1, <2>2, ReqIs
  <2>4. fileOf[u] \in Files
    BY <1>4 DEF SvcStartComplete, StartComplete, FormInv, Origins
  <2>5. /\ UNCHANGED <<redis, chunk, merged, db, fileOf, ghost, pos, resent, revived, published>>
        /\ blind' \subseteq blind \cup {fileOf[u]}
    BY <1>4 DEF SvcStartComplete, StartComplete
  <2>6. Carries(w)'
    BY <2>1, <2>3, <2>4, <2>5
       DEF Carries, KnownPCs, NamedPCs, CompletePCs, InitPCs, PartPCs, SvcPCs
  <2>7. StoresOK'
    BY <2>4, <2>5 DEF FormInv, StoresOK, db, ghost
  <2> QED
    BY <2>3, <2>5, <2>6, <2>7, FormQuiet DEF redis, ghost
<1> QED
  BY <1>2, <1>3, <1>4 DEF SvcStart

\* A completion that goes on keeps its user, its file and its session.
LEMMA CompleteCarries ==
  ASSUME FormInv, NEW w \in Workers, req[w].pc \in CompletePCs, UNCHANGED fileOf,
         req'[w].pc \in SvcPCs, req'[w].user = req[w].user, req'[w].file = req[w].file,
         req'[w].upid = req[w].upid
  PROVE  Carries(w)'
BY DEF FormInv, Carries, KnownPCs, NamedPCs, CompletePCs, InitPCs, PartPCs, SvcPCs

\* A file written at an offset is a file.
LEMMA WrittenIsSeq ==
  ASSUME NEW s \in Seq(Nat), NEW at \in Nat, NEW b \in Seq(Nat)
  PROVE  WrittenAt(s, at, b) \in Seq(Nat)
<1> DEFINE end == at + Len(b)
           n == IF end > Len(s) THEN end ELSE Len(s)
           c(k) == CASE k \in at + 1..end -> b[k - at]
                     [] k <= Len(s) -> s[k]
                     [] OTHER -> 0
<1>1. n \in Nat
  OBVIOUS
<1>2. ASSUME NEW k \in 1..n PROVE c(k) \in Nat
  <2>1. k \in at + 1..end => k - at \in 1..Len(b)
    OBVIOUS
  <2>2. k \in at + 1..end => b[k - at] \in Nat
    BY <2>1
  <2>3. k <= Len(s) => s[k] \in Nat
    BY <1>1
  <2> QED
    BY <2>2, <2>3
<1>3. WrittenAt(s, at, b) = [k \in 1..n |-> c(k)]
  BY DEF WrittenAt
<1> HIDE DEF n, c
<1>4. [k \in 1..n |-> c(k)] \in Seq(Nat)
  BY <1>1, <1>2
<1> QED
  BY <1>3, <1>4

\* What cat writes of a chunk.
LEMMA BytesIs ==
  ASSUME NEW c \in Cell, NEW i \in Index
  PROVE  Bytes(c, i) \in Seq(Nat)
BY IndexIsNat DEF Bytes, Cell


\* What a completion has when it takes a step.
LEMMA CompleteHas ==
  ASSUME Shape, FormInv, NEW w \in Workers, req[w].pc \in CompletePCs
  PROVE  /\ req[w].user \in Users /\ req[w].file \in Files
         /\ req[w].upid \in UploadIds /\ fileOf[req[w].upid] = req[w].file
         /\ req \in [Workers -> SvcRequest] /\ pos \in [Workers -> Nat]
BY CarriesKnown DEF Shape, FormInv, StoresOK, KnownPCs, NamedPCs

\* A completion begins to merge, or is turned away.
LEMMA MergeStartIs ==
  ASSUME Shape, FormInv, NEW w \in Workers, SvcMergeStart(w)
  PROVE  /\ UNCHANGED <<redis, chunk, db, fileOf, told, acked, assembled, svcGhost>>
         /\ \A v \in Workers \ {w} : req'[v] = req[v] /\ pos'[v] = pos[v]
         /\ StoresOK' /\ Carries(w)'
         /\ \/ req'[w].pc = "idle" /\ UNCHANGED <<merged, merges>>
            \/ /\ req'[w].pc = "s_cat" /\ pos'[w] = 0
               /\ req'[w].file = req[w].file /\ req'[w].upid = req[w].upid
               /\ req'[w].chunks = {i \in Index : chunk[req[w].upid][i] # "none"}
               /\ merged' = [merged EXCEPT ![req[w].file] = <<>>]
               /\ merges' = [merges EXCEPT ![req[w].file] =
                               IF merges[req[w].file] < 2 THEN merges[req[w].file] + 1
                                                          ELSE merges[req[w].file]]
<1> DEFINE f == req[w].file
           S == {i \in Index : chunk[req[w].upid][i] # "none"}
<1>1. /\ UNCHANGED <<redis, chunk, db, fileOf, told, acked, assembled, svcGhost>>
      /\ req[w].pc \in CompletePCs
      /\ IF S = {}
           THEN SvcAnswer(w) /\ UNCHANGED <<merged, merges>>
           ELSE /\ merged' = [merged EXCEPT ![f] = <<>>]
                /\ merges' = [merges EXCEPT ![f] =
                                IF merges[f] < 2 THEN merges[f] + 1 ELSE merges[f]]
                /\ GotoCat(w, S, 0)
                /\ UNCHANGED failed
  BY DEF SvcMergeStart, CompletePCs
<1>2. /\ f \in Files /\ req \in [Workers -> SvcRequest] /\ pos \in [Workers -> Nat]
  BY <1>1, CompleteHas
<1>3. CASE S = {}
  <2>1. /\ req'[w].pc = "idle" /\ UNCHANGED <<merged, merges>>
        /\ \A v \in Workers \ {w} : req'[v] = req[v] /\ pos'[v] = pos[v]
        /\ pos' \in [Workers -> Nat] /\ Carries(w)'
    BY <1>1, <1>2, <1>3, SvcAnswerIs, IdleCarries DEF SvcAnswer
  <2>2. StoresOK'
    BY <1>1, <2>1 DEF FormInv, StoresOK, db, svcGhost
  <2> QED
    BY <1>1, <2>1, <2>2
<1>4. CASE S # {}
  <2>1. /\ S \in SUBSET Index /\ GotoCat(w, S, 0)
        /\ merged' = [merged EXCEPT ![f] = <<>>]
        /\ merges' = [merges EXCEPT ![f] =
                        IF merges[f] < 2 THEN merges[f] + 1 ELSE merges[f]]
    BY <1>1, <1>4
  <2> HIDE DEF S
  <2>2. /\ req'[w].pc = "s_cat" /\ req'[w].chunks = S
        /\ req'[w].user = req[w].user /\ req'[w].file = f /\ req'[w].upid = req[w].upid
        /\ \A v \in Workers \ {w} : req'[v] = req[v]
    BY <1>2, <1>4, <2>1, GotoCatIs
  <2>3. /\ pos' \in [Workers -> Nat] /\ pos'[w] = 0
        /\ \A v \in Workers \ {w} : pos'[v] = pos[v]
    BY <1>2, <2>1 DEF GotoCat
  <2>4. Carries(w)'
    BY <1>1, <2>2, CompleteCarries DEF SvcPCs
  <2>5. merged' \in [Files -> Seq(Nat)]
    BY <1>2, <2>1 DEF FormInv, StoresOK
  <2>6. merges' \in [Files -> 0..2]
    <3>1. merges \in [Files -> 0..2] /\ merges[f] \in 0..2
      BY <1>2 DEF FormInv, StoresOK
    <3>2. (IF merges[f] < 2 THEN merges[f] + 1 ELSE merges[f]) \in 0..2
      BY <3>1
    <3> QED
      BY <2>1, <3>1, <3>2
  <2>7. StoresOK'
    BY <1>1, <2>3, <2>5, <2>6 DEF FormInv, StoresOK, db, svcGhost
  <2> QED
    BY <1>1, <2>1, <2>2, <2>3, <2>4, <2>7 DEF S
<1> QED
  BY <1>3, <1>4

\* cat writes the next chunk where it stands.
LEMMA CatIs ==
  ASSUME Shape, FormInv, NEW w \in Workers, NEW i \in Index, SvcCat(w, i)
  PROVE  LET b == Bytes(chunk[req[w].upid][i], i)
             S == req[w].chunks \ {i}
         IN
         /\ UNCHANGED <<redis, chunk, db, fileOf, told, acked, merges, svcGhost>>
         /\ req[w].pc = "s_cat" /\ i \in req[w].chunks
         /\ \A j \in req[w].chunks : i <= j
         /\ req'[w].pc = (IF S = {} THEN "s_file" ELSE "s_cat") /\ req'[w].chunks = S
         /\ req'[w].file = req[w].file /\ req'[w].upid = req[w].upid
         /\ \A v \in Workers \ {w} : req'[v] = req[v] /\ pos'[v] = pos[v]
         /\ merged' = [merged EXCEPT ![req[w].file] =
                         WrittenAt(merged[req[w].file], pos[w], b)]
         /\ pos'[w] = pos[w] + Len(b)
         /\ StoresOK' /\ Carries(w)'
<1> DEFINE f == req[w].file
           b == Bytes(chunk[req[w].upid][i], i)
           out == WrittenAt(merged[f], pos[w], b)
           S == req[w].chunks \ {i}
<1>1. /\ UNCHANGED <<redis, chunk, db, fileOf, told, acked, merges, svcGhost>>
      /\ req[w].pc = "s_cat" /\ i \in req[w].chunks
      /\ \A j \in req[w].chunks : i <= j
      /\ merged' = [merged EXCEPT ![f] = out]
      /\ assembled' \subseteq assembled \cup {f}
      /\ GotoCat(w, S, pos[w] + Len(b))
  BY DEF SvcCat
<1>2. req[w].pc \in CompletePCs
  BY <1>1 DEF CompletePCs, SvcPCs
<1>3. /\ f \in Files /\ req[w].upid \in UploadIds
      /\ req \in [Workers -> SvcRequest] /\ pos \in [Workers -> Nat]
  BY <1>2, CompleteHas
<1>4. S \in SUBSET Index
  BY <1>3 DEF SvcRequest
<1>5. b \in Seq(Nat)
  <2>1. chunk[req[w].upid][i] \in Cell
    BY <1>3 DEF FormInv, StoresOK
  <2> QED
    BY <2>1, BytesIs
<1>6. out \in Seq(Nat)
  <2>1. merged[f] \in Seq(Nat) /\ pos[w] \in Nat
    BY <1>3 DEF FormInv, StoresOK
  <2> QED
    BY <1>5, <2>1, WrittenIsSeq
<1> HIDE DEF b, out, S
<1>7. /\ req'[w].pc = (IF S = {} THEN "s_file" ELSE "s_cat") /\ req'[w].chunks = S
      /\ req'[w].pc \in {"s_cat", "s_file"}
      /\ req'[w].user = req[w].user /\ req'[w].file = f /\ req'[w].upid = req[w].upid
      /\ \A v \in Workers \ {w} : req'[v] = req[v]
  BY <1>1, <1>3, <1>4, GotoCatIs
<1>8. /\ pos' \in [Workers -> Nat] /\ pos'[w] = pos[w] + Len(b)
      /\ \A v \in Workers \ {w} : pos'[v] = pos[v]
  BY <1>1, <1>3, <1>5 DEF GotoCat
<1>9. Carries(w)'
  BY <1>1, <1>2, <1>7, CompleteCarries DEF SvcPCs
<1>10. merged' \in [Files -> Seq(Nat)] /\ assembled' \subseteq Files
  BY <1>1, <1>3, <1>6 DEF FormInv, StoresOK
<1>11. StoresOK'
  BY <1>1, <1>8, <1>10 DEF FormInv, StoresOK, db, svcGhost
<1> QED
  BY <1>1, <1>7, <1>8, <1>9, <1>11 DEF b, out, S


\* The rest of a completion records the file and ends the session.
RecordFrame(w) ==
  /\ req[w].pc \in SvcPCs \ {"s_cat"}
  /\ UNCHANGED <<chunk, merged, fileOf, told, merges, assembled, resent, blind, revived>>
  /\ \A v \in Workers \ {w} : req'[v] = req[v] /\ pos'[v] = pos[v]
  /\ \/ req'[w].pc = "idle"
     \/ /\ req'[w].pc \in SvcPCs \ {"s_cat"}
        /\ req'[w].file = req[w].file /\ req'[w].upid = req[w].upid
  /\ tblFile \subseteq tblFile' /\ tblFile' \subseteq tblFile \cup {req[w].file}
  /\ \A f \in Files : hashUpid'[f] \in {None, hashUpid[f]}
  /\ \A u \in UploadIds : mp'[u] \in {mp[u], NoSession}

LEMMA RecordIs ==
  ASSUME Shape, FormInv, NEW w \in Workers,
         \/ SvcFile(w) \/ SvcUser(w) \/ SvcDelHash(w) \/ SvcDelMp(w) \/ SvcPublish(w)
  PROVE  RecordFrame(w) /\ StoresOK' /\ Carries(w)'
<1>1. req[w].pc \in SvcPCs \ {"s_cat"} /\ req[w].pc \in CompletePCs
  BY DEF SvcFile, SvcUser, SvcDelHash, SvcDelMp, SvcPublish, SvcPCs, CompletePCs
<1>2. /\ req[w].user \in Users /\ req[w].file \in Files /\ req[w].upid \in UploadIds
      /\ req \in [Workers -> SvcRequest] /\ pos \in [Workers -> Nat]
  BY <1>1, CompleteHas
<1>3. /\ hashUpid \in [Files -> UploadIds \cup {None}] /\ mp \in [UploadIds -> Hash]
      /\ tblFile \subseteq Files /\ userFile \subseteq Users \X Files
      /\ acked \subseteq Users \X Files /\ published \subseteq Users \X Files
  BY DEF Shape, FormInv, StoresOK
<1>4. ASSUME UNCHANGED fileOf,
             \/ SvcAnswer(w)
             \/ UNCHANGED pos /\ \E pc \in SvcPCs \ {"s_cat"} : Goto(w, pc)
      PROVE  /\ \A v \in Workers \ {w} : req'[v] = req[v] /\ pos'[v] = pos[v]
             /\ \/ req'[w].pc = "idle"
                \/ /\ req'[w].pc \in SvcPCs \ {"s_cat"}
                   /\ req'[w].file = req[w].file /\ req'[w].upid = req[w].upid
             /\ pos' \in [Workers -> Nat] /\ Carries(w)'
  <2>1. CASE SvcAnswer(w)
    BY <1>2, <2>1, SvcAnswerIs, IdleCarries DEF SvcAnswer
  <2>2. ASSUME NEW pc \in SvcPCs \ {"s_cat"}, Goto(w, pc), UNCHANGED pos
        PROVE  /\ \A v \in Workers \ {w} : req'[v] = req[v] /\ pos'[v] = pos[v]
               /\ req'[w].pc \in SvcPCs \ {"s_cat"}
               /\ req'[w].file = req[w].file /\ req'[w].upid = req[w].upid
               /\ pos' \in [Workers -> Nat] /\ Carries(w)'
    <3>1. /\ req'[w].pc = pc /\ req'[w].user = req[w].user /\ req'[w].file = req[w].file
          /\ req'[w].upid = req[w].upid /\ \A v \in Workers \ {w} : req'[v] = req[v]
      BY <1>2, <2>2, GotoIs
    <3>2. Carries(w)'
      BY <1>1, <1>4, <2>2, <3>1, CompleteCarries
    <3> QED
      BY <1>2, <2>2, <3>1, <3>2
  <2> QED
    BY <1>4, <2>1, <2>2
<1> HIDE DEF RecordFrame
<1>5. CASE SvcFile(w)
  <2>1. Goto(w, "s_user") /\ "s_user" \in SvcPCs \ {"s_cat"} /\ UNCHANGED <<pos, fileOf>>
    BY <1>5 DEF SvcFile, SvcPCs
  <2>2. /\ UNCHANGED <<redis, chunk, merged, userFile, ghost, svcGhost>>
        /\ tblFile' \in {tblFile, tblFile \cup {req[w].file}}
    BY <1>5 DEF SvcFile
  <2> QED
    BY <1>1, <1>2, <1>3, <1>4, <2>1, <2>2
       DEF RecordFrame, FormInv, StoresOK, redis, ghost, svcGhost
<1>6. CASE SvcUser(w)
  <2>1. /\ SvcAnswer(w) \/ (UNCHANGED pos /\ Goto(w, "s_delhash"))
        /\ "s_delhash" \in SvcPCs \ {"s_cat"}
        /\ UNCHANGED <<redis, chunk, merged, tblFile, fileOf, ghost, svcGhost>>
        /\ userFile' \in {userFile, userFile \cup {<<req[w].user, req[w].file>>}}
    <3>1. PICK res \in CallResult :
            /\ userFile' = IF CallMade(res)
                             THEN userFile \cup {<<req[w].user, req[w].file>>}
                             ELSE userFile
            /\ IF failed[w] \/ CallError(res)
                 THEN SvcAnswer(w)
                 ELSE Goto(w, "s_delhash") /\ UNCHANGED <<pos, failed>>
      BY <1>6 DEF SvcUser
    <3>2. "s_delhash" \in SvcPCs \ {"s_cat"}
      BY DEF SvcPCs
    <3>3. UNCHANGED <<redis, chunk, merged, tblFile, fileOf, ghost, svcGhost>>
      BY <1>6 DEF SvcUser
    <3>4. SvcAnswer(w) \/ (UNCHANGED pos /\ Goto(w, "s_delhash"))
      BY <3>1
    <3> QED
      BY <3>1, <3>2, <3>3, <3>4
  <2> QED
    BY <1>1, <1>2, <1>3, <1>4, <2>1
       DEF RecordFrame, FormInv, StoresOK, redis, ghost, svcGhost
<1>7. CASE SvcDelHash(w)
  <2>1. /\ Goto(w, "s_delmp") /\ "s_delmp" \in SvcPCs \ {"s_cat"}
        /\ UNCHANGED <<mp, chunk, merged, db, fileOf, ghost, svc>>
        /\ hashUpid' = [hashUpid EXCEPT ![req[w].file] = None]
    BY <1>7 DEF SvcDelHash, SvcPCs
  <2> QED
    BY <1>1, <1>2, <1>3, <1>4, <2>1
       DEF RecordFrame, FormInv, StoresOK, db, ghost, svc, svcGhost
<1>8. CASE SvcDelMp(w)
  <2>1. /\ SvcAnswer(w) \/ (UNCHANGED pos /\ Goto(w, "s_publish"))
        /\ "s_publish" \in SvcPCs \ {"s_cat"}
        /\ UNCHANGED <<hashUpid, chunk, merged, db, fileOf, ghost, resent, blind, revived,
                       published>>
        /\ mp' = [mp EXCEPT ![req[w].upid] = NoSession]
    <3>1. SvcAnswer(w) \/ (UNCHANGED <<pos, failed>> /\ Goto(w, "s_publish"))
      BY <1>8 DEF SvcDelMp
    <3>2. "s_publish" \in SvcPCs \ {"s_cat"}
      BY DEF SvcPCs
    <3> QED
      BY <1>8, <3>1, <3>2 DEF SvcDelMp
  <2> QED
    BY <1>1, <1>2, <1>3, <1>4, <2>1 DEF RecordFrame, FormInv, StoresOK, db, ghost
<1>9. CASE SvcPublish(w)
  <2> DEFINE done == <<req[w].user, req[w].file>>
  <2>1. /\ SvcAnswer(w)
        /\ UNCHANGED <<redis, chunk, merged, db, fileOf, told, assembled, merges,
                       resent, blind, revived>>
        /\ published' \in {published, published \cup {done}}
        /\ acked' = acked \cup {done}
    BY <1>9 DEF SvcPublish
  <2> QED
    BY <1>1, <1>2, <1>3, <1>4, <2>1 DEF RecordFrame, FormInv, StoresOK, redis, db
<1> QED
  BY <1>5, <1>6, <1>7, <1>8, <1>9

LEMMA CompleteForm ==
  ASSUME Shape, FormInv, NEW w \in Workers, SvcComplete(w)
  PROVE  FormInv'
<1>1. CASE SvcMergeStart(w)
  BY <1>1, MergeStartIs, FormQuiet DEF redis
<1>2. ASSUME NEW i \in Index, SvcCat(w, i) PROVE FormInv'
  BY <1>2, CatIs, FormQuiet DEF redis
<1>3. CASE \/ SvcFile(w) \/ SvcUser(w) \/ SvcDelHash(w) \/ SvcDelMp(w) \/ SvcPublish(w)
  <2>1. RecordFrame(w) /\ StoresOK' /\ Carries(w)'
    BY <1>3, RecordIs
  <2>2. \A u \in UploadIds :
          /\ mp'[u].count \in {0, mp[u].count}
          /\ \A i \in mp'[u].flags : i \in mp[u].flags
    BY <2>1 DEF RecordFrame, NoSession
  <2> QED
    BY <2>1, <2>2, FormMoves DEF RecordFrame, Grows
<1> QED
  BY <1>1, <1>2, <1>3 DEF SvcComplete

\* Keys expire, and a crash ends every request.
LEMMA EnvironmentForm ==
  ASSUME Shape, FormInv, SvcExpire \/ SvcCrash \/ UNCHANGED svcVars
  PROVE  FormInv'
<1>1. /\ UNCHANGED <<chunk, merged, db, fileOf, ghost, svcGhost>>
      /\ pos' \in [Workers -> Nat]
      /\ \A w \in Workers : req'[w] \in {req[w], Idle}
      /\ \A f \in Files : hashUpid'[f] \in {None, hashUpid[f]}
      /\ \A u \in UploadIds : mp'[u] \in {mp[u], NoSession}
  BY DEF SvcExpire, ExpireHash, ExpireMp, SvcCrash, Crash, svcVars, vars, svc, redis, Shape,
         FormInv, StoresOK
<1>2. StoresOK'
  BY <1>1 DEF FormInv, StoresOK, db, ghost, svcGhost
<1>3. ASSUME NEW w \in Workers PROVE Carries(w)'
  <2>1. CASE req'[w] = Idle
    BY <2>1, IdleShape, IdleCarries
  <2>2. CASE req'[w] = req[w]
    BY <1>1, <2>2 DEF FormInv, Carries
  <2> QED
    BY <1>1, <2>1, <2>2
<1>4. Origins'
  BY <1>1 DEF FormInv, Origins, ghost
<1>5. Sessions'
  <2>1. \A u, i : NumberOf(u, i)' = NumberOf(u, i)
    BY <1>1 DEF NumberOf
  <2>2. \A u \in UploadIds :
          mp'[u].count \in {0, mp[u].count} /\ \A i \in mp'[u].flags : i \in mp[u].flags
    BY <1>1 DEF NoSession
  <2> QED
    BY <1>1, <2>1, <2>2 DEF FormInv, Sessions
<1> QED
  BY <1>2, <1>3, <1>4, <1>5 DEF FormInv

LEMMA NextForm == Shape /\ FormInv /\ [SvcNext]_svcVars => FormInv'
BY StartForm, EarlyForm, CompleteForm, EnvironmentForm DEF SvcNext

LEMMA InitForm == SvcInit => FormInv
<1> SUFFICES ASSUME SvcInit PROVE FormInv
  OBVIOUS
<1>1. \A w \in Workers : req[w] = Idle
  BY DEF SvcInit, Init
<1>2. \A w \in Workers : Carries(w)
  BY <1>1, IdleShape
     DEF Carries, KnownPCs, NamedPCs, CompletePCs, InitPCs, PartPCs, SvcPCs
<1>3. StoresOK
  BY DEF SvcInit, Init, StoresOK, Cell
<1>4. Origins /\ Sessions
  BY DEF SvcInit, Init, Origins, Sessions, NoSession
<1> QED
  BY <1>2, <1>3, <1>4 DEF FormInv

--------------------------------------------------------------------------------
(* What a merge finds: the chunks of a session none of which was sent again *)

\* Worker w is receiving chunk i of upload id u.
PartAt(w, u, i) == req[w].pc \in PartPCs /\ req[w].upid = u /\ req[w].index = i

\* As long as every chunk of u was created once, one request at most is at it;
\* a flagged chunk is good, and nobody touches it any more.
SentOK(u) ==
  /\ \A i \in mp[u].flags : chunk[u][i] = "good" /\ \A w \in Workers : ~PartAt(w, u, i)
  /\ \A w \in Workers, i \in Index : PartAt(w, u, i) =>
       /\ chunk[u][i] # "none"
       /\ req[w].pc = "p_flag" => chunk[u][i] = "good"
       /\ \A v \in Workers : PartAt(v, u, i) => v = w

\* All the chunks of u's file are good, and nobody touches one.
Ready(u) == \A i \in Indexes(fileOf[u]) :
  chunk[u][i] = "good" /\ \A w \in Workers : ~PartAt(w, u, i)

\* A completion let through by a count of its chunks finds them all.
FindsAll(w) ==
  /\ req[w].pc \in {"m_start", "s_cat"}
  /\ req[w].file \notin blind
  /\ req[w].upid \notin resent
  => Ready(req[w].upid)

ChunkInv ==
  /\ \A u \in UploadIds \ resent : SentOK(u)
  /\ \A w \in Workers : FindsAll(w)

\* As many numbers up to n as there are, are all of them.
LEMMA AllOfThem ==
  ASSUME NEW n \in Nat, NEW S \in SUBSET (1..n), Cardinality(S) = n
  PROVE  S = 1..n
<1>1. IsFiniteSet(1..n) /\ Cardinality(1..n) = n
  BY FS_Interval
<1> QED
  BY <1>1, FS_Subset

\* No chunk file changes, no part request moves on, and no merge begins anew.
ChunkFrame ==
  /\ UNCHANGED <<chunk, resent, blind>>
  /\ Grows
  /\ \A u \in UploadIds : mp'[u].flags \subseteq mp[u].flags
  /\ \A w \in Workers :
       /\ req'[w].pc \in PartPCs => req'[w] = req[w]
       /\ req'[w].pc \in {"m_start", "s_cat"} =>
            /\ req[w].pc \in {"m_start", "s_cat"}
            /\ req'[w].file = req[w].file /\ req'[w].upid = req[w].upid

\* Where a completion merges, its upload id keeps its file.
LEMMA MergersKeep ==
  ASSUME FormInv, Grows, NEW w \in Workers, req[w].pc \in {"m_start", "s_cat"}
  PROVE  /\ req[w].file \in Files /\ req[w].upid \in UploadIds
         /\ fileOf[req[w].upid] = req[w].file /\ fileOf'[req[w].upid] = req[w].file
<1>1. req[w].pc \in CompletePCs
  BY DEF CompletePCs, SvcPCs
<1> QED
  BY <1>1, CarriesKnown, NoneAssumption DEF Grows, KnownPCs, NamedPCs

LEMMA ChunkQuiet ==
  ASSUME FormInv, ChunkInv, ChunkFrame
  PROVE  ChunkInv'
<1>1. \A w \in Workers, u \in UploadIds, i \in Index :
        PartAt(w, u, i)' => PartAt(w, u, i) /\ req'[w] = req[w]
  BY DEF ChunkFrame, PartAt
<1>2. ASSUME NEW u \in UploadIds, u \notin resent' PROVE SentOK(u)'
  <2>1. SentOK(u) /\ chunk' = chunk /\ mp'[u].flags \subseteq mp[u].flags
    BY <1>2 DEF ChunkInv, ChunkFrame
  <2>2. \A i \in mp[u].flags : i \in Index
    BY DEF FormInv, Sessions, NumberOf, Index
  <2> QED
    BY <1>1, <2>1, <2>2 DEF SentOK
<1>3. ASSUME NEW w \in Workers PROVE FindsAll(w)'
  <2> SUFFICES ASSUME req'[w].pc \in {"m_start", "s_cat"}, req'[w].file \notin blind',
                      req'[w].upid \notin resent'
               PROVE  Ready(req[w].upid)'
    BY DEF FindsAll, ChunkFrame, Ready
  <2>1. /\ req[w].pc \in {"m_start", "s_cat"} /\ FindsAll(w)
        /\ req'[w].file = req[w].file /\ req'[w].upid = req[w].upid
        /\ UNCHANGED <<chunk, resent, blind>> /\ Grows
    BY DEF ChunkInv, ChunkFrame
  <2>2. Ready(req[w].upid)
    BY <2>1 DEF FindsAll
  <2>3. /\ req[w].upid \in UploadIds /\ Indexes(fileOf[req[w].upid]) \subseteq Index
        /\ fileOf'[req[w].upid] = fileOf[req[w].upid]
    BY <2>1, MergersKeep DEF Index
  <2> QED
    BY <1>1, <2>1, <2>2, <2>3 DEF Ready
<1> QED
  BY <1>2, <1>3 DEF ChunkInv

\* A part that creates its chunk file anew excuses the upload id; else nobody
\* had that chunk.
LEMMA ChunkStartPart ==
  ASSUME Shape, FormInv, ChunkInv, NEW w \in Workers, NEW u \in UploadIds, NEW i \in Index,
         SvcStartPart(w, u, i)
  PROVE  ChunkInv'
<1> DEFINE q == [Idle EXCEPT !.pc = "p_write", !.upid = u, !.index = i]
<1>1. q \in SvcRequest /\ q.pc = "p_write" /\ q.upid = u /\ q.index = i
  BY DEF Idle, SvcRequest, PartPCs
<1>2. req' = [req EXCEPT ![w] = q]
  BY DEF SvcStartPart, StartPart
<1> HIDE DEF q
<1>3. /\ req'[w].pc = "p_write" /\ req'[w].upid = u /\ req'[w].index = i
      /\ \A v \in Workers \ {w} : req'[v] = req[v]
  BY <1>1, <1>2, ReqIs DEF Shape
<1>4. /\ req[w].pc = "idle" /\ UNCHANGED <<redis, fileOf, blind>>
      /\ i \in Indexes(fileOf[u])
      /\ resent' = IF chunk[u][i] = "none" THEN resent ELSE resent \cup {u}
  BY DEF SvcStartPart, StartPart
<1>5. \A x \in UploadIds, j \in Index :
        chunk'[x][j] = IF x = u /\ j = i THEN "empty" ELSE chunk[x][j]
  <2>1. "empty" \in Cell /\ chunk' = [chunk EXCEPT ![u][i] = "empty"]
    BY DEF Cell, SvcStartPart, StartPart
  <2> QED
    BY <2>1, ChunkIs
<1>6. ASSUME NEW v \in Workers, NEW x \in UploadIds, NEW j \in Index
      PROVE  /\ PartAt(w, x, j)' <=> x = u /\ j = i
             /\ v # w => (PartAt(v, x, j)' <=> PartAt(v, x, j))
  BY <1>3, <1>4 DEF PartAt, PartPCs
<1>7. ASSUME NEW x \in UploadIds, x \notin resent' PROVE SentOK(x)'
  <2>1. SentOK(x) /\ (x = u => chunk[u][i] = "none") /\ mp' = mp
    BY <1>4, <1>7 DEF ChunkInv, redis
  <2>2. \A j \in mp[x].flags : j \in Index
    BY DEF FormInv, Sessions, NumberOf, Index
  <2>3. \A j \in mp'[x].flags :
          chunk'[x][j] = "good" /\ \A v \in Workers : ~PartAt(v, x, j)'
    BY <1>5, <1>6, <2>1, <2>2 DEF SentOK
  <2>4. ASSUME NEW v \in Workers, NEW j \in Index, PartAt(v, x, j)'
        PROVE  /\ chunk'[x][j] # "none"
               /\ req'[v].pc = "p_flag" => chunk'[x][j] = "good"
               /\ \A z \in Workers : PartAt(z, x, j)' => z = v
    BY <1>3, <1>5, <1>6, <2>1, <2>4 DEF SentOK
  <2> QED
    BY <2>3, <2>4 DEF SentOK
<1>8. ASSUME NEW v \in Workers PROVE FindsAll(v)'
  <2> DEFINE x == req[v].upid
  <2> SUFFICES ASSUME req'[v].pc \in {"m_start", "s_cat"}, req'[v].file \notin blind',
                      req'[v].upid \notin resent'
               PROVE  Ready(req[v].upid)'
    BY DEF FindsAll
  <2>1. v # w /\ req'[v] = req[v]
    BY <1>3
  <2>2. Ready(x) /\ x \in UploadIds /\ fileOf[x] \in Files
    BY <1>4, <2>1, MergersKeep DEF ChunkInv, FindsAll, Grows
  <2>3. x = u => chunk[u][i] = "none"
    BY <1>4, <2>1
  <2>4. x # u
    BY <1>4, <2>2, <2>3 DEF Ready
  <2>5. Indexes(fileOf[x]) \subseteq Index
    BY <2>2 DEF Index
  <2> QED
    BY <1>4, <1>5, <1>6, <2>1, <2>2, <2>4, <2>5 DEF Ready
<1> QED
  BY <1>7, <1>8 DEF ChunkInv

\* A part request writes its own chunk, which nobody else is at and no merge
\* counts on, and flags it once it is good.
LEMMA ChunkPart ==
  ASSUME Shape, FormInv, ChunkInv, DeclaresChunk, NEW w \in Workers, SvcPartStep(w)
  PROVE  ChunkInv'
<1>1. PartStep(w) /\ UNCHANGED <<resent, blind>>
  BY DEF SvcPartStep
<1>2. PICK u \in UploadIds, i \in Index :
        /\ u = req[w].upid /\ i = req[w].index /\ req[w].pc \in PartPCs
        /\ UNCHANGED <<fileOf, merged>>
        /\ \A x \in UploadIds, j \in Index : x # u \/ j # i => chunk'[x][j] = chunk[x][j]
        /\ \A x \in UploadIds : mp'[x].flags \in {mp[x].flags, mp[x].flags \cup
                                                    (IF x = u THEN {i} ELSE {})}
  BY <1>1, PartIs
<1>3. \A v \in Workers \ {w} : req'[v] = req[v]
  BY <1>1, PartMoves
<1>4. PartAt(w, u, i) /\ \A x \in UploadIds, j \in Index : PartAt(w, x, j) => x = u /\ j = i
  BY <1>2 DEF PartAt
<1>5. /\ req \in [Workers -> SvcRequest] /\ mp \in [UploadIds -> Hash]
      /\ chunk \in [UploadIds -> [Index -> Cell]]
  BY DEF Shape, FormInv, StoresOK
<1>6. \A x \in UploadIds : \A j \in mp[x].flags : j \in Index
  BY DEF FormInv, Sessions, NumberOf, Index
<1>7. ASSUME req'[w].pc \in PartPCs, req'[w].upid = u, req'[w].index = i,
             UNCHANGED mp, chunk'[u][i] # "none",
             req'[w].pc = "p_flag" => chunk'[u][i] = "good"
      PROVE  ChunkInv'
  <2>1. ASSUME NEW v \in Workers, NEW x \in UploadIds, NEW j \in Index
        PROVE  PartAt(v, x, j)' <=> PartAt(v, x, j)
    BY <1>2, <1>3, <1>7 DEF PartAt, PartPCs
  <2>2. ASSUME NEW x \in UploadIds, x \notin resent PROVE SentOK(x)'
    <3>1. SentOK(x)
      BY <2>2 DEF ChunkInv
    <3>2. \A j \in mp'[x].flags :
            chunk'[x][j] = "good" /\ \A v \in Workers : ~PartAt(v, x, j)'
      BY <1>2, <1>4, <1>6, <1>7, <2>1, <3>1 DEF SentOK
    <3>3. ASSUME NEW v \in Workers, NEW j \in Index, PartAt(v, x, j)'
          PROVE  /\ chunk'[x][j] # "none"
                 /\ req'[v].pc = "p_flag" => chunk'[x][j] = "good"
                 /\ \A z \in Workers : PartAt(z, x, j)' => z = v
      <4>1. PartAt(v, x, j) /\ \A z \in Workers : PartAt(z, x, j) => z = v
        BY <2>1, <3>1, <3>3 DEF SentOK
      <4>2. CASE v = w
        <5>1. x = u /\ j = i
          BY <1>4, <4>1, <4>2
        <5> QED
          BY <1>7, <2>1, <4>1, <4>2, <5>1
      <4>3. CASE v # w
        <5>1. ~PartAt(w, x, j)
          BY <4>1, <4>3
        <5>2. chunk'[x][j] = chunk[x][j] /\ req'[v] = req[v]
          BY <1>2, <1>3, <1>4, <4>3, <5>1
        <5> QED
          BY <2>1, <3>1, <4>1, <5>2 DEF SentOK
      <4> QED
        BY <4>2, <4>3
    <3> QED
      BY <3>2, <3>3 DEF SentOK
  <2>3. ASSUME NEW v \in Workers PROVE FindsAll(v)'
    <3> SUFFICES ASSUME req'[v].pc \in {"m_start", "s_cat"}, req'[v].file \notin blind,
                        req'[v].upid \notin resent
                 PROVE  Ready(req[v].upid)'
      BY <1>1 DEF FindsAll
    <3>1. v # w /\ req'[v] = req[v]
      BY <1>3, <1>7 DEF PartPCs
    <3>2. /\ Ready(req[v].upid) /\ req[v].upid \in UploadIds
          /\ fileOf[req[v].upid] \in Files
      BY <1>2, <3>1, MergersKeep DEF ChunkInv, FindsAll, Grows
    <3>3. Indexes(fileOf[req[v].upid]) \subseteq Index
      BY <3>2 DEF Index
    <3> QED
      BY <1>2, <1>4, <2>1, <3>1, <3>2, <3>3 DEF Ready
  <2> QED
    BY <1>1, <2>2, <2>3 DEF ChunkInv
<1>8. CASE PartCopy(w)
  <2>1. UNCHANGED <<req, mp>> /\ req[w].pc = "p_write"
    BY <1>8 DEF PartCopy, redis
  <2>2. "bad" \in Cell /\ chunk' = [chunk EXCEPT ![u][i] = "bad"]
    BY <1>2, <1>8 DEF PartCopy, Cell
  <2>3. chunk'[u][i] # "none"
    BY <2>2, ChunkIs
  <2> QED
    BY <1>2, <1>7, <2>1, <2>3
<1>9. CASE PartWrite(w)
  <2>1. req'[w].pc = "p_verify" /\ req'[w].upid = u /\ req'[w].index = i
    BY <1>2, <1>5, <1>9, GotoIs DEF PartWrite, PartPCs
  <2>2. PICK c \in {"good"} \cup Damage : chunk' = [chunk EXCEPT ![u][i] = c]
    BY <1>2, <1>9 DEF PartWrite
  <2>3. c \in Cell \ {"none"}
    BY <2>2, ConfigAssumption DEF Cell
  <2>4. chunk'[u][i] = c
    BY <2>2, <2>3, ChunkIs
  <2> QED
    BY <1>7, <1>9, <2>1, <2>3, <2>4 DEF PartWrite, PartPCs, redis
<1>10. CASE PartVerify(w)
  <2>1. UNCHANGED <<mp, chunk>>
    BY <1>10 DEF PartVerify, redis
  <2>2. CASE Goto(w, "p_flag")
    <3>1. req'[w].pc = "p_flag" /\ req'[w].upid = u /\ req'[w].index = i
      BY <1>2, <1>5, <2>2, GotoIs DEF PartPCs
    <3>2. chunk[u][i] = "good"
      BY <1>2, <1>10, <3>1 DEF PartVerify, DeclaresChunk
    <3> QED
      BY <1>7, <2>1, <3>1, <3>2 DEF PartPCs
  <2>3. CASE Answer(w)
    <3>1. req'[w].pc = "idle"
      BY <1>5, <2>3, AnswerIs
    <3>2. ChunkFrame
      BY <1>1, <1>2, <1>3, <2>1, <3>1 DEF ChunkFrame, Grows, PartPCs
    <3> QED
      BY <3>2, ChunkQuiet
  <2> QED
    BY <1>2, <1>10, <2>2, <2>3 DEF PartVerify
<1>11. CASE PartFlag(w)
  <2>1. req'[w].pc = "idle" /\ UNCHANGED chunk /\ req[w].pc = "p_flag"
    BY <1>5, <1>11, AnswerIs DEF PartFlag
  <2>2. ASSUME NEW v \in Workers, NEW x \in UploadIds, NEW j \in Index
        PROVE  PartAt(v, x, j)' => PartAt(v, x, j) /\ v # w /\ req'[v] = req[v]
    BY <1>3, <2>1 DEF PartAt, PartPCs
  <2>3. ASSUME NEW x \in UploadIds, x \notin resent PROVE SentOK(x)'
    <3>1. SentOK(x)
      BY <2>3 DEF ChunkInv
    <3>2. ASSUME NEW j \in mp'[x].flags
          PROVE  chunk[x][j] = "good" /\ \A v \in Workers : ~PartAt(v, x, j)'
      <4>1. CASE j \in mp[x].flags
        BY <1>6, <2>2, <3>1, <4>1 DEF SentOK
      <4>2. CASE x = u /\ j = i
        <5>1. chunk[u][i] = "good" /\ \A v \in Workers : PartAt(v, u, i) => v = w
          BY <1>4, <2>1, <3>1, <4>2 DEF SentOK
        <5> QED
          BY <2>2, <4>2, <5>1
      <4> QED
        BY <1>2, <3>2, <4>1, <4>2
    <3> QED
      BY <2>1, <2>2, <3>1, <3>2 DEF SentOK
  <2>4. ASSUME NEW v \in Workers PROVE FindsAll(v)'
    <3> SUFFICES ASSUME req'[v].pc \in {"m_start", "s_cat"}, req'[v].file \notin blind,
                        req'[v].upid \notin resent
                 PROVE  Ready(req[v].upid)'
      BY <1>1 DEF FindsAll
    <3>1. v # w /\ req'[v] = req[v]
      BY <1>3, <2>1
    <3>2. /\ Ready(req[v].upid) /\ req[v].upid \in UploadIds
          /\ fileOf[req[v].upid] \in Files
      BY <1>2, <3>1, MergersKeep DEF ChunkInv, FindsAll, Grows
    <3>3. Indexes(fileOf[req[v].upid]) \subseteq Index
      BY <3>2 DEF Index
    <3> QED
      BY <1>2, <2>1, <2>2, <3>1, <3>2, <3>3 DEF Ready
  <2> QED
    BY <1>1, <2>3, <2>4 DEF ChunkInv
<1> QED
  BY <1>1, <1>8, <1>9, <1>10, <1>11 DEF PartStep

\* A completion is let through: its chunks were counted, or it is noted.
LEMMA ChunkStartComplete ==
  ASSUME Shape, FormInv, ChunkInv, NEW w \in Workers, NEW n \in Users, NEW u \in UploadIds,
         SvcStartComplete(w, n, u)
  PROVE  ChunkInv'
<1> DEFINE q == [Idle EXCEPT !.pc = "m_start", !.user = n, !.file = fileOf[u], !.upid = u]
<1>1. q \in SvcRequest /\ q.pc = "m_start" /\ q.file = fileOf[u] /\ q.upid = u
  BY DEF Idle, SvcRequest, Shape
<1>2. req' = [req EXCEPT ![w] = q]
  BY DEF SvcStartComplete, StartComplete
<1> HIDE DEF q
<1>3. /\ req'[w].pc = "m_start" /\ req'[w].file = fileOf[u] /\ req'[w].upid = u
      /\ \A v \in Workers \ {w} : req'[v] = req[v]
  BY <1>1, <1>2, ReqIs DEF Shape
<1>4. /\ UNCHANGED <<redis, chunk, fileOf, resent>> /\ AllFlagged(mp[u])
      /\ blind' = IF mp[u].count = 0 THEN blind \cup {fileOf[u]} ELSE blind
      /\ fileOf[u] \in Files
  BY DEF SvcStartComplete, StartComplete, FormInv, Origins
<1>5. ASSUME NEW v \in Workers, NEW x \in UploadIds, NEW j \in Index
      PROVE  PartAt(v, x, j)' => PartAt(v, x, j) /\ req'[v] = req[v]
  BY <1>3 DEF PartAt, PartPCs
<1>6. ASSUME NEW x \in UploadIds, x \notin resent PROVE SentOK(x) /\ SentOK(x)'
  <2>1. SentOK(x) /\ UNCHANGED <<mp, chunk>>
    BY <1>4, <1>6 DEF ChunkInv, redis
  <2>2. \A j \in mp[x].flags : j \in Index
    BY DEF FormInv, Sessions, NumberOf, Index
  <2> QED
    BY <1>5, <2>1, <2>2 DEF SentOK
<1>7. ASSUME NEW v \in Workers PROVE FindsAll(v)'
  <2> SUFFICES ASSUME req'[v].pc \in {"m_start", "s_cat"}, req'[v].file \notin blind',
                      req'[v].upid \notin resent
               PROVE  \E x \in UploadIds : x = req'[v].upid /\ fileOf[x] \in Files /\ Ready(x)
    <3>1. ASSUME NEW x \in UploadIds, fileOf[x] \in Files, Ready(x) PROVE Ready(x)'
      <4>1. Indexes(fileOf[x]) \subseteq Index
        BY <3>1 DEF Index
      <4> QED
        BY <1>4, <1>5, <3>1, <4>1 DEF Ready
    <3> QED
      BY <1>4, <3>1 DEF FindsAll
  <2>1. CASE v = w
    <3>1. mp[u].count # 0 /\ u \notin resent
      BY <1>3, <1>4, <2>1
    <3>2. mp[u].count = ChunkCount[fileOf[u]] /\ mp[u].flags \subseteq Indexes(fileOf[u])
      BY <3>1 DEF FormInv, Sessions, NumberOf
    <3>3. mp[u].flags = Indexes(fileOf[u])
      BY <1>4, <3>2, AllOfThem, ChunkCountAssumption DEF AllFlagged, Indexes
    <3>4. Ready(u)
      BY <1>6, <3>1, <3>3 DEF SentOK, Ready
    <3> QED
      BY <1>3, <1>4, <2>1, <3>4
  <2>2. CASE v # w
    <3>1. req'[v] = req[v] /\ req[v].file \notin blind
      BY <1>3, <1>4, <2>2
    <3> QED
      BY <1>4, <3>1, MergersKeep DEF ChunkInv, FindsAll, Grows
  <2> QED
    BY <2>1, <2>2
<1> QED
  BY <1>4, <1>6, <1>7 DEF ChunkInv

\* No other step touches a chunk file, or lets a completion through.
LEMMA ChunkOthers ==
  ASSUME Shape, FormInv, ChunkInv, NEW w \in Workers,
         \/ \E n \in Users, f \in Files : SvcStartInit(w, n, f)
         \/ SvcInitStep(w)
         \/ SvcComplete(w)
  PROVE  ChunkInv'
<1>1. req \in [Workers -> SvcRequest] /\ mp \in [UploadIds -> Hash]
  BY DEF Shape
<1>2. CASE \E n \in Users, f \in Files : SvcStartInit(w, n, f)
  <2>1. /\ UNCHANGED <<chunk, mp, fileOf, resent, blind>>
        /\ \E q : q.pc = "i_exists" /\ req' = [req EXCEPT ![w] = q]
    BY <1>2 DEF SvcStartInit, redis, svc, svcGhost, Idle
  <2>2. req'[w].pc = "i_exists" /\ \A v \in Workers \ {w} : req'[v] = req[v]
    BY <1>1, <2>1
  <2>3. ChunkFrame
    BY <2>1, <2>2 DEF ChunkFrame, Grows, PartPCs
  <2> QED
    BY <2>3, ChunkQuiet
<1>3. CASE SvcInitStep(w)
  <2>1. InitStep(w) /\ UNCHANGED <<resent, blind>>
    BY <1>3 DEF SvcInitStep
  <2>2. /\ InitFrame /\ req'[w].pc \in {"idle"} \cup InitPCs
        /\ \A v \in Workers \ {w} : req'[v] = req[v]
    BY <2>1, InitIs, InitMoves
  <2>3. ChunkFrame
    BY <2>1, <2>2 DEF ChunkFrame, InitFrame, InitPCs, PartPCs
  <2> QED
    BY <2>3, ChunkQuiet
<1>4. CASE SvcMergeStart(w)
  <2>1. ChunkFrame
    <3>1. req[w].pc = "m_start"
      BY <1>4 DEF SvcMergeStart
    <3> QED
      BY <1>4, <3>1, MergeStartIs DEF ChunkFrame, Grows, PartPCs, redis, svcGhost
  <2> QED
    BY <2>1, ChunkQuiet
<1>5. ASSUME NEW i \in Index, SvcCat(w, i) PROVE ChunkInv'
  <2>1. ChunkFrame
    BY <1>5, CatIs DEF ChunkFrame, Grows, PartPCs, redis, svcGhost
  <2> QED
    BY <2>1, ChunkQuiet
<1>6. CASE \/ SvcFile(w) \/ SvcUser(w) \/ SvcDelHash(w) \/ SvcDelMp(w) \/ SvcPublish(w)
  <2>1. RecordFrame(w)
    BY <1>6, RecordIs
  <2>2. \A u \in UploadIds : mp'[u].flags \subseteq mp[u].flags
    BY <2>1 DEF RecordFrame, NoSession
  <2>3. ChunkFrame
    BY <2>1, <2>2 DEF RecordFrame, ChunkFrame, Grows, PartPCs, SvcPCs
  <2> QED
    BY <2>3, ChunkQuiet
<1> QED
  BY <1>2, <1>3, <1>4, <1>5, <1>6 DEF SvcComplete

\* What is the same after the environment's steps.
EnvironmentFrame ==
  /\ UNCHANGED <<chunk, merged, tblFile, fileOf, merges, resent, blind>>
  /\ \A w \in Workers : req'[w] = Idle \/ (req'[w] = req[w] /\ pos'[w] = pos[w])
  /\ \A u \in UploadIds : mp'[u] \in {mp[u], NoSession}

LEMMA EnvironmentIs ==
  ASSUME Shape, SvcExpire \/ SvcCrash \/ UNCHANGED svcVars
  PROVE  EnvironmentFrame
<1>1. CASE SvcExpire
  BY <1>1
     DEF EnvironmentFrame, SvcExpire, ExpireHash, ExpireMp, db, ghost, svc, svcGhost, Shape
<1>2. CASE SvcCrash
  BY <1>2 DEF EnvironmentFrame, SvcCrash, Crash, redis, db, ghost, svcGhost
<1>3. CASE UNCHANGED svcVars
  BY <1>3 DEF EnvironmentFrame, svcVars, vars, svc, redis, db, ghost, svcGhost
<1> QED
  BY <1>1, <1>2, <1>3

LEMMA ChunkEnvironment ==
  ASSUME FormInv, ChunkInv, EnvironmentFrame
  PROVE  ChunkInv'
<1>1. \A u \in UploadIds : mp'[u].flags \subseteq mp[u].flags
  BY DEF EnvironmentFrame, NoSession
<1>2. ChunkFrame
  BY <1>1, IdleShape DEF EnvironmentFrame, ChunkFrame, Grows, PartPCs
<1> QED
  BY <1>2, ChunkQuiet

LEMMA ChunkNext ==
  ASSUME Shape, FormInv, ChunkInv, [DeclaresChunk]_vars, [SvcNext]_svcVars
  PROVE  ChunkInv'
<1>1. DeclaresChunk
  BY DEF DeclaresChunk, vars
<1> QED
  BY <1>1, ChunkStartPart, ChunkPart, ChunkStartComplete, ChunkOthers, EnvironmentIs, ChunkEnvironment
     DEF SvcNext, SvcStart

LEMMA ChunkInit == SvcInit => ChunkInv
<1> SUFFICES ASSUME SvcInit PROVE ChunkInv
  OBVIOUS
<1>1. /\ \A w \in Workers : req[w].pc = "idle"
      /\ \A u \in UploadIds : mp[u].flags = {}
  BY IdleShape DEF SvcInit, Init, NoSession
<1> QED
  BY <1>1 DEF ChunkInv, SentOK, FindsAll, PartAt, PartPCs

--------------------------------------------------------------------------------
(* What a merge leaves: the file, if it was the only one and found all chunks *)

\* What DamagedOnlyByOverlap excuses.
Excused(f) == merges[f] = 2 \/ f \in blind \/ \E u \in resent : fileOf[u] = f

\* Worker w has begun to put file f together, and what it has put there so far:
\* cat has written the chunks up to the offset it writes at next.
Merges(w, f) == req[w].pc \in SvcPCs /\ req[w].file = f
Prefix(k) == [i \in 1..k |-> i]
HasPut(w, f) ==
  IF req[w].pc = "s_cat"
    THEN /\ pos[w] < ChunkCount[f]
         /\ req[w].chunks = pos[w] + 1..ChunkCount[f]
         /\ merged[f] = Prefix(pos[w])
         /\ f \notin tblFile
    ELSE merged[f] = Content(f)

\* Before its first merge a file has no row; its only merge is one request's, and
\* no row comes before the file is whole.
MergeOK(f) ==
  /\ merges[f] = 0 => f \notin tblFile /\ \A w \in Workers : ~Merges(w, f)
  /\ \A w, v \in Workers : Merges(w, f) /\ Merges(v, f) => w = v
  /\ \A w \in Workers : Merges(w, f) => HasPut(w, f)
  /\ f \in tblFile => merged[f] = Content(f)

MergeInv == \A f \in Files : ~Excused(f) => MergeOK(f)

\* An excuse stays one.
LEMMA ExcusedStays ==
  ASSUME FormInv, Grows, resent \subseteq resent', blind \subseteq blind',
         NEW f \in Files, merges[f] = 2 => merges'[f] = 2
  PROVE  Excused(f) => Excused(f)'
<1>1. resent \subseteq UploadIds
  BY DEF FormInv, StoresOK
<1> QED
  BY <1>1, NoneAssumption DEF Excused, Grows

\* No merge begins, goes on or ends for file f but by giving up.
LEMMA MergeQuiet ==
  ASSUME FormInv, MergeInv, Grows, resent \subseteq resent', blind \subseteq blind',
         NEW f \in Files,
         merges'[f] = merges[f], merged'[f] = merged[f],
         f \in tblFile' <=> f \in tblFile,
         \A w \in Workers : Merges(w, f)' => req'[w] = req[w] /\ pos'[w] = pos[w]
  PROVE  ~Excused(f)' => MergeOK(f)'
<1> SUFFICES ASSUME ~Excused(f)' PROVE MergeOK(f)'
  OBVIOUS
<1>1. MergeOK(f)
  BY ExcusedStays DEF MergeInv
<1>2. \A w \in Workers : Merges(w, f)' => Merges(w, f)
  BY DEF Merges
<1>3. ASSUME NEW w \in Workers, Merges(w, f)' PROVE HasPut(w, f)'
  <2>1. HasPut(w, f)
    BY <1>1, <1>2, <1>3 DEF MergeOK
  <2>2. req'[w] = req[w] /\ pos'[w] = pos[w]
    BY <1>3
  <2> QED
    BY <2>1, <2>2 DEF HasPut
<1> QED
  BY <1>1, <1>2, <1>3 DEF MergeOK

\* Requests that are not completions leave merges alone.
LEMMA MergeEarly ==
  ASSUME Shape, FormInv, MergeInv, NEW w \in Workers,
         SvcStart(w) \/ SvcInitStep(w) \/ SvcPartStep(w)
  PROVE  MergeInv'
<1>1. /\ UNCHANGED <<merged, merges, tblFile, pos>> /\ Grows
      /\ resent \subseteq resent' /\ blind \subseteq blind'
      /\ req'[w].pc \in EarlyPCs \ {"s_cat", "s_file"}
      /\ \A v \in Workers \ {w} : req'[v] = req[v]
  <2>1. ASSUME NEW n \in Users, NEW f \in Files, SvcStartInit(w, n, f)
        PROVE  /\ UNCHANGED <<merged, merges, tblFile, pos, fileOf, resent, blind>>
               /\ \E q : q.pc = "i_exists" /\ req' = [req EXCEPT ![w] = q]
    BY <2>1 DEF SvcStartInit, db, ghost, svc, svcGhost, Idle
  <2>2. ASSUME NEW u \in UploadIds, NEW i \in Index, SvcStartPart(w, u, i)
        PROVE  /\ UNCHANGED <<merged, merges, tblFile, pos, fileOf, blind>>
               /\ resent \subseteq resent'
               /\ \E q : q.pc = "p_write" /\ req' = [req EXCEPT ![w] = q]
    BY <2>2 DEF SvcStartPart, StartPart, db, ghost, Idle
  <2>3. ASSUME NEW n \in Users, NEW u \in UploadIds, SvcStartComplete(w, n, u)
        PROVE  /\ UNCHANGED <<merged, merges, tblFile, pos, fileOf, resent>>
               /\ blind \subseteq blind'
               /\ \E q : q.pc = "m_start" /\ req' = [req EXCEPT ![w] = q]
    BY <2>3 DEF SvcStartComplete, StartComplete, db, ghost, Idle
  <2>4. CASE SvcStart(w)
    <3>1. /\ UNCHANGED <<merged, merges, tblFile, pos, fileOf>>
          /\ resent \subseteq resent' /\ blind \subseteq blind'
          /\ \E q : /\ q.pc \in {"i_exists", "p_write", "m_start"}
                    /\ req' = [req EXCEPT ![w] = q]
      BY <2>1, <2>2, <2>3, <2>4 DEF SvcStart
    <3>2. /\ req'[w].pc \in {"i_exists", "p_write", "m_start"}
          /\ \A v \in Workers \ {w} : req'[v] = req[v]
      BY <3>1 DEF Shape
    <3> QED
      BY <3>1, <3>2 DEF Grows, EarlyPCs, InitPCs, PartPCs
  <2>5. CASE SvcInitStep(w)
    BY <2>5, InitIs, InitMoves DEF SvcInitStep, InitFrame, EarlyPCs, InitPCs, db
  <2>6. CASE SvcPartStep(w)
    BY <2>6, PartIs, PartMoves DEF SvcPartStep, Grows, EarlyPCs, PartPCs, db, ghost
  <2> QED
    BY <2>4, <2>5, <2>6
<1>2. req'[w].pc \notin SvcPCs
  BY <1>1 DEF EarlyPCs, InitPCs, PartPCs, SvcPCs
<1>3. ASSUME NEW f \in Files PROVE ~Excused(f)' => MergeOK(f)'
  <2>1. \A v \in Workers : Merges(v, f)' => req'[v] = req[v] /\ pos'[v] = pos[v]
    BY <1>1, <1>2 DEF Merges
  <2> QED
    BY <1>1, <2>1, MergeQuiet
<1> QED
  BY <1>3 DEF MergeInv

LEMMA MergeEnvironment ==
  ASSUME FormInv, MergeInv, EnvironmentFrame
  PROVE  MergeInv'
<1>1. ASSUME NEW f \in Files PROVE ~Excused(f)' => MergeOK(f)'
  <2>1. \A v \in Workers : Merges(v, f)' => req'[v] = req[v] /\ pos'[v] = pos[v]
    BY IdleShape DEF EnvironmentFrame, Merges, SvcPCs
  <2> QED
    BY <2>1, MergeQuiet DEF EnvironmentFrame, Grows
<1> QED
  BY <1>1 DEF MergeInv

\* A merge that finds all chunks is the first, and begins an empty file.
LEMMA MergeBegins ==
  ASSUME Shape, FormInv, ChunkInv, MergeInv, NEW w \in Workers, SvcMergeStart(w)
  PROVE  MergeInv'
<1>0. PICK g \in Files, u \in UploadIds : g = req[w].file /\ u = req[w].upid /\ fileOf[u] = g
  BY CompleteHas DEF SvcMergeStart, CompletePCs
<1>1. /\ UNCHANGED <<chunk, tblFile, fileOf, resent, blind>>
      /\ \A v \in Workers \ {w} : req'[v] = req[v] /\ pos'[v] = pos[v]
      /\ \/ req'[w].pc = "idle" /\ UNCHANGED <<merged, merges>>
         \/ /\ req'[w].pc = "s_cat" /\ pos'[w] = 0
            /\ req'[w].file = g /\ req'[w].upid = u
            /\ req'[w].chunks = {i \in Index : chunk[u][i] # "none"}
            /\ merged' = [merged EXCEPT ![g] = <<>>]
            /\ merges' = [merges EXCEPT ![g] =
                            IF merges[g] < 2 THEN merges[g] + 1 ELSE merges[g]]
  BY <1>0, MergeStartIs DEF db, svcGhost
<1>2. /\ req[w].pc = "m_start" /\ Grows
      /\ merges \in [Files -> 0..2] /\ merged \in [Files -> Seq(Nat)]
  BY <1>1 DEF SvcMergeStart, Grows, FormInv, StoresOK
<1>4. ASSUME NEW f \in Files, req'[w].pc = "idle" \/ f # g
      PROVE  ~Excused(f)' => MergeOK(f)'
  <2>1. merges'[f] = merges[f] /\ merged'[f] = merged[f]
    BY <1>0, <1>1, <1>2, <1>4
  <2>2. \A v \in Workers : Merges(v, f)' => req'[v] = req[v] /\ pos'[v] = pos[v]
    BY <1>0, <1>1, <1>4 DEF Merges, SvcPCs
  <2> QED
    BY <1>1, <1>2, <2>1, <2>2, MergeQuiet
<1>5. ASSUME req'[w].pc # "idle", ~Excused(g)' PROVE MergeOK(g)'
  <2>1. /\ req'[w].pc = "s_cat" /\ pos'[w] = 0 /\ req'[w].file = g
        /\ req'[w].chunks = {i \in Index : chunk[u][i] # "none"}
        /\ merged'[g] = <<>>
        /\ merges'[g] = IF merges[g] < 2 THEN merges[g] + 1 ELSE merges[g]
    BY <1>0, <1>1, <1>2, <1>5
  <2>2. merges[g] = 0 /\ merges'[g] = 1
    <3>1. merges[g] \in 0..2 /\ merges'[g] # 2
      BY <1>2, <1>5 DEF Excused
    <3> QED
      BY <2>1, <3>1
  <2>3. g \notin blind /\ u \notin resent
    BY <1>0, <1>1, <1>5 DEF Excused
  <2>4. ~Excused(g)
    BY <1>1, <1>5, <2>2 DEF Excused
  <2>5. g \notin tblFile' /\ \A v \in Workers : ~Merges(v, g)
    BY <1>0, <1>1, <2>2, <2>4 DEF MergeInv, MergeOK
  <2>6. \A v \in Workers : Merges(v, g)' => v = w
    BY <1>1, <2>5 DEF Merges
  <2>7. {i \in Index : chunk[u][i] # "none"} = Indexes(g)
    <3>1. Ready(u)
      BY <1>0, <1>2, <2>3 DEF ChunkInv, FindsAll
    <3>2. \A i \in Index : chunk[u][i] # "none" => i \in Indexes(g)
      BY <1>0 DEF FormInv, Sessions, NumberOf
    <3>3. \A i \in Indexes(g) : i \in Index /\ chunk[u][i] # "none"
      BY <1>0, <3>1 DEF Ready, Index
    <3> QED
      BY <3>2, <3>3
  <2>8. HasPut(w, g)'
    <3>1. ChunkCount[g] \in Nat \ {0}
      BY <1>0, ChunkCountAssumption
    <3>2. req'[w].chunks = 1..ChunkCount[g]
      BY <2>1, <2>7 DEF Indexes
    <3>3. merged'[g] = Prefix(0)
      BY <2>1 DEF Prefix
    <3>4. pos'[w] < ChunkCount[g] /\ pos'[w] + 1 = 1
      BY <2>1, <3>1
    <3> QED
      BY <2>1, <2>5, <3>2, <3>3, <3>4 DEF HasPut
  <2> QED
    BY <2>2, <2>5, <2>6, <2>8 DEF MergeOK
<1> QED
  BY <1>0, <1>4, <1>5 DEF MergeInv

\* The next chunk written after the first k ones makes k + 1.
LEMMA WrittenNext ==
  ASSUME NEW k \in Nat
  PROVE  WrittenAt(Prefix(k), k, <<k + 1>>) = Prefix(k + 1)
<1>1. Len(Prefix(k)) = k /\ Len(<<k + 1>>) = 1
  BY DEF Prefix
<1>2. WrittenAt(Prefix(k), k, <<k + 1>>) =
        [j \in 1..k + 1 |->
           CASE j \in k + 1..k + 1 -> <<k + 1>>[j - k]
             [] j <= k -> Prefix(k)[j]
             [] OTHER -> 0]
  BY <1>1 DEF WrittenAt
<1>3. ASSUME NEW j \in 1..k + 1
      PROVE  (CASE j \in k + 1..k + 1 -> <<k + 1>>[j - k]
                [] j <= k -> Prefix(k)[j]
                [] OTHER -> 0) = j
  <2>1. CASE j = k + 1
    BY <2>1
  <2>2. CASE j # k + 1
    <3>1. j <= k /\ j \in 1..k
      BY <2>2
    <3>2. Prefix(k)[j] = j
      BY <3>1 DEF Prefix
    <3> QED
      BY <3>1, <3>2
  <2> QED
    BY <2>1, <2>2
<1> QED
  BY <1>2, <1>3 DEF Prefix

\* A merge that finds all chunks writes them in order, each after the last.
LEMMA MergeGoesOn ==
  ASSUME Shape, FormInv, ChunkInv, MergeInv, NEW w \in Workers, NEW i \in Index, SvcCat(w, i)
  PROVE  MergeInv'
<1>0. PICK g \in Files, u \in UploadIds : g = req[w].file /\ u = req[w].upid /\ fileOf[u] = g
  BY CompleteHas DEF SvcCat, CompletePCs, SvcPCs
<1> DEFINE b == Bytes(chunk[u][i], i)
           S == req[w].chunks \ {i}
<1>1. /\ UNCHANGED <<chunk, tblFile, fileOf, merges, resent, blind>>
      /\ req[w].pc = "s_cat" /\ i \in req[w].chunks
      /\ \A j \in req[w].chunks : i <= j
      /\ req'[w].pc = (IF S = {} THEN "s_file" ELSE "s_cat") /\ req'[w].chunks = S
      /\ req'[w].file = g
      /\ \A v \in Workers \ {w} : req'[v] = req[v] /\ pos'[v] = pos[v]
      /\ merged' = [merged EXCEPT ![g] = WrittenAt(merged[g], pos[w], b)]
      /\ pos'[w] = pos[w] + Len(b)
  BY <1>0, CatIs DEF db, svcGhost
<1> HIDE DEF S, b
<1>2. /\ Grows /\ merged \in [Files -> Seq(Nat)] /\ pos[w] \in Nat
  BY <1>1 DEF Grows, FormInv, StoresOK
<1>4. ASSUME NEW f \in Files, f # g PROVE ~Excused(f)' => MergeOK(f)'
  <2>1. merges'[f] = merges[f] /\ merged'[f] = merged[f]
    BY <1>0, <1>1, <1>2, <1>4
  <2>2. \A v \in Workers : Merges(v, f)' => req'[v] = req[v] /\ pos'[v] = pos[v]
    BY <1>0, <1>1, <1>4 DEF Merges
  <2> QED
    BY <1>1, <1>2, <2>1, <2>2, MergeQuiet
<1>5. ASSUME ~Excused(g)' PROVE MergeOK(g)'
  <2>1. ~Excused(g) /\ g \notin blind /\ u \notin resent
    BY <1>0, <1>1, <1>5 DEF Excused
  <2>2. /\ MergeOK(g) /\ Merges(w, g)
    BY <1>0, <1>1, <2>1 DEF MergeInv, Merges, SvcPCs
  <2>3. /\ pos[w] < ChunkCount[g] /\ req[w].chunks = pos[w] + 1..ChunkCount[g]
        /\ merged[g] = Prefix(pos[w]) /\ g \notin tblFile
    BY <1>1, <2>2 DEF MergeOK, HasPut
  <2>4. ChunkCount[g] \in Nat
    BY <1>0, ChunkCountAssumption
  <2>5. i = pos[w] + 1 /\ i \in Indexes(g)
    <3>1. pos[w] + 1 \in req[w].chunks
      BY <1>2, <2>3, <2>4
    <3>2. i <= pos[w] + 1 /\ i \in pos[w] + 1..ChunkCount[g]
      BY <1>1, <2>3, <3>1
    <3> QED
      BY <1>2, <2>4, <3>2 DEF Indexes
  <2>6. b = <<i>> /\ Len(b) = 1
    <3>1. chunk[u][i] = "good"
      BY <1>0, <1>1, <2>1, <2>5 DEF ChunkInv, FindsAll, Ready
    <3> QED
      BY <3>1 DEF Bytes, b
  <2>7. pos'[w] = pos[w] + 1 /\ merged'[g] = Prefix(pos[w] + 1)
    BY <1>0, <1>1, <1>2, <2>3, <2>5, <2>6, WrittenNext
  <2>8. S = pos[w] + 2..ChunkCount[g]
    BY <1>2, <2>3, <2>4, <2>5 DEF S
  <2>9. HasPut(w, g)'
    <3>1. CASE S = {}
      <4>1. ~(pos[w] + 2 <= ChunkCount[g])
        BY <1>2, <2>4, <2>8, <3>1
      <4>2. pos[w] + 1 = ChunkCount[g]
        BY <1>2, <2>3, <2>4, <4>1
      <4>3. merged'[g] = Content(g)
        BY <2>7, <4>2 DEF Prefix, Content, Indexes
      <4> QED
        BY <1>1, <3>1, <4>3 DEF HasPut
    <3>2. CASE S # {}
      <4>1. pos[w] + 2 <= ChunkCount[g] /\ pos'[w] + 1 = pos[w] + 2
        BY <1>2, <2>4, <2>7, <2>8, <3>2
      <4>2. pos'[w] < ChunkCount[g]
        BY <1>2, <2>4, <2>7, <4>1
      <4> QED
        BY <1>1, <2>3, <2>7, <2>8, <3>2, <4>1, <4>2 DEF HasPut
    <3> QED
      BY <3>1, <3>2
  <2>10. \A v \in Workers : Merges(v, g)' => v = w
    <3>1. \A v \in Workers : Merges(v, g) => v = w
      BY <2>2 DEF MergeOK
    <3> QED
      BY <1>1, <3>1 DEF Merges
  <2>11. merges'[g] # 0 /\ g \notin tblFile'
    BY <1>1, <2>2, <2>3 DEF MergeOK
  <2> QED
    BY <2>9, <2>10, <2>11 DEF MergeOK
<1> QED
  BY <1>4, <1>5 DEF MergeInv

\* A file is recorded once it is whole.
LEMMA MergeRecorded ==
  ASSUME Shape, FormInv, MergeInv, NEW w \in Workers, RecordFrame(w)
  PROVE  MergeInv'
<1>0. PICK g \in Files : g = req[w].file
  BY CompleteHas DEF RecordFrame, CompletePCs
<1>1. /\ UNCHANGED <<merged, merges, fileOf, resent, blind>>
      /\ \A v \in Workers \ {w} : req'[v] = req[v] /\ pos'[v] = pos[v]
      /\ req[w].pc \in SvcPCs \ {"s_cat"}
      /\ \/ req'[w].pc = "idle"
         \/ req'[w].pc \in SvcPCs \ {"s_cat"} /\ req'[w].file = g
      /\ tblFile \subseteq tblFile' /\ tblFile' \subseteq tblFile \cup {g}
  BY <1>0 DEF RecordFrame
<1>2. ASSUME NEW f \in Files, ~Excused(f)' PROVE MergeOK(f)'
  <2>1. MergeOK(f)
    BY <1>1, <1>2 DEF Excused, MergeInv
  <2>2. \A v \in Workers : Merges(v, f)' => Merges(v, f)
    BY <1>0, <1>1 DEF Merges, SvcPCs
  <2>3. CASE f = g
    <3>1. Merges(w, g) /\ merged[g] = Content(g) /\ merges[g] # 0
      BY <1>0, <1>1, <2>1, <2>3 DEF Merges, MergeOK, HasPut
    <3>2. \A v \in Workers : Merges(v, g) => v = w
      BY <2>1, <2>3, <3>1 DEF MergeOK
    <3>3. \A v \in Workers : Merges(v, g)' => req'[v].pc # "s_cat"
      BY <1>1, <2>2, <2>3, <3>2
    <3> QED
      BY <1>1, <2>2, <2>3, <3>1, <3>2, <3>3 DEF MergeOK, HasPut
  <2>4. CASE f # g
    <3>1. f \in tblFile' <=> f \in tblFile
      BY <1>1, <2>4
    <3>2. \A v \in Workers : Merges(v, f)' => req'[v] = req[v] /\ pos'[v] = pos[v]
      BY <1>0, <1>1, <2>4 DEF Merges, SvcPCs
    <3> QED
      BY <1>1, <1>2, <3>1, <3>2, MergeQuiet DEF Grows
  <2> QED
    BY <2>3, <2>4
<1> QED
  BY <1>2 DEF MergeInv

LEMMA MergeNext ==
  ASSUME Shape, FormInv, ChunkInv, MergeInv, [SvcNext]_svcVars
  PROVE  MergeInv'
<1>1. ASSUME NEW w \in Workers, SvcComplete(w) PROVE MergeInv'
  BY <1>1, MergeBegins, MergeGoesOn, RecordIs, MergeRecorded DEF SvcComplete
<1> QED
  BY <1>1, MergeEarly, EnvironmentIs, MergeEnvironment DEF SvcNext

LEMMA MergeInit == SvcInit => MergeInv
<1> SUFFICES ASSUME SvcInit PROVE MergeInv
  OBVIOUS
<1>1. tblFile = {} /\ \A w \in Workers : req[w].pc = "idle"
  BY IdleShape DEF SvcInit, Init
<1> QED
  BY <1>1 DEF MergeInv, MergeOK, Merges, SvcPCs

--------------------------------------------------------------------------------
(* What the service promises *)

\* One transfer for each session, unless a late HSET brought its hash back
\* (mpupload.go:322): whatever completions race, expire, fail or are cut off.
THEOREM OneTransfer == SvcSpec => []SentOnce
<1>1. Shape /\ SentInv /\ [SvcNext]_svcVars => (Shape /\ SentInv)'
  BY NextMoves
<1>2. SvcInit => Shape /\ SentInv
  BY InitHolds
<1>3. Shape /\ SentInv => SentOnce
  BY DEF SentInv, SentOnce
<1> QED
  BY <1>1, <1>2, <1>3, PTL DEF SvcSpec

\* Both rows before the reply and before the message (mpupload.go:300), also when
\* a call to the proxy fails or its answer is lost.
THEOREM RowsBeforeReply ==
  ASSUME DbMayFail = FALSE
  PROVE  SvcSpec => []StoredBeforeTold
<1>1. Shape /\ SentInv /\ StoredInv /\ [SvcNext]_svcVars => (Shape /\ SentInv /\ StoredInv)'
  BY NextMoves
<1>2. StoredInv => StoredBeforeTold
  BY DEF StoredInv
<1> QED
  BY <1>1, <1>2, InitHolds, PTL DEF SvcSpec

LEMMA Formed == SvcSpec => [](Shape /\ FormInv)
<1>1. Shape /\ SentInv /\ FormInv /\ [SvcNext]_svcVars => (Shape /\ SentInv /\ FormInv)'
  BY NextMoves, NextForm
<1>2. SvcInit => Shape /\ SentInv /\ FormInv
  BY InitHolds, InitForm
<1> QED
  BY <1>1, <1>2, PTL DEF SvcSpec

\* Whatever runs, expires, fails or is cut off, every variable keeps its type and
\* a completion knows its user, its file and its session (mpupload.go:243).
THEOREM SvcTypeCorrect == SvcSpec => []SvcTypeOK
BY Formed, TypeFollows, PTL

\* Where the body of a part is copied whole or not at all, as in the run, what
\* passes the comparison is good and there is nothing else to declare.
LEMMA SvcNothingElseDeclared ==
  ASSUME "bad" \notin Damage, Shape, FormInv, [SvcNext]_svcVars
  PROVE  DeclaresChunk
<1> SUFFICES ASSUME NEW v \in Workers, req[v].pc = "p_verify", req'[v].pc = "p_flag"
             PROVE  chunk[req[v].upid][req[v].index] = "good"
  BY DEF DeclaresChunk
<1>1. req \in [Workers -> SvcRequest]
  BY DEF Shape
<1>2. ASSUME NEW w \in Workers, req[w].pc # "p_verify", \E q : req' = [req EXCEPT ![w] = q]
      PROVE  FALSE
  BY <1>1, <1>2
<1>3. ASSUME NEW w \in Workers, SvcStart(w)
      PROVE  FALSE
  <2>1. req[w].pc = "idle" /\ \E q : req' = [req EXCEPT ![w] = q]
    BY <1>3 DEF SvcStart, SvcStartInit, SvcStartPart, StartPart, SvcStartComplete, StartComplete
  <2> QED
    BY <1>2, <2>1
<1>4. ASSUME NEW w \in Workers, SvcInitStep(w)
      PROVE  FALSE
  BY <1>4, InitMoves DEF SvcInitStep, InitPCs
<1>5. ASSUME NEW w \in Workers, SvcComplete(w)
      PROVE  FALSE
  <2>1. req[w].pc \in CompletePCs /\ \A x \in Workers \ {w} : req'[x] = req[x]
    BY <1>5, MergeStartIs, CatIs, RecordIs
       DEF SvcComplete, RecordFrame, SvcMergeStart, CompletePCs, SvcPCs
  <2> QED
    BY <2>1 DEF CompletePCs, SvcPCs
<1>6. ~(SvcExpire \/ SvcCrash \/ UNCHANGED svcVars)
  BY EnvironmentIs, IdleShape DEF EnvironmentFrame
<1>7. ASSUME NEW w \in Workers, SvcPartStep(w)
      PROVE  PartVerify(v)
  <2>1. PartStep(w) /\ \A x \in Workers \ {w} : req'[x] = req[x]
    BY <1>7, PartMoves DEF SvcPartStep
  <2>2. w = v
    BY <2>1
  <2> QED
    BY <2>1, <2>2 DEF PartStep, PartCopy, PartWrite, PartFlag
<1>8. PartVerify(v)
  BY <1>3, <1>4, <1>5, <1>6, <1>7 DEF SvcNext
<1>9. Answer(v) => req'[v].pc = "idle"
  BY <1>1, AnswerIs
<1> QED
  BY <1>8, <1>9 DEF PartVerify

LEMMA SvcWholeCopiesDeclare ==
  ASSUME "bad" \notin Damage
  PROVE  SvcSpec => Declared
<1>1. Shape /\ FormInv /\ [SvcNext]_svcVars => DeclaresChunk
  BY SvcNothingElseDeclared
<1> QED
  BY <1>1, Formed, PTL DEF SvcSpec, Declared

\* The file at a recorded address is the one its hash names, though nothing
\* compares them (mpupload.go:276), unless a second merge was begun, a chunk was
\* sent again, or a completion that found no chunk count was let through: as long
\* as clients declare the sha1 of what they were to send.
THEOREM DamagedByOverlap == SvcSpec /\ Declared => []DamagedOnlyByOverlap
<1> DEFINE Inv == Shape /\ SentInv /\ FormInv /\ ChunkInv /\ MergeInv
<1>1. Inv /\ [DeclaresChunk]_vars /\ [SvcNext]_svcVars => Inv'
  BY NextMoves, NextForm, ChunkNext, MergeNext
<1>2. SvcInit => Inv
  BY InitHolds, InitForm, ChunkInit, MergeInit
<1>3. Inv => DamagedOnlyByOverlap
  BY DEF FormInv, StoresOK, MergeInv, MergeOK, Excused, DamagedOnlyByOverlap
<1> QED
  BY <1>1, <1>2, <1>3, PTL DEF SvcSpec, Declared

================================================================================
