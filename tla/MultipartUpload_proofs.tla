------------------------- MODULE MultipartUpload_proofs -------------------------
(***************************************************************************)
(* Proofs about MultipartUpload, for any number of users, files, upload     *)
(* ids, workers and chunks, and for every setting of the configuration     *)
(* constants unless a theorem names one.                                   *)
(***************************************************************************)
EXTENDS MultipartUpload, TLAPS

--------------------------------------------------------------------------------
(* Facts about the data *)

LEMMA IndexIsNat == Index \subseteq Nat \ {0}
  BY ChunkCountAssumption DEF Index, Indexes

LEMMA IdleIsRequest == Idle \in Request
  BY DEF Idle, Request, PCs

LEMMA NoSessionIsSession == NoSession \in Session
  BY DEF NoSession, Session

\* HSET and EXPIRE keep a session a session.
LEMMA SessionCommands ==
  ASSUME NEW s \in Session
  PROVE  /\ \A n \in Nat : HSetCount(s, n) \in Session
         /\ HSetMeta(s) \in Session
         /\ \A i \in Index : HSetFlag(s, i) \in Session
         /\ Expire(s) \in Session
<1>1. ASSUME NEW n \in Nat PROVE HSetCount(s, n) \in Session
  BY DEF HSetCount, Session
<1>2. HSetMeta(s) \in Session
  BY DEF HSetMeta, Session
<1>3. ASSUME NEW i \in Index PROVE HSetFlag(s, i) \in Session
  BY DEF HSetFlag, Session
<1>4. Expire(s) \in Session
  BY DEF Expire, Session
<1> QED
  BY <1>1, <1>2, <1>3, <1>4

\* What cat appends is a sequence of naturals.
LEMMA BytesIsSeq ==
  ASSUME NEW c \in Cell, NEW i \in Index
  PROVE  Bytes(c, i) \in Seq(Nat)
  BY IndexIsNat DEF Bytes, Cell

\* No file is empty, so a merge that has appended nothing is not finished.
LEMMA ContentNotEmpty ==
  ASSUME NEW f \in Files
  PROVE  Content(f) # <<>>
<1>1. 1 \in DOMAIN Content(f)
  BY ChunkCountAssumption DEF Content, Indexes
<1> QED
  BY <1>1

--------------------------------------------------------------------------------
(* Type correctness *)

\* A worker that moves to another step, or answers, still has a typed request.
LEMMA GotoTyped ==
  ASSUME req \in [Workers -> Request], NEW w \in Workers, NEW pc \in PCs,
         Goto(w, pc)
  PROVE  req' \in [Workers -> Request]
  BY DEF Goto, Request

LEMMA GotoWithTyped ==
  ASSUME req \in [Workers -> Request], NEW w \in Workers, NEW pc \in PCs,
         NEW u \in UploadIds, GotoWith(w, pc, u)
  PROVE  req' \in [Workers -> Request]
<1>1. [req[w] EXCEPT !.pc = pc, !.upid = u] \in Request
  BY DEF Request
<1>2. req' = [req EXCEPT ![w] = [req[w] EXCEPT !.pc = pc, !.upid = u]]
  BY DEF GotoWith
<1> QED
  BY <1>1, <1>2

LEMMA GotoMergeTyped ==
  ASSUME req \in [Workers -> Request], NEW w \in Workers,
         NEW S \in SUBSET Index, GotoMerge(w, S)
  PROVE  req' \in [Workers -> Request]
<1> DEFINE pc == IF S = {} THEN "m_verify" ELSE "m_cat"
<1>1. pc \in PCs
  BY DEF PCs, MergePCs
<1> HIDE DEF pc
<1>2. [req[w] EXCEPT !.pc = pc, !.chunks = S] \in Request
  BY <1>1 DEF Request
<1>3. req' = [req EXCEPT ![w] = [req[w] EXCEPT !.pc = pc, !.chunks = S]]
  BY DEF GotoMerge, pc
<1> QED
  BY <1>2, <1>3

LEMMA AnswerTyped ==
  ASSUME req \in [Workers -> Request], NEW w \in Workers, Answer(w)
  PROVE  req' \in [Workers -> Request]
  BY IdleIsRequest DEF Answer

TypeInv == Typed /\ RequestOK /\ OriginOK

LEMMA TypeInvInit == Init => TypeInv
<1> SUFFICES ASSUME Init PROVE TypeInv
  OBVIOUS
<1> USE DEF Init
<1>1. Typed
  BY IdleIsRequest, NoSessionIsSession DEF Typed, Cell
<1>2. RequestOK
  BY DEF RequestOK, Idle, FilePCs, UserPCs, UpidPCs, InitPCs, PartPCs, MergePCs,
         RecordPCs, CancelPCs
<1>3. OriginOK
  BY DEF OriginOK, Idle, UpidPCs, InitPCs, PartPCs, MergePCs, RecordPCs, CancelPCs
<1> QED
  BY <1>1, <1>2, <1>3 DEF TypeInv

\* Every step keeps every variable in its type.
LEMMA TypedNext ==
  ASSUME TypeInv, [Next]_vars
  PROVE  Typed'
<1> USE DEF TypeInv
<1>1. ASSUME NEW w \in Workers, NEW n \in Users, NEW f \in Files, StartInit(w, n, f)
     PROVE  Typed'
  BY <1>1, IdleIsRequest, AnswerTyped
  DEF StartInit, Typed, redis, db, ghost, Idle, Request, PCs, InitPCs, PartPCs,
      MergePCs, RecordPCs, CancelPCs
<1>2. ASSUME NEW w \in Workers, NEW u \in UploadIds, NEW i \in Index, StartPart(w, u, i)
     PROVE  Typed'
  BY <1>2, IdleIsRequest, AnswerTyped
  DEF StartPart, Typed, redis, db, ghost, Idle, Request, PCs, InitPCs, PartPCs,
      MergePCs, RecordPCs, CancelPCs, Cell
<1>3. ASSUME NEW w \in Workers, NEW n \in Users, NEW u \in UploadIds, StartComplete(w, n, u)
     PROVE  Typed'
  BY <1>3, IdleIsRequest, AnswerTyped, NoneAssumption
  DEF StartComplete, Typed, redis, db, ghost, Idle, Request, PCs, InitPCs, PartPCs,
      MergePCs, RecordPCs, CancelPCs
<1>4. ASSUME NEW w \in Workers, NEW f \in Files, StartCancel(w, f)
     PROVE  Typed'
  BY <1>4, IdleIsRequest, AnswerTyped, NoneAssumption
  DEF StartCancel, Typed, redis, db, ghost, Idle, Request, PCs, InitPCs, PartPCs,
      MergePCs, RecordPCs, CancelPCs
<1>5. ASSUME NEW w \in Workers, InitResume(w)
     PROVE  Typed'
  BY <1>5, GotoTyped, AnswerTyped
  DEF InitResume, Typed, redis, db, ghost, PCs, InitPCs, PartPCs, MergePCs, RecordPCs,
      CancelPCs, RequestOK, FilePCs, UserPCs, UpidPCs
<1>6. ASSUME NEW w \in Workers, NEW u \in UploadIds, InitFresh(w, u)
     PROVE  Typed'
  <2>1. req[w].file \in Files
    BY <1>6
    DEF InitFresh, RequestOK, FilePCs, UserPCs, UpidPCs, InitPCs, PartPCs, MergePCs,
       RecordPCs, CancelPCs
  <2>2. req' \in [Workers -> Request]
    BY <1>6, GotoWithTyped DEF InitFresh, Typed, PCs, InitPCs
  <2> QED
    BY <1>6, <2>1, <2>2 DEF InitFresh, Typed, redis, db, ghost
<1>7. ASSUME NEW w \in Workers, NEW u \in UploadIds, InitRefused(w, u)
     PROVE  Typed'
  <2>1. req[w].file \in Files /\ req[w].user \in Users
    BY <1>7
    DEF InitRefused, RequestOK, FilePCs, UserPCs, UpidPCs, InitPCs, PartPCs, MergePCs,
       RecordPCs, CancelPCs
  <2>2. req' \in [Workers -> Request]
    BY <1>7, AnswerTyped DEF InitRefused, ReplyUpInfo, Typed
  <2>3. told' \subseteq Users \X UploadIds
    BY <1>7, <2>1 DEF InitRefused, ReplyUpInfo, Typed
  <2> QED
    BY <1>7, <2>1, <2>2, <2>3 DEF InitRefused, Typed, redis, db, ghost, ReplyUpInfo
<1>8. ASSUME NEW w \in Workers, InitGet(w)
     PROVE  Typed'
  <2>1. req[w].file \in Files
    BY <1>8
    DEF InitGet, RequestOK, FilePCs, UserPCs, UpidPCs, InitPCs, PartPCs, MergePCs,
       RecordPCs, CancelPCs
  <2>2. CASE hashUpid[req[w].file] = None
    BY <1>8, <2>1, <2>2, AnswerTyped DEF InitGet, Typed, redis, db, ghost
  <2>3. CASE hashUpid[req[w].file] # None
    BY <1>8, <2>1, <2>3, GotoWithTyped
    DEF InitGet, Typed, redis, db, ghost, PCs, InitPCs
  <2> QED
    BY <2>2, <2>3
<1>9. ASSUME NEW w \in Workers, InitList(w)
     PROVE  Typed'
  BY <1>9, GotoTyped, AnswerTyped
  DEF InitList, ReplyUpInfo, Typed, redis, db, ghost, PCs, InitPCs, PartPCs, MergePCs,
      RecordPCs, CancelPCs, RequestOK, FilePCs, UserPCs, UpidPCs
<1>10. ASSUME NEW w \in Workers, InitCount(w)
     PROVE  Typed'
  <2>1. req[w].file \in Files /\ req[w].upid \in UploadIds
    BY <1>10
    DEF InitCount, RequestOK, FilePCs, UserPCs, UpidPCs, InitPCs, PartPCs, MergePCs,
       RecordPCs, CancelPCs
  <2>2. req' \in [Workers -> Request]
    BY <1>10, GotoTyped DEF InitCount, Typed, PCs, InitPCs
  <2>3. HSetCount(mp[req[w].upid], ChunkCount[req[w].file]) \in Session
    BY <2>1, SessionCommands, ChunkCountAssumption DEF Typed
  <2>4. mp' \in [UploadIds -> Session]
    BY <1>10, <2>3 DEF InitCount, Typed
  <2> QED
    BY <1>10, <2>2, <2>4 DEF InitCount, Typed, redis, db, ghost
<1>11. ASSUME NEW w \in Workers, InitMeta(w)
     PROVE  Typed'
  <2>1. req[w].file \in Files /\ req[w].upid \in UploadIds
    BY <1>11
    DEF InitMeta, RequestOK, FilePCs, UserPCs, UpidPCs, InitPCs, PartPCs, MergePCs,
       RecordPCs, CancelPCs
  <2>2. req' \in [Workers -> Request]
    BY <1>11, GotoTyped DEF InitMeta, Typed, PCs, InitPCs
  <2>3. HSetMeta(mp[req[w].upid]) \in Session
    BY <2>1, SessionCommands, ChunkCountAssumption DEF Typed
  <2>4. mp' \in [UploadIds -> Session]
    BY <1>11, <2>3 DEF InitMeta, Typed
  <2> QED
    BY <1>11, <2>2, <2>4 DEF InitMeta, Typed, redis, db, ghost
<1>12. ASSUME NEW w \in Workers, InitExpire(w)
     PROVE  Typed'
  <2>1. req[w].file \in Files /\ req[w].upid \in UploadIds
    BY <1>12
    DEF InitExpire, RequestOK, FilePCs, UserPCs, UpidPCs, InitPCs, PartPCs, MergePCs,
       RecordPCs, CancelPCs
  <2>2. req' \in [Workers -> Request]
    BY <1>12, GotoTyped DEF InitExpire, Typed, PCs, InitPCs
  <2>3. Expire(mp[req[w].upid]) \in Session
    BY <2>1, SessionCommands, ChunkCountAssumption DEF Typed
  <2>4. mp' \in [UploadIds -> Session]
    BY <1>12, <2>3 DEF InitExpire, Typed
  <2> QED
    BY <1>12, <2>2, <2>4 DEF InitExpire, Typed, redis, db, ghost
<1>13. ASSUME NEW w \in Workers, InitSetHash(w)
     PROVE  Typed'
  <2>1. req[w].file \in Files /\ req[w].upid \in UploadIds /\ req[w].user \in Users
    BY <1>13
    DEF InitSetHash, RequestOK, FilePCs, UserPCs, UpidPCs, InitPCs, PartPCs, MergePCs,
       RecordPCs, CancelPCs
  <2>2. req' \in [Workers -> Request]
    BY <1>13, AnswerTyped DEF InitSetHash, ReplyUpInfo, Typed
  <2>3. told' \subseteq Users \X UploadIds
    BY <1>13, <2>1 DEF InitSetHash, ReplyUpInfo, Typed
  <2> QED
    BY <1>13, <2>1, <2>2, <2>3 DEF InitSetHash, Typed, redis, db, ghost, ReplyUpInfo
<1>14. ASSUME NEW w \in Workers, PartCopy(w)
     PROVE  Typed'
  BY <1>14, ConfigAssumption
  DEF PartCopy, Typed, redis, db, ghost, Cell, RequestOK, UpidPCs, PartPCs
<1>15. ASSUME NEW w \in Workers, PartWrite(w)
     PROVE  Typed'
  BY <1>15, GotoTyped, AnswerTyped, ConfigAssumption
  DEF PartWrite, Typed, redis, db, ghost, PCs, InitPCs, PartPCs, MergePCs, RecordPCs,
      CancelPCs, Cell, RequestOK, FilePCs, UserPCs, UpidPCs
<1>16. ASSUME NEW w \in Workers, PartVerify(w)
     PROVE  Typed'
  BY <1>16, GotoTyped, AnswerTyped
  DEF PartVerify, Typed, redis, db, ghost, PCs, InitPCs, PartPCs, MergePCs, RecordPCs,
      CancelPCs, RequestOK, FilePCs, UserPCs, UpidPCs
<1>17. ASSUME NEW w \in Workers, PartFlag(w)
     PROVE  Typed'
  <2>1. req[w].upid \in UploadIds /\ req[w].index \in Index
    BY <1>17
    DEF PartFlag, RequestOK, FilePCs, UserPCs, UpidPCs, InitPCs, PartPCs, MergePCs,
       RecordPCs, CancelPCs
  <2>2. req' \in [Workers -> Request]
    BY <1>17, AnswerTyped DEF PartFlag, Typed
  <2>3. HSetFlag(mp[req[w].upid], req[w].index) \in Session
    BY <2>1, SessionCommands DEF Typed
  <2>4. mp' \in [UploadIds -> Session]
    BY <1>17, <2>3 DEF PartFlag, Typed
  <2> QED
    BY <1>17, <2>2, <2>4 DEF PartFlag, Typed, redis, db, ghost
<1>18. ASSUME NEW w \in Workers, MergeStart(w)
     PROVE  Typed'
  <2>1. req[w].file \in Files /\ req[w].upid \in UploadIds
    BY <1>18
    DEF MergeStart, RequestOK, FilePCs, UserPCs, UpidPCs, InitPCs, PartPCs, MergePCs,
       RecordPCs, CancelPCs
  <2>2. req' \in [Workers -> Request]
    BY <1>18, GotoMergeTyped DEF MergeStart, Typed
  <2>3. merged' \in [Files -> Seq(Nat)] /\ merges' \in [Files -> 0..2]
    BY <1>18, <2>1 DEF MergeStart, Typed
  <2> QED
    BY <1>18, <2>2, <2>3 DEF MergeStart, Typed, redis, db, ghost
<1>19. ASSUME NEW w \in Workers, NEW i \in Index, MergeCat(w, i)
     PROVE  Typed'
  <2>1. req[w].file \in Files /\ req[w].upid \in UploadIds
    BY <1>19
    DEF MergeCat, RequestOK, FilePCs, UserPCs, UpidPCs, InitPCs, PartPCs, MergePCs,
       RecordPCs, CancelPCs
  <2>2. req' \in [Workers -> Request]
    BY <1>19, GotoMergeTyped DEF MergeCat, Typed, Request
  <2>3. Bytes(chunk[req[w].upid][i], i) \in Seq(Nat)
    BY <1>19, <2>1, BytesIsSeq DEF Typed
  <2>4. merged' \in [Files -> Seq(Nat)]
    BY <1>19, <2>1, <2>3 DEF MergeCat, Typed
  <2> QED
    BY <1>19, <2>1, <2>2, <2>4 DEF MergeCat, Typed, redis, db, ghost
<1>20. ASSUME NEW w \in Workers, MergeVerify(w)
     PROVE  Typed'
  BY <1>20, GotoTyped, AnswerTyped
  DEF MergeVerify, Typed, redis, db, ghost, PCs, InitPCs, PartPCs, MergePCs, RecordPCs,
      CancelPCs, RequestOK, FilePCs, UserPCs, UpidPCs
<1>21. ASSUME NEW w \in Workers, CompleteFile(w)
     PROVE  Typed'
  BY <1>21, GotoTyped, AnswerTyped
  DEF CompleteFile, Typed, redis, ghost, PCs, InitPCs, PartPCs, MergePCs, RecordPCs,
      CancelPCs, RequestOK, FilePCs, UserPCs, UpidPCs
<1>22. ASSUME NEW w \in Workers, CompleteUser(w)
     PROVE  Typed'
  <2>1. req[w].file \in Files /\ req[w].user \in Users
    BY <1>22
    DEF CompleteUser, RequestOK, FilePCs, UserPCs, UpidPCs, InitPCs, PartPCs, MergePCs,
       RecordPCs, CancelPCs
  <2>2. req' \in [Workers -> Request]
    BY <1>22, GotoTyped DEF CompleteUser, Typed, PCs, RecordPCs
  <2> QED
    BY <1>22, <2>1, <2>2 DEF CompleteUser, Typed, redis, db, ghost
<1>23. ASSUME NEW w \in Workers, CompleteDelHash(w)
     PROVE  Typed'
  BY <1>23, GotoTyped, AnswerTyped
  DEF CompleteDelHash, Typed, db, ghost, PCs, InitPCs, PartPCs, MergePCs, RecordPCs,
      CancelPCs, RequestOK, FilePCs, UserPCs, UpidPCs
<1>24. ASSUME NEW w \in Workers, CompleteDelMp(w)
     PROVE  Typed'
  BY <1>24, GotoTyped, AnswerTyped, NoSessionIsSession
  DEF CompleteDelMp, Typed, db, ghost, PCs, InitPCs, PartPCs, MergePCs, RecordPCs,
      CancelPCs, RequestOK, FilePCs, UserPCs, UpidPCs
<1>25. ASSUME NEW w \in Workers, CompleteReply(w)
     PROVE  Typed'
  BY <1>25, GotoTyped, AnswerTyped
  DEF CompleteReply, RemovePathByShell, Typed, redis, db, PCs, InitPCs, PartPCs,
      MergePCs, RecordPCs, CancelPCs, Cell, RequestOK, FilePCs, UserPCs, UpidPCs
<1>26. ASSUME NEW w \in Workers, CancelDelHash(w)
     PROVE  Typed'
  BY <1>26, GotoTyped, AnswerTyped
  DEF CancelDelHash, Typed, db, ghost, PCs, InitPCs, PartPCs, MergePCs, RecordPCs,
      CancelPCs, RequestOK, FilePCs, UserPCs, UpidPCs
<1>27. ASSUME NEW w \in Workers, CancelDelMp(w)
     PROVE  Typed'
  BY <1>27, GotoTyped, AnswerTyped, NoSessionIsSession
  DEF CancelDelMp, Typed, db, ghost, PCs, InitPCs, PartPCs, MergePCs, RecordPCs,
      CancelPCs, RequestOK, FilePCs, UserPCs, UpidPCs
<1>28. ASSUME NEW w \in Workers, CancelRemove(w)
     PROVE  Typed'
  BY <1>28, GotoTyped, AnswerTyped
  DEF CancelRemove, RemovePathByShell, Typed, redis, db, ghost, PCs, InitPCs, PartPCs,
      MergePCs, RecordPCs, CancelPCs, Cell, RequestOK, FilePCs, UserPCs, UpidPCs
<1>29. ASSUME NEW f \in Files, ExpireHash(f)
     PROVE  Typed'
  BY <1>29
  DEF ExpireHash, Typed, db, ghost
<1>30. ASSUME NEW u \in UploadIds, ExpireMp(u)
     PROVE  Typed'
  BY <1>30, NoSessionIsSession
  DEF ExpireMp, Typed, db, ghost
<1>31. CASE Crash
  BY <1>31, IdleIsRequest
  DEF Crash, Typed, redis, db, ghost
<1>32. CASE UNCHANGED vars
  BY <1>32
  DEF vars, Typed, redis, db, ghost
<1> QED
  BY <1>1, <1>2, <1>3, <1>4, <1>5, <1>6, <1>7, <1>8, <1>9, <1>10, <1>11, <1>12, <1>13,
     <1>14, <1>15, <1>16, <1>17, <1>18, <1>19, <1>20, <1>21, <1>22, <1>23, <1>24, <1>25, <1>26,
     <1>27, <1>28, <1>29, <1>30, <1>31, <1>32
  DEF Next, Start, Handle, InitStep, PartStep, CompleteStep, CancelStep, Environment

\* Every step leaves each request the fields its next step reads.
LEMMA RequestOKNext ==
  ASSUME TypeInv, [Next]_vars
  PROVE  RequestOK'
<1> USE DEF TypeInv
<1> USE DEF FilePCs, UserPCs, UpidPCs, InitPCs, PartPCs, MergePCs, RecordPCs, CancelPCs
<1>1. ASSUME NEW w \in Workers, NEW n \in Users, NEW f \in Files, StartInit(w, n, f)
     PROVE  RequestOK'
  BY <1>1
  DEF StartInit, Typed, RequestOK, Idle
<1>2. ASSUME NEW w \in Workers, NEW u \in UploadIds, NEW i \in Index, StartPart(w, u, i)
     PROVE  RequestOK'
  BY <1>2
  DEF StartPart, Typed, RequestOK, Idle
<1>3. ASSUME NEW w \in Workers, NEW n \in Users, NEW u \in UploadIds, StartComplete(w, n, u)
     PROVE  RequestOK'
  BY <1>3, NoneAssumption
  DEF StartComplete, Typed, RequestOK, Idle, OriginOK
<1>4. ASSUME NEW w \in Workers, NEW f \in Files, StartCancel(w, f)
     PROVE  RequestOK'
  BY <1>4, NoneAssumption
  DEF StartCancel, Typed, RequestOK, Idle
<1>5. ASSUME NEW w \in Workers, InitResume(w)
     PROVE  RequestOK'
  BY <1>5
  DEF InitResume, Typed, RequestOK, Goto, Request
<1>6. ASSUME NEW w \in Workers, NEW u \in UploadIds, InitFresh(w, u)
     PROVE  RequestOK'
  BY <1>6
  DEF InitFresh, Typed, RequestOK, GotoWith, Request
<1>7. ASSUME NEW w \in Workers, NEW u \in UploadIds, InitRefused(w, u)
     PROVE  RequestOK'
  BY <1>7
  DEF InitRefused, ReplyUpInfo, Typed, RequestOK, Idle, Answer
<1>8. ASSUME NEW w \in Workers, InitGet(w)
     PROVE  RequestOK'
  <2>1. req[w].file \in Files
    BY <1>8 DEF InitGet, RequestOK
  <2>2. CASE hashUpid[req[w].file] = None
    <3>1. Answer(w) /\ UNCHANGED <<hashUpid, fileOf, told>>
      BY <1>8, <2>2 DEF InitGet, redis, ghost
    <3> QED
      BY <3>1, NoneAssumption
      DEF Typed, RequestOK, Answer, Idle
  <2>3. CASE hashUpid[req[w].file] # None
    <3> DEFINE u == hashUpid[req[w].file]
    <3>1. GotoWith(w, "i_list", u) /\ UNCHANGED <<hashUpid, fileOf, told>>
      BY <1>8, <2>3 DEF InitGet, redis, ghost
    <3>2. u \in UploadIds /\ fileOf[u] = req[w].file
      BY <2>1, <2>3 DEF Typed, OriginOK
    <3>3. req[w].pc = "i_get"
      BY <1>8 DEF InitGet
    <3> HIDE DEF u
    <3> QED
      BY <3>1, <3>2, <3>3, <2>1
      DEF Typed, RequestOK, GotoWith, Request
  <2> QED
    BY <2>2, <2>3
<1>9. ASSUME NEW w \in Workers, InitList(w)
     PROVE  RequestOK'
  <2>1. CASE Goto(w, "i_count") /\ UNCHANGED ghost
    BY <1>9, <2>1, NoneAssumption
    DEF InitList, Typed, RequestOK, Goto, Answer, Request, Idle
  <2>2. CASE ReplyUpInfo(w, req[w].upid)
    BY <1>9, <2>2, NoneAssumption
    DEF InitList, Typed, RequestOK, Goto, Answer, Request, Idle, ReplyUpInfo
  <2> QED
    BY <1>9, <2>1, <2>2 DEF InitList
<1>10. ASSUME NEW w \in Workers, InitCount(w)
     PROVE  RequestOK'
  BY <1>10
  DEF InitCount, Typed, RequestOK, Goto, Request
<1>11. ASSUME NEW w \in Workers, InitMeta(w)
     PROVE  RequestOK'
  BY <1>11
  DEF InitMeta, Typed, RequestOK, Goto, Request
<1>12. ASSUME NEW w \in Workers, InitExpire(w)
     PROVE  RequestOK'
  BY <1>12
  DEF InitExpire, Typed, RequestOK, Goto, Request
<1>13. ASSUME NEW w \in Workers, InitSetHash(w)
     PROVE  RequestOK'
  BY <1>13
  DEF InitSetHash, ReplyUpInfo, Typed, RequestOK, Idle, Answer
<1>14. ASSUME NEW w \in Workers, PartCopy(w)
     PROVE  RequestOK'
  BY <1>14 DEF PartCopy, Typed, RequestOK
<1>15. ASSUME NEW w \in Workers, PartWrite(w)
     PROVE  RequestOK'
  BY <1>15
  DEF PartWrite, Typed, RequestOK, Goto, Request
<1>16. ASSUME NEW w \in Workers, PartVerify(w)
     PROVE  RequestOK'
  <2>1. CASE Answer(w)
    BY <1>16, <2>1, NoneAssumption
    DEF PartVerify, Typed, RequestOK, Goto, Answer, Request, Idle
  <2>2. CASE Goto(w, "p_flag")
    BY <1>16, <2>2, NoneAssumption
    DEF PartVerify, Typed, RequestOK, Goto, Answer, Request, Idle
  <2> QED
    BY <1>16, <2>1, <2>2 DEF PartVerify
<1>17. ASSUME NEW w \in Workers, PartFlag(w)
     PROVE  RequestOK'
  BY <1>17
  DEF PartFlag, Typed, RequestOK, Idle, Answer
<1>18. ASSUME NEW w \in Workers, MergeStart(w)
     PROVE  RequestOK'
  <2>1. PICK S \in SUBSET Index : GotoMerge(w, S)
    BY <1>18 DEF MergeStart
  <2> QED
    BY <1>18, <2>1
    DEF MergeStart, Typed, RequestOK, GotoMerge, Request
<1>19. ASSUME NEW w \in Workers, NEW i \in Index, MergeCat(w, i)
     PROVE  RequestOK'
  BY <1>19
  DEF MergeCat, Typed, RequestOK, GotoMerge, Request
<1>20. ASSUME NEW w \in Workers, MergeVerify(w)
     PROVE  RequestOK'
  <2>1. CASE Goto(w, "c_file")
    BY <1>20, <2>1, NoneAssumption
    DEF MergeVerify, Typed, RequestOK, Goto, Answer, Request, Idle
  <2>2. CASE Answer(w)
    BY <1>20, <2>2, NoneAssumption
    DEF MergeVerify, Typed, RequestOK, Goto, Answer, Request, Idle
  <2> QED
    BY <1>20, <2>1, <2>2 DEF MergeVerify
<1>21. ASSUME NEW w \in Workers, CompleteFile(w)
     PROVE  RequestOK'
  BY <1>21
  DEF CompleteFile, Typed, RequestOK, Goto, Request
<1>22. ASSUME NEW w \in Workers, CompleteUser(w)
     PROVE  RequestOK'
  BY <1>22
  DEF CompleteUser, Typed, RequestOK, Goto, Request
<1>23. ASSUME NEW w \in Workers, CompleteDelHash(w)
     PROVE  RequestOK'
  BY <1>23
  DEF CompleteDelHash, Typed, RequestOK, Goto, Request
<1>24. ASSUME NEW w \in Workers, CompleteDelMp(w)
     PROVE  RequestOK'
  <2>1. CASE Goto(w, "c_reply")
    BY <1>24, <2>1, NoneAssumption
    DEF CompleteDelMp, Typed, RequestOK, Goto, Answer, Request, Idle
  <2>2. CASE Answer(w)
    BY <1>24, <2>2, NoneAssumption
    DEF CompleteDelMp, Typed, RequestOK, Goto, Answer, Request, Idle
  <2> QED
    BY <1>24, <2>1, <2>2 DEF CompleteDelMp
<1>25. ASSUME NEW w \in Workers, CompleteReply(w)
     PROVE  RequestOK'
  BY <1>25
  DEF CompleteReply, RemovePathByShell, Typed, RequestOK, Idle, Answer
<1>26. ASSUME NEW w \in Workers, CancelDelHash(w)
     PROVE  RequestOK'
  BY <1>26
  DEF CancelDelHash, Typed, RequestOK, Goto, Request
<1>27. ASSUME NEW w \in Workers, CancelDelMp(w)
     PROVE  RequestOK'
  BY <1>27
  DEF CancelDelMp, Typed, RequestOK, Goto, Request
<1>28. ASSUME NEW w \in Workers, CancelRemove(w)
     PROVE  RequestOK'
  BY <1>28
  DEF CancelRemove, RemovePathByShell, Typed, RequestOK, Idle, Answer
<1>29. ASSUME NEW f \in Files, ExpireHash(f)
     PROVE  RequestOK'
  BY <1>29
  DEF ExpireHash, Typed, RequestOK
<1>30. ASSUME NEW u \in UploadIds, ExpireMp(u)
     PROVE  RequestOK'
  BY <1>30
  DEF ExpireMp, Typed, RequestOK
<1>31. CASE Crash
  BY <1>31
  DEF Crash, Typed, RequestOK, Idle
<1>32. CASE UNCHANGED vars
  BY <1>32
  DEF vars, Typed, RequestOK, redis, db, ghost
<1> QED
  BY <1>1, <1>2, <1>3, <1>4, <1>5, <1>6, <1>7, <1>8, <1>9, <1>10, <1>11, <1>12, <1>13,
     <1>14, <1>15, <1>16, <1>17, <1>18, <1>19, <1>20, <1>21, <1>22, <1>23, <1>24, <1>25, <1>26,
     <1>27, <1>28, <1>29, <1>30, <1>31, <1>32
  DEF Next, Start, Handle, InitStep, PartStep, CompleteStep, CancelStep, Environment

\* No step uses an upload id for a file other than its own.
LEMMA OriginOKNext ==
  ASSUME TypeInv, [Next]_vars
  PROVE  OriginOK'
<1> USE DEF TypeInv
<1> USE DEF FilePCs, UserPCs, UpidPCs, InitPCs, PartPCs, MergePCs, RecordPCs, CancelPCs
<1>1. ASSUME NEW w \in Workers, NEW n \in Users, NEW f \in Files, StartInit(w, n, f)
     PROVE  OriginOK'
  BY <1>1, NoneAssumption
  DEF StartInit, Typed, RequestOK, OriginOK, redis, ghost, Idle
<1>2. ASSUME NEW w \in Workers, NEW u \in UploadIds, NEW i \in Index, StartPart(w, u, i)
     PROVE  OriginOK'
  BY <1>2, NoneAssumption
  DEF StartPart, Typed, RequestOK, OriginOK, redis, ghost, Idle
<1>3. ASSUME NEW w \in Workers, NEW n \in Users, NEW u \in UploadIds, StartComplete(w, n, u)
     PROVE  OriginOK'
  BY <1>3, NoneAssumption
  DEF StartComplete, Typed, RequestOK, OriginOK, redis, ghost, Idle
<1>4. ASSUME NEW w \in Workers, NEW f \in Files, StartCancel(w, f)
     PROVE  OriginOK'
  BY <1>4, NoneAssumption
  DEF StartCancel, Typed, RequestOK, OriginOK, redis, ghost, Idle
<1>5. ASSUME NEW w \in Workers, InitResume(w)
     PROVE  OriginOK'
  BY <1>5, NoneAssumption
  DEF InitResume, Typed, RequestOK, OriginOK, redis, ghost, Goto, Request
<1>6. ASSUME NEW w \in Workers, NEW u \in UploadIds, InitFresh(w, u)
     PROVE  OriginOK'
  BY <1>6, NoneAssumption
  DEF InitFresh, Typed, RequestOK, OriginOK, redis, ghost, GotoWith, Request
<1>7. ASSUME NEW w \in Workers, NEW u \in UploadIds, InitRefused(w, u)
     PROVE  OriginOK'
  BY <1>7, NoneAssumption
  DEF InitRefused, ReplyUpInfo, Typed, RequestOK, OriginOK, redis, Idle, Answer
<1>8. ASSUME NEW w \in Workers, InitGet(w)
     PROVE  OriginOK'
  <2>1. req[w].file \in Files
    BY <1>8 DEF InitGet, RequestOK
  <2>2. CASE hashUpid[req[w].file] = None
    <3>1. Answer(w) /\ UNCHANGED <<hashUpid, fileOf, told>>
      BY <1>8, <2>2 DEF InitGet, redis, ghost
    <3> QED
      BY <3>1, NoneAssumption
      DEF Typed, RequestOK, OriginOK, Answer, Idle
  <2>3. CASE hashUpid[req[w].file] # None
    <3> DEFINE u == hashUpid[req[w].file]
    <3>1. GotoWith(w, "i_list", u) /\ UNCHANGED <<hashUpid, fileOf, told>>
      BY <1>8, <2>3 DEF InitGet, redis, ghost
    <3>2. u \in UploadIds /\ fileOf[u] = req[w].file
      BY <2>1, <2>3 DEF Typed, OriginOK
    <3>3. req[w].pc = "i_get"
      BY <1>8 DEF InitGet
    <3> HIDE DEF u
    <3> QED
      BY <3>1, <3>2, <3>3, <2>1
      DEF Typed, RequestOK, OriginOK, GotoWith, Request
  <2> QED
    BY <2>2, <2>3
<1>9. ASSUME NEW w \in Workers, InitList(w)
     PROVE  OriginOK'
  <2>1. CASE Goto(w, "i_count") /\ UNCHANGED ghost
    BY <1>9, <2>1, NoneAssumption
    DEF InitList, Typed, RequestOK, OriginOK, redis, ghost, Goto, Answer, Request, Idle
  <2>2. CASE ReplyUpInfo(w, req[w].upid)
    BY <1>9, <2>2, NoneAssumption
    DEF InitList, Typed, RequestOK, OriginOK, redis, ghost, Goto, Answer, Request,
       Idle, ReplyUpInfo
  <2> QED
    BY <1>9, <2>1, <2>2 DEF InitList
<1>10. ASSUME NEW w \in Workers, InitCount(w)
     PROVE  OriginOK'
  BY <1>10, NoneAssumption
  DEF InitCount, Typed, RequestOK, OriginOK, ghost, Goto, Request
<1>11. ASSUME NEW w \in Workers, InitMeta(w)
     PROVE  OriginOK'
  BY <1>11, NoneAssumption
  DEF InitMeta, Typed, RequestOK, OriginOK, ghost, Goto, Request
<1>12. ASSUME NEW w \in Workers, InitExpire(w)
     PROVE  OriginOK'
  BY <1>12, NoneAssumption
  DEF InitExpire, Typed, RequestOK, OriginOK, ghost, Goto, Request
<1>13. ASSUME NEW w \in Workers, InitSetHash(w)
     PROVE  OriginOK'
  BY <1>13, NoneAssumption
  DEF InitSetHash, ReplyUpInfo, Typed, RequestOK, OriginOK, Idle, Answer
<1>14. ASSUME NEW w \in Workers, PartCopy(w)
     PROVE  OriginOK'
  BY <1>14 DEF PartCopy, Typed, OriginOK, redis, ghost
<1>15. ASSUME NEW w \in Workers, PartWrite(w)
     PROVE  OriginOK'
  BY <1>15, NoneAssumption
  DEF PartWrite, Typed, RequestOK, OriginOK, redis, ghost, Goto, Request
<1>16. ASSUME NEW w \in Workers, PartVerify(w)
     PROVE  OriginOK'
  <2>1. CASE Answer(w)
    BY <1>16, <2>1, NoneAssumption
    DEF PartVerify, Typed, RequestOK, OriginOK, redis, ghost, Goto, Answer, Request,
       Idle
  <2>2. CASE Goto(w, "p_flag")
    BY <1>16, <2>2, NoneAssumption
    DEF PartVerify, Typed, RequestOK, OriginOK, redis, ghost, Goto, Answer, Request,
       Idle
  <2> QED
    BY <1>16, <2>1, <2>2 DEF PartVerify
<1>17. ASSUME NEW w \in Workers, PartFlag(w)
     PROVE  OriginOK'
  BY <1>17, NoneAssumption
  DEF PartFlag, Typed, RequestOK, OriginOK, ghost, Idle, Answer
<1>18. ASSUME NEW w \in Workers, MergeStart(w)
     PROVE  OriginOK'
  <2>1. PICK S \in SUBSET Index : GotoMerge(w, S)
    BY <1>18 DEF MergeStart
  <2> QED
    BY <1>18, <2>1
    DEF MergeStart, Typed, RequestOK, OriginOK, redis, GotoMerge, Request
<1>19. ASSUME NEW w \in Workers, NEW i \in Index, MergeCat(w, i)
     PROVE  OriginOK'
  BY <1>19, NoneAssumption
  DEF MergeCat, Typed, RequestOK, OriginOK, redis, GotoMerge, Request
<1>20. ASSUME NEW w \in Workers, MergeVerify(w)
     PROVE  OriginOK'
  <2>1. CASE Goto(w, "c_file")
    BY <1>20, <2>1, NoneAssumption
    DEF MergeVerify, Typed, RequestOK, OriginOK, redis, ghost, Goto, Answer, Request,
       Idle
  <2>2. CASE Answer(w)
    BY <1>20, <2>2, NoneAssumption
    DEF MergeVerify, Typed, RequestOK, OriginOK, redis, ghost, Goto, Answer, Request,
       Idle
  <2> QED
    BY <1>20, <2>1, <2>2 DEF MergeVerify
<1>21. ASSUME NEW w \in Workers, CompleteFile(w)
     PROVE  OriginOK'
  BY <1>21, NoneAssumption
  DEF CompleteFile, Typed, RequestOK, OriginOK, redis, ghost, Goto, Request
<1>22. ASSUME NEW w \in Workers, CompleteUser(w)
     PROVE  OriginOK'
  BY <1>22, NoneAssumption
  DEF CompleteUser, Typed, RequestOK, OriginOK, redis, ghost, Goto, Request
<1>23. ASSUME NEW w \in Workers, CompleteDelHash(w)
     PROVE  OriginOK'
  BY <1>23, NoneAssumption
  DEF CompleteDelHash, Typed, RequestOK, OriginOK, ghost, Goto, Request
<1>24. ASSUME NEW w \in Workers, CompleteDelMp(w)
     PROVE  OriginOK'
  <2>1. CASE Goto(w, "c_reply")
    BY <1>24, <2>1, NoneAssumption
    DEF CompleteDelMp, Typed, RequestOK, OriginOK, ghost, Goto, Answer, Request, Idle
  <2>2. CASE Answer(w)
    BY <1>24, <2>2, NoneAssumption
    DEF CompleteDelMp, Typed, RequestOK, OriginOK, ghost, Goto, Answer, Request, Idle
  <2> QED
    BY <1>24, <2>1, <2>2 DEF CompleteDelMp
<1>25. ASSUME NEW w \in Workers, CompleteReply(w)
     PROVE  OriginOK'
  BY <1>25, NoneAssumption
  DEF CompleteReply, RemovePathByShell, Typed, RequestOK, OriginOK, redis, Idle, Answer
<1>26. ASSUME NEW w \in Workers, CancelDelHash(w)
     PROVE  OriginOK'
  BY <1>26, NoneAssumption
  DEF CancelDelHash, Typed, RequestOK, OriginOK, ghost, Goto, Request
<1>27. ASSUME NEW w \in Workers, CancelDelMp(w)
     PROVE  OriginOK'
  BY <1>27, NoneAssumption
  DEF CancelDelMp, Typed, RequestOK, OriginOK, ghost, Goto, Request
<1>28. ASSUME NEW w \in Workers, CancelRemove(w)
     PROVE  OriginOK'
  BY <1>28, NoneAssumption
  DEF CancelRemove, RemovePathByShell, Typed, RequestOK, OriginOK, redis, ghost, Idle,
      Answer
<1>29. ASSUME NEW f \in Files, ExpireHash(f)
     PROVE  OriginOK'
  BY <1>29, NoneAssumption
  DEF ExpireHash, Typed, RequestOK, OriginOK, ghost
<1>30. ASSUME NEW u \in UploadIds, ExpireMp(u)
     PROVE  OriginOK'
  BY <1>30, NoneAssumption
  DEF ExpireMp, Typed, RequestOK, OriginOK, ghost
<1>31. CASE Crash
  BY <1>31, NoneAssumption
  DEF Crash, Typed, RequestOK, OriginOK, redis, ghost, Idle
<1>32. CASE UNCHANGED vars
  BY <1>32, NoneAssumption
  DEF vars, Typed, RequestOK, OriginOK, redis, db, ghost
<1> QED
  BY <1>1, <1>2, <1>3, <1>4, <1>5, <1>6, <1>7, <1>8, <1>9, <1>10, <1>11, <1>12, <1>13,
     <1>14, <1>15, <1>16, <1>17, <1>18, <1>19, <1>20, <1>21, <1>22, <1>23, <1>24, <1>25, <1>26,
     <1>27, <1>28, <1>29, <1>30, <1>31, <1>32
  DEF Next, Start, Handle, InitStep, PartStep, CompleteStep, CancelStep, Environment

\* The part of the invariant every other proof starts from.
LEMMA TypeInvariant == Spec => []TypeInv
<1>1. TypeInv /\ [Next]_vars => TypeInv'
  BY TypedNext, RequestOKNext, OriginOKNext DEF TypeInv
<1> QED
  BY TypeInvInit, <1>1, PTL DEF Spec

\* The variables always have their types and every request has what its step
\* reads (TypeOK of the runs), whatever requests are served at once, whichever
\* keys expire under them and whenever the server crashes.
THEOREM TypeCorrect == Spec => []TypeOK
<1>1. TypeInv => TypeOK
  BY DEF TypeInv, TypeOK
<1> QED
  BY <1>1, TypeInvariant, PTL

================================================================================
