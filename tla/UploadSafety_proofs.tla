-------------------------- MODULE UploadSafety_proofs --------------------------
(***************************************************************************)
(* The safety invariants of MultipartUpload and its refinement of           *)
(* UploadLedger.  Only a completion at its merge, its inserts or its reply  *)
(* touches what they speak of; every other step is "quiet", and the         *)
(* inductive arguments below go through the completion's steps alone.       *)
(***************************************************************************)
EXTENDS MultipartUpload_proofs

--------------------------------------------------------------------------------
(* Quiet steps *)

\* Steps at which a request has the merged file or the inserts in its hands.
HotPCs == {"m_cat", "m_verify"} \cup RecordPCs

\* Nothing is merged, recorded or acknowledged, and no request gets there.
Quiet ==
  /\ UNCHANGED <<merged, db, acked, assembled, merges>>
  /\ \A v \in Workers : req'[v] = req[v] \/ req'[v].pc \notin HotPCs

\* Moving worker w to a step that is not hot, or answering, is quiet.
LEMMA GotoQuiet ==
  ASSUME Typed, NEW w \in Workers, NEW pc \in PCs \ HotPCs,
         UNCHANGED <<merged, db, acked, assembled, merges>>,
         \/ Goto(w, pc)
         \/ \E u \in UploadIds : GotoWith(w, pc, u)
         \/ Answer(w)
  PROVE  Quiet
<1>1. "idle" \notin HotPCs
  BY DEF HotPCs, RecordPCs
<1>2. CASE Goto(w, pc)
  BY <1>2 DEF Goto, Typed, Request, Quiet
<1>3. ASSUME NEW u \in UploadIds, GotoWith(w, pc, u)
      PROVE  Quiet
  BY <1>3 DEF GotoWith, Typed, Request, Quiet
<1>4. CASE Answer(w)
  BY <1>1, <1>4 DEF Answer, Idle, Typed, Quiet
<1> QED
  BY <1>2, <1>3, <1>4

LEMMA StartQuiet ==
  ASSUME Typed, NEW w \in Workers, Start(w)
  PROVE  Quiet
<1> USE DEF HotPCs, RecordPCs, Quiet, Typed, Idle, ghost
<1>1. ASSUME NEW n \in Users, NEW f \in Files, StartInit(w, n, f)
      PROVE  Quiet
  BY <1>1 DEF StartInit
<1>2. ASSUME NEW u \in UploadIds, NEW i \in Index, StartPart(w, u, i)
      PROVE  Quiet
  BY <1>2 DEF StartPart
<1>3. ASSUME NEW n \in Users, NEW u \in UploadIds, StartComplete(w, n, u)
      PROVE  Quiet
  BY <1>3 DEF StartComplete
<1>4. ASSUME NEW f \in Files, StartCancel(w, f)
      PROVE  Quiet
  BY <1>4 DEF StartCancel
<1> QED
  BY <1>1, <1>2, <1>3, <1>4 DEF Start

LEMMA InitStepQuiet ==
  ASSUME TypeInv, NEW w \in Workers, InitStep(w)
  PROVE  Quiet
<1> USE DEF TypeInv
<1>1. PCs \ HotPCs = {"idle", "m_start"} \cup InitPCs \cup PartPCs \cup CancelPCs
  BY DEF PCs, HotPCs, InitPCs, PartPCs, MergePCs, RecordPCs, CancelPCs
<1>2. CASE InitResume(w)
  BY <1>1, <1>2, GotoQuiet DEF InitResume, InitPCs, ghost
<1>3. ASSUME NEW u \in UploadIds, InitFresh(w, u)
      PROVE  Quiet
  BY <1>1, <1>3, GotoQuiet DEF InitFresh, InitPCs, ghost
<1>4. ASSUME NEW u \in UploadIds, InitRefused(w, u)
      PROVE  Quiet
  BY <1>1, <1>4, GotoQuiet DEF InitRefused, ReplyUpInfo
<1>5. CASE InitGet(w)
  <2>1. req[w].file \in Files
    BY <1>5 DEF InitGet, RequestOK, FilePCs, InitPCs
  <2>2. CASE Answer(w)
    BY <1>1, <1>5, <2>2, GotoQuiet DEF InitGet, ghost
  <2>3. CASE \E u \in UploadIds : GotoWith(w, "i_list", u)
    BY <1>1, <1>5, <2>3, GotoQuiet DEF InitGet, InitPCs, ghost
  <2> QED
    BY <1>5, <2>1, <2>2, <2>3 DEF InitGet, Typed
<1>6. CASE InitList(w)
  <2>1. CASE Goto(w, "i_count") /\ UNCHANGED ghost
    BY <1>1, <1>6, <2>1, GotoQuiet DEF InitList, InitPCs, ghost
  <2>2. CASE ReplyUpInfo(w, req[w].upid)
    BY <1>1, <1>6, <2>2, GotoQuiet DEF InitList, ReplyUpInfo
  <2> QED
    BY <1>6, <2>1, <2>2 DEF InitList
<1>7. CASE InitCount(w)
  BY <1>1, <1>7, GotoQuiet DEF InitCount, InitPCs, ghost
<1>8. CASE InitMeta(w)
  BY <1>1, <1>8, GotoQuiet DEF InitMeta, InitPCs, ghost
<1>9. CASE InitExpire(w)
  BY <1>1, <1>9, GotoQuiet DEF InitExpire, InitPCs, ghost
<1>10. CASE InitSetHash(w)
  BY <1>1, <1>10, GotoQuiet DEF InitSetHash, ReplyUpInfo
<1> QED
  BY <1>2, <1>3, <1>4, <1>5, <1>6, <1>7, <1>8, <1>9, <1>10 DEF InitStep

LEMMA PartStepQuiet ==
  ASSUME Typed, NEW w \in Workers, PartStep(w)
  PROVE  Quiet
<1>1. {"p_verify", "p_flag"} \subseteq PCs \ HotPCs
  BY DEF PCs, HotPCs, PartPCs, RecordPCs
<1>2. CASE PartWrite(w)
  BY <1>1, <1>2, GotoQuiet DEF PartWrite, ghost
<1>3. CASE PartVerify(w)
  BY <1>1, <1>3, GotoQuiet DEF PartVerify, ghost
<1>4. CASE PartFlag(w)
  BY <1>1, <1>4, GotoQuiet DEF PartFlag, ghost
<1>5. CASE PartCopy(w)
  BY <1>5 DEF PartCopy, Quiet, ghost
<1> QED
  BY <1>2, <1>3, <1>4, <1>5 DEF PartStep

LEMMA CancelStepQuiet ==
  ASSUME Typed, NEW w \in Workers, CancelStep(w)
  PROVE  Quiet
<1>1. {"x_delmp", "x_remove"} \subseteq PCs \ HotPCs
  BY DEF PCs, HotPCs, CancelPCs, RecordPCs
<1>2. CASE CancelDelHash(w)
  BY <1>1, <1>2, GotoQuiet DEF CancelDelHash, ghost
<1>3. CASE CancelDelMp(w)
  BY <1>1, <1>3, GotoQuiet DEF CancelDelMp, ghost
<1>4. CASE CancelRemove(w)
  BY <1>1, <1>4, GotoQuiet DEF CancelRemove, ghost
<1> QED
  BY <1>2, <1>3, <1>4 DEF CancelStep

LEMMA EnvironmentQuiet ==
  ASSUME Environment
  PROVE  Quiet
<1>1. ASSUME NEW f \in Files, ExpireHash(f)
      PROVE  Quiet
  BY <1>1 DEF ExpireHash, Quiet, ghost
<1>2. ASSUME NEW u \in UploadIds, ExpireMp(u)
      PROVE  Quiet
  BY <1>2 DEF ExpireMp, Quiet, ghost
<1>3. CASE Crash
  BY <1>3 DEF Crash, Quiet, Idle, HotPCs, RecordPCs, ghost
<1> QED
  BY <1>1, <1>2, <1>3 DEF Environment

\* Every step is quiet or one of a completion.
LEMMA StepKinds ==
  ASSUME TypeInv, [Next]_vars
  PROVE  Quiet \/ \E w \in Workers : CompleteStep(w)
<1>1. CASE UNCHANGED vars
  BY <1>1 DEF vars, Quiet, ghost
<1>2. CASE Environment
  BY <1>2, EnvironmentQuiet
<1>3. ASSUME NEW w \in Workers, Start(w) \/ Handle(w)
      PROVE  Quiet \/ CompleteStep(w)
  BY <1>3, StartQuiet, InitStepQuiet, PartStepQuiet, CancelStepQuiet
  DEF TypeInv, Handle
<1> QED
  BY <1>1, <1>2, <1>3 DEF Next

--------------------------------------------------------------------------------
(* RecordedWasAssembled *)

\* The steps after the merge was verified change neither the merged files nor
\* what was assembled, and a request among them keeps its user and file.
Recorder(w) ==
  \/ CompleteFile(w) \/ CompleteUser(w)
  \/ CompleteDelHash(w) \/ CompleteDelMp(w) \/ CompleteReply(w)

LEMMA RecorderStep ==
  ASSUME Typed, NEW w \in Workers, Recorder(w)
  PROVE  /\ UNCHANGED <<merged, assembled, merges>>
         /\ req[w].pc \in RecordPCs
         /\ \A v \in Workers \ {w} : req'[v] = req[v]
         /\ req'[w].pc \notin RecordPCs => req'[w].pc = "idle"
         /\ req'[w].pc \in RecordPCs =>
              req'[w].file = req[w].file /\ req'[w].user = req[w].user
<1> USE DEF Typed, Request, RecordPCs, Idle, Goto, Answer
<1>1. CASE CompleteFile(w)
  BY <1>1 DEF CompleteFile, ghost
<1>2. CASE CompleteUser(w)
  BY <1>2 DEF CompleteUser, ghost
<1>3. CASE CompleteDelHash(w)
  BY <1>3 DEF CompleteDelHash, ghost
<1>4. CASE CompleteDelMp(w)
  <2>1. CASE Goto(w, "c_reply")
    BY <1>4, <2>1 DEF CompleteDelMp, ghost
  <2>2. CASE Answer(w)
    BY <1>4, <2>2 DEF CompleteDelMp, ghost
  <2> QED
    BY <1>4, <2>1, <2>2 DEF CompleteDelMp
<1>5. CASE CompleteReply(w)
  BY <1>5 DEF CompleteReply
<1> QED
  BY <1>1, <1>2, <1>3, <1>4, <1>5 DEF Recorder

\* Where MergeStart, MergeCat and MergeVerify leave their request and the rest.
LEMMA MergeStep ==
  ASSUME TypeInv, NEW w \in Workers,
         MergeStart(w) \/ (\E i \in Index : MergeCat(w, i)) \/ MergeVerify(w)
  PROVE  /\ UNCHANGED <<db, acked>>
         /\ req[w].file \in Files
         /\ \A v \in Workers \ {w} : req'[v] = req[v]
         /\ req'[w].pc \in HotPCs => req'[w].file = req[w].file
         /\ req'[w].pc \notin RecordPCs \ {"c_file"}
         /\ \A f \in Files \ {req[w].file} :
              merged'[f] = merged[f] /\ merges'[f] = merges[f]
         /\ \A f \in Files : f \in assembled => f \in assembled'
<1> USE DEF TypeInv, Typed, Request
<1>1. CASE MergeStart(w)
  <2>1. PICK S \in SUBSET Index : GotoMerge(w, S)
    BY <1>1 DEF MergeStart
  <2> QED
    BY <1>1, <2>1
    DEF MergeStart, GotoMerge, RequestOK, FilePCs, MergePCs, RecordPCs
<1>2. ASSUME NEW i \in Index, MergeCat(w, i)
      PROVE  /\ UNCHANGED <<db, acked, merges>>
             /\ req[w].file \in Files
             /\ \A v \in Workers \ {w} : req'[v] = req[v]
             /\ req'[w].file = req[w].file
             /\ req'[w].pc \notin RecordPCs
             /\ \A f \in Files \ {req[w].file} : merged'[f] = merged[f]
             /\ \A f \in Files : f \in assembled => f \in assembled'
  BY <1>2 DEF MergeCat, GotoMerge, RequestOK, FilePCs, MergePCs, RecordPCs
<1>3. CASE MergeVerify(w)
  <2>1. CASE Goto(w, "c_file")
    BY <1>3, <2>1
    DEF MergeVerify, Goto, RequestOK, FilePCs, MergePCs, RecordPCs, ghost
  <2>2. CASE Answer(w)
    BY <1>3, <2>2
    DEF MergeVerify, Answer, Idle, HotPCs, RecordPCs, RequestOK, FilePCs, MergePCs,
        ghost
  <2> QED
    BY <1>3, <2>1, <2>2 DEF MergeVerify
<1> QED
  BY <1>1, <1>2, <1>3

LEMMA AssembledInit == Init => AssembledOK
  BY ContentNotEmpty DEF Init, AssembledOK, Idle, RecordPCs

\* A merge begins with nothing, and records what it has assembled as it goes;
\* a request is past the comparison only if the content was just found there.
LEMMA AssembledNext ==
  ASSUME TypeInv, AssembledOK, [Next]_vars
  PROVE  AssembledOK'
<1> USE DEF TypeInv
<1>1. CASE Quiet
  BY <1>1 DEF Quiet, HotPCs, AssembledOK
<1>2. ASSUME NEW w \in Workers, MergeStart(w)
      PROVE  AssembledOK'
  <2> DEFINE f == req[w].file
  <2>1. merged' = [merged EXCEPT ![f] = <<>>] /\ assembled' = assembled
    BY <1>2 DEF MergeStart
  <2>2. req'[w].pc \notin RecordPCs
    BY <1>2 DEF MergeStart, GotoMerge, Typed, Request, RecordPCs
  <2>3. \A v \in Workers \ {w} : req'[v] = req[v]
    BY <1>2, MergeStep
  <2> QED
    BY <2>1, <2>2, <2>3, ContentNotEmpty DEF AssembledOK, Typed
<1>3. ASSUME NEW w \in Workers, NEW i \in Index, MergeCat(w, i)
      PROVE  AssembledOK'
  <2>1. merged'[req[w].file] = Content(req[w].file) => req[w].file \in assembled'
    BY <1>3, MergeStep DEF MergeCat, Typed
  <2>2. req'[w].pc \notin RecordPCs
    BY <1>3 DEF MergeCat, GotoMerge, Typed, Request, RecordPCs
  <2>3. \A f \in Files : merged'[f] = Content(f) => f \in assembled'
    BY <1>3, <2>1, MergeStep DEF AssembledOK
  <2>4. ASSUME NEW v \in Workers, req'[v].pc \in RecordPCs
        PROVE  req'[v].file \in assembled'
    <3>1. req[v].file \in Files
      BY <1>3, <2>2, <2>4, MergeStep
      DEF RequestOK, FilePCs
    <3> QED
      BY <1>3, <2>2, <2>4, <3>1, MergeStep DEF AssembledOK
  <2> QED
    BY <2>3, <2>4 DEF AssembledOK
<1>4. ASSUME NEW w \in Workers, MergeVerify(w)
      PROVE  AssembledOK'
  <2>1. CASE Goto(w, "c_file") /\ merged[req[w].file] = Content(req[w].file)
    <3>1. req[w].file \in assembled
      BY <1>4, <2>1, MergeStep DEF AssembledOK
    <3>2. \A v \in Workers : req'[v] = req[v] \/ req'[v].file = req[w].file
      BY <2>1 DEF Goto, Typed, Request
    <3>3. UNCHANGED <<merged, assembled>>
      BY <1>4 DEF MergeVerify, ghost
    <3> QED
      BY <3>1, <3>2, <3>3 DEF AssembledOK
  <2>2. CASE Answer(w)
    BY <1>4, <2>2 DEF MergeVerify, Answer, Idle, RecordPCs, AssembledOK, Typed, ghost
  <2> QED
    BY <1>4, <2>1, <2>2 DEF MergeVerify
<1>5. ASSUME NEW w \in Workers, Recorder(w)
      PROVE  AssembledOK'
  BY <1>5, RecorderStep DEF AssembledOK, RecordPCs
<1> QED
  BY <1>1, <1>2, <1>3, <1>4, <1>5, StepKinds DEF CompleteStep, Recorder

\* A file is recorded only after its exact content had been assembled
\* (RecordedWasAssembled of the runs), even if an insert fails.
THEOREM RecordedAssembled == Spec => []RecordedWasAssembled
<1>1. Init => RecordedWasAssembled
  BY DEF Init, RecordedWasAssembled
<1>2. ASSUME TypeInv, AssembledOK, RecordedWasAssembled, [Next]_vars
      PROVE  RecordedWasAssembled'
  <2>1. CASE Quiet
    BY <1>2, <2>1 DEF Quiet, db, RecordedWasAssembled
  <2>2. ASSUME NEW w \in Workers,
               MergeStart(w) \/ (\E i \in Index : MergeCat(w, i)) \/ MergeVerify(w)
        PROVE  RecordedWasAssembled'
    BY <1>2, <2>2, MergeStep DEF db, RecordedWasAssembled, TypeInv, Typed
  <2>3. ASSUME NEW w \in Workers, Recorder(w)
        PROVE  RecordedWasAssembled'
    <3>1. tblFile' \subseteq tblFile \cup {req[w].file}
      BY <2>3 DEF Recorder, CompleteFile, CompleteUser, CompleteDelHash,
                  CompleteDelMp, CompleteReply, db
    <3>2. req[w].file \in assembled /\ assembled' = assembled
      BY <1>2, <2>3, RecorderStep DEF TypeInv, AssembledOK
    <3> QED
      BY <1>2, <3>1, <3>2 DEF RecordedWasAssembled
  <2> QED
    BY <1>2, <2>1, <2>2, <2>3, StepKinds DEF CompleteStep, Recorder
<1>3. TypeInv /\ AssembledOK /\ RecordedWasAssembled /\ [Next]_vars
        => AssembledOK' /\ RecordedWasAssembled'
  BY <1>2, AssembledNext
<1> QED
  BY <1>1, <1>3, TypeInvariant, AssembledInit, PTL DEF Spec

--------------------------------------------------------------------------------
(* OwnedIsRecorded and AckedIsOwned, as long as inserts succeed *)

OwnershipInv == InsertsOK /\ OwnedIsRecorded /\ AckedIsOwned

LEMMA OwnershipInit == Init => OwnershipInv
  BY DEF Init, OwnershipInv, InsertsOK, OwnedIsRecorded, AckedIsOwned, Idle,
         RecordPCs

\* A request goes from one insert to the next and to the reply only over what it
\* has inserted, and no step takes a row back.
LEMMA OwnershipNext ==
  ASSUME DbMayFail = FALSE, TypeInv, OwnershipInv, [Next]_vars
  PROVE  OwnershipInv'
<1> USE DEF TypeInv, OwnershipInv
<1>1. CASE Quiet
  BY <1>1 DEF Quiet, HotPCs, db, InsertsOK, OwnedIsRecorded, AckedIsOwned
<1>2. ASSUME NEW w \in Workers,
             MergeStart(w) \/ (\E i \in Index : MergeCat(w, i)) \/ MergeVerify(w)
      PROVE  OwnershipInv'
  <2>1. \A v \in Workers : \/ req'[v] = req[v]
                           \/ req'[v].pc \notin RecordPCs \ {"c_file"}
    BY <1>2, MergeStep
  <2>2. UNCHANGED <<tblFile, userFile, acked>>
    BY <1>2, MergeStep DEF db
  <2> QED
    BY <2>1, <2>2 DEF InsertsOK, OwnedIsRecorded, AckedIsOwned
<1>3. ASSUME NEW w \in Workers, Recorder(w)
      PROVE  OwnershipInv'
  <2> USE DEF Typed, Request, RecordPCs, Goto, Answer, Idle
  <2>1. req[w].file \in Files /\ req[w].user \in Users
    BY <1>3, RecorderStep DEF RequestOK, FilePCs, UserPCs
  <2>2. CASE CompleteFile(w)
    <3>1. tblFile' = tblFile \cup {req[w].file} /\ UNCHANGED <<userFile, acked>>
      BY <2>2 DEF CompleteFile, ghost
    <3>2. \A v \in Workers \ {w} : req'[v] = req[v]
      BY <1>3, RecorderStep
    <3>3. req'[w].pc = "c_user" /\ req'[w].file = req[w].file
      BY <2>2 DEF CompleteFile
    <3> QED
      BY <3>1, <3>2, <3>3 DEF InsertsOK, OwnedIsRecorded, AckedIsOwned
  <2>3. CASE CompleteUser(w)
    <3>1. /\ userFile' = userFile \cup {<<req[w].user, req[w].file>>}
          /\ UNCHANGED <<tblFile, acked>>
      BY <2>3 DEF CompleteUser, ghost
    <3>2. \A v \in Workers \ {w} : req'[v] = req[v]
      BY <1>3, RecorderStep
    <3>3. /\ req'[w].pc = "c_delhash"
          /\ req'[w].file = req[w].file
          /\ req'[w].user = req[w].user
      BY <2>3 DEF CompleteUser
    <3>4. req[w].file \in tblFile
      BY <2>3 DEF CompleteUser, InsertsOK
    <3> QED
      BY <3>1, <3>2, <3>3, <3>4 DEF InsertsOK, OwnedIsRecorded, AckedIsOwned
  <2>4. CASE CompleteDelHash(w) \/ CompleteDelMp(w)
    <3>1. UNCHANGED <<tblFile, userFile, acked>>
      BY <2>4 DEF CompleteDelHash, CompleteDelMp, db, ghost
    <3>2. <<req[w].user, req[w].file>> \in userFile /\ req[w].file \in tblFile
      BY <2>4 DEF CompleteDelHash, CompleteDelMp, InsertsOK
    <3>3. /\ \A v \in Workers \ {w} : req'[v] = req[v]
          /\ req'[w].pc \in RecordPCs =>
               req'[w].file = req[w].file /\ req'[w].user = req[w].user
      BY <1>3, RecorderStep
    <3> QED
      BY <3>1, <3>2, <3>3 DEF InsertsOK, OwnedIsRecorded, AckedIsOwned
  <2>5. CASE CompleteReply(w)
    <3>1. /\ acked' = acked \cup {<<req[w].user, req[w].file>>}
          /\ UNCHANGED <<tblFile, userFile>>
      BY <2>5 DEF CompleteReply, db
    <3>2. <<req[w].user, req[w].file>> \in userFile
      BY <2>5 DEF CompleteReply, InsertsOK
    <3>3. /\ \A v \in Workers \ {w} : req'[v] = req[v]
          /\ req'[w].pc = "idle"
      BY <1>3, <2>5, RecorderStep DEF CompleteReply
    <3> QED
      BY <3>1, <3>2, <3>3 DEF InsertsOK, OwnedIsRecorded, AckedIsOwned
  <2> QED
    BY <1>3, <2>2, <2>3, <2>4, <2>5 DEF Recorder
<1> QED
  BY <1>1, <1>2, <1>3, StepKinds DEF CompleteStep, Recorder

LEMMA OwnershipInvariant ==
  ASSUME DbMayFail = FALSE
  PROVE  Spec => []OwnershipInv
<1>1. TypeInv /\ OwnershipInv /\ [Next]_vars => OwnershipInv'
  BY OwnershipNext
<1> QED
  BY <1>1, TypeInvariant, OwnershipInit, PTL DEF Spec

\* What a user owns is recorded (OwnedIsRecorded of the runs), wherever a crash
\* falls between the two inserts.
THEOREM OwnedRecorded ==
  ASSUME DbMayFail = FALSE
  PROVE  Spec => []OwnedIsRecorded
<1>1. OwnershipInv => OwnedIsRecorded
  BY DEF OwnershipInv
<1> QED
  BY <1>1, OwnershipInvariant, PTL

\* What was answered OK is owned (AckedIsOwned of the runs).
THEOREM AckedOwned ==
  ASSUME DbMayFail = FALSE
  PROVE  Spec => []AckedIsOwned
<1>1. OwnershipInv => AckedIsOwned
  BY DEF OwnershipInv
<1> QED
  BY <1>1, OwnershipInvariant, PTL

--------------------------------------------------------------------------------
(* DamagedOnlyByRemerge *)

\* What MergesOK says of one file.
FileOK(f) ==
  /\ merges[f] = 0 => NotBegun(f)
  /\ merges[f] = 1 => BegunOnce(f)

\* A step that does nothing new with file f keeps it.
LEMMA FileOKFrame ==
  ASSUME NEW f \in Files, FileOK(f),
         merges'[f] = merges[f], merged'[f] = merged[f],
         f \in tblFile' => f \in tblFile,
         \A v \in Workers : /\ Merging(v, f)' => Merging(v, f)
                            /\ Recording(v, f)' => Recording(v, f)
  PROVE  FileOK(f)'
  BY DEF FileOK, NotBegun, BegunOnce

\* Requests that are left alone, or end, do nothing new with any file.
LEMMA RequestsFrame ==
  ASSUME NEW f \in Files, NEW v \in Workers,
         \/ req'[v] = req[v]
         \/ req'[v].pc \notin HotPCs
  PROVE  /\ Merging(v, f)' => Merging(v, f)
         /\ Recording(v, f)' => Recording(v, f)
  BY DEF Merging, Recording, HotPCs

LEMMA MergesInit == Init => MergesOK
  BY DEF Init, MergesOK, NotBegun, Merging, Recording, Idle, RecordPCs

\* The first merge of a file finds it untouched; whatever its request then
\* verifies no other request can be changing, or merges would be 2.
LEMMA MergesNext ==
  ASSUME TypeInv, MergesOK, [Next]_vars
  PROVE  MergesOK'
<1> USE DEF TypeInv
<1> SUFFICES ASSUME NEW f \in Files PROVE FileOK(f)'
  BY DEF MergesOK, FileOK
<1>0. FileOK(f)
  BY DEF MergesOK, FileOK
<1>1. CASE Quiet
  BY <1>0, <1>1, FileOKFrame, RequestsFrame DEF Quiet, db
<1>2. ASSUME NEW w \in Workers,
             MergeStart(w) \/ (\E i \in Index : MergeCat(w, i)) \/ MergeVerify(w),
             req[w].file # f
      PROVE  FileOK(f)'
  <2>1. /\ merges'[f] = merges[f] /\ merged'[f] = merged[f]
        /\ tblFile' = tblFile
        /\ \A v \in Workers : req'[v] = req[v] \/ v = w
        /\ req'[w].pc \in HotPCs => req'[w].file # f
    BY <1>2, MergeStep DEF db
  <2>2. \A v \in Workers : /\ Merging(v, f)' => Merging(v, f)
                           /\ Recording(v, f)' => Recording(v, f)
    BY <2>1 DEF Merging, Recording, HotPCs
  <2> QED
    BY <1>0, <2>1, <2>2, FileOKFrame
<1>3. ASSUME NEW w \in Workers, MergeStart(w), req[w].file = f
      PROVE  FileOK(f)'
  <2>1. merges'[f] = IF merges[f] < 2 THEN merges[f] + 1 ELSE merges[f]
    BY <1>3 DEF MergeStart, Typed
  <2>2. CASE merges[f] = 0
    <3>1. merges'[f] = 1 /\ tblFile' = tblFile
      BY <1>3, <2>1, <2>2, MergeStep DEF db
    <3>2. \A v \in Workers \ {w} : ~Merging(v, f)' /\ ~Recording(v, f)'
      BY <1>0, <1>3, <2>2, MergeStep DEF FileOK, NotBegun, Merging, Recording
    <3>3. ~Recording(w, f)'
      BY <1>3 DEF MergeStart, GotoMerge, Recording, RecordPCs, Typed, Request
    <3> QED
      BY <1>0, <2>2, <3>1, <3>2, <3>3 DEF FileOK, NotBegun, BegunOnce
  <2>3. CASE merges[f] # 0
    <3>1. merges'[f] = 2
      BY <2>1, <2>3 DEF Typed
    <3> QED
      BY <3>1 DEF FileOK
  <2> QED
    BY <2>2, <2>3
<1>4. ASSUME NEW w \in Workers, NEW i \in Index, MergeCat(w, i), req[w].file = f
      PROVE  FileOK(f)'
  <2>1. Merging(w, f)
    BY <1>4 DEF MergeCat, Merging
  <2>2. merges' = merges /\ tblFile' = tblFile
    BY <1>4 DEF MergeCat, db
  <2>3. \A v \in Workers : /\ Merging(v, f)' => Merging(v, f)
                           /\ ~Recording(v, f)' \/ Recording(v, f)
    <3>1. req'[w].pc \notin RecordPCs
      BY <1>4 DEF MergeCat, GotoMerge, Typed, Request, RecordPCs
    <3> QED
      BY <1>4, <2>1, <3>1, MergeStep DEF Merging, Recording
  <2>4. merges[f] = 1 => f \notin tblFile /\ \A v \in Workers : ~Recording(v, f)
    BY <1>0, <2>1 DEF FileOK, BegunOnce
  <2> QED
    BY <1>0, <2>1, <2>2, <2>3, <2>4 DEF FileOK, NotBegun, BegunOnce
<1>5. ASSUME NEW w \in Workers, MergeVerify(w), req[w].file = f
      PROVE  FileOK(f)'
  <2>1. Merging(w, f)
    BY <1>5 DEF MergeVerify, Merging
  <2>2. UNCHANGED <<merges, merged, tblFile>>
    BY <1>5 DEF MergeVerify, db, ghost
  <2>3. CASE Goto(w, "c_file") /\ merged[f] = Content(f)
    <3>1. ~Merging(w, f)'
      BY <2>3 DEF Goto, Merging, Typed, Request
    <3>2. \A v \in Workers \ {w} : /\ Merging(v, f)' => Merging(v, f)
                                   /\ Recording(v, f)' => Recording(v, f)
      BY <1>5, MergeStep DEF Merging, Recording
    <3> QED
      BY <1>0, <2>1, <2>2, <2>3, <3>1, <3>2 DEF FileOK, NotBegun, BegunOnce
  <2>4. CASE Answer(w)
    <3>1. \A v \in Workers : \/ req'[v] = req[v]
                             \/ req'[v].pc \notin HotPCs
      BY <2>4 DEF Answer, Idle, HotPCs, RecordPCs, Typed
    <3> QED
      BY <1>0, <2>2, <3>1, FileOKFrame, RequestsFrame
  <2> QED
    BY <1>5, <2>3, <2>4 DEF MergeVerify
<1>6. ASSUME NEW w \in Workers, Recorder(w)
      PROVE  FileOK(f)'
  <2>1. UNCHANGED <<merges, merged>>
    BY <1>6, RecorderStep
  <2>2. \A v \in Workers : /\ Merging(v, f)' => Merging(v, f)
                           /\ Recording(v, f)' => Recording(v, f)
    <3>1. req'[w].pc \notin {"m_cat", "m_verify"}
      BY <1>6, RecorderStep DEF RecordPCs
    <3> QED
      BY <1>6, <3>1, RecorderStep DEF Merging, Recording
  <2>3. CASE f \in tblFile' => f \in tblFile
    BY <1>0, <2>1, <2>2, <2>3, FileOKFrame
  <2>4. CASE f \in tblFile' /\ f \notin tblFile
    <3>1. Recording(w, f)
      <4>1. tblFile' \subseteq tblFile \cup {req[w].file}
        BY <1>6 DEF Recorder, CompleteFile, CompleteUser, CompleteDelHash,
                    CompleteDelMp, CompleteReply, db
      <4> QED
        BY <1>6, <2>4, <4>1, RecorderStep DEF Recording
    <3> QED
      BY <1>0, <2>1, <2>2, <3>1 DEF FileOK, NotBegun, BegunOnce
  <2> QED
    BY <2>3, <2>4
<1> QED
  BY <1>1, <1>2, <1>3, <1>4, <1>5, <1>6, StepKinds DEF CompleteStep, Recorder

\* A recorded file is intact unless it was merged more than once
\* (DamagedOnlyByRemerge of the runs), even if an insert fails.
THEOREM DamagedByRemerge == Spec => []DamagedOnlyByRemerge
<1>1. TypeInv /\ MergesOK /\ [Next]_vars => MergesOK'
  BY MergesNext
<1>2. TypeInv /\ MergesOK => DamagedOnlyByRemerge
  <2> SUFFICES ASSUME TypeInv, MergesOK, NEW f \in tblFile
               PROVE  merged[f] = Content(f) \/ merges[f] = 2
    BY DEF DamagedOnlyByRemerge
  <2>1. merges[f] \in 0..2 /\ f \in Files
    BY DEF TypeInv, Typed
  <2>2. CASE merges[f] = 0
    BY <2>1, <2>2 DEF MergesOK, NotBegun
  <2>3. CASE merges[f] = 1
    BY <2>1, <2>3 DEF MergesOK, BegunOnce
  <2> QED
    BY <2>1, <2>2, <2>3
<1> QED
  BY <1>1, <1>2, TypeInvariant, MergesInit, PTL DEF Spec

--------------------------------------------------------------------------------
(* The upload implements its ledger *)

\* Every step is a step of UploadLedger or leaves its variables alone: appending
\* the last chunk assembles, the inserts record and give, the reply acknowledges.
LEMMA LedgerStep ==
  ASSUME DbMayFail = FALSE, TypeInv, AssembledOK, OwnershipInv, [Next]_vars
  PROVE  [Ledger!Next]_(Ledger!vars)
<1> USE DEF TypeInv
<1>1. CASE Quiet
  BY <1>1 DEF Quiet, db, Ledger!vars
<1>2. ASSUME NEW w \in Workers, MergeStart(w) \/ MergeVerify(w)
      PROVE  UNCHANGED Ledger!vars
  BY <1>2 DEF MergeStart, MergeVerify, db, ghost, Ledger!vars
<1>3. ASSUME NEW w \in Workers, NEW i \in Index, MergeCat(w, i)
      PROVE  [Ledger!Next]_(Ledger!vars)
  <2>1. req[w].file \in Files /\ UNCHANGED <<tblFile, userFile, acked>>
    BY <1>3, MergeStep DEF db
  <2>2. assembled' = assembled \cup {req[w].file} \/ assembled' = assembled
    BY <1>3 DEF MergeCat
  <2> QED
    BY <2>1, <2>2 DEF Ledger!Next, Ledger!Assemble, Ledger!vars
<1>4. ASSUME NEW w \in Workers, Recorder(w)
      PROVE  [Ledger!Next]_(Ledger!vars)
  <2>1. /\ req[w].file \in Files
        /\ req[w].user \in Users
        /\ req[w].file \in assembled
        /\ UNCHANGED assembled
    BY <1>4, RecorderStep
    DEF RequestOK, FilePCs, UserPCs, AssembledOK
  <2>2. CASE CompleteFile(w)
    <3>1. tblFile' = tblFile \cup {req[w].file} /\ UNCHANGED <<userFile, acked>>
      BY <2>2 DEF CompleteFile, ghost
    <3> QED
      BY <2>1, <3>1 DEF Ledger!Next, Ledger!Record
  <2>3. CASE CompleteUser(w)
    <3>1. /\ userFile' = userFile \cup {<<req[w].user, req[w].file>>}
          /\ UNCHANGED <<tblFile, acked>>
      BY <2>3 DEF CompleteUser, ghost
    <3>2. req[w].file \in tblFile
      BY <2>3 DEF CompleteUser, OwnershipInv, InsertsOK, RecordPCs
    <3> QED
      BY <2>1, <3>1, <3>2 DEF Ledger!Next, Ledger!Own
  <2>4. CASE CompleteDelHash(w) \/ CompleteDelMp(w)
    BY <2>4 DEF CompleteDelHash, CompleteDelMp, db, ghost, Ledger!vars
  <2>5. CASE CompleteReply(w)
    <3>1. /\ acked' = acked \cup {<<req[w].user, req[w].file>>}
          /\ UNCHANGED <<tblFile, userFile>>
      BY <2>5 DEF CompleteReply, db
    <3>2. <<req[w].user, req[w].file>> \in userFile
      BY <2>5 DEF CompleteReply, OwnershipInv, InsertsOK, RecordPCs
    <3> QED
      BY <2>1, <3>1, <3>2 DEF Ledger!Next, Ledger!Acknowledge
  <2> QED
    BY <1>4, <2>2, <2>3, <2>4, <2>5 DEF Recorder
<1> QED
  BY <1>1, <1>2, <1>3, <1>4, StepKinds DEF CompleteStep, Recorder

\* The multipart upload implements UploadLedger (LedgerSpec of the runs): its
\* promises are kept in order and never taken back.
THEOREM ImplementsLedger ==
  ASSUME DbMayFail = FALSE
  PROVE  Spec => LedgerSpec
<1>1. Init => Ledger!Init
  BY DEF Init, Ledger!Init
<1>2. TypeInv /\ AssembledOK /\ OwnershipInv /\ [Next]_vars
        => [Ledger!Next]_(Ledger!vars)
  BY LedgerStep
<1>3. TypeInv /\ AssembledOK /\ [Next]_vars => AssembledOK'
  BY AssembledNext
<1> QED
  BY <1>1, <1>2, <1>3, TypeInvariant, AssembledInit, OwnershipInvariant, PTL
  DEF Spec, LedgerSpec, Ledger!Spec

--------------------------------------------------------------------------------
(* FlaggedChunkOnDisk, with a chunk root the removal script does not match *)

DiskInv == PartOnDisk /\ FlaggedChunkOnDisk

LEMMA DiskInit == Init => DiskInv
  BY DEF Init, DiskInv, PartOnDisk, FlaggedChunkOnDisk, NoSession, Idle, PartPCs

\* A step that removes no chunk file, flags nothing and lets no request reach
\* the middle of a part keeps DiskInv.
LEMMA DiskFrame ==
  ASSUME TypeInv, DiskInv,
         \A u \in UploadIds : \A i \in Index :
           chunk[u][i] # "none" => chunk'[u][i] # "none",
         \A u \in UploadIds : mp'[u].flags \subseteq mp[u].flags,
         \A v \in Workers : \/ req'[v].pc \notin PartPCs
                            \/ /\ req[v].pc \in PartPCs
                               /\ req'[v].upid = req[v].upid
                               /\ req'[v].index = req[v].index
  PROVE  DiskInv'
<1> USE DEF TypeInv
<1>1. PartOnDisk'
  BY DEF DiskInv, PartOnDisk, RequestOK, UpidPCs
<1>2. FlaggedChunkOnDisk'
  BY DEF DiskInv, FlaggedChunkOnDisk, Typed, Session
<1> QED
  BY <1>1, <1>2 DEF DiskInv

\* The same for a step of one worker that is not a part's.
LEMMA DiskFrameWorker ==
  ASSUME TypeInv, DiskInv, NEW w \in Workers,
         UNCHANGED chunk,
         \A u \in UploadIds : mp'[u].flags \subseteq mp[u].flags,
         \A v \in Workers \ {w} : req'[v] = req[v],
         req'[w].pc \notin PartPCs
  PROVE  DiskInv'
<1>1. \A v \in Workers : \/ req'[v].pc \notin PartPCs
                         \/ req'[v] = req[v]
  OBVIOUS
<1> QED
  BY <1>1, DiskFrame

LEMMA DiskStart ==
  ASSUME TypeInv, DiskInv, NEW w \in Workers, Start(w)
  PROVE  DiskInv'
<1> USE DEF TypeInv
<1>1. ASSUME NEW n \in Users, NEW f \in Files, StartInit(w, n, f)
      PROVE  DiskInv'
  BY <1>1, DiskFrameWorker DEF StartInit, Idle, PartPCs, Typed, redis
<1>2. ASSUME NEW u \in UploadIds, NEW i \in Index, StartPart(w, u, i)
      PROVE  DiskInv'
  <2>1. /\ chunk' = [chunk EXCEPT ![u][i] = "empty"]
        /\ UNCHANGED mp
        /\ \A v \in Workers \ {w} : req'[v] = req[v]
        /\ req'[w].upid = u /\ req'[w].index = i
    BY <1>2 DEF StartPart, Typed, Idle, redis
  <2>2. \A t \in UploadIds : \A j \in Index :
          chunk[t][j] # "none" => chunk'[t][j] # "none"
    BY <2>1 DEF Typed
  <2>3. chunk'[u][i] # "none"
    BY <2>1 DEF Typed
  <2>4. PartOnDisk'
    BY <2>1, <2>2, <2>3 DEF DiskInv, PartOnDisk, RequestOK, UpidPCs
  <2>5. FlaggedChunkOnDisk'
    BY <2>1, <2>2 DEF DiskInv, FlaggedChunkOnDisk, Typed, Session
  <2> QED
    BY <2>4, <2>5 DEF DiskInv
<1>3. ASSUME NEW n \in Users, NEW u \in UploadIds, StartComplete(w, n, u)
      PROVE  DiskInv'
  BY <1>3, DiskFrameWorker DEF StartComplete, Idle, PartPCs, Typed, redis
<1>4. ASSUME NEW f \in Files, StartCancel(w, f)
      PROVE  DiskInv'
  BY <1>4, DiskFrameWorker DEF StartCancel, Idle, PartPCs, Typed, redis
<1> QED
  BY <1>1, <1>2, <1>3, <1>4 DEF Start

LEMMA DiskPartStep ==
  ASSUME TypeInv, DiskInv, NEW w \in Workers, PartStep(w)
  PROVE  DiskInv'
<1> USE DEF TypeInv
<1>0. req[w].pc \in PartPCs
  BY DEF PartStep, PartCopy, PartWrite, PartVerify, PartFlag, PartPCs
<1>1. req[w].upid \in UploadIds /\ req[w].index \in Index
  BY <1>0 DEF RequestOK, UpidPCs
<1>2. CASE PartCopy(w) \/ PartWrite(w)
  <2>1. PICK got \in Cell \ {"none"} :
          chunk' = [chunk EXCEPT ![req[w].upid][req[w].index] = got]
    BY <1>2, ConfigAssumption DEF PartCopy, PartWrite, Cell
  <2>2. \A u \in UploadIds : \A i \in Index :
          chunk[u][i] # "none" => chunk'[u][i] # "none"
    BY <1>1, <2>1 DEF Typed
  <2>3. \A v \in Workers : /\ req[v].pc \in PartPCs \/ req'[v] = req[v]
                           /\ req'[v].upid = req[v].upid
                           /\ req'[v].index = req[v].index
    <3>1. CASE PartCopy(w)
      BY <3>1 DEF PartCopy
    <3>2. CASE PartWrite(w)
      BY <1>0, <3>2 DEF PartWrite, Goto, Typed, Request
    <3> QED
      BY <1>2, <3>1, <3>2
  <2> QED
    BY <1>2, <2>2, <2>3, DiskFrame DEF PartCopy, PartWrite, redis
<1>3. CASE PartVerify(w)
  <2>1. CASE Goto(w, "p_flag")
    <3>1. \A v \in Workers : /\ req[v].pc \in PartPCs \/ req'[v] = req[v]
                             /\ req'[v].upid = req[v].upid
                             /\ req'[v].index = req[v].index
      BY <1>0, <2>1 DEF Goto, Typed, Request
    <3> QED
      BY <1>3, <3>1, DiskFrame DEF PartVerify, redis
  <2>2. CASE Answer(w)
    BY <1>3, <2>2, DiskFrameWorker
    DEF PartVerify, Answer, Idle, PartPCs, Typed, redis
  <2> QED
    BY <1>3, <2>1, <2>2 DEF PartVerify
<1>4. CASE PartFlag(w)
  <2>1. chunk[req[w].upid][req[w].index] # "none"
    BY <1>0 DEF DiskInv, PartOnDisk
  <2>2. \A u \in UploadIds : \A i \in mp'[u].flags :
          i \in mp[u].flags \/ (u = req[w].upid /\ i = req[w].index)
    <3>1. CASE UNCHANGED mp
      BY <3>1
    <3>2. CASE mp' = [mp EXCEPT ![req[w].upid] = HSetFlag(@, req[w].index)]
      BY <1>1, <3>2 DEF HSetFlag, Typed, Session
    <3> QED
      BY <1>4, <3>1, <3>2 DEF PartFlag
  <2>3. UNCHANGED chunk /\ \A v \in Workers : req'[v] = req[v] \/ req'[v].pc = "idle"
    BY <1>4 DEF PartFlag, Answer, Idle, Typed
  <2>4. PartOnDisk'
    BY <2>3 DEF DiskInv, PartOnDisk, PartPCs
  <2>5. FlaggedChunkOnDisk'
    BY <2>1, <2>2, <2>3 DEF DiskInv, FlaggedChunkOnDisk
  <2> QED
    BY <2>4, <2>5 DEF DiskInv
<1> QED
  BY <1>2, <1>3, <1>4 DEF PartStep

\* Moving worker w to a step outside UploadPartHandler, or answering.
LEMMA LeavesParts ==
  ASSUME Typed, NEW w \in Workers, NEW pc \in PCs \ PartPCs,
         \/ Goto(w, pc)
         \/ \E u \in UploadIds : GotoWith(w, pc, u)
         \/ \E S \in SUBSET Index : GotoMerge(w, S)
         \/ Answer(w)
  PROVE  \A v \in Workers : req'[v] = req[v] \/ req'[v].pc \notin PartPCs
<1> USE DEF Typed, Request, PartPCs
<1>1. CASE Goto(w, pc)
  BY <1>1 DEF Goto
<1>2. ASSUME NEW u \in UploadIds, GotoWith(w, pc, u)
      PROVE  \A v \in Workers : req'[v] = req[v] \/ req'[v].pc \notin PartPCs
  BY <1>2 DEF GotoWith
<1>3. ASSUME NEW S \in SUBSET Index, GotoMerge(w, S)
      PROVE  \A v \in Workers : req'[v] = req[v] \/ req'[v].pc \notin PartPCs
  <2> DEFINE q == [req[w] EXCEPT !.pc = IF S = {} THEN "m_verify" ELSE "m_cat", !.chunks = S]
  <2>1. req' = [req EXCEPT ![w] = q]
    BY <1>3 DEF GotoMerge
  <2>2. q.pc \in {"m_verify", "m_cat"}
    OBVIOUS
  <2> HIDE DEF q
  <2> QED
    BY <2>1, <2>2
<1>4. CASE Answer(w)
  BY <1>4 DEF Answer, Idle
<1> QED
  BY <1>1, <1>2, <1>3, <1>4

\* What a step that leaves the chunk files alone has to show.
ChunksLeft ==
  /\ UNCHANGED chunk
  /\ \A u \in UploadIds : mp'[u].flags \subseteq mp[u].flags
  /\ \A v \in Workers : req'[v] = req[v] \/ req'[v].pc \notin PartPCs

LEMMA DiskInitStep ==
  ASSUME TypeInv, NEW w \in Workers, InitStep(w)
  PROVE  ChunksLeft
<1> USE DEF TypeInv, ChunksLeft
<1>1. InitPCs \subseteq PCs \ PartPCs /\ "idle" \in PCs \ PartPCs
  BY DEF PCs, InitPCs, PartPCs
<1>2. CASE InitResume(w)
  BY <1>1, <1>2, LeavesParts DEF InitResume, InitPCs, redis
<1>3. ASSUME NEW u \in UploadIds, InitFresh(w, u)
      PROVE  ChunksLeft
  BY <1>1, <1>3, LeavesParts DEF InitFresh, InitPCs, redis
<1>4. ASSUME NEW u \in UploadIds, InitRefused(w, u)
      PROVE  ChunksLeft
  BY <1>1, <1>4, LeavesParts DEF InitRefused, ReplyUpInfo, redis
<1>5. CASE InitGet(w)
  <2>1. req[w].file \in Files
    BY <1>5 DEF InitGet, RequestOK, FilePCs, InitPCs
  <2>2. Answer(w) \/ \E u \in UploadIds : GotoWith(w, "i_list", u)
    BY <1>5, <2>1 DEF InitGet, Typed
  <2> QED
    BY <1>1, <1>5, <2>2, LeavesParts DEF InitGet, InitPCs, redis
<1>6. CASE InitList(w)
  <2>1. Answer(w) \/ Goto(w, "i_count")
    BY <1>6 DEF InitList, ReplyUpInfo
  <2> QED
    BY <1>1, <1>6, <2>1, LeavesParts DEF InitList, InitPCs, redis
<1>7. CASE InitCount(w)
  BY <1>1, <1>7, LeavesParts DEF InitCount, InitPCs, HSetCount, Typed, Session
<1>8. CASE InitMeta(w)
  BY <1>1, <1>8, LeavesParts DEF InitMeta, InitPCs, HSetMeta, Typed, Session
<1>9. CASE InitExpire(w)
  BY <1>1, <1>9, LeavesParts DEF InitExpire, InitPCs, Expire, Typed, Session
<1>10. CASE InitSetHash(w)
  BY <1>1, <1>10, LeavesParts DEF InitSetHash, ReplyUpInfo
<1> QED
  BY <1>2, <1>3, <1>4, <1>5, <1>6, <1>7, <1>8, <1>9, <1>10 DEF InitStep

LEMMA DiskCompleteStep ==
  ASSUME ChunkRootGuarded = FALSE, Typed, NEW w \in Workers, CompleteStep(w)
  PROVE  ChunksLeft
<1> USE DEF ChunksLeft
<1>1. RecordPCs \subseteq PCs \ PartPCs /\ "idle" \in PCs \ PartPCs
  BY DEF PCs, RecordPCs, PartPCs
<1>2. CASE MergeStart(w)
  BY <1>1, <1>2, LeavesParts DEF MergeStart, redis
<1>3. ASSUME NEW i \in Index, MergeCat(w, i)
      PROVE  ChunksLeft
  <2>1. \E S \in SUBSET Index : GotoMerge(w, S)
    BY <1>3 DEF MergeCat, Typed, Request
  <2> QED
    BY <1>1, <1>3, <2>1, LeavesParts DEF MergeCat, redis
<1>4. CASE MergeVerify(w)
  <2>1. Answer(w) \/ Goto(w, "c_file")
    BY <1>4 DEF MergeVerify
  <2> QED
    BY <1>1, <1>4, <2>1, LeavesParts DEF MergeVerify, RecordPCs, redis
<1>5. CASE CompleteFile(w)
  BY <1>1, <1>5, LeavesParts DEF CompleteFile, RecordPCs, redis
<1>6. CASE CompleteUser(w)
  BY <1>1, <1>6, LeavesParts DEF CompleteUser, RecordPCs, redis
<1>7. CASE CompleteDelHash(w)
  BY <1>1, <1>7, LeavesParts DEF CompleteDelHash, RecordPCs
<1>8. CASE CompleteDelMp(w)
  <2>1. Answer(w) \/ Goto(w, "c_reply")
    BY <1>8 DEF CompleteDelMp
  <2>2. \A u \in UploadIds : mp'[u].flags \subseteq mp[u].flags
    BY <1>8 DEF CompleteDelMp, NoSession, Typed
  <2> QED
    BY <1>1, <1>8, <2>1, <2>2, LeavesParts DEF CompleteDelMp, RecordPCs
<1>9. CASE CompleteReply(w)
  BY <1>1, <1>9, LeavesParts DEF CompleteReply, RemovePathByShell, redis
<1> QED
  BY <1>2, <1>3, <1>4, <1>5, <1>6, <1>7, <1>8, <1>9 DEF CompleteStep

LEMMA DiskCancelStep ==
  ASSUME ChunkRootGuarded = FALSE, Typed, NEW w \in Workers, CancelStep(w)
  PROVE  ChunksLeft
<1> USE DEF ChunksLeft
<1>1. CancelPCs \subseteq PCs \ PartPCs /\ "idle" \in PCs \ PartPCs
  BY DEF PCs, CancelPCs, PartPCs
<1>2. CASE CancelDelHash(w)
  BY <1>1, <1>2, LeavesParts DEF CancelDelHash, CancelPCs
<1>3. CASE CancelDelMp(w)
  <2>1. \A u \in UploadIds : mp'[u].flags \subseteq mp[u].flags
    BY <1>3 DEF CancelDelMp, NoSession, Typed
  <2> QED
    BY <1>1, <1>3, <2>1, LeavesParts DEF CancelDelMp, CancelPCs
<1>4. CASE CancelRemove(w)
  BY <1>1, <1>4, LeavesParts DEF CancelRemove, RemovePathByShell, redis
<1> QED
  BY <1>2, <1>3, <1>4 DEF CancelStep

LEMMA DiskEnvironment ==
  ASSUME Typed, Environment
  PROVE  ChunksLeft
<1> USE DEF ChunksLeft
<1>1. ASSUME NEW f \in Files, ExpireHash(f)
      PROVE  ChunksLeft
  BY <1>1 DEF ExpireHash
<1>2. ASSUME NEW u \in UploadIds, ExpireMp(u)
      PROVE  ChunksLeft
  BY <1>2 DEF ExpireMp, NoSession, Typed
<1>3. CASE Crash
  BY <1>3 DEF Crash, Idle, PartPCs, redis
<1> QED
  BY <1>1, <1>2, <1>3 DEF Environment

LEMMA DiskNext ==
  ASSUME ChunkRootGuarded = FALSE, TypeInv, DiskInv, [Next]_vars
  PROVE  DiskInv'
<1>1. CASE ChunksLeft
  BY <1>1, DiskFrame DEF ChunksLeft
<1>2. CASE UNCHANGED vars
  BY <1>1, <1>2 DEF vars, redis, ChunksLeft
<1>3. CASE Environment
  BY <1>1, <1>3, DiskEnvironment DEF TypeInv
<1>4. ASSUME NEW w \in Workers, Start(w) \/ Handle(w)
      PROVE  DiskInv'
  BY <1>1, <1>4, DiskStart, DiskPartStep, DiskInitStep, DiskCompleteStep,
     DiskCancelStep
  DEF Handle, TypeInv
<1> QED
  BY <1>2, <1>3, <1>4 DEF Next

\* A flagged chunk has its file (FlaggedChunkOnDisk of the runs): the flag is
\* set last, and where the removal script does not match nothing takes the
\* file away.
THEOREM FlaggedOnDisk ==
  ASSUME ChunkRootGuarded = FALSE
  PROVE  Spec => []FlaggedChunkOnDisk
<1>1. TypeInv /\ DiskInv /\ [Next]_vars => DiskInv'
  BY DiskNext
<1>2. DiskInv => FlaggedChunkOnDisk
  BY DEF DiskInv
<1> QED
  BY <1>1, <1>2, TypeInvariant, DiskInit, PTL DEF Spec

================================================================================
