--------------------------- MODULE ResumeClient_proofs ---------------------------
(***************************************************************************)
(* What the resuming client may rely on, for any number of chunks, upload    *)
(* ids, workers and crashes: finished means stored, what the server lists is  *)
(* there, a resumed merge is whole, and no run starts from nothing again.     *)
(*                                                                         *)
(* The client does one thing at a time, so that the requests a server is     *)
(* serving are those of its phase (PhaseOK); and once the merge is verified   *)
(* nothing touches the merged file until the client is told, or asks again    *)
(* and is turned away (ContentOK).  The steps of the server are steps of      *)
(* MultipartUpload, whose invariants hold here as they do there, and so does   *)
(* its refinement of UploadLedger.                                           *)
(*                                                                         *)
(* SessionInv follows a session through its runs: an init gives out one of     *)
(* the whole upload and drops no flag of it, a part that is being sent is not  *)
(* flagged, and a completion that is let through finds every chunk and         *)
(* appends them in order.  It is about the content of chunks and so needs      *)
(* Declared: the client hashes what it means to send.                        *)
(***************************************************************************)
EXTENDS ResumeClient, UploadSafety_proofs, FiniteSetTheorems

Serving(w) == req[w].pc # "idle"
Alone(w)   == \A v \in Workers : Serving(v) => v = w

\* The requests the server may have of the client in each phase.
PhaseOK ==
  /\ client.phase \in {"rerun", "done", "exists"} => \A w \in Workers : ~Serving(w)
  /\ client.phase = "init" => \A w \in Workers : Serving(w) =>
       req[w].pc \in InitPCs /\ req[w].file = Upload /\ Alone(w)
  /\ client.phase = "parts" =>
       /\ \A w \in Workers : Serving(w) => req[w].pc \in PartPCs
       /\ client.upid \in UploadIds /\ fileOf[client.upid] = Upload
  /\ client.phase = "complete" => \A w \in Workers : Serving(w) =>
       /\ req[w].pc \in MergePCs \cup RecordPCs
       /\ req[w].file = Upload /\ req[w].user = Uploader /\ Alone(w)

\* The upload is found to be the user's already whenever the client asks.
Found == DbMayFail = FALSE /\ IsUserFileUploaded(Uploader, Upload)

\* What was verified is in place, and a client that owns it is turned away.
Whole == merged[Upload] = Content(Upload)
ContentOK ==
  /\ \A w \in Workers : req[w].pc \in RecordPCs => Whole
  /\ Found =>
       /\ Whole
       /\ client.phase \notin {"init", "parts"}
       /\ \A w \in Workers : req[w].pc \notin MergePCs

ClientInv == ClientTypeOK /\ PhaseOK /\ ContentOK

\* The client has not been told yet that its upload is finished.
Unfinished == client.phase \notin {"done", "exists"}

--------------------------------------------------------------------------------
(* The steps of the server *)

\* Worker w works on what it was serving, and no other does anything.
LEMMA InitStepIs ==
  ASSUME TypeInv, NEW w \in Workers, InitStep(w)
  PROVE  /\ req[w].pc \in InitPCs
         /\ req'[w].pc \in {"idle"} \cup InitPCs
         /\ req'[w].pc # "idle" => req'[w].file = req[w].file
         /\ \A v \in Workers \ {w} : req'[v] = req[v]
         /\ UNCHANGED <<merged, db>>
<1> USE DEF InitPCs, Idle, TypeInv, Typed, Request
<1>1. CASE InitResume(w)
  BY <1>1 DEF InitResume, Goto
<1>2. ASSUME NEW u \in UploadIds, InitFresh(w, u)
      PROVE  /\ req[w].pc \in InitPCs /\ req'[w].pc \in InitPCs
             /\ req'[w].file = req[w].file
             /\ \A v \in Workers \ {w} : req'[v] = req[v]
             /\ UNCHANGED <<merged, db>>
  BY <1>2 DEF InitFresh, GotoWith
<1>3. ASSUME NEW u \in UploadIds, InitRefused(w, u)
      PROVE  /\ req[w].pc \in InitPCs /\ req'[w].pc = "idle"
             /\ \A v \in Workers \ {w} : req'[v] = req[v]
             /\ UNCHANGED <<merged, db>>
  BY <1>3 DEF InitRefused, ReplyUpInfo, Answer
<1>4. CASE InitGet(w)
  <2>1. Answer(w) \/ \E u : GotoWith(w, "i_list", u)
    BY <1>4 DEF InitGet
  <2>2. CASE Answer(w)
    BY <1>4, <2>2 DEF InitGet, Answer
  <2>3. ASSUME NEW u, GotoWith(w, "i_list", u)
        PROVE  /\ req'[w].pc = "i_list" /\ req'[w].file = req[w].file
               /\ \A v \in Workers \ {w} : req'[v] = req[v]
    BY <2>3 DEF GotoWith
  <2> QED
    BY <1>4, <2>1, <2>2, <2>3 DEF InitGet
<1>5. CASE InitList(w)
  BY <1>5 DEF InitList, ReplyUpInfo, Answer, Goto
<1>6. CASE InitCount(w) \/ InitMeta(w) \/ InitExpire(w)
  BY <1>6 DEF InitCount, InitMeta, InitExpire, Goto
<1>7. CASE InitSetHash(w)
  BY <1>7 DEF InitSetHash, ReplyUpInfo, Answer
<1> QED
  BY <1>1, <1>2, <1>3, <1>4, <1>5, <1>6, <1>7 DEF InitStep

LEMMA PartStepIs ==
  ASSUME TypeInv, NEW w \in Workers, PartStep(w)
  PROVE  /\ req[w].pc \in PartPCs
         /\ req'[w].pc \in {"idle"} \cup PartPCs
         /\ \A v \in Workers \ {w} : req'[v] = req[v]
         /\ UNCHANGED <<merged, db, fileOf>>
BY DEF PartStep, PartCopy, PartWrite, PartVerify, PartFlag, Goto, Answer, PartPCs, Idle,
       TypeInv, Typed, Request

LEMMA CompleteStepIs ==
  ASSUME TypeInv, NEW w \in Workers, CompleteStep(w)
  PROVE  /\ req[w].pc \in MergePCs \cup RecordPCs
         /\ req'[w].pc \in {"idle"} \cup MergePCs \cup RecordPCs
         /\ req'[w].pc # "idle" => req'[w].file = req[w].file /\ req'[w].user = req[w].user
         /\ req'[w].pc \in MergePCs => req[w].pc \in MergePCs
         /\ \A v \in Workers \ {w} : req'[v] = req[v]
<1> USE DEF MergePCs, RecordPCs, Idle, TypeInv, Typed, Request
<1>1. CASE MergeStart(w)
  <2>1. PICK S \in SUBSET Index : GotoMerge(w, S)
    BY <1>1 DEF MergeStart
  <2> QED
    BY <1>1, <2>1 DEF MergeStart, GotoMerge
<1>2. ASSUME NEW i \in Index, MergeCat(w, i)
      PROVE  /\ req[w].pc \in MergePCs /\ req'[w].pc \in MergePCs
             /\ req'[w].file = req[w].file /\ req'[w].user = req[w].user
             /\ \A v \in Workers \ {w} : req'[v] = req[v]
  BY <1>2 DEF MergeCat, GotoMerge
<1>3. CASE MergeVerify(w)
  BY <1>3 DEF MergeVerify, Goto, Answer
<1>4. CASE CompleteFile(w)
  BY <1>4 DEF CompleteFile, Goto
<1>5. CASE CompleteUser(w)
  BY <1>5 DEF CompleteUser, Goto
<1>6. CASE CompleteDelHash(w)
  BY <1>6 DEF CompleteDelHash, Goto
<1>7. CASE CompleteDelMp(w)
  BY <1>7 DEF CompleteDelMp, Goto, Answer
<1>8. CASE CompleteReply(w)
  BY <1>8 DEF CompleteReply, Answer
<1> QED
  BY <1>1, <1>2, <1>3, <1>4, <1>5, <1>6, <1>7, <1>8 DEF CompleteStep

\* What a completion leaves in the merged file once it is past the comparison.
LEMMA CompleteStepWhole ==
  ASSUME TypeInv, NEW w \in Workers, CompleteStep(w), req[w].file = Upload,
         req[w].pc \in RecordPCs => Whole
  PROVE  /\ req'[w].pc \in RecordPCs => Whole'
         /\ req[w].pc \in RecordPCs => Whole' /\ UNCHANGED merged
         /\ req[w].pc \notin RecordPCs => UNCHANGED db
<1>1. CASE Recorder(w)
  BY <1>1, RecorderStep DEF TypeInv, Whole
<1>2. CASE MergeStart(w) \/ \E i \in Index : MergeCat(w, i)
  <2>1. req[w].pc \notin RecordPCs /\ UNCHANGED db
    BY <1>2 DEF MergeStart, MergeCat, RecordPCs
  <2>2. req'[w].pc \notin RecordPCs
    <3>1. ASSUME NEW S \in SUBSET Index, GotoMerge(w, S)
          PROVE  req'[w].pc \in {"m_cat", "m_verify"}
      BY <3>1 DEF GotoMerge, TypeInv, Typed, Request
    <3>2. ASSUME NEW i \in Index, MergeCat(w, i)
          PROVE  req'[w].pc \in {"m_cat", "m_verify"}
      BY <3>2 DEF MergeCat, GotoMerge, TypeInv, Typed, Request
    <3> QED
      BY <1>2, <3>1, <3>2 DEF MergeStart, RecordPCs
  <2> QED
    BY <2>1, <2>2
<1>3. CASE MergeVerify(w)
  <2>1. /\ req[w].pc \notin RecordPCs /\ UNCHANGED <<merged, db>>
        /\ Whole \/ Answer(w)
    BY <1>3 DEF MergeVerify, RecordPCs, Whole
  <2>2. Answer(w) => req'[w].pc \notin RecordPCs
    BY DEF Answer, Idle, RecordPCs, TypeInv, Typed
  <2> QED
    BY <2>1, <2>2 DEF Whole
<1> QED
  BY <1>1, <1>2, <1>3 DEF CompleteStep, Recorder

--------------------------------------------------------------------------------
(* What the client hears *)

LEMMA ClientRuns ==
  /\ NewRun \in [phase : Phases, upid : UploadIds \cup {None}, todo : SUBSET Indexes(Upload)]
  /\ NewRun.phase = "rerun"
  /\ [NewRun EXCEPT !.phase = "done"].phase = "done"
  /\ [NewRun EXCEPT !.phase = "done"] \in
       [phase : Phases, upid : UploadIds \cup {None}, todo : SUBSET Indexes(Upload)]
BY DEF NewRun, Phases

LEMMA PlannedIs ==
  ASSUME NEW S
  PROVE  Planned(S) \subseteq Indexes(Upload)
BY DEF Planned

\* The answer to an init: a run that failed, a session to send to, or nothing.
LEMMA HearsInit ==
  ASSUME TypeInv, ClientTypeOK, NEW w \in Workers, client.phase = "init",
         req[w].file = Upload, InitStep(w)
  PROVE  \/ Hears(w) = NewRun
         \/ Hears(w) = client
         \/ /\ Hears(w).phase = "parts"
            /\ Hears(w) \in [phase : Phases, upid : UploadIds \cup {None},
                             todo : SUBSET Indexes(Upload)]
            /\ Hears(w).upid \in UploadIds
            /\ fileOf'[Hears(w).upid] = Upload
<1> DEFINE u == req[w].upid
<1>1. CASE req[w].pc \in {"i_list", "i_sethash"}
  <2>1. req[w].pc \in UpidPCs \ PartPCs
    BY <1>1 DEF UpidPCs, InitPCs, PartPCs
  <2>2. u \in UploadIds /\ fileOf[u] = Upload
    BY <2>1 DEF TypeInv, RequestOK, OriginOK
  <2>3. UNCHANGED fileOf
    BY <1>1 DEF InitStep, InitResume, InitGet, InitList, InitFresh, InitRefused, InitCount,
                InitMeta, InitExpire, InitSetHash
  <2>4. PICK S : Hears(w) = [phase |-> "parts", upid |-> u, todo |-> Planned(S)]
    BY <1>1 DEF Hears
  <2> QED
    BY <2>2, <2>3, <2>4, PlannedIs DEF Phases
<1>2. CASE req[w].pc = "i_get"
  BY <1>2 DEF Hears
<1>3. CASE req[w].pc \notin {"i_list", "i_sethash", "i_get"}
  BY <1>3 DEF Hears
<1> QED
  BY <1>1, <1>2, <1>3

LEMMA HandleIs ==
  ASSUME TypeInv, NEW w \in Workers, Handle(w)
  PROVE  /\ Serving(w)
         /\ req[w].pc \in InitPCs => InitStep(w)
         /\ req[w].pc \in PartPCs => PartStep(w)
         /\ req[w].pc \in MergePCs \cup RecordPCs => CompleteStep(w)
<1>1. CancelStep(w) => req[w].pc \in CancelPCs
  BY DEF CancelStep, CancelDelHash, CancelDelMp, CancelRemove, CancelPCs
<1>2. InitStep(w) => req[w].pc \in InitPCs
  BY InitStepIs
<1>3. PartStep(w) => req[w].pc \in PartPCs
  BY PartStepIs
<1>4. CompleteStep(w) => req[w].pc \in MergePCs \cup RecordPCs
  BY CompleteStepIs
<1> QED
  BY <1>1, <1>2, <1>3, <1>4
     DEF Handle, Serving, InitPCs, PartPCs, MergePCs, RecordPCs, CancelPCs

LEMMA ServeInit ==
  ASSUME TypeInv, ClientInv, NEW w \in Workers, Serve(w), client.phase = "init"
  PROVE  ClientInv' /\ Unfinished'
<1>1. /\ Handle(w) /\ UNCHANGED crashes
      /\ client' = IF req'[w].pc = "idle" THEN Hears(w) ELSE client
  BY DEF Serve
<1>2. /\ req[w].pc \in InitPCs /\ req[w].file = Upload /\ Alone(w) /\ InitStep(w)
  BY <1>1, HandleIs DEF ClientInv, PhaseOK
<1>3. /\ req'[w].pc \in {"idle"} \cup InitPCs
      /\ req'[w].pc # "idle" => req'[w].file = Upload
      /\ \A v \in Workers \ {w} : ~Serving(v)'
      /\ UNCHANGED <<merged, db>>
  BY <1>2, InitStepIs DEF Alone, Serving
<1>4. /\ client' \in [phase : Phases, upid : UploadIds \cup {None},
                      todo : SUBSET Indexes(Upload)]
      /\ \/ client'.phase = "rerun" /\ req'[w].pc = "idle"
         \/ client'.phase = "init"
         \/ /\ client'.phase = "parts" /\ req'[w].pc = "idle"
            /\ client'.upid \in UploadIds /\ fileOf'[client'.upid] = Upload
  BY <1>1, <1>2, HearsInit, ClientRuns DEF ClientInv, ClientTypeOK
<1>5. ClientTypeOK'
  BY <1>1, <1>4 DEF ClientInv, ClientTypeOK
<1>6. PhaseOK'
  BY <1>3, <1>4 DEF PhaseOK, Serving, Alone
<1>7. ContentOK'
  <2>1. \A v \in Workers : req'[v].pc \notin MergePCs \cup RecordPCs
    BY <1>3 DEF Serving, InitPCs, MergePCs, RecordPCs
  <2>2. ~Found /\ UNCHANGED userFile
    BY <1>3 DEF ClientInv, ContentOK, db
  <2> QED
    BY <2>1, <2>2 DEF ContentOK, Found, IsUserFileUploaded
<1>8. Unfinished'
  BY <1>4 DEF Unfinished
<1> QED
  BY <1>5, <1>6, <1>7, <1>8 DEF ClientInv

LEMMA ServePart ==
  ASSUME TypeInv, ClientInv, NEW w \in Workers, Serve(w), client.phase = "parts"
  PROVE  ClientInv' /\ Unfinished'
<1>1. /\ Handle(w) /\ UNCHANGED crashes /\ Hears(w) = client /\ UNCHANGED client
  BY DEF Serve, Hears
<1>2. req[w].pc \in PartPCs /\ PartStep(w)
  BY <1>1, HandleIs DEF ClientInv, PhaseOK
<1>3. /\ req'[w].pc \in {"idle"} \cup PartPCs
      /\ \A v \in Workers \ {w} : req'[v] = req[v]
      /\ UNCHANGED <<merged, db, fileOf>>
  BY <1>2, PartStepIs
<1>4. ClientTypeOK'
  BY <1>1 DEF ClientInv, ClientTypeOK
<1>5. PhaseOK'
  BY <1>1, <1>3 DEF ClientInv, PhaseOK, Serving
<1>6. ContentOK'
  <2>1. \A v \in Workers : req'[v].pc \in {"idle"} \cup PartPCs
    BY <1>3 DEF ClientInv, PhaseOK, Serving
  <2>2. ~Found /\ UNCHANGED userFile
    BY <1>3 DEF ClientInv, ContentOK, db
  <2> QED
    BY <2>1, <2>2 DEF ContentOK, Found, IsUserFileUploaded, PartPCs, MergePCs, RecordPCs
<1>7. Unfinished'
  BY <1>1 DEF Unfinished
<1> QED
  BY <1>4, <1>5, <1>6, <1>7 DEF ClientInv

LEMMA ServeComplete ==
  ASSUME TypeInv, ClientInv, NEW w \in Workers, Serve(w), client.phase = "complete"
  PROVE  /\ ClientInv'
         /\ Unfinished' \/ (req[w].pc = "c_reply" /\ CompleteStep(w) /\ Whole')
<1>1. /\ Handle(w) /\ UNCHANGED crashes
      /\ client' = IF req'[w].pc = "idle" THEN Hears(w) ELSE client
      /\ Hears(w) = IF req[w].pc = "c_reply" THEN [NewRun EXCEPT !.phase = "done"] ELSE NewRun
  BY DEF Serve, Hears
<1>2. /\ req[w].pc \in MergePCs \cup RecordPCs /\ CompleteStep(w)
      /\ req[w].file = Upload /\ req[w].user = Uploader /\ Alone(w)
      /\ req[w].pc \in RecordPCs => Whole
  BY <1>1, HandleIs DEF ClientInv, PhaseOK, ContentOK
<1>3. /\ req'[w].pc \in {"idle"} \cup MergePCs \cup RecordPCs
      /\ req'[w].pc # "idle" => req'[w].file = Upload /\ req'[w].user = Uploader
      /\ req'[w].pc \in MergePCs => req[w].pc \in MergePCs
      /\ \A v \in Workers \ {w} : ~Serving(v)'
  BY <1>2, CompleteStepIs DEF Alone, Serving
<1>4. /\ req'[w].pc \in RecordPCs => Whole'
      /\ req[w].pc \in RecordPCs => Whole'
      /\ req[w].pc \notin RecordPCs => UNCHANGED db
  BY <1>2, CompleteStepWhole
<1>5. \/ client' = client /\ req'[w].pc # "idle"
      \/ /\ client' = [NewRun EXCEPT !.phase = "done"]
         /\ req'[w].pc = "idle" /\ req[w].pc = "c_reply"
      \/ client' = NewRun /\ req'[w].pc = "idle"
  BY <1>1
<1>6. ClientTypeOK'
  BY <1>1, <1>5, ClientRuns DEF ClientInv, ClientTypeOK
<1>7. PhaseOK'
  BY <1>3, <1>5, ClientRuns DEF PhaseOK, Serving, Alone
<1>8. ContentOK'
  <2>1. \A v \in Workers : req'[v].pc \in RecordPCs => Whole'
    BY <1>3, <1>4 DEF Serving, RecordPCs
  <2>2. Found' =>
          req[w].pc \in RecordPCs \/ Found
    BY <1>4 DEF Found, IsUserFileUploaded, db
  <2>3. Found => req[w].pc \notin MergePCs
    BY DEF ClientInv, ContentOK
  <2>4. Found' =>
          Whole' /\ req'[w].pc \notin MergePCs
    BY <1>2, <1>3, <1>4, <2>2, <2>3 DEF MergePCs, RecordPCs
  <2>5. client'.phase \notin {"init", "parts"}
    BY <1>5, ClientRuns
  <2>6. \A v \in Workers \ {w} : req'[v].pc \notin MergePCs
    BY <1>3 DEF Serving, MergePCs
  <2> QED
    BY <2>1, <2>4, <2>5, <2>6 DEF ContentOK
<1>9. Unfinished' \/ (req[w].pc = "c_reply" /\ Whole')
  BY <1>4, <1>5, ClientRuns DEF Unfinished, ClientInv, PhaseOK, RecordPCs
<1> QED
  BY <1>2, <1>6, <1>7, <1>8, <1>9 DEF ClientInv

--------------------------------------------------------------------------------
(* What the client does *)

\* Worker w is given a request, and no other has changed.
LEMMA GivenIs ==
  ASSUME TypeInv, NEW w \in Workers, NEW q, req' = [req EXCEPT ![w] = q]
  PROVE  req'[w] = q /\ \A v \in Workers \ {w} : req'[v] = req[v]
BY DEF TypeInv, Typed

LEMMA RunAgainInv ==
  ASSUME TypeInv, ClientInv, NEW w \in Workers, RunAgain(w)
  PROVE  ClientInv' /\ Unfinished'
<1> DEFINE q == [Idle EXCEPT !.pc = "i_exists", !.user = Uploader, !.file = Upload]
<1>1. /\ client.phase = "rerun" /\ client' = [client EXCEPT !.phase = "init"]
      /\ req' = [req EXCEPT ![w] = q] /\ UNCHANGED <<crashes, merged, db>>
      /\ ~Found
  BY DEF RunAgain, StartInit, Found
<1>2. q.pc = "i_exists" /\ q.file = Upload
  BY DEF Idle
<1> HIDE DEF q
<1>3. /\ req'[w].pc = "i_exists" /\ req'[w].file = Upload
      /\ \A v \in Workers \ {w} : req'[v].pc = "idle"
  <2>1. req'[w] = q /\ \A v \in Workers \ {w} : req'[v] = req[v]
    BY <1>1, GivenIs
  <2>2. \A v \in Workers : req[v].pc = "idle"
    BY <1>1 DEF ClientInv, PhaseOK, Serving
  <2> QED
    BY <1>2, <2>1, <2>2
<1>4. client'.phase = "init" /\ ClientTypeOK'
  BY <1>1 DEF ClientInv, ClientTypeOK, Phases
<1>5. PhaseOK'
  BY <1>3, <1>4 DEF PhaseOK, Serving, Alone, InitPCs
<1>6. ContentOK'
  <2>1. ~Found'
    BY <1>1 DEF Found, IsUserFileUploaded, db
  <2> QED
    BY <1>3, <2>1 DEF ContentOK, RecordPCs
<1>7. Unfinished'
  BY <1>4 DEF Unfinished
<1> QED
  BY <1>4, <1>5, <1>6, <1>7 DEF ClientInv

LEMMA SendPartInv ==
  ASSUME TypeInv, ClientInv, NEW w \in Workers, SendPart(w)
  PROVE  ClientInv' /\ Unfinished'
<1>1. PICK i \in client.todo :
        /\ StartPart(w, client.upid, i)
        /\ client' = [client EXCEPT !.todo = @ \ {i}]
  BY DEF SendPart
<1> DEFINE q == [Idle EXCEPT !.pc = "p_write", !.upid = client.upid, !.index = i]
<1>2. /\ client.phase = "parts" /\ req' = [req EXCEPT ![w] = q]
      /\ UNCHANGED <<crashes, merged, db, fileOf>>
  BY <1>1 DEF SendPart, StartPart
<1>3. q.pc = "p_write"
  BY DEF Idle
<1> HIDE DEF q
<1>4. req'[w].pc = "p_write" /\ \A v \in Workers \ {w} : req'[v] = req[v]
  BY <1>2, <1>3, GivenIs
<1>5. client'.phase = "parts" /\ client'.upid = client.upid /\ ClientTypeOK'
  BY <1>1, <1>2 DEF ClientInv, ClientTypeOK
<1>6. PhaseOK'
  BY <1>2, <1>4, <1>5 DEF ClientInv, PhaseOK, Serving, PartPCs
<1>7. ContentOK'
  <2>1. \A v \in Workers : req'[v].pc \in {"idle"} \cup PartPCs
    BY <1>2, <1>4 DEF ClientInv, PhaseOK, Serving, PartPCs
  <2>2. ~Found'
    BY <1>2 DEF ClientInv, ContentOK, Found, IsUserFileUploaded, db
  <2> QED
    BY <2>1, <2>2 DEF ContentOK, PartPCs, RecordPCs
<1>8. Unfinished'
  BY <1>5 DEF Unfinished
<1> QED
  BY <1>5, <1>6, <1>7, <1>8 DEF ClientInv

LEMMA SendCompleteInv ==
  ASSUME TypeInv, ClientInv, NEW w \in Workers, SendComplete(w)
  PROVE  ClientInv' /\ Unfinished'
<1> DEFINE q == [Idle EXCEPT !.pc = "m_start", !.user = Uploader,
                             !.file = fileOf[client.upid], !.upid = client.upid]
<1>1. /\ client.phase = "parts" /\ \A v \in Workers : ~Serving(v)
      /\ client' = [client EXCEPT !.phase = "complete"]
      /\ req' = [req EXCEPT ![w] = q] /\ UNCHANGED <<crashes, merged, db>>
  BY DEF SendComplete, AllAnswered, StartComplete, Serving
<1>2. q.pc = "m_start" /\ q.user = Uploader /\ q.file = Upload
  BY <1>1 DEF Idle, ClientInv, PhaseOK
<1> HIDE DEF q
<1>3. /\ req'[w].pc = "m_start" /\ req'[w].user = Uploader /\ req'[w].file = Upload
      /\ \A v \in Workers \ {w} : req'[v].pc = "idle"
  BY <1>1, <1>2, GivenIs DEF Serving
<1>4. client'.phase = "complete" /\ ClientTypeOK'
  BY <1>1 DEF ClientInv, ClientTypeOK, Phases
<1>5. PhaseOK'
  BY <1>3, <1>4 DEF PhaseOK, Serving, Alone, MergePCs
<1>6. ContentOK'
  <2>1. ~Found'
    BY <1>1 DEF ClientInv, ContentOK, Found, IsUserFileUploaded, db
  <2> QED
    BY <1>3, <2>1 DEF ContentOK, RecordPCs
<1>7. Unfinished'
  BY <1>4 DEF Unfinished
<1> QED
  BY <1>4, <1>5, <1>6, <1>7 DEF ClientInv

\* A run ends, by the client or by a crash: the next one starts from nothing.
LEMMA RunEnds ==
  ASSUME TypeInv, ClientInv, client' = NewRun, crashes' \in 0..MaxCrashes,
         \A w \in Workers : ~Serving(w)', UNCHANGED <<merged, db>>
  PROVE  ClientInv' /\ Unfinished'
<1>1. client'.phase = "rerun" /\ ClientTypeOK'
  BY ClientRuns DEF ClientTypeOK
<1>2. PhaseOK'
  BY <1>1 DEF PhaseOK
<1>3. ContentOK'
  BY <1>1 DEF ClientInv, ContentOK, Found, IsUserFileUploaded, Whole, Serving, db,
              MergePCs, RecordPCs
<1>4. Unfinished'
  BY <1>1 DEF Unfinished
<1> QED
  BY <1>1, <1>2, <1>3, <1>4 DEF ClientInv

LEMMA TooEarlyInv ==
  ASSUME TypeInv, ClientInv, TooEarly
  PROVE  ClientInv' /\ Unfinished'
<1>1. \A w \in Workers : ~Serving(w)'
  BY DEF TooEarly, AllAnswered, Serving, vars
<1> QED
  BY <1>1, RunEnds DEF TooEarly, vars, ClientInv, ClientTypeOK

LEMMA ServerCrashInv ==
  ASSUME TypeInv, ClientInv, ServerCrash
  PROVE  ClientInv' /\ Unfinished'
<1>1. \A w \in Workers : ~Serving(w)'
  BY DEF ServerCrash, Crash, Idle, Serving
<1>2. crashes' \in 0..MaxCrashes
  BY ClientAssumption DEF ServerCrash, ClientInv, ClientTypeOK
<1> QED
  BY <1>1, <1>2, RunEnds DEF ServerCrash, Crash

LEMMA AlreadyStoredInv ==
  ASSUME TypeInv, ClientInv, AlreadyStored
  PROVE  ClientInv'
<1>1. /\ client.phase = "rerun" /\ client' = [client EXCEPT !.phase = "exists"]
      /\ UNCHANGED <<req, merged, db, fileOf, crashes>>
  BY DEF AlreadyStored, vars
<1>2. client'.phase = "exists" /\ ClientTypeOK'
  BY <1>1 DEF ClientInv, ClientTypeOK, Phases
<1>3. PhaseOK'
  BY <1>1, <1>2 DEF ClientInv, PhaseOK, Serving
<1>4. ContentOK'
  BY <1>1, <1>2 DEF ClientInv, ContentOK, Found, IsUserFileUploaded, Whole, db
<1> QED
  BY <1>2, <1>3, <1>4 DEF ClientInv

--------------------------------------------------------------------------------
(* Every step *)

\* Every step is one of the server's, or leaves the server as it is.
LEMMA ClientNextIsNext ==
  ASSUME ClientInv, [ClientNext]_all
  PROVE  [Next]_vars
<1>1. ASSUME NEW w \in Workers, RunAgain(w)
      PROVE  Next
  BY <1>1, ClientAssumption DEF RunAgain, Next, Start
<1>2. ASSUME NEW w \in Workers, SendPart(w)
      PROVE  Next
  <2>1. PICK i \in client.todo : StartPart(w, client.upid, i)
    BY <1>2 DEF SendPart
  <2>2. client.upid \in UploadIds /\ i \in Index
    BY <1>2, <2>1, ClientAssumption
       DEF ClientInv, ClientTypeOK, PhaseOK, SendPart, Index
  <2> QED
    BY <2>1, <2>2 DEF Next, Start
<1>3. ASSUME NEW w \in Workers, SendComplete(w)
      PROVE  Next
  <2>1. client.upid \in UploadIds /\ StartComplete(w, Uploader, client.upid)
    BY <1>3 DEF SendComplete, AllAnswered, ClientInv, PhaseOK
  <2> QED
    BY <2>1, ClientAssumption DEF Next, Start
<1>4. ASSUME NEW w \in Workers, Serve(w)
      PROVE  Next
  BY <1>4 DEF Serve, Next
<1>5. ServerCrash => Next
  BY DEF ServerCrash, Next, Environment
<1>6. AlreadyStored \/ TooEarly \/ UNCHANGED all => UNCHANGED vars
  BY DEF AlreadyStored, TooEarly, all
<1> QED
  BY <1>1, <1>2, <1>3, <1>4, <1>5, <1>6 DEF ClientNext, ClientStep

LEMMA ClientInvInit == ClientInit => ClientInv
<1> SUFFICES ASSUME ClientInit PROVE ClientInv
  OBVIOUS
<1>1. /\ \A w \in Workers : req[w].pc = "idle"
      /\ userFile = {} /\ client.phase = "rerun"
  BY ClientRuns DEF ClientInit, Init, Idle
<1>2. ClientTypeOK
  BY ClientRuns, ClientAssumption DEF ClientInit, ClientTypeOK
<1>3. PhaseOK /\ ContentOK
  BY <1>1 DEF PhaseOK, Serving, ContentOK, Found, IsUserFileUploaded, RecordPCs
<1> QED
  BY <1>2, <1>3 DEF ClientInv

LEMMA ClientInvNext ==
  ASSUME TypeInv, ClientInv, [ClientNext]_all
  PROVE  ClientInv'
<1>1. ASSUME NEW w \in Workers, Serve(w)
      PROVE  ClientInv'
  <2>1. client.phase \in {"init", "parts", "complete"}
    BY <1>1, HandleIs DEF Serve, ClientInv, ClientTypeOK, PhaseOK, Phases
  <2> QED
    BY <1>1, <2>1, ServeInit, ServePart, ServeComplete
<1>2. CASE UNCHANGED all
  <2>1. UNCHANGED <<req, merged, db, fileOf, client, crashes>>
    BY <1>2 DEF all, vars
  <2> QED
    BY <2>1 DEF ClientInv, ClientTypeOK, PhaseOK, ContentOK, Serving, Alone, Whole, Found, IsUserFileUploaded, db
<1> QED
  BY <1>1, <1>2, AlreadyStoredInv, TooEarlyInv, RunAgainInv, SendPartInv,
     SendCompleteInv, ServerCrashInv DEF ClientNext, ClientStep

LEMMA ClientInvariant == ClientSpec => [](TypeInv /\ ClientInv)
<1>1. ClientInit => TypeInv /\ ClientInv
  BY TypeInvInit, ClientInvInit DEF ClientInit
<1>2. TypeInv /\ ClientInv /\ [ClientNext]_all => (TypeInv /\ ClientInv)'
  BY ClientNextIsNext, ClientInvNext, TypedNext, RequestOKNext, OriginOKNext DEF TypeInv
<1> QED
  BY <1>1, <1>2, PTL DEF ClientSpec

\* The client's own variables keep their types (ClientTypeOK of the runs).
THEOREM ClientTypeCorrect == ClientSpec => []ClientTypeOK
<1>1. ClientInv => ClientTypeOK
  BY DEF ClientInv
<1> QED
  BY <1>1, ClientInvariant, PTL

--------------------------------------------------------------------------------
(* The client's runs are runs of the server *)

\* Whatever is proved of every behaviour of the server holds while this client
\* talks to it: what it sends are requests the server knows (Spec of
\* MultipartUpload, the next-state relation of the server's own runs).
THEOREM ClientIsServed == ClientSpec => Spec
<1>1. ClientInit => Init
  BY DEF ClientInit
<1>2. ClientInv /\ [ClientNext]_all => [Next]_vars
  BY ClientNextIsNext
<1> QED
  BY <1>1, <1>2, ClientInvariant, PTL DEF ClientSpec, Spec

\* So the client's uploads keep the promise of UploadLedger, crash by crash and
\* run by run: assembled, recorded, owned, acknowledged, and never taken back
\* (LedgerSpec of the runs), as long as inserts succeed.
THEOREM ClientImplementsLedger ==
  ASSUME DbMayFail = FALSE
  PROVE  ClientSpec => LedgerSpec
BY ClientIsServed, ImplementsLedger

--------------------------------------------------------------------------------
(* Finished means stored *)

LEMMA StoredNext ==
  ASSUME DbMayFail = FALSE, TypeInv, OwnershipInv, ClientInv, FinishedMeansStored, [ClientNext]_all
  PROVE  FinishedMeansStored'
<1>1. ASSUME NEW w \in Workers, Serve(w)
      PROVE  FinishedMeansStored'
  <2>1. client.phase \in {"init", "parts", "complete"}
    BY <1>1, HandleIs DEF Serve, ClientInv, ClientTypeOK, PhaseOK, Phases
  <2>2. Unfinished' \/ (req[w].pc = "c_reply" /\ CompleteStep(w) /\ Whole')
    BY <1>1, <2>1, ServeInit, ServePart, ServeComplete
  <2>3. CASE req[w].pc = "c_reply" /\ CompleteStep(w) /\ Whole'
    <3>1. client.phase = "complete"
      BY <2>1, <2>3 DEF ClientInv, PhaseOK, Serving, InitPCs, PartPCs
    <3>2. req[w].file = Upload /\ req[w].user = Uploader
      BY <2>3, <3>1 DEF ClientInv, PhaseOK, Serving
    <3>3. <<Uploader, Upload>> \in userFile /\ Upload \in tblFile
      BY <2>3, <3>2 DEF OwnershipInv, InsertsOK, RecordPCs
    <3>4. UNCHANGED db
      BY <2>3 DEF CompleteStep, CompleteReply, MergeStart, MergeCat, MergeVerify,
                  CompleteFile, CompleteUser, CompleteDelHash, CompleteDelMp
    <3> QED
      BY <2>3, <3>3, <3>4 DEF FinishedMeansStored, Whole, db
  <2> QED
    BY <2>2, <2>3 DEF FinishedMeansStored, Unfinished
<1>2. CASE AlreadyStored
  <2>1. /\ Whole /\ <<Uploader, Upload>> \in userFile /\ UNCHANGED <<merged, db>>
    BY <1>2 DEF AlreadyStored, ClientInv, ContentOK, Found, IsUserFileUploaded, vars
  <2>2. Upload \in tblFile
    BY <2>1, ClientAssumption DEF OwnershipInv, OwnedIsRecorded
  <2> QED
    BY <2>1, <2>2 DEF FinishedMeansStored, Whole, db
<1>3. CASE UNCHANGED all
  BY <1>3 DEF all, vars, db, FinishedMeansStored
<1>4. Unfinished' => FinishedMeansStored'
  BY DEF FinishedMeansStored, Unfinished
<1> QED
  BY <1>1, <1>2, <1>3, <1>4, TooEarlyInv, RunAgainInv, SendPartInv,
     SendCompleteInv, ServerCrashInv DEF ClientNext, ClientStep

\* A client that is told its upload is finished, or that its file is there, has
\* both rows and the whole file (FinishedMeansStored of the runs), whatever
\* crashes left behind.
THEOREM FinishedStored ==
  ASSUME DbMayFail = FALSE
  PROVE  ClientSpec => []FinishedMeansStored
<1>1. ClientInit => OwnershipInv /\ FinishedMeansStored
  BY OwnershipInit, ClientRuns DEF ClientInit, FinishedMeansStored
<1>2. TypeInv /\ ClientInv /\ OwnershipInv /\ FinishedMeansStored /\ [ClientNext]_all
        => (OwnershipInv /\ FinishedMeansStored)'
  BY ClientNextIsNext, OwnershipNext, StoredNext
<1> QED
  BY <1>1, <1>2, ClientInvariant, PTL DEF ClientSpec

--------------------------------------------------------------------------------
(* What the server keeps for the client's session *)

\* The session of u is that of a whole upload.
Opened(u) == mp[u].count = ChunkCount[Upload]

\* What is flagged is on disk and good; what is on disk is a chunk of the file;
\* an id no init has given out has no flags.
FlagsGood     == \A u \in UploadIds : \A i \in mp[u].flags : chunk[u][i] = "good"
OwnChunks     == \A u \in UploadIds : \A i \in Index :
                   chunk[u][i] # "none" => i \in Indexes(Upload)
FlaggedIsUsed == \A u \in UploadIds : fileOf[u] = None => mp[u].flags = {}

\* A session under the file's key, or on its way there, is of the whole upload,
\* and one that an init writes has no flags yet.
OpeningPCs == {"i_count", "i_meta", "i_expire", "i_sethash"}
HashOpened == hashUpid[Upload] # None => Opened(hashUpid[Upload])
OpeningOK  == \A w \in Workers :
  /\ req[w].pc \in OpeningPCs => mp[req[w].upid].flags = {}
  /\ req[w].pc \in {"i_list"} \cup (OpeningPCs \ {"i_count"}) => Opened(req[w].upid)

\* Chunks still to send, being served and flagged are three different things,
\* and a chunk about to be flagged is good.
SendingOK == client.phase = "parts" =>
  /\ Opened(client.upid)
  /\ client.todo \cap mp[client.upid].flags = {}
  /\ \A w \in Workers : req[w].pc \in PartPCs =>
       /\ req[w].upid = client.upid
       /\ req[w].index \in Indexes(Upload)
       /\ req[w].index \notin client.todo \cup mp[client.upid].flags
       /\ req[w].pc = "p_flag" => chunk[req[w].upid][req[w].index] = "good"
       /\ \A v \in Workers : req[v].pc \in PartPCs /\ req[v].index = req[w].index => v = w

\* A merge finds every chunk, and has appended the first ones in their order.
AllGood(u) == \A i \in Indexes(Upload) : chunk[u][i] = "good"
Appended(n) ==
  /\ n \in 0..ChunkCount[Upload] - 1
  /\ merged[Upload] = [i \in 1..n |-> i]
MergingOK == \A w \in Workers :
  /\ req[w].pc \in {"m_start", "m_cat"} => AllGood(req[w].upid)
  /\ req[w].pc = "m_cat" => \E n \in Nat :
       Appended(n) /\ req[w].chunks = n + 1..ChunkCount[Upload]
  /\ req[w].pc = "m_verify" => Whole

\* The key goes before the session, and the session before its chunks.
EmptiedOK == \A w \in Workers :
  /\ req[w].pc = "c_delmp" => hashUpid[Upload] = None
  /\ req[w].pc = "c_reply" => mp[req[w].upid].flags = {}

SessionInv ==
  /\ FlagsGood /\ OwnChunks /\ FlaggedIsUsed
  /\ HashOpened /\ OpeningOK /\ SendingOK /\ MergingOK /\ EmptiedOK

--------------------------------------------------------------------------------
(* An init keeps what the session needs *)

LEMMA InitStores ==
  ASSUME TypeInv, NEW w \in Workers, InitStep(w), req[w].file = Upload
  PROVE  /\ UNCHANGED <<chunk, merged>>
         /\ \A u \in UploadIds : mp'[u].flags = mp[u].flags
         /\ \A u \in UploadIds : Opened(u) => Opened(u)'
         /\ \A u \in UploadIds : fileOf'[u] = None => fileOf[u] = None
         /\ \/ UNCHANGED hashUpid
            \/ /\ req[w].pc = "i_sethash" /\ req'[w].pc = "idle"
               /\ hashUpid' = [hashUpid EXCEPT ![Upload] = req[w].upid]
<1> USE DEF Opened, redis
<1>1. CASE InitResume(w) \/ InitGet(w) \/ InitList(w)
  BY <1>1 DEF InitResume, InitGet, InitList
<1>2. ASSUME NEW u \in UploadIds, InitFresh(w, u) \/ InitRefused(w, u)
      PROVE  /\ UNCHANGED <<hashUpid, mp, chunk, merged>>
             /\ fileOf' = [fileOf EXCEPT ![u] = Upload]
  BY <1>2 DEF InitFresh, InitRefused
<1>3. ASSUME NEW u \in UploadIds, fileOf' = [fileOf EXCEPT ![u] = Upload]
      PROVE  \A t \in UploadIds : fileOf'[t] = None => fileOf[t] = None
  BY <1>3, NoneAssumption, ClientAssumption DEF TypeInv, Typed
<1>4. CASE InitCount(w)
  <2>1. /\ UNCHANGED <<hashUpid, chunk, merged, fileOf>>
        /\ mp' = [mp EXCEPT ![req[w].upid] = HSetCount(@, ChunkCount[Upload])]
    BY <1>4 DEF InitCount
  <2> QED
    BY <2>1 DEF HSetCount, TypeInv, Typed, Session
<1>5. CASE InitMeta(w) \/ InitExpire(w)
  <2>1. /\ UNCHANGED <<hashUpid, chunk, merged, fileOf>>
        /\ \/ mp' = [mp EXCEPT ![req[w].upid] = HSetMeta(@)]
           \/ mp' = [mp EXCEPT ![req[w].upid] = Expire(@)]
    BY <1>5 DEF InitMeta, InitExpire
  <2>2. \A u \in UploadIds : mp'[u].flags = mp[u].flags /\ mp'[u].count = mp[u].count
    <3>1. CASE mp' = [mp EXCEPT ![req[w].upid] = HSetMeta(@)]
      BY <3>1 DEF HSetMeta, TypeInv, Typed, Session
    <3>2. CASE mp' = [mp EXCEPT ![req[w].upid] = Expire(@)]
      BY <3>2 DEF Expire, TypeInv, Typed, Session
    <3> QED
      BY <2>1, <3>1, <3>2
  <2> QED
    BY <1>5, <2>1, <2>2 DEF InitMeta, InitExpire
<1>6. CASE InitSetHash(w)
  BY <1>6 DEF InitSetHash, ReplyUpInfo, Answer, Idle, TypeInv, Typed
<1> QED
  BY <1>1, <1>2, <1>3, <1>4, <1>5, <1>6 DEF InitStep

\* Worker w has moved on to step pc with its upload id.
LEMMA GotoKeeps ==
  ASSUME TypeInv, NEW w \in Workers, NEW pc, Goto(w, pc)
  PROVE  req'[w].pc = pc /\ req'[w].upid = req[w].upid /\ req'[w].index = req[w].index
BY DEF Goto, TypeInv, Typed, Request

LEMMA AnswerIdles ==
  ASSUME TypeInv, NEW w \in Workers, Answer(w)
  PROVE  req'[w].pc = "idle"
BY DEF Answer, Idle, TypeInv, Typed

\* An init that writes a session has one without flags, and sets its count
\* before it goes on; one that resumes has a session that is open.
LEMMA OpeningMoves ==
  ASSUME TypeInv, NEW w \in Workers, InitStep(w), req[w].file = Upload,
         FlaggedIsUsed, HashOpened, OpeningOK
  PROVE  /\ req'[w].pc \in OpeningPCs => mp'[req'[w].upid].flags = {}
         /\ req'[w].pc \in {"i_list"} \cup (OpeningPCs \ {"i_count"}) =>
              mp'[req'[w].upid].count = ChunkCount[Upload]
<1> USE DEF OpeningPCs
<1>0. req[w].pc \in {"i_list"} \cup OpeningPCs => req[w].upid \in UploadIds
  BY DEF TypeInv, RequestOK, UpidPCs, InitPCs, PartPCs
<1>1. CASE InitResume(w)
  BY <1>1, GotoKeeps DEF InitResume
<1>2. ASSUME NEW u \in UploadIds, InitFresh(w, u)
      PROVE  req'[w].pc = "i_count" /\ mp'[req'[w].upid].flags = {}
  <2>1. mp[u].flags = {} /\ UNCHANGED mp
    BY <1>2 DEF InitFresh, FlaggedIsUsed, redis
  <2>2. req'[w].pc = "i_count" /\ req'[w].upid = u
    BY <1>2 DEF InitFresh, GotoWith, TypeInv, Typed, Request
  <2> QED
    BY <2>1, <2>2
<1>3. ASSUME NEW u \in UploadIds, InitRefused(w, u)
      PROVE  req'[w].pc = "idle"
  BY <1>3, AnswerIdles DEF InitRefused, ReplyUpInfo
<1>4. CASE InitGet(w)
  <2>1. CASE Answer(w)
    BY <2>1, AnswerIdles
  <2>2. CASE hashUpid[Upload] # None /\ GotoWith(w, "i_list", hashUpid[Upload])
    <3>1. req'[w].pc = "i_list" /\ req'[w].upid = hashUpid[Upload]
      BY <2>2 DEF GotoWith, TypeInv, Typed, Request
    <3>2. mp[hashUpid[Upload]].count = ChunkCount[Upload] /\ UNCHANGED mp
      BY <1>4, <2>2 DEF InitGet, HashOpened, Opened, redis
    <3> QED
      BY <3>1, <3>2
  <2> QED
    BY <1>4, <2>1, <2>2 DEF InitGet
<1>5. CASE InitList(w)
  <2>1. CASE mp[req[w].upid].flags = {} /\ Goto(w, "i_count")
    BY <1>5, <2>1, GotoKeeps DEF InitList, redis
  <2>2. CASE Answer(w)
    BY <2>2, AnswerIdles
  <2> QED
    BY <1>5, <2>1, <2>2 DEF InitList, ReplyUpInfo
<1>6. CASE InitCount(w)
  <2>1. /\ req'[w].pc = "i_meta" /\ req'[w].upid = req[w].upid /\ req[w].upid \in UploadIds
        /\ mp' = [mp EXCEPT ![req[w].upid] = HSetCount(@, ChunkCount[Upload])]
        /\ mp[req[w].upid].flags = {}
    BY <1>0, <1>6, GotoKeeps DEF InitCount, OpeningOK
  <2> QED
    BY <2>1 DEF HSetCount, TypeInv, Typed, Session
<1>7. CASE InitMeta(w) \/ InitExpire(w)
  <2>1. /\ req'[w].upid = req[w].upid /\ req[w].upid \in UploadIds
        /\ Opened(req[w].upid) /\ mp[req[w].upid].flags = {}
    BY <1>0, <1>7, GotoKeeps DEF InitMeta, InitExpire, OpeningOK
  <2>2. PICK u \in UploadIds : u = req[w].upid
    BY <2>1
  <2>3. mp'[u].flags = mp[u].flags /\ (Opened(u) => Opened(u)')
    BY InitStores
  <2> QED
    BY <2>1, <2>2, <2>3 DEF Opened
<1>8. CASE InitSetHash(w)
  BY <1>8, AnswerIdles DEF InitSetHash, ReplyUpInfo
<1> QED
  BY <1>1, <1>2, <1>3, <1>4, <1>5, <1>6, <1>7, <1>8 DEF InitStep

\* The answer to an init opens a run of parts on the session it found or wrote.
LEMMA OpeningHeard ==
  ASSUME TypeInv, NEW w \in Workers, InitStep(w), req[w].file = Upload, OpeningOK,
         client.phase = "init", Hears(w).phase = "parts"
  PROVE  /\ Hears(w).upid = req[w].upid /\ req[w].upid \in UploadIds
         /\ Opened(req[w].upid)
         /\ Hears(w).todo \cap mp[req[w].upid].flags = {}
<1>1. req[w].pc \in {"i_list", "i_sethash"}
  BY DEF Hears, NewRun
<1>2. req[w].upid \in UploadIds
  BY <1>1 DEF TypeInv, RequestOK, UpidPCs, InitPCs, PartPCs
<1>3. Opened(req[w].upid)
  BY <1>1 DEF OpeningOK, OpeningPCs
<1>4. CASE req[w].pc = "i_list"
  BY <1>2, <1>3, <1>4 DEF Hears, Planned
<1>5. CASE req[w].pc = "i_sethash"
  BY <1>2, <1>3, <1>5 DEF Hears, OpeningOK, OpeningPCs
<1> QED
  BY <1>1, <1>4, <1>5

LEMMA SessionInit ==
  ASSUME TypeInv, ClientInv, SessionInv, NEW w \in Workers, Serve(w), client.phase = "init"
  PROVE  SessionInv'
<1> USE DEF SessionInv
<1>1. /\ req[w].pc \in InitPCs /\ req[w].file = Upload /\ Alone(w) /\ InitStep(w)
      /\ client' = IF req'[w].pc = "idle" THEN Hears(w) ELSE client
  BY HandleIs DEF Serve, ClientInv, PhaseOK
<1>2. /\ req'[w].pc \in {"idle"} \cup InitPCs
      /\ \A v \in Workers \ {w} : req'[v].pc = "idle"
  BY <1>1, InitStepIs DEF Alone, Serving
<1>3. /\ UNCHANGED <<chunk, merged>>
      /\ \A u \in UploadIds : mp'[u].flags = mp[u].flags
      /\ \A u \in UploadIds : Opened(u) => Opened(u)'
      /\ \A u \in UploadIds : fileOf'[u] = None => fileOf[u] = None
  BY <1>1, InitStores
<1>4. FlagsGood' /\ OwnChunks' /\ FlaggedIsUsed'
  BY <1>3 DEF FlagsGood, OwnChunks, FlaggedIsUsed
<1>5. HashOpened'
  <2>1. CASE UNCHANGED hashUpid
    <3>1. hashUpid[Upload] # None => hashUpid[Upload] \in UploadIds
      BY ClientAssumption DEF TypeInv, Typed
    <3>2. PICK u : u = hashUpid[Upload]
      OBVIOUS
    <3> QED
      BY <1>3, <2>1, <3>1, <3>2 DEF HashOpened, Opened
  <2>2. CASE /\ req[w].pc = "i_sethash"
             /\ hashUpid' = [hashUpid EXCEPT ![Upload] = req[w].upid]
    <3>1. req[w].upid \in UploadIds /\ Opened(req[w].upid)
      BY <2>2 DEF TypeInv, RequestOK, UpidPCs, InitPCs, PartPCs, OpeningOK, OpeningPCs
    <3>2. PICK u \in UploadIds : u = req[w].upid
      BY <3>1
    <3>3. hashUpid'[Upload] = u
      BY <2>2, <3>2, ClientAssumption DEF TypeInv, Typed
    <3> QED
      BY <1>3, <3>1, <3>2, <3>3 DEF HashOpened, Opened
  <2> QED
    BY <1>1, <2>1, <2>2, InitStores
<1>6. OpeningOK'
  <2>1. \A v \in Workers \ {w} : req'[v].pc \notin {"i_list"} \cup OpeningPCs
    BY <1>2 DEF OpeningPCs
  <2>2. /\ req'[w].pc \in OpeningPCs => mp'[req'[w].upid].flags = {}
        /\ req'[w].pc \in {"i_list"} \cup (OpeningPCs \ {"i_count"}) =>
             mp'[req'[w].upid].count = ChunkCount[Upload]
    BY <1>1, OpeningMoves
  <2> QED
    BY <2>1, <2>2 DEF OpeningOK, Opened
<1>7. SendingOK'
  <2>1. \A v \in Workers : req'[v].pc \notin PartPCs
    BY <1>2 DEF InitPCs, PartPCs
  <2>2. SUFFICES ASSUME client'.phase = "parts"
                 PROVE  /\ mp'[client'.upid].count = ChunkCount[Upload]
                        /\ client'.todo \cap mp'[client'.upid].flags = {}
    BY <2>1 DEF SendingOK, Opened
  <2>3. client' = Hears(w)
    BY <1>1, <2>2
  <2>4. PICK u \in UploadIds : u = client'.upid /\ Opened(u) /\ client'.todo \cap mp[u].flags = {}
    BY <1>1, <2>2, <2>3, OpeningHeard
  <2> QED
    BY <1>3, <2>4 DEF Opened
<1>8. MergingOK' /\ EmptiedOK'
  BY <1>2 DEF MergingOK, EmptiedOK, InitPCs
<1> QED
  BY <1>4, <1>5, <1>6, <1>7, <1>8

--------------------------------------------------------------------------------
(* Parts: what is sent is not flagged, and what is flagged is good *)

\* A part step writes its own chunk alone, and flags it once it is good.
LEMMA PartStores ==
  ASSUME DeclaresChunk, TypeInv, NEW w \in Workers, PartStep(w),
         NEW u \in UploadIds, u = req[w].upid, NEW i \in Index, i = req[w].index,
         req[w].pc = "p_flag" => chunk[u][i] = "good"
  PROVE  /\ UNCHANGED <<hashUpid, merged, fileOf>>
         /\ \A t \in UploadIds : Opened(t) => Opened(t)'
         /\ \A t \in UploadIds : mp'[t].flags = mp[t].flags
              \/ (t = u /\ req[w].pc = "p_flag" /\ mp'[t].flags = mp[t].flags \cup {i})
         /\ \A t \in UploadIds, j \in Index :
              chunk'[t][j] = chunk[t][j] \/ (t = u /\ j = i /\ req[w].pc = "p_write")
         /\ \/ /\ req'[w].pc \in PartPCs /\ (req'[w].pc = "p_flag" => chunk'[u][i] = "good")
               /\ req'[w].upid = u /\ req'[w].index = i
               /\ UNCHANGED mp
            \/ req'[w].pc = "idle"
<1> USE DEF Opened, redis, PartPCs
<1>1. CASE PartCopy(w)
  <2>1. /\ req[w].pc = "p_write" /\ UNCHANGED <<hashUpid, mp, merged, fileOf, req>>
        /\ chunk' = [chunk EXCEPT ![u][i] = "bad"]
    BY <1>1 DEF PartCopy
  <2> QED
    BY <2>1 DEF TypeInv, Typed
<1>2. CASE PartWrite(w)
  <2>1. PICK got : chunk' = [chunk EXCEPT ![u][i] = got]
    BY <1>2 DEF PartWrite
  <2>2. req[w].pc = "p_write" /\ UNCHANGED <<hashUpid, mp, merged, fileOf>>
    BY <1>2 DEF PartWrite
  <2>3. req'[w].pc = "p_verify" /\ req'[w].upid = u /\ req'[w].index = i
    BY <1>2, GotoKeeps DEF PartWrite
  <2> QED
    BY <2>1, <2>2, <2>3 DEF TypeInv, Typed
<1>3. CASE PartVerify(w)
  <2>1. UNCHANGED <<hashUpid, mp, chunk, merged, fileOf>>
    BY <1>3 DEF PartVerify
  <2>2. CASE Goto(w, "p_flag")
    <3>1. req'[w].pc = "p_flag" /\ req'[w].upid = u /\ req'[w].index = i
      BY <2>2, GotoKeeps
    <3>2. chunk[u][i] = "good"
      BY <1>3, <3>1 DEF PartVerify, DeclaresChunk
    <3> QED
      BY <2>1, <3>1, <3>2
  <2>3. CASE Answer(w)
    BY <2>1, <2>3, AnswerIdles
  <2> QED
    BY <1>3, <2>2, <2>3 DEF PartVerify
<1>4. CASE PartFlag(w)
  <2>1. /\ req[w].pc = "p_flag" /\ UNCHANGED <<hashUpid, chunk, merged, fileOf>>
        /\ req'[w].pc = "idle"
        /\ UNCHANGED mp \/ mp' = [mp EXCEPT ![u] = HSetFlag(@, i)]
    BY <1>4, AnswerIdles DEF PartFlag
  <2>2. CASE mp' = [mp EXCEPT ![u] = HSetFlag(@, i)]
    <3>1. \A t \in UploadIds : mp'[t].count = mp[t].count
      BY <2>2 DEF HSetFlag, TypeInv, Typed, Session
    <3>2. \A t \in UploadIds : mp'[t].flags = mp[t].flags
                                 \/ (t = u /\ mp'[t].flags = mp[t].flags \cup {i})
      BY <2>2 DEF HSetFlag, TypeInv, Typed, Session
    <3> QED
      BY <2>1, <3>1, <3>2
  <2> QED
    BY <2>1, <2>2
<1> QED
  BY <1>1, <1>2, <1>3, <1>4 DEF PartStep

\* No part, no init and no completion: what SessionInv says of them is empty.
LEMMA OnlyParts ==
  ASSUME \A v \in Workers : req[v].pc \in {"idle"} \cup PartPCs
  PROVE  OpeningOK /\ MergingOK /\ EmptiedOK
BY DEF OpeningOK, OpeningPCs, MergingOK, EmptiedOK, PartPCs

LEMMA SessionPart ==
  ASSUME DeclaresChunk, TypeInv, ClientInv, SessionInv, NEW w \in Workers,
         Serve(w), client.phase = "parts"
  PROVE  SessionInv'
<1> USE DEF SessionInv
<1>1. /\ req[w].pc \in PartPCs /\ PartStep(w) /\ UNCHANGED client
      /\ \A v \in Workers : req[v].pc \in {"idle"} \cup PartPCs
      /\ client.upid \in UploadIds /\ fileOf[client.upid] = Upload
  BY HandleIs DEF Serve, Hears, ClientInv, PhaseOK, Serving
<1>2. /\ req'[w].pc \in {"idle"} \cup PartPCs
      /\ \A v \in Workers \ {w} : req'[v] = req[v]
  BY <1>1, PartStepIs
<1>3. PICK u \in UploadIds : u = client.upid
  BY <1>1
<1>4. PICK i \in Index : i = req[w].index
  BY <1>1 DEF TypeInv, RequestOK
<1>5. /\ req[w].upid = u /\ i \in Indexes(Upload)
      /\ i \notin client.todo \cup mp[u].flags
      /\ req[w].pc = "p_flag" => chunk[u][i] = "good"
      /\ \A v \in Workers : req[v].pc \in PartPCs /\ req[v].index = i => v = w
  BY <1>1, <1>3, <1>4 DEF SendingOK
<1>6. /\ UNCHANGED <<hashUpid, merged, fileOf>>
      /\ \A t \in UploadIds : Opened(t) => Opened(t)'
      /\ \A t \in UploadIds : mp'[t].flags = mp[t].flags
           \/ (t = u /\ req[w].pc = "p_flag" /\ mp'[t].flags = mp[t].flags \cup {i})
      /\ \A t \in UploadIds, j \in Index :
           chunk'[t][j] = chunk[t][j] \/ (t = u /\ j = i /\ req[w].pc = "p_write")
      /\ \/ /\ req'[w].pc \in PartPCs /\ (req'[w].pc = "p_flag" => chunk'[u][i] = "good")
            /\ req'[w].upid = u /\ req'[w].index = i
            /\ UNCHANGED mp
         \/ req'[w].pc = "idle"
  BY <1>1, <1>3, <1>4, <1>5, PartStores
<1>7. \A t \in UploadIds : mp[t].flags \subseteq Index
  BY DEF TypeInv, Typed, Session
<1>8. FlagsGood'
  BY <1>5, <1>6, <1>7 DEF FlagsGood
<1>9. OwnChunks'
  BY <1>5, <1>6 DEF OwnChunks
<1>10. FlaggedIsUsed'
  BY <1>1, <1>3, <1>6, NoneAssumption, ClientAssumption DEF FlaggedIsUsed
<1>11. HashOpened'
  <2>1. PICK h : h = hashUpid[Upload]
    OBVIOUS
  <2>2. h # None => h \in UploadIds
    BY <2>1, ClientAssumption DEF TypeInv, Typed
  <2> QED
    BY <1>6, <2>1, <2>2 DEF HashOpened, Opened
<1>12. OpeningOK' /\ MergingOK' /\ EmptiedOK'
  BY <1>1, <1>2, OnlyParts DEF OpeningOK, OpeningPCs, MergingOK, EmptiedOK, PartPCs
<1>13. SendingOK'
  <2>1. Opened(u)' /\ Opened(u)
    BY <1>1, <1>3, <1>6 DEF SendingOK, Opened
  <2>2. client.todo \cap mp'[u].flags = {}
    BY <1>1, <1>3, <1>5, <1>6 DEF SendingOK
  <2>3. ASSUME NEW v \in Workers, req'[v].pc \in PartPCs
        PROVE  /\ req'[v].upid = u
               /\ req'[v].index \in Indexes(Upload)
               /\ req'[v].index \notin client.todo \cup mp'[u].flags
               /\ req'[v].pc = "p_flag" => chunk'[u][req'[v].index] = "good"
               /\ \A x \in Workers : req'[x].pc \in PartPCs /\ req'[x].index = req'[v].index
                                       => x = v
    <3>1. CASE v = w
      BY <1>2, <1>5, <1>6, <2>3, <3>1 DEF PartPCs
    <3>2. CASE v # w
      <4>1. /\ req'[v] = req[v] /\ req[v].pc \in PartPCs /\ req[v].index \in Index
        BY <1>2, <2>3, <3>2 DEF TypeInv, RequestOK
      <4>2. /\ req[v].upid = u /\ req[v].index \in Indexes(Upload) /\ req[v].index # i
            /\ req[v].index \notin client.todo \cup mp[u].flags
            /\ req[v].pc = "p_flag" => chunk[u][req[v].index] = "good"
            /\ \A x \in Workers : req[x].pc \in PartPCs /\ req[x].index = req[v].index
                                    => x = v
        BY <1>1, <1>3, <1>5, <3>2, <4>1 DEF SendingOK
      <4> QED
        BY <1>1, <1>2, <1>6, <3>2, <4>1, <4>2 DEF PartPCs
    <3> QED
      BY <3>1, <3>2
  <2> QED
    BY <1>1, <1>3, <2>1, <2>2, <2>3 DEF SendingOK, Opened
<1> QED
  BY <1>8, <1>9, <1>10, <1>11, <1>12, <1>13

--------------------------------------------------------------------------------
(* Completions: a merge finds and appends every chunk *)

LEMMA GotoMergeIs ==
  ASSUME TypeInv, NEW w \in Workers, NEW S \in SUBSET Index, GotoMerge(w, S)
  PROVE  /\ req'[w].pc = IF S = {} THEN "m_verify" ELSE "m_cat"
         /\ req'[w].upid = req[w].upid
         /\ req'[w].chunks = S
<1> DEFINE q == [req[w] EXCEPT !.pc = IF S = {} THEN "m_verify" ELSE "m_cat", !.chunks = S]
<1>1. req'[w] = q
  BY DEF GotoMerge, TypeInv, Typed
<1>2. /\ q.pc = IF S = {} THEN "m_verify" ELSE "m_cat"
      /\ q.upid = req[w].upid /\ q.chunks = S
  BY DEF TypeInv, Typed, Request
<1> QED
  BY <1>1, <1>2

\* The first n chunks and the next are the first n + 1.
LEMMA AppendNext ==
  ASSUME NEW n \in Nat
  PROVE  [i \in 1..n |-> i] \o <<n + 1>> = [i \in 1..n + 1 |-> i]
<1> DEFINE s == [i \in 1..n |-> i]
           t == [i \in 1..n + 1 |-> i]
<1>1. s \in Seq(Nat) /\ Len(s) = n /\ t \in Seq(Nat) /\ Len(t) = n + 1
  OBVIOUS
<1>2. s \o <<n + 1>> \in Seq(Nat) /\ Len(s \o <<n + 1>>) = n + 1
  BY <1>1
<1>3. ASSUME NEW i \in 1..n + 1
      PROVE  (s \o <<n + 1>>)[i] = t[i]
  BY <1>1
<1> HIDE DEF s, t
<1> QED
  BY <1>1, <1>2, <1>3

\* What MergingOK says of one request.
MergesWell(w) ==
  /\ req[w].pc \in {"m_start", "m_cat"} => AllGood(req[w].upid)
  /\ req[w].pc = "m_cat" => \E n \in Nat :
       Appended(n) /\ req[w].chunks = n + 1..ChunkCount[Upload]
  /\ req[w].pc = "m_verify" => Whole

LEMMA MergeStartsWell ==
  ASSUME TypeInv, NEW w \in Workers, req[w].file = Upload, OwnChunks, MergesWell(w),
         MergeStart(w)
  PROVE  MergesWell(w)' /\ req'[w].pc = "m_cat" /\ UNCHANGED <<hashUpid, mp, chunk, fileOf>>
<1> DEFINE S == {i \in Index : chunk[req[w].upid][i] # "none"}
<1>1. /\ UNCHANGED <<hashUpid, mp, chunk, fileOf>> /\ GotoMerge(w, S)
      /\ merged' = [merged EXCEPT ![Upload] = <<>>] /\ req[w].pc = "m_start"
  BY DEF MergeStart, redis
<1>2. AllGood(req[w].upid) /\ req[w].upid \in UploadIds
  BY <1>1 DEF MergesWell, TypeInv, RequestOK, UpidPCs, MergePCs
<1>3. ChunkCount[Upload] \in Nat \ {0}
  BY ChunkCountAssumption, ClientAssumption
<1>4. S = 1..ChunkCount[Upload]
  <2>1. Indexes(Upload) \subseteq Index
    BY ClientAssumption DEF Index
  <2> QED
    BY <1>2, <2>1 DEF AllGood, OwnChunks, Indexes
<1>5. S \in SUBSET Index
  OBVIOUS
<1> HIDE DEF S
<1>6. /\ req'[w].pc = "m_cat" /\ req'[w].upid = req[w].upid
      /\ req'[w].chunks = 0 + 1..ChunkCount[Upload]
  <2>1. S # {} /\ S = 0 + 1..ChunkCount[Upload]
    BY <1>3, <1>4
  <2>2. /\ req'[w].pc = IF S = {} THEN "m_verify" ELSE "m_cat"
        /\ req'[w].upid = req[w].upid /\ req'[w].chunks = S
    BY <1>1, <1>5, GotoMergeIs
  <2> QED
    BY <2>1, <2>2
<1>7. Appended(0)'
  <2>1. merged'[Upload] = <<>>
    BY <1>1, ClientAssumption DEF TypeInv, Typed
  <2>2. <<>> = [i \in 1..0 |-> i]
    OBVIOUS
  <2> QED
    BY <1>3, <2>1, <2>2 DEF Appended
<1> QED
  BY <1>1, <1>2, <1>6, <1>7 DEF MergesWell, AllGood

LEMMA MergeGoesWell ==
  ASSUME TypeInv, NEW w \in Workers, req[w].file = Upload, MergesWell(w),
         NEW i \in Index, MergeCat(w, i)
  PROVE  /\ MergesWell(w)' /\ req'[w].pc \in {"m_cat", "m_verify"}
         /\ UNCHANGED <<hashUpid, mp, chunk, fileOf>>
<1> DEFINE S == req[w].chunks \ {i}
           c == ChunkCount[Upload]
<1>1. /\ UNCHANGED <<hashUpid, mp, chunk, fileOf>> /\ GotoMerge(w, S)
      /\ req[w].pc = "m_cat" /\ i \in req[w].chunks /\ \A j \in req[w].chunks : i <= j
      /\ merged' = [merged EXCEPT ![Upload] =
                      merged[Upload] \o Bytes(chunk[req[w].upid][i], i)]
  BY DEF MergeCat, redis
<1>2. AllGood(req[w].upid)
  BY <1>1 DEF MergesWell
<1>3. PICK n \in Nat : Appended(n) /\ req[w].chunks = n + 1..c
  BY <1>1 DEF MergesWell
<1>4. c \in Nat \ {0} /\ n + 1 <= c
  BY <1>3, ChunkCountAssumption, ClientAssumption DEF Appended
<1>5. i = n + 1 /\ S = n + 2..c /\ i \in Indexes(Upload)
  <2>1. n + 1 \in req[w].chunks /\ i \in n + 1..c
    BY <1>1, <1>3, <1>4
  <2>2. i = n + 1
    BY <1>1, <2>1
  <2> QED
    BY <1>3, <1>4, <2>2 DEF Indexes
<1>6. merged'[Upload] = [j \in 1..n + 1 |-> j]
  <2>1. Bytes(chunk[req[w].upid][i], i) = <<n + 1>>
    BY <1>2, <1>5 DEF AllGood, Bytes
  <2>2. merged'[Upload] = merged[Upload] \o <<n + 1>>
    BY <1>1, <2>1, ClientAssumption DEF TypeInv, Typed
  <2> QED
    BY <1>3, <2>2, AppendNext DEF Appended
<1>7. /\ req'[w].pc = (IF S = {} THEN "m_verify" ELSE "m_cat")
      /\ req'[w].upid = req[w].upid /\ req'[w].chunks = S
  <2>1. S \in SUBSET Index
    BY DEF TypeInv, Typed, Request
  <2> HIDE DEF S
  <2> QED
    BY <1>1, <2>1, GotoMergeIs
<1>8. CASE n + 1 = c
  <2>1. S = {}
    BY <1>4, <1>5, <1>8
  <2>2. Whole'
    BY <1>6, <1>8 DEF Whole, Content, Indexes
  <2> QED
    BY <1>1, <1>7, <2>1, <2>2 DEF MergesWell
<1>9. CASE n + 1 # c
  <2>1. n + 2 \in S /\ n + 1 \in 0..c - 1
    BY <1>4, <1>5, <1>9
  <2>2. Appended(n + 1)'
    BY <1>6, <2>1 DEF Appended
  <2>3. req'[w].pc = "m_cat" /\ req'[w].chunks = (n + 1) + 1..c
    BY <1>5, <1>7, <2>1
  <2>4. AllGood(req[w].upid)'
    BY <1>1, <1>2, <1>7 DEF AllGood
  <2>5. n + 1 \in Nat
    OBVIOUS
  <2> QED
    BY <1>1, <2>2, <2>3, <2>4, <2>5 DEF MergesWell
<1> QED
  BY <1>8, <1>9

\* Past the comparison the key, the session and the chunks go, in this order.
LEMMA RecorderStores ==
  ASSUME TypeInv, EmptiedOK, NEW w \in Workers, Recorder(w), req[w].file = Upload,
         NEW u \in UploadIds, u = req[w].upid
  PROVE  /\ UNCHANGED <<merged, fileOf>>
         /\ req'[w].pc \in {"idle"} \cup RecordPCs
         /\ req'[w].pc # "idle" => req'[w].upid = u
         /\ \A t \in UploadIds \ {u} : mp'[t] = mp[t] /\ chunk'[t] = chunk[t]
         /\ \/ UNCHANGED <<hashUpid, mp, chunk>> /\ req'[w].pc \in {"c_user", "c_delhash"}
            \/ hashUpid'[Upload] = None /\ UNCHANGED <<mp, chunk>> /\ req'[w].pc = "c_delmp"
            \/ /\ hashUpid[Upload] = None /\ UNCHANGED <<hashUpid, chunk>>
               /\ mp'[u].flags = {} /\ req'[w].pc \in {"c_reply", "idle"}
            \/ /\ mp[u].flags = {} /\ UNCHANGED <<hashUpid, mp>> /\ req'[w].pc = "idle"
               /\ \A i \in Index : chunk'[u][i] \in {chunk[u][i], "none"}
<1> USE DEF RecordPCs, redis
<1>1. CASE CompleteFile(w)
  BY <1>1, GotoKeeps DEF CompleteFile
<1>2. CASE CompleteUser(w)
  BY <1>2, GotoKeeps DEF CompleteUser
<1>3. CASE CompleteDelHash(w)
  <2>1. hashUpid'[Upload] = None
    BY <1>3, ClientAssumption DEF CompleteDelHash, TypeInv, Typed
  <2> QED
    BY <1>3, <2>1, GotoKeeps DEF CompleteDelHash
<1>4. CASE CompleteDelMp(w)
  <2>1. /\ req[w].pc = "c_delmp" /\ UNCHANGED <<hashUpid, chunk, merged, fileOf>>
        /\ mp' = [mp EXCEPT ![u] = NoSession]
        /\ Goto(w, "c_reply") \/ Answer(w)
    BY <1>4 DEF CompleteDelMp
  <2>2. hashUpid[Upload] = None
    BY <2>1 DEF EmptiedOK
  <2>3. mp'[u].flags = {} /\ \A t \in UploadIds \ {u} : mp'[t] = mp[t]
    BY <2>1 DEF NoSession, TypeInv, Typed
  <2>4. req'[w].pc \in {"c_reply", "idle"} /\ (req'[w].pc # "idle" => req'[w].upid = u)
    BY <2>1, GotoKeeps, AnswerIdles
  <2> QED
    BY <2>1, <2>2, <2>3, <2>4
<1>5. CASE CompleteReply(w)
  <2>1. /\ req[w].pc = "c_reply" /\ UNCHANGED <<hashUpid, mp, merged, fileOf>>
        /\ RemovePathByShell(u) /\ req'[w].pc = "idle"
    BY <1>5, AnswerIdles DEF CompleteReply
  <2>2. mp[u].flags = {}
    BY <2>1 DEF EmptiedOK
  <2>3. /\ \A t \in UploadIds \ {u} : chunk'[t] = chunk[t]
        /\ \A i \in Index : chunk'[u][i] \in {chunk[u][i], "none"}
    BY <2>1 DEF RemovePathByShell, TypeInv, Typed
  <2> QED
    BY <2>1, <2>2, <2>3
<1> QED
  BY <1>1, <1>2, <1>3, <1>4, <1>5 DEF Recorder

\* A completion leaves the sessions and the chunks of all others alone, and its
\* own session without flags once it has touched it.
LEMMA SessionComplete ==
  ASSUME TypeInv, ClientInv, SessionInv, NEW w \in Workers, Serve(w),
         client.phase = "complete"
  PROVE  SessionInv'
<1> USE DEF SessionInv
<1>1. /\ req[w].pc \in MergePCs \cup RecordPCs /\ CompleteStep(w)
      /\ req[w].file = Upload /\ Alone(w)
      /\ client' = IF req'[w].pc = "idle" THEN Hears(w) ELSE client
  BY HandleIs DEF Serve, ClientInv, PhaseOK
<1>2. /\ req'[w].pc \in {"idle"} \cup MergePCs \cup RecordPCs
      /\ \A v \in Workers \ {w} : req'[v].pc = "idle"
  BY <1>1, CompleteStepIs DEF Alone, Serving
<1>3. PICK u \in UploadIds : u = req[w].upid
  BY <1>1 DEF TypeInv, RequestOK, UpidPCs
<1>4. OpeningOK'
  BY <1>2 DEF OpeningOK, OpeningPCs, MergePCs, RecordPCs
<1>5. SendingOK'
  <2>1. client'.phase # "parts"
    BY <1>1, ClientRuns DEF Hears
  <2> QED
    BY <2>1 DEF SendingOK
<1>6. MergingOK = (\A v \in Workers : MergesWell(v)) /\ MergingOK' = (\A v \in Workers : MergesWell(v)')
  BY DEF MergingOK, MergesWell
<1>7. \A v \in Workers \ {w} : MergesWell(v)'
  BY <1>2 DEF MergesWell
<1>8. CASE MergeStart(w) \/ MergeVerify(w) \/ \E i \in Index : MergeCat(w, i)
  <2>1. /\ MergesWell(w)' /\ req'[w].pc \in {"m_cat", "m_verify", "c_file", "idle"}
        /\ UNCHANGED <<hashUpid, mp, chunk, fileOf>>
    <3>1. CASE MergeStart(w) \/ \E i \in Index : MergeCat(w, i)
      BY <1>1, <1>6, <3>1, MergeStartsWell, MergeGoesWell
    <3>2. CASE MergeVerify(w)
      BY <3>2, GotoKeeps, AnswerIdles DEF MergeVerify, MergesWell, redis
    <3> QED
      BY <1>8, <3>1, <3>2
  <2>2. MergingOK'
    BY <1>6, <1>7, <2>1
  <2>3. EmptiedOK'
    BY <1>2, <2>1 DEF EmptiedOK
  <2>4. FlagsGood' /\ OwnChunks' /\ FlaggedIsUsed' /\ HashOpened'
    BY <2>1 DEF FlagsGood, OwnChunks, FlaggedIsUsed, HashOpened, Opened
  <2> QED
    BY <1>4, <1>5, <2>2, <2>3, <2>4
<1>9. CASE Recorder(w)
  <2>1. /\ UNCHANGED <<merged, fileOf>>
        /\ req'[w].pc \in {"idle"} \cup RecordPCs
        /\ req'[w].pc # "idle" => req'[w].upid = u
        /\ \A t \in UploadIds \ {u} : mp'[t] = mp[t] /\ chunk'[t] = chunk[t]
        /\ \/ UNCHANGED <<hashUpid, mp, chunk>> /\ req'[w].pc \in {"c_user", "c_delhash"}
           \/ hashUpid'[Upload] = None /\ UNCHANGED <<mp, chunk>> /\ req'[w].pc = "c_delmp"
           \/ /\ hashUpid[Upload] = None /\ UNCHANGED <<hashUpid, chunk>>
              /\ mp'[u].flags = {} /\ req'[w].pc \in {"c_reply", "idle"}
           \/ /\ mp[u].flags = {} /\ UNCHANGED <<hashUpid, mp>> /\ req'[w].pc = "idle"
              /\ \A i \in Index : chunk'[u][i] \in {chunk[u][i], "none"}
    BY <1>1, <1>3, <1>9, RecorderStores
  <2>2. MergingOK'
    BY <1>6, <1>7, <2>1 DEF MergesWell, RecordPCs
  <2>3. EmptiedOK'
    BY <1>2, <2>1 DEF EmptiedOK
  <2>4. FlagsGood' /\ FlaggedIsUsed'
    BY <2>1 DEF FlagsGood, FlaggedIsUsed
  <2>5. OwnChunks'
    BY <2>1 DEF OwnChunks
  <2>6. HashOpened'
    BY <2>1 DEF HashOpened, Opened
  <2> QED
    BY <1>4, <1>5, <2>2, <2>3, <2>4, <2>5, <2>6
<1> QED
  BY <1>1, <1>8, <1>9 DEF CompleteStep, Recorder

--------------------------------------------------------------------------------
(* The client's own steps *)

\* The stores are as they were, and no request is beyond its first step.
LEMMA SessionKept ==
  ASSUME SessionInv, UNCHANGED <<redis, chunk, merged, fileOf>>,
         client'.phase # "parts",
         \A w \in Workers : req'[w].pc \in {"idle", "i_exists"}
  PROVE  SessionInv'
<1>1. UNCHANGED <<hashUpid, mp>>
  BY DEF redis
<1>2. (FlagsGood /\ OwnChunks /\ FlaggedIsUsed /\ HashOpened)'
  BY <1>1 DEF SessionInv, FlagsGood, OwnChunks, FlaggedIsUsed, HashOpened, Opened
<1>3. (OpeningOK /\ SendingOK /\ MergingOK /\ EmptiedOK)'
  BY DEF OpeningOK, OpeningPCs, SendingOK, MergingOK, EmptiedOK
<1> QED
  BY <1>2, <1>3 DEF SessionInv

LEMMA SessionSend ==
  ASSUME TypeInv, ClientInv, SessionInv, NEW w \in Workers, SendPart(w)
  PROVE  SessionInv'
<1> USE DEF SessionInv
<1>1. PICK i \in client.todo :
        /\ StartPart(w, client.upid, i)
        /\ client' = [client EXCEPT !.todo = @ \ {i}]
  BY DEF SendPart
<1>2. /\ client.phase = "parts" /\ i \in Indexes(Upload)
      /\ \A v \in Workers : req[v].pc \in {"idle"} \cup PartPCs
  BY <1>1 DEF SendPart, ClientInv, ClientTypeOK, PhaseOK, Serving
<1>3. PICK u \in UploadIds : u = client.upid /\ fileOf[u] = Upload
  BY <1>2 DEF ClientInv, PhaseOK
<1>4. /\ UNCHANGED <<hashUpid, mp, merged, fileOf>>
      /\ chunk' = [chunk EXCEPT ![u][i] = "empty"]
      /\ req[w].pc = "idle"
  BY <1>1, <1>3 DEF StartPart, redis
<1>5. /\ req'[w].pc = "p_write" /\ req'[w].upid = u /\ req'[w].index = i
      /\ \A v \in Workers \ {w} : req'[v] = req[v]
  BY <1>1, <1>3 DEF StartPart, Idle, TypeInv, Typed
<1>6. /\ client'.phase = "parts" /\ client'.upid = u
      /\ client'.todo = client.todo \ {i}
  BY <1>1, <1>2, <1>3 DEF ClientInv, ClientTypeOK
<1>7. i \notin mp[u].flags /\ \A v \in Workers : req[v].pc \in PartPCs => req[v].index # i
  BY <1>2, <1>3 DEF SendingOK
<1>8. \A t \in UploadIds, j \in Index :
        chunk'[t][j] = chunk[t][j] \/ (t = u /\ j = i)
  BY <1>4 DEF TypeInv, Typed
<1>9. FlagsGood' /\ OwnChunks' /\ FlaggedIsUsed' /\ HashOpened'
  <2>1. \A t \in UploadIds : mp[t].flags \subseteq Index
    BY DEF TypeInv, Typed, Session
  <2>2. FlagsGood'
    BY <1>4, <1>7, <1>8, <2>1 DEF FlagsGood
  <2>3. OwnChunks'
    BY <1>2, <1>8 DEF OwnChunks
  <2>4. FlaggedIsUsed' /\ HashOpened'
    BY <1>4 DEF FlaggedIsUsed, HashOpened, Opened
  <2> QED
    BY <2>2, <2>3, <2>4
<1>10. OpeningOK' /\ MergingOK' /\ EmptiedOK'
  BY <1>2, <1>5 DEF OpeningOK, OpeningPCs, MergingOK, EmptiedOK, PartPCs
<1>11. SendingOK'
  <2>1. Opened(u) /\ client.todo \cap mp[u].flags = {}
    BY <1>2, <1>3 DEF SendingOK
  <2>2. ASSUME NEW v \in Workers, req'[v].pc \in PartPCs
        PROVE  /\ req'[v].upid = u
               /\ req'[v].index \in Indexes(Upload)
               /\ req'[v].index \notin client'.todo \cup mp[u].flags
               /\ req'[v].pc = "p_flag" => chunk'[u][req'[v].index] = "good"
               /\ \A x \in Workers : req'[x].pc \in PartPCs /\ req'[x].index = req'[v].index
                                       => x = v
    <3>1. CASE v = w
      BY <1>2, <1>5, <1>6, <1>7, <3>1
    <3>2. CASE v # w
      <4>1. req'[v] = req[v] /\ req[v].pc \in PartPCs /\ req[v].index \in Index
        BY <1>5, <2>2, <3>2 DEF TypeInv, RequestOK
      <4>2. /\ req[v].upid = u /\ req[v].index \in Indexes(Upload) /\ req[v].index # i
            /\ req[v].index \notin client.todo \cup mp[u].flags
            /\ req[v].pc = "p_flag" => chunk[u][req[v].index] = "good"
            /\ \A x \in Workers : req[x].pc \in PartPCs /\ req[x].index = req[v].index
                                    => x = v
        BY <1>2, <1>3, <1>7, <4>1 DEF SendingOK
      <4> QED
        BY <1>5, <1>6, <1>8, <4>1, <4>2
    <3> QED
      BY <3>1, <3>2
  <2>3. /\ Opened(u)' /\ client'.todo \cap mp'[u].flags = {}
    BY <1>4, <1>6, <2>1 DEF Opened
  <2> QED
    BY <1>4, <1>6, <2>2, <2>3 DEF SendingOK, Opened
<1> QED
  BY <1>9, <1>10, <1>11

\* As many numbers up to n as there are, are all of them.
LEMMA AllOfThem ==
  ASSUME NEW n \in Nat, NEW S \in SUBSET (1..n), Cardinality(S) = n
  PROVE  S = 1..n
<1>1. IsFiniteSet(1..n) /\ Cardinality(1..n) = n
  BY FS_Interval
<1> QED
  BY <1>1, FS_Subset

\* A completion that is let through finds every chunk of the file good.
LEMMA SessionFinish ==
  ASSUME TypeInv, ClientInv, SessionInv, NEW w \in Workers, SendComplete(w)
  PROVE  SessionInv'
<1> USE DEF SessionInv
<1>1. /\ client.phase = "parts" /\ \A v \in Workers : req[v].pc = "idle"
      /\ client'.phase = "complete"
      /\ StartComplete(w, Uploader, client.upid)
  BY DEF SendComplete, AllAnswered, ClientInv, ClientTypeOK
<1>2. PICK u \in UploadIds : u = client.upid
  BY <1>1 DEF ClientInv, PhaseOK
<1>3. UNCHANGED <<hashUpid, mp, chunk, merged, fileOf>> /\ AllFlagged(mp[u])
  BY <1>1, <1>2 DEF StartComplete, redis
<1>4. /\ req'[w].pc = "m_start" /\ req'[w].upid = u
      /\ \A v \in Workers \ {w} : req'[v].pc = "idle"
  BY <1>1, <1>2 DEF StartComplete, Idle, TypeInv, Typed
<1>5. AllGood(u)
  <2>1. mp[u].flags \subseteq Indexes(Upload)
    BY DEF FlagsGood, OwnChunks, TypeInv, Typed, Session
  <2>2. Cardinality(mp[u].flags) = ChunkCount[Upload]
    BY <1>1, <1>2, <1>3 DEF AllFlagged, SendingOK, Opened
  <2>3. ChunkCount[Upload] \in Nat
    BY ChunkCountAssumption, ClientAssumption
  <2>4. mp[u].flags = Indexes(Upload)
    BY <2>1, <2>2, <2>3, AllOfThem DEF Indexes
  <2> QED
    BY <2>4 DEF FlagsGood, AllGood
<1>6. FlagsGood' /\ OwnChunks' /\ FlaggedIsUsed' /\ HashOpened'
  BY <1>3 DEF FlagsGood, OwnChunks, FlaggedIsUsed, HashOpened, Opened
<1>7. OpeningOK' /\ SendingOK' /\ EmptiedOK'
  BY <1>1, <1>4 DEF OpeningOK, OpeningPCs, SendingOK, EmptiedOK
<1>8. MergingOK'
  BY <1>3, <1>4, <1>5 DEF MergingOK, AllGood
<1> QED
  BY <1>6, <1>7, <1>8

LEMMA SessionStart == ClientInit => SessionInv
<1> SUFFICES ASSUME ClientInit PROVE SessionInv
  OBVIOUS
<1>1. /\ \A w \in Workers : req[w].pc = "idle"
      /\ client.phase = "rerun" /\ hashUpid[Upload] = None
      /\ \A u \in UploadIds : mp[u].flags = {} /\ \A i \in Index : chunk[u][i] = "none"
  BY ClientRuns, ClientAssumption DEF ClientInit, Init, Idle, NoSession
<1> QED
  BY <1>1 DEF SessionInv, FlagsGood, OwnChunks, FlaggedIsUsed, HashOpened, OpeningOK,
              OpeningPCs, SendingOK, MergingOK, EmptiedOK, PartPCs

LEMMA SessionNext ==
  ASSUME [DeclaresChunk]_vars, TypeInv, ClientInv, SessionInv, [ClientNext]_all
  PROVE  SessionInv'
<1>0. DeclaresChunk
  BY DEF vars, DeclaresChunk
<1>1. ASSUME NEW w \in Workers, Serve(w)
      PROVE  SessionInv'
  <2>1. client.phase \in {"init", "parts", "complete"}
    BY <1>1, HandleIs DEF Serve, ClientInv, ClientTypeOK, PhaseOK, Phases
  <2> QED
    BY <1>0, <1>1, <2>1, SessionInit, SessionPart, SessionComplete
<1>2. ASSUME NEW w \in Workers, RunAgain(w)
      PROVE  SessionInv'
  <2>1. /\ StartInit(w, Uploader, Upload) /\ client'.phase = "init"
        /\ \A v \in Workers : req[v].pc = "idle"
    BY <1>2 DEF RunAgain, ClientInv, ClientTypeOK, PhaseOK, Serving
  <2>2. req'[w].pc = "i_exists" /\ \A v \in Workers \ {w} : req'[v].pc = "idle"
    BY <2>1 DEF StartInit, Idle, TypeInv, Typed
  <2> QED
    BY <2>1, <2>2, SessionKept DEF StartInit
<1>3. CASE AlreadyStored
  <2>1. /\ client'.phase = "exists" /\ UNCHANGED <<redis, chunk, merged, fileOf, req>>
        /\ \A v \in Workers : req[v].pc = "idle"
    BY <1>3 DEF AlreadyStored, ClientInv, ClientTypeOK, PhaseOK, Serving, vars
  <2> QED
    BY <2>1, SessionKept
<1>4. CASE TooEarly
  <2>1. /\ client'.phase = "rerun" /\ UNCHANGED <<redis, chunk, merged, fileOf, req>>
        /\ \A v \in Workers : req[v].pc = "idle"
    BY <1>4, ClientRuns DEF TooEarly, AllAnswered, vars
  <2> QED
    BY <2>1, SessionKept
<1>5. CASE ServerCrash
  <2>1. /\ client'.phase = "rerun" /\ UNCHANGED <<redis, chunk, merged, fileOf>>
        /\ \A v \in Workers : req'[v].pc = "idle"
    BY <1>5, ClientRuns DEF ServerCrash, Crash, Idle
  <2> QED
    BY <2>1, SessionKept
<1>6. CASE UNCHANGED all
  <2>1. UNCHANGED <<hashUpid, mp, chunk, merged, fileOf, req, client>>
    BY <1>6 DEF all, vars, redis
  <2> QED
    BY <2>1 DEF SessionInv, FlagsGood, OwnChunks, FlaggedIsUsed, HashOpened, OpeningOK,
                SendingOK, MergingOK, EmptiedOK, Opened, AllGood, Appended, Whole
<1> QED
  BY <1>1, <1>2, <1>3, <1>4, <1>5, <1>6, SessionSend, SessionFinish
     DEF ClientNext, ClientStep

LEMMA SessionInvariant == ClientSpec /\ Declared => []SessionInv
<1>1. [DeclaresChunk]_vars /\ TypeInv /\ ClientInv /\ SessionInv /\ [ClientNext]_all
        => SessionInv'
  BY SessionNext
<1> QED
  BY <1>1, SessionStart, ClientInvariant, PTL DEF ClientSpec, Declared

--------------------------------------------------------------------------------
(* What the client may count on *)

\* A client that resumes may leave out what the server lists: what is flagged
\* is on disk and good (FlaggedChunkIsWhole of the runs), because a run sends no
\* chunk that is flagged and none twice.  Clients in general do not have this:
\* a run of MultipartUpload shows the property violated.
THEOREM FlaggedWhole == ClientSpec /\ Declared => []FlaggedChunkIsWhole
<1>1. SessionInv => FlaggedChunkIsWhole
  BY DEF SessionInv, FlagsGood, FlaggedChunkIsWhole
<1> QED
  BY <1>1, SessionInvariant, PTL

\* The completion of a resumed upload is never refused for what was merged
\* (ResumedMergeIsWhole of the runs): when the comparison comes, the merged file
\* is the upload, whatever runs, crashes and half-done merges came before.
THEOREM ResumedMergeWhole == ClientSpec /\ Declared => []ResumedMergeIsWhole
<1>1. SessionInv => ResumedMergeIsWhole
  BY DEF SessionInv, MergingOK, ResumedMergeIsWhole, Whole
<1> QED
  BY <1>1, SessionInvariant, PTL

\* Where the body of a part is copied whole or not at all there is nothing else
\* to declare.
LEMMA NothingElseDeclared ==
  ASSUME "bad" \notin Damage, TypeInv, ClientInv, [ClientNext]_all
  PROVE  DeclaresChunk
<1> SUFFICES ASSUME NEW v \in Workers, req[v].pc = "p_verify", req'[v].pc = "p_flag"
             PROVE  chunk[req[v].upid][req[v].index] = "good"
  BY DEF DeclaresChunk
<1>1. client.phase = "parts"
  BY DEF ClientInv, ClientTypeOK, PhaseOK, Phases, Serving, InitPCs, MergePCs, RecordPCs
<1>2. ASSUME NEW w \in Workers, Serve(w)
      PROVE  PartVerify(v)
  <2>1. req[w].pc \in PartPCs /\ PartStep(w)
    BY <1>1, <1>2, HandleIs DEF Serve, ClientInv, PhaseOK
  <2>2. w = v
    BY <2>1, PartStepIs
  <2> QED
    BY <2>1, <2>2 DEF PartStep, PartCopy, PartWrite, PartFlag
<1>3. ASSUME NEW w \in Workers, SendPart(w)
      PROVE  FALSE
  <2>1. req[w].pc = "idle" /\ \E q : req' = [req EXCEPT ![w] = q]
    BY <1>3 DEF SendPart, StartPart
  <2> QED
    BY <2>1, GivenIs, <1>3 DEF SendPart, StartPart, Idle, TypeInv, Typed
<1>4. /\ ~AlreadyStored /\ ~TooEarly /\ ~UNCHANGED all /\ ~ServerCrash
      /\ \A w \in Workers : ~RunAgain(w) /\ ~SendComplete(w)
  BY <1>1 DEF AlreadyStored, TooEarly, AllAnswered, ServerCrash, Crash, Idle, RunAgain,
              SendComplete, all, vars
<1>5. PartVerify(v)
  BY <1>2, <1>3, <1>4 DEF ClientNext, ClientStep
<1> QED
  BY <1>5, AnswerIdles DEF PartVerify

\* Where the body of a part is copied whole or not at all, as in the run, the two
\* theorems above hold of ClientSpec alone: what passes the comparison is good.
LEMMA WholeCopiesDeclare ==
  ASSUME "bad" \notin Damage
  PROVE  ClientSpec => Declared
<1>1. TypeInv /\ ClientInv /\ [ClientNext]_all => DeclaresChunk
  BY NothingElseDeclared
<1> QED
  BY <1>1, ClientInvariant, PTL DEF ClientSpec, Declared

--------------------------------------------------------------------------------
(* What was sent is not asked for again *)

\* An init that resumes holds the session under the key; one that writes a
\* session does so only if there is no other under the key.
HashHeld == \A w \in Workers :
  /\ req[w].pc = "i_list" => hashUpid[Upload] = req[w].upid
  /\ req[w].pc \in OpeningPCs => hashUpid[Upload] \in {None, req[w].upid}

LEMMA HeldMoves ==
  ASSUME TypeInv, HashHeld, NEW w \in Workers, InitStep(w), req[w].file = Upload
  PROVE  /\ req'[w].pc = "i_list" => hashUpid'[Upload] = req'[w].upid
         /\ req'[w].pc \in OpeningPCs => hashUpid'[Upload] \in {None, req'[w].upid}
<1> USE DEF OpeningPCs, redis
<1>1. CASE InitResume(w)
  BY <1>1, GotoKeeps DEF InitResume
<1>2. ASSUME NEW u \in UploadIds, InitFresh(w, u)
      PROVE  req'[w].pc = "i_count" /\ hashUpid'[Upload] = None
  BY <1>2 DEF InitFresh, GotoWith, TypeInv, Typed, Request
<1>3. ASSUME NEW u \in UploadIds, InitRefused(w, u)
      PROVE  req'[w].pc = "idle"
  BY <1>3, AnswerIdles DEF InitRefused, ReplyUpInfo
<1>4. CASE InitGet(w)
  <2>1. UNCHANGED hashUpid /\ (Answer(w) \/ GotoWith(w, "i_list", hashUpid[Upload]))
    BY <1>4 DEF InitGet
  <2>2. CASE Answer(w)
    BY <2>2, AnswerIdles
  <2>3. CASE GotoWith(w, "i_list", hashUpid[Upload])
    BY <2>1, <2>3 DEF GotoWith, TypeInv, Typed, Request
  <2> QED
    BY <2>1, <2>2, <2>3
<1>5. CASE InitList(w)
  <2>1. /\ UNCHANGED hashUpid /\ hashUpid[Upload] = req[w].upid
        /\ Goto(w, "i_count") \/ Answer(w)
    BY <1>5 DEF InitList, ReplyUpInfo, HashHeld
  <2> QED
    BY <2>1, GotoKeeps, AnswerIdles
<1>6. CASE InitCount(w) \/ InitMeta(w) \/ InitExpire(w)
  <2>1. UNCHANGED hashUpid /\ hashUpid[Upload] \in {None, req[w].upid}
    BY <1>6 DEF InitCount, InitMeta, InitExpire, HashHeld
  <2>2. req'[w].pc # "i_list" /\ req'[w].upid = req[w].upid
    BY <1>6, GotoKeeps DEF InitCount, InitMeta, InitExpire
  <2> QED
    BY <2>1, <2>2
<1>7. CASE InitSetHash(w)
  BY <1>7, AnswerIdles DEF InitSetHash, ReplyUpInfo
<1> QED
  BY <1>1, <1>2, <1>3, <1>4, <1>5, <1>6, <1>7 DEF InitStep

LEMMA HeldNext ==
  ASSUME TypeInv, ClientInv, HashHeld, [ClientNext]_all
  PROVE  HashHeld'
<1>1. ClientInv'
  BY ClientInvNext
<1>2. CASE client'.phase # "init"
  <2>1. \A v \in Workers : req'[v].pc \notin InitPCs
    BY <1>1, <1>2 DEF ClientInv, ClientTypeOK, PhaseOK, Phases, Serving,
                      InitPCs, PartPCs, MergePCs, RecordPCs
  <2> QED
    BY <2>1 DEF HashHeld, OpeningPCs, InitPCs
<1>3. ASSUME NEW w \in Workers, RunAgain(w)
      PROVE  HashHeld'
  <2>1. req'[w].pc = "i_exists" /\ \A v \in Workers \ {w} : req'[v].pc = "idle"
    BY <1>3 DEF RunAgain, StartInit, Idle, ClientInv, PhaseOK, Serving, TypeInv, Typed
  <2> QED
    BY <2>1 DEF HashHeld, OpeningPCs
<1>4. ASSUME NEW w \in Workers, Serve(w), client.phase = "init"
      PROVE  HashHeld'
  <2>1. req[w].file = Upload /\ Alone(w) /\ InitStep(w)
    BY <1>4, HandleIs DEF Serve, ClientInv, PhaseOK
  <2>2. \A v \in Workers \ {w} : req'[v].pc = "idle"
    BY <2>1, InitStepIs DEF Alone, Serving
  <2> QED
    BY <2>1, <2>2, HeldMoves DEF HashHeld, OpeningPCs
<1>5. ASSUME NEW w \in Workers, Serve(w), client.phase # "init"
      PROVE  client'.phase # "init"
  BY <1>5, ClientRuns DEF Serve, Hears
<1>6. CASE UNCHANGED all
  BY <1>6 DEF all, vars, redis, HashHeld
<1>7. /\ AlreadyStored \/ TooEarly \/ ServerCrash => client'.phase # "init"
      /\ \A w \in Workers : SendPart(w) \/ SendComplete(w) => client'.phase # "init"
  BY ClientRuns DEF AlreadyStored, TooEarly, ServerCrash, SendPart, SendComplete,
                    ClientInv, ClientTypeOK
<1> QED
  BY <1>2, <1>3, <1>4, <1>5, <1>6, <1>7 DEF ClientNext, ClientStep

\* No part step takes a flag away or touches the key.
LEMMA PartFlags ==
  ASSUME TypeInv, NEW w \in Workers, PartStep(w)
  PROVE  UNCHANGED hashUpid /\ \A u \in UploadIds : mp[u].flags \subseteq mp'[u].flags
<1>1. CASE UNCHANGED redis
  BY <1>1 DEF redis
<1>2. CASE PartFlag(w)
  <2>1. UNCHANGED hashUpid
    BY <1>2 DEF PartFlag
  <2>2. UNCHANGED mp \/ mp' = [mp EXCEPT ![req[w].upid] = HSetFlag(@, req[w].index)]
    BY <1>2 DEF PartFlag
  <2>3. CASE mp' = [mp EXCEPT ![req[w].upid] = HSetFlag(@, req[w].index)]
    BY <2>1, <2>3 DEF HSetFlag, TypeInv, Typed, Session
  <2>4. CASE UNCHANGED mp
    BY <2>1, <2>4
  <2> QED
    BY <2>2, <2>3, <2>4
<1> QED
  BY <1>1, <1>2 DEF PartStep, PartCopy, PartWrite, PartVerify

\* A session is under the key as it was, or its user owns the file.
Kept == \A u \in UploadIds : hashUpid[Upload] = u =>
  \/ hashUpid'[Upload] = u /\ mp[u].flags \subseteq mp'[u].flags
  \/ <<Uploader, Upload>> \in userFile

LEMMA ProgressStep ==
  ASSUME TypeInv, OwnershipInv, ClientInv, HashHeld, [ClientNext]_all
  PROVE  Kept
<1>1. ASSUME NEW w \in Workers, Serve(w), client.phase = "init"
      PROVE  Kept
  <2>1. req[w].file = Upload /\ InitStep(w)
    BY <1>1, HandleIs DEF Serve, ClientInv, PhaseOK
  <2>2. /\ \A u \in UploadIds : mp'[u].flags = mp[u].flags
        /\ \/ UNCHANGED hashUpid
           \/ /\ req[w].pc = "i_sethash"
              /\ hashUpid' = [hashUpid EXCEPT ![Upload] = req[w].upid]
    BY <2>1, InitStores
  <2>3. req[w].pc = "i_sethash" => hashUpid[Upload] \in {None, req[w].upid}
    BY DEF HashHeld, OpeningPCs
  <2> QED
    BY <2>2, <2>3, NoneAssumption, ClientAssumption DEF Kept, TypeInv, Typed
<1>2. ASSUME NEW w \in Workers, Serve(w), client.phase = "parts"
      PROVE  Kept
  <2>1. PartStep(w)
    BY <1>2, HandleIs DEF Serve, ClientInv, PhaseOK
  <2> QED
    BY <2>1, PartFlags DEF Kept
<1>3. ASSUME NEW w \in Workers, Serve(w), client.phase = "complete"
      PROVE  Kept
  <2>1. CompleteStep(w) /\ req[w].file = Upload /\ req[w].user = Uploader
    BY <1>3, HandleIs DEF Serve, ClientInv, PhaseOK
  <2>2. CASE UNCHANGED redis
    BY <2>2 DEF redis, Kept
  <2>3. CASE CompleteDelHash(w) \/ CompleteDelMp(w)
    <3>1. req[w].pc \in RecordPCs \ {"c_file", "c_user"}
      BY <2>3 DEF CompleteDelHash, CompleteDelMp, RecordPCs
    <3> QED
      BY <2>1, <3>1 DEF Kept, OwnershipInv, InsertsOK
  <2> QED
    BY <2>1, <2>2, <2>3 DEF CompleteStep, MergeStart, MergeCat, MergeVerify, CompleteFile,
                            CompleteUser, CompleteReply
<1>4. ASSUME NEW w \in Workers, Serve(w)
      PROVE  Kept
  <2>1. client.phase \in {"init", "parts", "complete"}
    BY <1>4, HandleIs DEF Serve, ClientInv, ClientTypeOK, PhaseOK, Phases
  <2> QED
    BY <1>1, <1>2, <1>3, <1>4, <2>1
<1>5. UNCHANGED redis => Kept
  BY DEF redis, Kept
<1> QED
  BY <1>4, <1>5 DEF ClientNext, ClientStep, AlreadyStored, TooEarly, RunAgain, StartInit,
                    SendPart, StartPart, SendComplete, StartComplete, ServerCrash, Crash,
                    all, vars

\* What was sent once is not asked for again: the session stays under the key of
\* the file with all its flags until the user owns the file (ProgressKept of the
\* runs), however often the client is run and the server crashes.
THEOREM ProgressIsKept ==
  ASSUME DbMayFail = FALSE
  PROVE  ClientSpec => ProgressKept
<1>1. ClientInit => OwnershipInv /\ HashHeld
  BY OwnershipInit DEF ClientInit, Init, Idle, HashHeld, OpeningPCs
<1>2. TypeInv /\ ClientInv /\ OwnershipInv /\ HashHeld /\ [ClientNext]_all
        => (OwnershipInv /\ HashHeld)' /\ Kept
  BY ClientNextIsNext, OwnershipNext, HeldNext, ProgressStep
<1>3. Kept => (\A u \in UploadIds : hashUpid[Upload] = u =>
                 \/ hashUpid'[Upload] = u /\ mp[u].flags \subseteq mp'[u].flags
                 \/ <<Uploader, Upload>> \in userFile)
  BY DEF Kept
<1> QED
  BY <1>1, <1>2, <1>3, ClientInvariant, PTL DEF ClientSpec, ProgressKept

================================================================================
