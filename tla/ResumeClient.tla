------------------------------ MODULE ResumeClient ------------------------------
(***************************************************************************)
(* The client of test/test_mpupload_resumable.go against the server of      *)
(* MultipartUpload: one user sends one file, at most Quota chunks per run   *)
(* (-chkcnt), and, as test/README.md says, runs the client again until the  *)
(* reply to the completion is OK.  The server may crash in between; then    *)
(* the client's requests fail and the run ends.  It is taken to be alone    *)
(* with the server and to send fewer chunks at once than the 30 connections *)
(* of the pool (cache/redis/conn.go:18), so that Redis refuses nothing.     *)
(***************************************************************************)
EXTENDS MultipartUpload

CONSTANTS
  Uploader,    \* the user
  Upload,      \* the file
  Quota,       \* chunks one run sends
  MaxCrashes   \* bound: server crashes in one behaviour

ASSUME ClientAssumption ==
  /\ Uploader \in Users
  /\ Upload \in Files
  /\ Quota \in Nat \ {0}
  /\ MaxCrashes \in Nat
  /\ RedisMayRefuse = FALSE

VARIABLES
  client,      \* where the client is, its upload id, the chunks still to send
  crashes      \* server crashes so far

all == <<vars, client, crashes>>

Phases == {"rerun", "init", "parts", "complete", "done", "exists"}
NewRun == [phase |-> "rerun", upid |-> None, todo |-> {}]

ClientTypeOK ==
  /\ client \in [phase : Phases, upid : UploadIds \cup {None},
                 todo : SUBSET Indexes(Upload)]
  /\ crashes \in 0..MaxCrashes

\* Variants: the chunks are counted from 0; the list of the server is ignored.
PlannedFromZero(listed) ==
  LET missing == (0..ChunkCount[Upload] - 1) \ listed
  IN {i \in missing : Cardinality({j \in missing : j < i}) < Quota}

PlannedAnew(listed) == {i \in Indexes(Upload) : i <= Quota}

\* The chunks a run sends: the first Quota ones the server did not list.
Planned(listed) ==
  LET missing == Indexes(Upload) \ listed
  IN {i \in missing : Cardinality({j \in missing : j < i}) < Quota}

\* uploadFile: POST init.
RunAgain(w) ==
  /\ client.phase = "rerun"
  /\ StartInit(w, Uploader, Upload)
  /\ client' = [client EXCEPT !.phase = "init"]
  /\ UNCHANGED crashes

\* The reply carries no upload id: the file is there, the client returns.
AlreadyStored ==
  /\ client.phase = "rerun"
  /\ IsUserFileUploaded(Uploader, Upload)
  /\ client' = [client EXCEPT !.phase = "exists"]
  /\ UNCHANGED <<vars, crashes>>

\* uploadPartsSpecified: one goroutine per chunk.
SendPart(w) ==
  /\ client.phase = "parts"
  /\ \E i \in client.todo :
       /\ StartPart(w, client.upid, i)
       /\ client' = [client EXCEPT !.todo = @ \ {i}]
  /\ UNCHANGED crashes

\* resumableTestMain: once every goroutine has its answer, POST complete.
AllAnswered ==
  /\ client.phase = "parts"
  /\ client.todo = {}
  /\ \A w \in Workers : req[w].pc = "idle"

SendComplete(w) ==
  /\ AllAnswered
  /\ StartComplete(w, Uploader, client.upid)
  /\ client' = [client EXCEPT !.phase = "complete"]
  /\ UNCHANGED crashes

\* Reply -2: chunks are missing, the run ends.
TooEarly ==
  /\ AllAnswered
  /\ ~AllFlagged(mp[client.upid])
  /\ client' = NewRun
  /\ UNCHANGED <<vars, crashes>>

\* What the client makes of the answer of worker w.
Hears(w) ==
  CASE client.phase = "init" /\ req[w].pc = "i_get" -> NewRun
    [] client.phase = "init" /\ req[w].pc = "i_list" ->
         [phase |-> "parts", upid |-> req[w].upid,
          todo |-> Planned(mp[req[w].upid].flags)]
    [] client.phase = "init" /\ req[w].pc = "i_sethash" ->
         [phase |-> "parts", upid |-> req[w].upid, todo |-> Planned({})]
    [] client.phase = "complete" ->
         IF req[w].pc = "c_reply" THEN [NewRun EXCEPT !.phase = "done"]
                                  ELSE NewRun
    [] OTHER -> client

\* The server works on a request; an answer to init reaches the client.
Serve(w) ==
  /\ Handle(w)
  /\ req[w].pc \in {"i_list", "i_sethash"} /\ req'[w].pc = "idle"
       => <<Uploader, req[w].upid>> \in told'
  /\ client' = IF req'[w].pc = "idle" THEN Hears(w) ELSE client
  /\ UNCHANGED crashes

ServerCrash ==
  /\ crashes < MaxCrashes
  /\ Crash
  /\ client' = NewRun
  /\ crashes' = crashes + 1

ClientInit == Init /\ client = NewRun /\ crashes = 0

ClientStep ==
  \/ AlreadyStored \/ TooEarly
  \/ \E w \in Workers : RunAgain(w) \/ SendPart(w) \/ SendComplete(w)

ClientNext ==
  \/ ClientStep
  \/ \E w \in Workers : Serve(w)
  \/ ServerCrash

\* Goroutines run, shells return, and the client is run again until it is
\* done: every step that can be taken is taken, except a crash.
ClientSpec ==
  /\ ClientInit
  /\ [][ClientNext]_all
  /\ WF_all(ClientStep)
  /\ \A w \in Workers : WF_all(Serve(w))

--------------------------------------------------------------------------------
\* test/README.md:50, "until the reply is OK, which says the resumed upload is
\* finished": running the client again does finish it, wherever the server
\* crashed, as long as no key expires meanwhile.
ResumeFinishes == <>(client.phase \in {"done", "exists"})

\* When the client is told so, both rows are there and so is the whole file,
\* however many half-done merges and sessions crashes have left behind.
FinishedMeansStored ==
  client.phase \in {"done", "exists"} =>
    /\ <<Uploader, Upload>> \in userFile
    /\ Upload \in tblFile
    /\ merged[Upload] = Content(Upload)

\* The completion of a resumed upload is never refused for its content: when the
\* sha1 of the merged file is compared, the file is the upload, whatever runs,
\* crashes and half-done merges came before.  (uploadPartsSpecified leaves out
\* what the server lists; MergeFileCMD starts from nothing.)
ResumedMergeIsWhole == \A w \in Workers :
  req[w].pc = "m_verify" => merged[Upload] = Content(Upload)

\* test/README.md:50: a run goes on where the one before it stopped.  The session
\* under the file's key stays the same and loses no flag, whatever runs, crashes
\* and refused completions follow, until the user owns the file.
ProgressKept ==
  [][\A u \in UploadIds : hashUpid[Upload] = u =>
       \/ hashUpid'[Upload] = u /\ mp[u].flags \subseteq mp'[u].flags
       \/ <<Uploader, Upload>> \in userFile]_all

================================================================================
