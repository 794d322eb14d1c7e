-------------------------------- MODULE Transfer --------------------------------
(***************************************************************************)
(* The transfer process: service/transfer/main.go behind the consumer loop  *)
(* of mq/consumer.go.  It takes one message at a time and moves the file to *)
(* OSS in three steps.  Deliveries are acknowledged as they are sent (the   *)
(* third argument of Consume), so nothing it fails at is seen again: the    *)
(* result of ProcessTransfer is thrown away by the loop.                    *)
(***************************************************************************)
EXTENDS MqChannel

VARIABLES
  job,        \* the message ProcessTransfer is at
  consuming   \* whether the loop over the deliveries still runs

consumer == <<job, consuming>>

JobPCs == {"idle", "open", "put", "update"}
Job == [pc : JobPCs, file : Files \cup {None}, root : Root \cup {None}]
NoJob == [pc |-> "idle", file |-> None, root |-> None]

\* ProcessTransfer goes on at step pc, or returns.
JobGoto(pc) == job' = [job EXCEPT !.pc = pc]
JobDone     == job' = NoJob /\ Close(Consumer)
JobLost     == JobDone /\ lost' = lost \cup {job.file}

--------------------------------------------------------------------------------

\* The loop of StartConsume receives a delivery and calls ProcessTransfer.
Take ==
  /\ consuming
  /\ job = NoJob
  /\ queue # <<>>
  /\ job' = [pc |-> "open", file |-> Head(queue).file, root |-> Head(queue).root]
  /\ queue' = Tail(queue)
  /\ UNCHANGED <<storage, channel, lost, consuming>>

\* Variant: the error of os.Open is ignored.
TransferOpenUnchecked ==
  /\ job.pc = "open"
  /\ fd' = [fd EXCEPT ![Consumer] = path[job.root][job.file]]
  /\ JobGoto("put")
  /\ UNCHANGED <<path, body, object, tables, mq, consuming>>

\* os.Open of the local address: a file removed by now is an error.
TransferOpen ==
  LET i == path[job.root][job.file] IN
  /\ job.pc = "open"
  /\ IF i = None
       THEN JobLost
       ELSE fd' = [fd EXCEPT ![Consumer] = i] /\ JobGoto("put") /\ UNCHANGED lost
  /\ UNCHANGED <<path, body, object, tables, channel, queue, consuming>>

\* PutObject of what the open file holds now.
TransferPut ==
  /\ job.pc = "put"
  /\ \/ /\ object' = [object EXCEPT !["oss"][job.file] = body[fd[Consumer]]]
        /\ JobGoto("update")
        /\ UNCHANGED <<fd, lost>>
     \/ /\ "store" \in Faults
        /\ JobLost
        /\ UNCHANGED object
  /\ UNCHANGED <<path, body, tables, channel, queue, consuming>>

\* Variant: the local file is removed once the row has the new address.
TransferUpdateCleanUp ==
  /\ job.pc = "update"
  /\ UpdateFileLocation(job.file, "oss")
  /\ path' = [path EXCEPT ![job.root][job.file] = None]
  /\ IF HasFileMeta(job.file) THEN JobDone /\ UNCHANGED lost ELSE JobLost
  /\ UNCHANGED <<body, object, userRow, channel, queue, consuming>>

\* UpdateFileLocation: an update of a row that is not there (yet) is logged and
\* counts as done.
TransferUpdate ==
  /\ job.pc = "update"
  /\ \/ /\ UpdateFileLocation(job.file, "oss")
        /\ IF HasFileMeta(job.file) THEN JobDone /\ UNCHANGED lost ELSE JobLost
     \/ /\ "db" \in Faults
        /\ JobLost
        /\ UNCHANGED fileRow
  /\ UNCHANGED <<path, body, object, userRow, channel, queue, consuming>>

TransferStep == Take \/ TransferOpen \/ TransferPut \/ TransferUpdate

--------------------------------------------------------------------------------
(* Faults and restart *)

\* The deliveries a consumer had buffered, the first k of the queue, go with it.
LoseBuffered(k, others) ==
  /\ k \in 0..Len(queue)
  /\ queue' = SubSeq(queue, k + 1, Len(queue))
  /\ lost' = lost \cup others \cup {queue[i].file : i \in 1..k}

\* The process dies, with the message it is at.
ConsumerCrash ==
  /\ "crash" \in Faults
  /\ consuming \/ job # NoJob
  /\ \E k \in 0..Len(queue) :
       LoseBuffered(k, IF job = NoJob THEN {} ELSE {job.file})
  /\ job' = NoJob
  /\ Close(Consumer)
  /\ consuming' = FALSE
  /\ UNCHANGED <<path, body, object, tables, channel>>

\* The consumer's channel closes: the deliveries end and with them the loop,
\* while StartConsume waits on done, to which nothing ever sends.  The process
\* stays up and consumes nothing; a transfer it is at goes on to its end.
ConsumerHangs ==
  /\ "channel" \in Faults
  /\ consuming
  /\ \E k \in 0..Len(queue) : LoseBuffered(k, {})
  /\ consuming' = FALSE
  /\ UNCHANGED <<storage, channel, job>>

\* Somebody starts the process (again), a hung one after killing it.
ConsumerStart ==
  /\ "crash" \in Faults
  /\ ~consuming
  /\ job = NoJob
  /\ consuming' = TRUE
  /\ UNCHANGED <<storage, mq, job>>

--------------------------------------------------------------------------------

TransferInit ==
  /\ job = NoJob
  /\ consuming = TRUE

TransferTypeOK ==
  /\ job \in Job
  /\ job # NoJob => job.pc # "idle" /\ job.file \in Files /\ job.root \in Root
  /\ job.pc \in {"put", "update"} => fd[Consumer] \in Inodes
  /\ consuming \in BOOLEAN

================================================================================
