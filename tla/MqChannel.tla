-------------------------------- MODULE MqChannel --------------------------------
(***************************************************************************)
(* mq/producer.go: the one RabbitMQ channel of the server process, and the  *)
(* queue it publishes transfer messages to.  The broker itself is external: *)
(* a queue that keeps what reached it and hands it out in order.             *)
(*                                                                         *)
(* init() registers notifyClose, a channel that is never made, for the      *)
(* event of a close, and waits on it: receiving from a nil channel blocks   *)
(* for good, so the code that would forget the channel and dial again never *)
(* runs, and there is no action for it.                                      *)
(***************************************************************************)
EXTENDS Storage

VARIABLES
  channel,  \* the server's channel: "nil" (not dialled yet), "open", "closed"
  queue,    \* messages the broker holds
  lost      \* ghost: files whose transfer was lost on the way

mq == <<channel, queue, lost>>

\* TransferData: the local address; the destination follows from the hash.
Message == [file : Files, root : Root]

--------------------------------------------------------------------------------

\* Variant: no queue is bound under the routing key; the broker drops the message
\* without a word, as mandatory is false.
PublishUnroutable(m) ==
  /\ channel \in {"nil", "open"}
  /\ channel' = "open"
  /\ UNCHANGED <<queue, lost>>

\* initChannel finds a channel, or dials one; the message reaches the queue.
PublishSent(m) ==
  /\ channel \in {"nil", "open"}
  /\ channel' = "open"
  /\ queue' = Append(queue, m)
  /\ UNCHANGED lost

\* Without publisher confirms a message written to a connection that is going
\* down is reported as published, and lost.
PublishLost(m) ==
  /\ "channel" \in Faults
  /\ channel = "open"
  /\ channel' = "closed"
  /\ lost' = lost \cup {m.file}
  /\ UNCHANGED queue

\* The dial fails, or the channel is there but closed: an error.  (The library,
\* which notifies the nil channel of the close, may never get over it and the
\* publish hang instead: its request then takes no further step, as any may.)
PublishRefused(m) ==
  /\ "channel" \in Faults
  /\ channel \in {"nil", "closed"}
  /\ lost' = lost \cup {m.file}
  /\ UNCHANGED <<channel, queue>>

Publish(m) == PublishSent(m) \/ PublishLost(m) \/ PublishRefused(m)

\* The broker or the network ends the connection.
ChannelCloses ==
  /\ "channel" \in Faults
  /\ channel = "open"
  /\ channel' = "closed"
  /\ UNCHANGED <<queue, lost>>

--------------------------------------------------------------------------------

\* init() dials at start-up, and leaves it to Publish if that fails.
DialAtStart == IF "channel" \in Faults THEN {"nil", "open"} ELSE {"open"}

MqInit ==
  /\ channel \in DialAtStart
  /\ queue = <<>>
  /\ lost = {}

MqTypeOK ==
  /\ channel \in {"nil", "open", "closed"}
  /\ queue \in Seq(Message)
  /\ lost \subseteq Files

================================================================================
