---------------------------- MODULE EventConsumer ----------------------------
(***************************************************************************)
(* eventpipe.Consumer with the projection handler: one consumer of the     *)
(* group reads new messages from the Redis stream, applies each one to     *)
(* order_event_projection and acknowledges it.  Redis keeps what was       *)
(* delivered and not acknowledged, but Read asks for ">" only: messages    *)
(* that no consumer of the group was given before.                         *)
(***************************************************************************)
EXTENDS ConsumerConfig, Sequences, FiniteSetsExt

CONSTANT Orders   \* orders events are about

VARIABLES
  stream,      \* message n of the stream is about order stream[n]
  cursor,      \* the group's last delivered message
  unacked,     \* the group's pending entries: delivered, not acknowledged
  conPc,       \* what the consumer does next
  batch,       \* messages of the last Read still to be handled
  tries,       \* tries[n]: c.attempts[n], kept in memory
  projection,  \* orders with a row in order_event_projection
  dlq,         \* messages in event_consumer_dlq
  handled,     \* handled[n]: how often message n was given to the handler
  stops        \* how often the consumer ended

group   == <<cursor, unacked>>
tables  == <<projection, dlq>>
conVars == <<stream, group, conPc, batch, tries, tables, handled, stops>>

Messages == 1..MaxMessages
NoTries == [n \in Messages |-> 0]

ConInit ==
  /\ stream = <<>>
  /\ cursor = 0
  /\ unacked = {}
  /\ conPc = "read"
  /\ batch = {}
  /\ tries = NoTries
  /\ projection = {}
  /\ dlq = {}
  /\ handled = NoTries
  /\ stops = 0
-----------------------------------------------------------------------------
\* A publisher appends a message about order o.
Arrive(o) ==
  /\ Len(stream) < MaxMessages
  /\ stream' = Append(stream, o)
  /\ UNCHANGED <<group, conPc, batch, tries, tables, handled, stops>>

\* Mutant of Deliverable: Read asks for the pending entries, too.
DeliverableAgain == unacked \cup ((cursor + 1)..Len(stream))

\* The messages XREADGROUP ... ">" may return.
Deliverable == (cursor + 1)..Len(stream)

\* The first ReadCount of them.
Delivered == {n \in Deliverable : Cardinality({k \in Deliverable : k < n}) < ReadCount}

\* XREADGROUP: they enter the group's pending entries.
Deliver ==
  /\ conPc = "read" /\ Deliverable # {}
  /\ cursor' = Max({cursor} \cup Delivered)
  /\ unacked' = unacked \cup Delivered
  /\ UNCHANGED <<stream, tries, tables, handled, stops>>

\* Read returns them.
Read == Deliver /\ batch' = Delivered /\ conPc' = "handle"

\* The answer is lost and go-redis sends the command again: nobody has them.
ReadLost == LosesAnswers /\ Deliver /\ UNCHANGED <<batch, conPc>>

\* m is the next message of the batch.
Upcoming(m) == m \in batch /\ \A n \in batch : m <= n

\* The message is done with: on to the next one, or to the next Read.
NextMessage(m) ==
  /\ batch' = batch \ {m}
  /\ conPc' = IF batch = {m} THEN "read" ELSE "handle"

\* c.attempts[m.ID]++ and a call of the handler.
Try(m) ==
  /\ conPc = "handle" /\ Upcoming(m)
  /\ tries' = [tries EXCEPT ![m] = @ + 1]
  /\ handled' = [handled EXCEPT ![m] = @ + 1]
  /\ UNCHANGED <<stream, group, dlq, stops>>

\* UpsertOrderProjection: the order's row is written, or written again.
Upsert(m) == projection' = projection \cup {stream[m]}

\* Mutant of HandleOk: the row is not written before the message is acknowledged.
HandleLater(m) ==
  /\ Try(m)
  /\ conPc' = "ack"
  /\ UNCHANGED <<projection, batch>>

\* The handler decodes the event and upserts the order's row.
HandleOk(m) ==
  /\ Try(m)
  /\ Upsert(m)
  /\ conPc' = "ack"
  /\ UNCHANGED batch

\* c.attempts[m.ID] >= c.cfg.MaxAttempts
GiveUp(m) == tries[m] + 1 >= MaxTries

\* The handler returns an error; an upsert whose answer was lost may have taken
\* effect.  With MaxTries reached the message goes to the DLQ, else it is left
\* for a later Read.
HandleFails(m) ==
  /\ Try(m)
  /\ Upsert(m) \/ UNCHANGED projection
  /\ \/ GiveUp(m) /\ conPc' = "dlq" /\ UNCHANGED batch
     \/ ~GiveUp(m) /\ NextMessage(m)

\* InsertDLQ.
InsertDLQ(m) ==
  /\ conPc = "dlq" /\ Upcoming(m)
  /\ dlq' = dlq \cup {m}
  /\ conPc' = "ack"
  /\ UNCHANGED <<stream, group, batch, tries, projection, handled, stops>>

\* XACK, and the in-memory count is dropped.
Ack(m) ==
  /\ conPc = "ack" /\ Upcoming(m)
  /\ unacked' = unacked \ {m}
  /\ tries' = [tries EXCEPT ![m] = 0]
  /\ NextMessage(m)
  /\ UNCHANGED <<stream, cursor, tables, handled, stops>>

\* The process ends: a signal, a crash, or an error of Read, Ack or InsertDLQ
\* that RunOnce returns.  Batch and counts are lost; Redis keeps the group.
Stop ==
  /\ conPc # "down" /\ stops < MaxStops
  /\ conPc' = "down"
  /\ batch' = {}
  /\ tries' = NoTries
  /\ stops' = stops + 1
  /\ UNCHANGED <<stream, group, tables, handled>>

\* Mutant of Restart: the group starts at "$", the end of the stream.
RestartAtEnd ==
  /\ conPc = "down"
  /\ conPc' = "read"
  /\ cursor' = Len(stream)
  /\ UNCHANGED <<stream, unacked, batch, tries, tables, handled, stops>>

\* Somebody starts the process again; the group exists (BUSYGROUP) and keeps
\* its position.
Restart ==
  /\ conPc = "down"
  /\ conPc' = "read"
  /\ UNCHANGED <<stream, group, batch, tries, tables, handled, stops>>

\* What a running consumer does on its own.
Consume ==
  \/ Read
  \/ \E m \in batch : HandleOk(m) \/ HandleFails(m) \/ InsertDLQ(m) \/ Ack(m)

ConNext ==
  \/ \E o \in Orders : Arrive(o)
  \/ Consume \/ ReadLost \/ Stop \/ Restart

ConSpec == ConInit /\ [][ConNext]_conVars

\* A running consumer keeps reading.
FairConSpec == ConSpec /\ WF_conVars(Consume)
-----------------------------------------------------------------------------
ConTypeOK ==
  /\ stream \in Seq(Orders) /\ Len(stream) <= MaxMessages
  /\ cursor \in 0..Len(stream)
  /\ unacked \subseteq 1..cursor
  /\ conPc \in {"down", "read", "handle", "dlq", "ack"}
  /\ batch \subseteq unacked
  /\ batch = {} <=> conPc \in {"down", "read"}
  /\ tries \in [Messages -> Nat]
  /\ projection \subseteq Orders
  /\ dlq \subseteq 1..cursor
  /\ handled \in [Messages -> Nat]
  /\ stops \in Nat

\* Nothing is acknowledged before it is in the projection or in the DLQ,
\* wherever the process stops: the handler and InsertDLQ come before Ack.
AckedAreSettled ==
  \A n \in 1..cursor : n \notin unacked => stream[n] \in projection \/ n \in dlq

\* No message is given to the handler twice, across restarts and failures: Read
\* never returns a message a second time, so the group delivers at most once.
HandledAtMostOnce ==
  \A n \in Messages : handled[n] <= 1

\* Delivered messages that were neither acknowledged nor are in the batch at
\* hand: nothing in the code comes back to them.
LeftBehind == unacked \ batch

\* "Consumer retries with in-memory attempt tracking" and "Consumer DLQ
\* persistence after max attempts" (docs/projects/
\* event-driven-ecommerce-pipeline.md): a message the handler failed on is
\* retried until it is in the projection or in the DLQ.
DeliveredSettles ==
  \A n \in Messages :
    n <= cursor ~> n <= Len(stream) /\ (stream[n] \in projection \/ n \in dlq)
=============================================================================
