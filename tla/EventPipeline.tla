---------------------------- MODULE EventPipeline ----------------------------
(***************************************************************************)
(* The pipeline of docker-compose.yml end to end: orders commit with their *)
(* outbox row, one or more outbox-publishers move the rows to the Redis    *)
(* stream, and the event-consumer builds order_event_projection from it.   *)
(* Publisher and consumer share nothing but the stream.                    *)
(***************************************************************************)
EXTENDS OutboxPublisher, ConsumerConfig

VARIABLES cursor, unacked, conPc, batch, tries, projection, dlq, handled, stops

Consumer == INSTANCE EventConsumer WITH Orders <- Events

consumerOwn == <<cursor, unacked, conPc, batch, tries, projection, dlq, handled, stops>>
pipeVars == <<pubVars, consumerOwn>>

PipeInit == PubInit /\ Consumer!ConInit

PublisherStep == PubNext /\ UNCHANGED consumerOwn

ConsumerStep ==
  /\ Consumer!Consume \/ Consumer!ReadLost \/ Consumer!Stop \/ Consumer!Restart
  /\ UNCHANGED <<rows, procs, failures, exits, resends>>

PipeNext == PublisherStep \/ ConsumerStep

\* The fairness of the two components.
PipeFairness ==
  /\ \A p \in Publishers : WF_pipeVars(RunOnce(p) /\ UNCHANGED consumerOwn)
  /\ \A e \in Events : WF_pipeVars(BackoffElapses(e) /\ UNCHANGED consumerOwn)
  /\ WF_pipeVars(Consumer!Consume /\ UNCHANGED <<rows, procs, failures, exits, resends>>)

PipeSpec == PipeInit /\ [][PipeNext]_pipeVars

FairPipeSpec == PipeSpec /\ PipeFairness
-----------------------------------------------------------------------------
Copies(e) == {n \in DOMAIN stream : stream[n] = e}

\* Nothing is acknowledged on the stream before its order is in the projection
\* or the message in the DLQ.
AckedAreSettled == Consumer!AckedAreSettled

\* No message of the stream is given to the handler twice.
HandledAtMostOnce == Consumer!HandledAtMostOnce

\* With a single publisher a row that is published or dead stays so: no retry,
\* restart or late mark brings it back.
SettledForGood ==
  [][\A e \in Events : status[e] \in {"published", "dead"} => status'[e] = status[e]]_pipeVars

\* With a single publisher the stream has one copy of an event, and one more for
\* each publish that failed, each XADD sent again and each end of the publisher.
CopiesAccounted ==
  \A e \in Events : Cardinality(Copies(e)) <= 1 + failures[e] + exits + resends

\* End to end: once the processes stay up, every committed order reaches the
\* projection, or its event was given up by the publisher, moved to the DLQ, or
\* left behind by the consumer among the group's pending entries.
OrdersReachProjection ==
  (<>[](conPc # "down") /\ \E p \in Publishers : <>[](pubPc[p] # "down")) =>
    \A e \in Events :
      status[e] = "pending" ~> \/ e \in projection
                               \/ Copies(e) \cap (dlq \cup Consumer!LeftBehind) # {}
                               \/ status[e] = "dead"
=============================================================================
