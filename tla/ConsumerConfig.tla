--------------------------- MODULE ConsumerConfig ---------------------------
(***************************************************************************)
(* The configuration of the event consumer (eventpipe.ConsumerConfig after *)
(* NewConsumer's defaults) and the bounds of its model.                    *)
(***************************************************************************)
EXTENDS Integers

CONSTANTS
  ReadCount,    \* cfg.ReadCount
  MaxTries,     \* cfg.MaxAttempts of the consumer
  LosesAnswers, \* TRUE: answers of XREADGROUP may get lost
  MaxMessages,  \* bound on the length of the stream
  MaxStops      \* bound on how often the consumer process may end

\* NewConsumer replaces counts that are not positive.
ASSUME ConsumerAssumption ==
  /\ ReadCount \in Nat \ {0}
  /\ MaxTries \in Nat \ {0}
  /\ LosesAnswers \in BOOLEAN
  /\ MaxMessages \in Nat
  /\ MaxStops \in Nat
=============================================================================
