--------------------------- MODULE OutboxPublisher ---------------------------
(***************************************************************************)
(* eventpipe.Publisher over the outbox_events table and the Redis stream:  *)
(* each publisher process polls for pending rows, publishes them in id     *)
(* order and marks each row by what the broker answered.  A process holds  *)
(* no lock on the rows it fetched, and any error of the database ends it.  *)
(***************************************************************************)
EXTENDS Integers, FiniteSets, Sequences

CONSTANTS
  Events,       \* ids of outbox rows; the event of order e is row e
  Publishers,   \* outbox-publisher processes
  BatchSize,    \* cfg.BatchSize
  MaxAttempts,  \* cfg.MaxAttempts
  Flaky,        \* bound on failures: the rows whose Publish may return an error
  MaxFaults     \* bound on ends of publisher processes and on XADDs sent again

ASSUME PublisherAssumption ==
  /\ Events \subseteq Nat
  /\ BatchSize \in Nat \ {0}
  /\ MaxAttempts \in Nat \ {0}
  /\ Flaky \subseteq Events
  /\ MaxFaults \in Nat

VARIABLES
  status,    \* status[e]: "absent" until the order commits, then the row's status
  attempts,  \* attempts[e]: the row's attempts column
  due,       \* rows whose next_attempt_at has passed
  stream,    \* the Redis stream, message n is the event stream[n]
  pubPc,     \* what publisher p does next
  fetched,   \* fetched[p]: rows of p's batch still to be handled
  cached,    \* cached[p][e]: ev.Attempts as p read it (0 for a row p has not fetched)
  failures,  \* failures[e]: how many Publish calls for e returned an error
  exits,     \* how many times a publisher ended
  resends    \* how many times the Redis client sent an XADD again

rows    == <<status, attempts, due>>
procs   == <<pubPc, fetched, cached>>
pubVars == <<rows, stream, procs, failures, exits, resends>>

Statuses == {"absent", "pending", "published", "dead"}

PubInit ==
  /\ status = [e \in Events |-> "absent"]
  /\ attempts = [e \in Events |-> 0]
  /\ due = {}
  /\ stream = <<>>
  /\ pubPc = [p \in Publishers |-> "poll"]
  /\ fetched = [p \in Publishers |-> {}]
  /\ cached = [p \in Publishers |-> [e \in Events |-> 0]]
  /\ failures = [e \in Events |-> 0]
  /\ exits = 0 /\ resends = 0
-----------------------------------------------------------------------------
\* CreateOrder commits order e with its outbox row, due at once.  Ids are drawn
\* before the commit, so rows may appear out of id order.
CommitOrder(e) ==
  /\ status[e] = "absent"
  /\ status' = [status EXCEPT ![e] = "pending"]
  /\ due' = due \cup {e}
  /\ UNCHANGED <<attempts, stream, procs, failures, exits, resends>>

\* The backoff of row e is over.
BackoffElapses(e) ==
  /\ status[e] = "pending" /\ e \notin due
  /\ due' = due \cup {e}
  /\ UNCHANGED <<status, attempts, stream, procs, failures, exits, resends>>

\* Mutant of Ready: the WHERE clause forgets the status.
ReadyAnyStatus == {e \in Events : status[e] # "absent" /\ e \in due}

\* Mutant of Ready: rows that failed once are not fetched again.
ReadyFirstTry == {e \in Events : status[e] = "pending" /\ e \in due /\ attempts[e] = 0}

\* WHERE status = 'pending' AND next_attempt_at <= now
Ready == {e \in Events : status[e] = "pending" /\ e \in due}

\* ORDER BY id ASC LIMIT BatchSize
Oldest(S) == {e \in S : Cardinality({f \in S : f < e}) < BatchSize}

\* FetchPending: the BatchSize ready rows with the smallest ids.
Fetch(p) ==
  /\ pubPc[p] = "poll" /\ Ready # {}
  /\ fetched' = [fetched EXCEPT ![p] = Oldest(Ready)]
  /\ cached' = [cached EXCEPT ![p] =
       [e \in Events |-> IF e \in Oldest(Ready) THEN attempts[e] ELSE 0]]
  /\ pubPc' = [pubPc EXCEPT ![p] = "send"]
  /\ UNCHANGED <<rows, stream, failures, exits, resends>>

\* ev is the next event of p's batch.
Current(p, e) == e \in fetched[p] /\ \A f \in fetched[p] : e <= f

\* The stream has the event but the answer is lost, and go-redis sends the XADD
\* again before Publish returns.
Resend(p, e) ==
  /\ pubPc[p] = "send" /\ Current(p, e) /\ exits + resends < MaxFaults
  /\ stream' = Append(stream, e)
  /\ resends' = resends + 1
  /\ UNCHANGED <<rows, procs, failures, exits>>

\* XADD succeeds.
Publish(p, e) ==
  /\ pubPc[p] = "send" /\ Current(p, e)
  /\ stream' = Append(stream, e)
  /\ pubPc' = [pubPc EXCEPT ![p] = "sent"]
  /\ UNCHANGED <<rows, fetched, cached, failures, exits, resends>>

\* Publish returns an error: the stream did not get the event, or it did and
\* the answer was lost.
PublishFails(p, e) ==
  /\ pubPc[p] = "send" /\ Current(p, e) /\ e \in Flaky
  /\ stream' \in {stream, Append(stream, e)}
  /\ pubPc' = [pubPc EXCEPT ![p] = "failed"]
  /\ failures' = [failures EXCEPT ![e] = @ + 1]
  /\ UNCHANGED <<rows, fetched, cached, exits, resends>>

\* Mutant of NextEvent: the loop runs once more after the last event.
NextEventTooFar(p, e) ==
  /\ fetched' = [fetched EXCEPT ![p] = @ \ {e}]
  /\ pubPc' = [pubPc EXCEPT ![p] = "send"]
  /\ cached' = [cached EXCEPT ![p][e] = 0]
  /\ UNCHANGED <<stream, failures, exits, resends>>

\* The row is marked: on to the next event of the batch, or to the next poll.
NextEvent(p, e) ==
  /\ fetched' = [fetched EXCEPT ![p] = @ \ {e}]
  /\ pubPc' = [pubPc EXCEPT ![p] = IF fetched[p] = {e} THEN "poll" ELSE "send"]
  /\ cached' = [cached EXCEPT ![p][e] = 0]
  /\ UNCHANGED <<stream, failures, exits, resends>>

\* Mutant of MarkPublished: a failed event is marked as published, too.
MarkPublishedAnyway(p, e) ==
  /\ pubPc[p] \in {"sent", "failed"} /\ Current(p, e)
  /\ status' = [status EXCEPT ![e] = "published"]
  /\ attempts' = [attempts EXCEPT ![e] = @ + 1]
  /\ NextEvent(p, e) /\ UNCHANGED due

MarkPublished(p, e) ==
  /\ pubPc[p] = "sent" /\ Current(p, e)
  /\ status' = [status EXCEPT ![e] = "published"]
  /\ attempts' = [attempts EXCEPT ![e] = @ + 1]
  /\ NextEvent(p, e) /\ UNCHANGED due

\* Mutant of GiveUp: the first try is counted twice.
GiveUpEarly(p, e) == cached[p][e] + 2 >= MaxAttempts

\* nextAttempts >= p.cfg.MaxAttempts
GiveUp(p, e) == cached[p][e] + 1 >= MaxAttempts

\* MarkRetry: pending again, not due before the backoff has passed.
MarkRetry(p, e) ==
  /\ pubPc[p] = "failed" /\ Current(p, e) /\ ~GiveUp(p, e)
  /\ status' = [status EXCEPT ![e] = "pending"]
  /\ attempts' = [attempts EXCEPT ![e] = cached[p][e] + 1]
  /\ due' = due \ {e}
  /\ NextEvent(p, e)

MarkDead(p, e) ==
  /\ pubPc[p] = "failed" /\ Current(p, e) /\ GiveUp(p, e)
  /\ status' = [status EXCEPT ![e] = "dead"]
  /\ attempts' = [attempts EXCEPT ![e] = cached[p][e] + 1]
  /\ NextEvent(p, e) /\ UNCHANGED due

\* The process ends: a signal, a crash, or a database error that RunOnce and
\* Run return.  What it had fetched is forgotten.
Exit(p) ==
  /\ pubPc[p] # "down" /\ exits + resends < MaxFaults
  /\ pubPc' = [pubPc EXCEPT ![p] = "down"]
  /\ fetched' = [fetched EXCEPT ![p] = {}]
  /\ cached' = [cached EXCEPT ![p] = [e \in Events |-> 0]]
  /\ exits' = exits + 1
  /\ UNCHANGED <<rows, stream, failures, resends>>

\* Somebody starts the process again: runPublisher from the beginning.
Start(p) ==
  /\ pubPc[p] = "down"
  /\ pubPc' = [pubPc EXCEPT ![p] = "poll"]
  /\ UNCHANGED <<rows, stream, fetched, cached, failures, exits, resends>>

\* What a running publisher does on its own.
RunOnce(p) ==
  \/ Fetch(p)
  \/ \E e \in Events : \/ Publish(p, e) \/ PublishFails(p, e)
                       \/ MarkPublished(p, e) \/ MarkRetry(p, e) \/ MarkDead(p, e)

PubNext ==
  \/ \E e \in Events : CommitOrder(e) \/ BackoffElapses(e)
  \/ \E p \in Publishers : RunOnce(p) \/ Exit(p) \/ Start(p)
  \/ \E p \in Publishers, e \in Events : Resend(p, e)

\* A running publisher keeps polling and time passes.  That a process that
\* ended is started again is not assumed.
PubFairness ==
  /\ \A p \in Publishers : WF_pubVars(RunOnce(p))
  /\ \A e \in Events : WF_pubVars(BackoffElapses(e))

PubSpec == PubInit /\ [][PubNext]_pubVars

FairPubSpec == PubSpec /\ PubFairness
-----------------------------------------------------------------------------
PubTypeOK ==
  /\ status \in [Events -> Statuses]
  /\ attempts \in [Events -> Nat]
  /\ due \subseteq Events
  /\ stream \in Seq(Events)
  /\ pubPc \in [Publishers -> {"down", "poll", "send", "sent", "failed"}]
  /\ fetched \in [Publishers -> SUBSET Events]
  /\ cached \in [Publishers -> [Events -> Nat]]
  /\ failures \in [Events -> Nat]
  /\ exits \in Nat /\ resends \in Nat
  /\ \A p \in Publishers : fetched[p] = {} <=> pubPc[p] \in {"down", "poll"}

OnStream(e) == \E n \in DOMAIN stream : stream[n] = e

\* A row is marked published only when the stream has its event, whichever
\* publisher marks it and whatever it overwrites.
PublishedOnStream ==
  \A e \in Events : status[e] = "published" => OnStream(e)

\* "Dead marking after max attempts": a row is given up only after MaxAttempts
\* failed publishes, even when publishers count from stale rows or restart.
DeadAfterMaxAttempts ==
  \A e \in Events : status[e] = "dead" => failures[e] >= MaxAttempts

\* A pending row does not stay pending: while some publisher stays up, it is
\* published or given up, however long the broker fails.
PendingSettles ==
  (\E p \in Publishers : <>[](pubPc[p] # "down")) =>
    \A e \in Events : status[e] = "pending" ~> status[e] \in {"published", "dead"}
=============================================================================
