-------------------------- MODULE MetricsCollector --------------------------
(***************************************************************************)
(* metricscollector.Service: calls of Ingest fill a bounded channel, a     *)
(* pool of workers folds the events into pending aggregates under s.mu,    *)
(* and Flush moves the aggregates to the store, called by the flush loop   *)
(* and at the end of Stop.  The store is in memory, or Redis, whose        *)
(* pipeline may fail part way.                                             *)
(*                                                                         *)
(* Every Start has goroutines of its own: one that a timed-out Stop left   *)
(* behind lives on beside those of the next Start.                         *)
(***************************************************************************)
EXTENDS Integers, Sequences, FiniteSets

CONSTANTS
  Events,       \* the calls of Ingest, each with its event
  Invalid,      \* the events that fail validation
  CounterKey,   \* CounterKey[e]: source.name.status
  LatKey,       \* LatKey[e]: source.name
  Duration,     \* Duration[e]: duration_ms
  Workers,      \* the workers of one Start
  QueueSize,    \* cfg.QueueSize
  RedisStore,   \* TRUE: the Redis store; FALSE: the memory store
  MaxStarts,    \* bound on calls of Start
  MaxFailures   \* bound on connections to Redis that break during Apply

CounterKeys == {CounterKey[e] : e \in Events}
LatKeys == {LatKey[e] : e \in Events}
Gens == 1..MaxStarts

ASSUME MetricsAssumption ==
  /\ {"off", "idle"} \cap Events = {}
  /\ Invalid \subseteq Events
  /\ Duration \in [Events -> Nat]
  /\ QueueSize \in Nat \ {0}
  /\ RedisStore \in BOOLEAN
  /\ MaxStarts \in Nat /\ MaxFailures \in Nat

VARIABLES
  started,    \* s.started
  gen,        \* how often Start took effect
  cancelled,  \* the Starts whose context is cancelled
  queue,      \* the events in s.queue
  pending,    \* s.pendingCounters and s.pendingLatency
  stored,     \* the aggregates in the store
  call,       \* call[e]: "new", "checked" (past the test of started), or the answer
  hand,       \* hand[g, w]: the worker's goroutine: "off", "idle", or its event
  flush,      \* flush[g]: the flush loop: "off", "idle", "apply"
  owner,      \* the goroutine of Start and Stop: "free", "waiting", "apply"
  batch,      \* batch[g]: what the flush loop drained; batch[0]: what Stop did
  stopped,    \* how the last Stop ended: "none", "ok", "timeout", "error"
  failures,   \* how often a connection broke during Apply
  lost,       \* the aggregates that failed calls of Apply did not store
  repeated    \* the aggregates that the Redis client stored a second time

work == <<hand, flush, batch>>
faults == <<failures, lost, repeated>>
life == <<started, gen, cancelled>>
metricsVars == <<life, queue, pending, stored, call, work, owner, stopped, faults>>

Aggregates == [count : [CounterKeys -> Nat], ms : [LatKeys -> Nat], n : [LatKeys -> Nat]]

Empty == [count |-> [k \in CounterKeys |-> 0],
          ms |-> [k \in LatKeys |-> 0],
          n |-> [k \in LatKeys |-> 0]]

Merge(a, b) == [count |-> [k \in CounterKeys |-> a.count[k] + b.count[k]],
                ms |-> [k \in LatKeys |-> a.ms[k] + b.ms[k]],
                n |-> [k \in LatKeys |-> a.n[k] + b.n[k]]]

MetricsInit ==
  /\ started = FALSE /\ gen = 0 /\ cancelled = {}
  /\ queue = <<>>
  /\ pending = Empty /\ stored = Empty
  /\ call = [e \in Events |-> "new"]
  /\ hand = [x \in Gens \X Workers |-> "off"]
  /\ flush = [g \in Gens |-> "off"]
  /\ owner = "free" /\ stopped = "none"
  /\ batch = [g \in 0..MaxStarts |-> Empty]
  /\ failures = 0 /\ lost = Empty /\ repeated = Empty
-----------------------------------------------------------------------------
\* Start: takes effect once; the workers and the flush loop begin.  They also end
\* with the caller's context, which is left out: main.go passes Background, which
\* is never cancelled.
Start ==
  /\ ~started /\ owner = "free" /\ gen < MaxStarts
  /\ started' = TRUE /\ gen' = gen + 1
  /\ hand' = [x \in Gens \X Workers |-> IF x[1] = gen + 1 THEN "idle" ELSE hand[x]]
  /\ flush' = [flush EXCEPT ![gen + 1] = "idle"]
  /\ stopped' = "none"
  /\ UNCHANGED <<cancelled, queue, pending, stored, call, owner, batch, faults>>

\* Ingest refuses an incomplete event, and any event while not started.
IngestRefuse(e) ==
  /\ call[e] = "new" /\ (e \in Invalid \/ ~started)
  /\ call' = [call EXCEPT ![e] = "refused"]
  /\ UNCHANGED <<life, queue, pending, stored, work, owner, stopped, faults>>

\* Ingest reads started under the mutex.
IngestCheck(e) ==
  /\ call[e] = "new" /\ e \notin Invalid /\ started
  /\ call' = [call EXCEPT ![e] = "checked"]
  /\ UNCHANGED <<life, queue, pending, stored, work, owner, stopped, faults>>

\* The send, after the mutex is released; it does not wait for room.
IngestSend(e) ==
  /\ call[e] = "checked"
  /\ IF Len(queue) < QueueSize
     THEN queue' = Append(queue, e) /\ call' = [call EXCEPT ![e] = "accepted"]
     ELSE queue' = queue /\ call' = [call EXCEPT ![e] = "full"]
  /\ UNCHANGED <<life, pending, stored, work, owner, stopped, faults>>

\* workerLoop receives an event.  A cancelled worker may still do so.
Receive(g, w) ==
  /\ hand[<<g, w>>] = "idle" /\ queue # <<>>
  /\ hand' = [hand EXCEPT ![<<g, w>>] = Head(queue)]
  /\ queue' = Tail(queue)
  /\ UNCHANGED <<life, pending, stored, call, flush, batch, owner, stopped, faults>>

\* What one event adds to the aggregates.
Single(e) == [count |-> [k \in CounterKeys |-> IF k = CounterKey[e] THEN 1 ELSE 0],
              ms |-> [k \in LatKeys |-> IF k = LatKey[e] THEN Duration[e] ELSE 0],
              n |-> [k \in LatKeys |-> IF k = LatKey[e] THEN 1 ELSE 0]]

\* processEvent, under the mutex.
ProcessEvent(g, w) ==
  /\ hand[<<g, w>>] \in Events
  /\ pending' = Merge(pending, Single(hand[<<g, w>>]))
  /\ hand' = [hand EXCEPT ![<<g, w>>] = "idle"]
  /\ UNCHANGED <<life, queue, stored, call, flush, batch, owner, stopped, faults>>

\* Mutant of WorkerExit: a worker that finds the queue empty is done.
WorkerExitIdle(g, w) ==
  /\ hand[<<g, w>>] = "idle" /\ queue = <<>>
  /\ hand' = [hand EXCEPT ![<<g, w>>] = "off"]
  /\ UNCHANGED <<life, queue, pending, stored, call, flush, batch, owner, stopped, faults>>

\* workerLoop sees that the context is done, even with events in the queue.
WorkerExit(g, w) ==
  /\ hand[<<g, w>>] = "idle" /\ g \in cancelled
  /\ hand' = [hand EXCEPT ![<<g, w>>] = "off"]
  /\ UNCHANGED <<life, queue, pending, stored, call, flush, batch, owner, stopped, faults>>

\* Mutant of Drain: the aggregates stay pending.
DrainKept(g) ==
  /\ batch' = [batch EXCEPT ![g] = pending]
  /\ UNCHANGED pending

\* drainPending, under the mutex.
Drain(g) ==
  /\ batch' = [batch EXCEPT ![g] = pending]
  /\ pending' = Empty

\* The first half of the flush loop's Flush.
LoopDrain(g) ==
  /\ flush[g] = "idle" /\ pending # Empty
  /\ flush' = [flush EXCEPT ![g] = "apply"]
  /\ Drain(g)
  /\ UNCHANGED <<life, queue, stored, call, hand, owner, stopped, faults>>

\* The flush loop ends.
FlushExit(g) ==
  /\ flush[g] = "idle" /\ g \in cancelled
  /\ flush' = [flush EXCEPT ![g] = "off"]
  /\ UNCHANGED <<life, queue, pending, stored, call, hand, batch, owner, stopped, faults>>

\* Apply succeeds with what g drained.
ApplyOk(g) ==
  /\ stored' = Merge(stored, batch[g])
  /\ batch' = [batch EXCEPT ![g] = Empty]
  /\ UNCHANGED faults

\* The pipeline's commands that ran before it broke off: counters first, then
\* for one latency key after the other the sum and the count.
Prefixes == {p \in [count : SUBSET CounterKeys, ms : SUBSET LatKeys, n : SUBSET LatKeys] :
               /\ p.n \subseteq p.ms /\ Cardinality(p.ms \ p.n) <= 1
               /\ p.ms # {} => p.count = CounterKeys}

\* The part of aggregates a that belongs to the keys of p.
Part(a, p) ==
  [count |-> [k \in CounterKeys |-> IF k \in p.count THEN a.count[k] ELSE 0],
   ms |-> [k \in LatKeys |-> IF k \in p.ms THEN a.ms[k] ELSE 0],
   n |-> [k \in LatKeys |-> IF k \in p.n THEN a.n[k] ELSE 0]]

Others(p) == [count |-> CounterKeys \ p.count, ms |-> LatKeys \ p.ms, n |-> LatKeys \ p.n]

\* The pipeline fails with an error; what was drained is not put back.
ApplyFails(g) ==
  /\ RedisStore /\ failures < MaxFailures
  /\ failures' = failures + 1
  /\ \E p \in Prefixes : /\ stored' = Merge(stored, Part(batch[g], p))
                         /\ lost' = Merge(lost, Part(batch[g], Others(p)))
  /\ batch' = [batch EXCEPT ![g] = Empty]
  /\ UNCHANGED repeated

\* The connection breaks and go-redis sends the whole pipeline again, the commands
\* that ran before included; Apply succeeds.
ApplyRepeats(g) ==
  /\ RedisStore /\ failures < MaxFailures
  /\ failures' = failures + 1
  /\ \E p \in Prefixes :
       /\ stored' = Merge(Merge(stored, Part(batch[g], p)), batch[g])
       /\ repeated' = Merge(repeated, Part(batch[g], p))
  /\ batch' = [batch EXCEPT ![g] = Empty]
  /\ UNCHANGED lost

\* The second half of the flush loop's Flush; its error is ignored.
LoopApply(g) ==
  /\ flush[g] = "apply"
  /\ ApplyOk(g) \/ ApplyFails(g) \/ ApplyRepeats(g)
  /\ flush' = [flush EXCEPT ![g] = "idle"]
  /\ UNCHANGED <<life, queue, pending, call, hand, owner, stopped>>

\* Stop under the mutex.
StopBegin ==
  /\ started /\ owner = "free"
  /\ started' = FALSE /\ cancelled' = cancelled \cup {gen}
  /\ owner' = "waiting"
  /\ UNCHANGED <<gen, queue, pending, stored, call, work, stopped, faults>>

\* Mutant of AllGone: Stop does not wait for the workers.
AllGoneEarly == \A g \in Gens : flush[g] = "off"

\* The wait group is at zero: the goroutines of every Start have returned.
AllGone ==
  /\ \A g \in Gens : flush[g] = "off"
  /\ \A x \in Gens \X Workers : hand[x] = "off"

\* The context of Stop expires first: no last Flush.
StopTimeout ==
  /\ owner = "waiting"
  /\ owner' = "free" /\ stopped' = "timeout"
  /\ UNCHANGED <<life, queue, pending, stored, call, work, faults>>

\* All goroutines are gone: the last Flush begins.
StopDrain ==
  /\ owner = "waiting" /\ AllGone
  /\ owner' = "apply"
  /\ Drain(0)
  /\ UNCHANGED <<life, queue, stored, call, hand, flush, stopped, faults>>

\* The last Flush ends and Stop returns its error; with nothing to store it has none.
StopApply ==
  /\ owner = "apply"
  /\ \/ ApplyOk(0) /\ stopped' = "ok"
     \/ batch[0] # Empty /\ ApplyRepeats(0) /\ stopped' = "ok"
     \/ batch[0] # Empty /\ ApplyFails(0) /\ stopped' = "error"
  /\ owner' = "free"
  /\ UNCHANGED <<life, queue, pending, call, hand, flush>>

Work(g, w) == Receive(g, w) \/ ProcessEvent(g, w) \/ WorkerExit(g, w)

FlushLoop(g) == LoopDrain(g) \/ LoopApply(g) \/ FlushExit(g)

LastFlush == StopDrain \/ StopApply

MetricsNext ==
  \/ Start \/ StopBegin \/ StopTimeout \/ LastFlush
  \/ \E e \in Events : IngestRefuse(e) \/ IngestCheck(e) \/ IngestSend(e)
  \/ \E g \in Gens, w \in Workers : Work(g, w)
  \/ \E g \in Gens : FlushLoop(g)

\* Goroutines that can run do run, and calls of the store return.  That
\* the context of Stop expires is not assumed.
MetricsFairness ==
  /\ \A g \in Gens, w \in Workers : WF_metricsVars(Work(g, w))
  /\ \A g \in Gens : WF_metricsVars(FlushLoop(g))
  /\ WF_metricsVars(LastFlush)

MetricsSpec == MetricsInit /\ [][MetricsNext]_metricsVars

FairMetricsSpec == MetricsSpec /\ MetricsFairness
-----------------------------------------------------------------------------
MetricsTypeOK ==
  /\ started \in BOOLEAN /\ gen \in 0..MaxStarts /\ cancelled \subseteq 1..gen
  /\ queue \in Seq(Events) /\ Len(queue) <= QueueSize
  /\ pending \in Aggregates /\ stored \in Aggregates /\ lost \in Aggregates
  /\ repeated \in Aggregates
  /\ call \in [Events -> {"new", "checked", "accepted", "full", "refused"}]
  /\ hand \in [Gens \X Workers -> {"off", "idle"} \cup Events]
  /\ flush \in [Gens -> {"off", "idle", "apply"}]
  /\ owner \in {"free", "waiting", "apply"}
  /\ batch \in [0..MaxStarts -> Aggregates]
  /\ stopped \in {"none", "ok", "timeout", "error"}
  /\ failures \in 0..MaxFailures

\* The events on their way to the aggregates.
Queued == {queue[i] : i \in 1..Len(queue)}
InHand == {hand[x] : x \in Gens \X Workers} \cap Events
Processed == {e \in Events : call[e] = "accepted"} \ (Queued \cup InHand)

\* The sum of the natural numbers f[x]: as many pairs as they count.
Pairs(f) == UNION {{x} \X (1..f[x]) : x \in DOMAIN f}
Total(f) == Cardinality(Pairs(f))

\* What the calls of Flush have drained and not applied yet, added up.
Drained == [count |-> [k \in CounterKeys |-> Total([g \in 0..MaxStarts |-> batch[g].count[k]])],
            ms |-> [k \in LatKeys |-> Total([g \in 0..MaxStarts |-> batch[g].ms[k]])],
            n |-> [k \in LatKeys |-> Total([g \in 0..MaxStarts |-> batch[g].n[k]])]]

\* Every aggregate that exists somewhere, added up.
Held == Merge(Merge(pending, Merge(stored, lost)), Drained)

\* The events of S with key k.
With(S, K, k) == {e \in S : K[e] = k}

\* What the events of S amount to.
SumOver(S) ==
  [count |-> [k \in CounterKeys |-> Cardinality(With(S, CounterKey, k))],
   ms |-> [k \in LatKeys |-> Total([e \in With(S, LatKey, k) |-> Duration[e]])],
   n |-> [k \in LatKeys |-> Cardinality(With(S, LatKey, k))]]

\* Every event a worker has processed is counted exactly once, with its duration,
\* among what is pending, being flushed, stored, or dropped by a failed Apply; only
\* a pipeline that is sent again counts one twice.  No interleaving of workers,
\* flush loops and Stop loses or repeats one.
CountedOnce == Held = Merge(SumOver(Processed), repeated)

\* When Stop has returned nil, every event a worker took is in the store, or was
\* in a batch whose Apply failed before; only the queue is left over.
StopFlushes ==
  stopped = "ok" =>
    InHand = {} /\ Merge(stored, lost) = Merge(SumOver(Processed), repeated)

\* While the collector runs, what was accepted is processed and flushed.
EverythingFlushed ==
  started ~> \/ ~started
             \/ Queued = {} /\ InHand = {} /\ Merge(stored, lost) = Held
=============================================================================
