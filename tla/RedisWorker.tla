----------------------------- MODULE RedisWorker -----------------------------
(***************************************************************************)
(* redisworker.Service in its two modes: workers that pop a Redis list     *)
(* (BLPOP), or that read a stream through a consumer group (XREADGROUP     *)
(* with ">", XACK after success).  The mode is fixed when the service is   *)
(* built, so Init chooses it.                                              *)
(*                                                                         *)
(* The list, the stream and the group are Redis's: they outlive a crash    *)
(* and the service that Stop has closed; the next Start is one of a new    *)
(* service.  Messages are numbered in the order they are sent, and the     *)
(* stream holds exactly the messages 1..sent; a push that go-redis sends   *)
(* again after a lost answer is two messages.                              *)
(***************************************************************************)
EXTENDS Integers, Sequences, SequencesExt

CONSTANTS
  Workers,      \* the worker pool
  MaxMessages,  \* bound on messages sent
  MaxStarts,    \* bound on services started
  MaxFaults     \* bound on failing calls of Redis

ASSUME RedisAssumption ==
  MaxMessages \in Nat /\ MaxStarts \in Nat /\ MaxFaults \in Nat

VARIABLES
  mode,    \* cfg.Mode: "list", "stream"
  up,      \* "off", "run", "stopping" (the context is cancelled)
  starts,  \* services started
  sent,    \* messages sent
  list,    \* list mode: the Redis list, its left end first
  lastId,  \* stream mode: the group's last delivered message, -1 without a group
  first,   \* the messages up to this one were there before the group
  pel,     \* stream mode: the group's pending entries
  acked,   \* stream mode: the acknowledged messages
  wk,      \* wk[w]: "off", "idle", "poll" (in the Redis call), "busy", "ack"
  msg,     \* msg[w]: the message w has, 0 if none
  calls,   \* calls[m]: how often the processor was called with m
  good,    \* the messages the processor succeeded with
  faults   \* failing calls of Redis so far

Messages == 1..MaxMessages
broker == <<list, lastId, pel>>
workers == <<wk, msg, calls, good>>
redisVars == <<mode, up, starts, sent, broker, first, acked, workers, faults>>

RedisInit ==
  /\ mode \in {"list", "stream"}
  /\ up = "off" /\ starts = 0 /\ sent = 0
  /\ list = <<>> /\ lastId = -1 /\ first = 0 /\ pel = {} /\ acked = {}
  /\ wk = [w \in Workers |-> "off"] /\ msg = [w \in Workers |-> 0]
  /\ calls = [m \in Messages |-> 0] /\ good = {}
  /\ faults = 0
-----------------------------------------------------------------------------
\* XGROUP CREATE ... $ MKSTREAM: only messages sent from now on will be delivered.
CreateGroup ==
  IF mode = "stream" /\ lastId = -1
  THEN lastId' = sent /\ first' = sent
  ELSE UNCHANGED <<lastId, first>>

Start ==
  /\ up = "off" /\ starts < MaxStarts
  /\ CreateGroup
  /\ up' = "run" /\ starts' = starts + 1
  /\ wk' = [w \in Workers |-> "idle"]
  /\ UNCHANGED <<mode, sent, list, pel, acked, msg, calls, good, faults>>

\* Start returns an error, yet Redis may have created the group.
StartFails ==
  /\ up = "off" /\ mode = "stream" /\ lastId = -1 /\ faults < MaxFaults
  /\ CreateGroup
  /\ faults' = faults + 1
  /\ UNCHANGED <<mode, up, starts, sent, list, pel, acked, workers>>

\* EnqueueList: LPUSH puts the message at the end BLPOP takes from.
EnqueueList ==
  /\ mode = "list" /\ sent < MaxMessages
  /\ sent' = sent + 1
  /\ list' = <<sent + 1>> \o list
  /\ UNCHANGED <<mode, up, starts, lastId, first, pel, acked, workers, faults>>

\* EnqueueStream: XADD.
EnqueueStream ==
  /\ mode = "stream" /\ sent < MaxMessages
  /\ sent' = sent + 1
  /\ UNCHANGED <<mode, up, starts, broker, first, acked, workers, faults>>

\* workerLoop begins another round, or sees the cancelled context.
Enter(w) ==
  /\ wk[w] = "idle"
  /\ wk' = [wk EXCEPT ![w] = IF up = "run" THEN "poll" ELSE "off"]
  /\ UNCHANGED <<mode, up, starts, sent, broker, first, acked, msg, calls, good, faults>>

\* Redis has a message for the next call.
Available == IF mode = "list" THEN list # <<>> ELSE lastId < sent

\* The message it hands out.
NextMessage == IF mode = "list" THEN Head(list) ELSE lastId + 1

\* Mutant of HandOut: the entry is read with the id 0 in place of ">".
HandOutAgain ==
  /\ list' = IF mode = "list" THEN Tail(list) ELSE list
  /\ pel' = IF mode = "stream" THEN pel \cup {NextMessage} ELSE pel
  /\ UNCHANGED lastId

\* BLPOP removes it; XREADGROUP moves the group on and makes it pending.
HandOut ==
  /\ list' = IF mode = "list" THEN Tail(list) ELSE list
  /\ lastId' = IF mode = "stream" THEN NextMessage ELSE lastId
  /\ pel' = IF mode = "stream" THEN pel \cup {NextMessage} ELSE pel

\* The call returns a message, even one that was under way when Stop cancelled.
Receive(w) ==
  /\ wk[w] = "poll" /\ Available
  /\ HandOut
  /\ msg' = [msg EXCEPT ![w] = NextMessage]
  /\ wk' = [wk EXCEPT ![w] = "busy"]
  /\ UNCHANGED <<mode, up, starts, sent, first, acked, calls, good, faults>>


\* BlockTimeout passes with nothing to read.
PollEmpty(w) ==
  /\ wk[w] = "poll" /\ ~Available
  /\ wk' = [wk EXCEPT ![w] = "idle"]
  /\ UNCHANGED <<mode, up, starts, sent, broker, first, acked, msg, calls, good, faults>>

\* The call returns the context's error; the command may have reached Redis, which
\* then handed out a message nobody gets.
PollCancelled(w) ==
  /\ wk[w] = "poll" /\ up = "stopping"
  /\ UNCHANGED broker \/ (Available /\ HandOut)
  /\ wk' = [wk EXCEPT ![w] = "off"]
  /\ UNCHANGED <<mode, up, starts, sent, first, acked, msg, calls, good, faults>>

\* The call fails otherwise; Redis may have handed out a message all the same.
PollFails(w) ==
  /\ wk[w] = "poll" /\ faults < MaxFaults
  /\ faults' = faults + 1
  /\ UNCHANGED broker \/ (Available /\ HandOut)
  /\ wk' = [wk EXCEPT ![w] = "idle"]
  /\ UNCHANGED <<mode, up, starts, sent, first, acked, msg, calls, good>>

\* The processor is called with w's message and returns; w goes on to next.
Process(w, next) ==
  /\ wk[w] = "busy"
  /\ calls' = [calls EXCEPT ![msg[w]] = @ + 1]
  /\ wk' = [wk EXCEPT ![w] = next]
  /\ msg' = [msg EXCEPT ![w] = IF next = "ack" THEN @ ELSE 0]
  /\ UNCHANGED <<mode, up, starts, sent, broker, first, acked, faults>>

Succeed(w) ==
  /\ Process(w, IF mode = "stream" THEN "ack" ELSE "idle")
  /\ good' = good \cup {msg[w]}

\* Mutant of Fail: the entry is acknowledged whatever the processor says.
FailAcks(w) ==
  /\ Process(w, IF mode = "stream" THEN "ack" ELSE "idle")
  /\ UNCHANGED good

\* The processor fails: the message is neither acknowledged nor put back.
Fail(w) == Process(w, "idle") /\ UNCHANGED good

\* The processor returns a context error: in list mode the worker ends with it.
FailContext(w) ==
  /\ Process(w, IF mode = "list" THEN "off" ELSE "idle")
  /\ UNCHANGED good

\* XACK.
Ack(w) ==
  /\ wk[w] = "ack" /\ up = "run"
  /\ acked' = acked \cup {msg[w]} /\ pel' = pel \ {msg[w]}
  /\ wk' = [wk EXCEPT ![w] = "idle"] /\ msg' = [msg EXCEPT ![w] = 0]
  /\ UNCHANGED <<mode, up, starts, sent, list, lastId, first, calls, good, faults>>

\* XACK fails and nobody notices: always once the context is cancelled.
AckFails(w) ==
  /\ wk[w] = "ack"
  /\ \/ up = "stopping" /\ UNCHANGED faults
     \/ faults < MaxFaults /\ faults' = faults + 1
  /\ wk' = [wk EXCEPT ![w] = "idle"] /\ msg' = [msg EXCEPT ![w] = 0]
  /\ UNCHANGED <<mode, up, starts, sent, broker, first, acked, calls, good>>

\* Stop cancels the context.
StopBegin ==
  /\ up = "run"
  /\ up' = "stopping"
  /\ UNCHANGED <<mode, starts, sent, broker, first, acked, workers, faults>>

\* The workers have returned; the client is closed.
StopEnd ==
  /\ up = "stopping" /\ \A w \in Workers : wk[w] = "off"
  /\ up' = "off"
  /\ UNCHANGED <<mode, starts, sent, broker, first, acked, workers, faults>>

\* The process dies.
Crash ==
  /\ up # "off"
  /\ up' = "off"
  /\ wk' = [w \in Workers |-> "off"] /\ msg' = [w \in Workers |-> 0]
  /\ UNCHANGED <<mode, starts, sent, broker, first, acked, calls, good, faults>>

Poll(w) == Receive(w) \/ PollEmpty(w) \/ PollCancelled(w) \/ PollFails(w)

Handle(w) == Succeed(w) \/ Fail(w) \/ FailContext(w) \/ Ack(w) \/ AckFails(w)

WorkerLoop(w) == Enter(w) \/ Poll(w) \/ Handle(w)

RedisNext ==
  \/ Start \/ StartFails \/ StopBegin \/ StopEnd \/ Crash
  \/ EnqueueList \/ EnqueueStream
  \/ \E w \in Workers : WorkerLoop(w)

\* Goroutines that can run do run, and calls of Redis and the processor return.
RedisFairness ==
  /\ \A w \in Workers : WF_redisVars(WorkerLoop(w))
  /\ WF_redisVars(StopEnd)

RedisSpec == RedisInit /\ [][RedisNext]_redisVars

FairRedisSpec == RedisSpec /\ RedisFairness
-----------------------------------------------------------------------------
RedisTypeOK ==
  /\ mode \in {"list", "stream"} /\ up \in {"off", "run", "stopping"}
  /\ starts \in 0..MaxStarts /\ sent \in 0..MaxMessages /\ faults \in 0..MaxFaults
  /\ list \in Seq(Messages)
  /\ lastId \in -1..sent /\ first \in 0..sent
  /\ pel \subseteq Messages /\ acked \subseteq Messages /\ good \subseteq Messages
  /\ wk \in [Workers -> {"off", "idle", "poll", "busy", "ack"}]
  /\ msg \in [Workers -> 0..MaxMessages]
  /\ \A w \in Workers : wk[w] \in {"busy", "ack"} <=> msg[w] # 0
  /\ calls \in [Messages -> Nat]

\* A message is in the hands of one worker at most and the processor gets it at
\* most once, across workers, restarts and failing calls: nothing is retried.
HandledAtMostOnce ==
  /\ \A m \in Messages : calls[m] <= 1
  /\ \A w, v \in Workers : w # v /\ msg[w] # 0 => msg[w] # msg[v]

\* Stream mode: what the group handed out is acknowledged or still pending, so an
\* operator finds every message that was not finished; and only messages the
\* processor succeeded with are acknowledged.
StreamKeepsUnfinished ==
  mode = "stream" /\ lastId >= 0 =>
    /\ acked \cup pel = (first + 1)..lastId
    /\ acked \cap pel = {}
    /\ acked \subseteq good

Waiting(m) == IF mode = "list" THEN m \in Range(list) ELSE lastId >= 0 /\ m \in (lastId + 1)..sent

=============================================================================
