-------------------------- MODULE RedisWorkerProofs --------------------------
(***************************************************************************)
(* For any number of workers, messages, restarts and failing calls, in     *)
(* both modes: the processor gets a message at most once, and the stream's *)
(* group keeps what is unfinished.                                         *)
(***************************************************************************)
EXTENDS RedisWorker, TLAPS

Elems(s) == {s[i] : i \in 1..Len(s)}

Distinct(s) == \A i, j \in 1..Len(s) : s[i] = s[j] => i = j

\* No worker runs outside a service, and a service of stream mode has its group.
LifeInv ==
  /\ up = "off" => \A w \in Workers : wk[w] = "off"
  /\ mode = "stream" /\ lastId = -1 => up = "off"

\* The list holds messages that were sent, each once.
QueueInv == Distinct(list) /\ Elems(list) \subseteq 1..sent

\* Redis has not handed m out yet.
Untouched(m) == IF mode = "list" THEN m \in Elems(list) \/ m > sent ELSE m > lastId

\* Nobody has seen an untouched message, and a busy worker's is not processed yet.
HandledInv ==
  /\ \A m \in Messages : Untouched(m) => calls[m] = 0 /\ \A w \in Workers : msg[w] # m
  /\ \A w \in Workers : wk[w] = "busy" => calls[msg[w]] = 0

\* Stream mode: what a worker has is pending, and what it acknowledges succeeded.
PendingInv ==
  /\ mode = "stream" =>
       /\ lastId = -1 => pel = {} /\ acked = {}
       /\ lastId >= 0 => first <= lastId
       /\ \A w \in Workers : msg[w] # 0 => msg[w] \in pel
  /\ \A w \in Workers : wk[w] = "ack" => mode = "stream" /\ msg[w] \in good

RedisInv ==
  /\ RedisTypeOK /\ LifeInv /\ QueueInv /\ HandledInv /\ PendingInv
  /\ HandledAtMostOnce /\ StreamKeepsUnfinished

\* LPUSH of a new message.
LEMMA PushDistinct ==
  ASSUME NEW S, NEW s \in Seq(S), Distinct(s), NEW x \in S, x \notin Elems(s)
  PROVE  /\ <<x>> \o s \in Seq(S) /\ Distinct(<<x>> \o s)
         /\ Elems(<<x>> \o s) = Elems(s) \cup {x}
  <1> DEFINE t == <<x>> \o s
  <1>1. /\ t \in Seq(S) /\ Len(t) = Len(s) + 1 /\ Len(s) \in Nat /\ t[1] = x
        /\ \A i \in 2..Len(t) : t[i] = s[i - 1]
    OBVIOUS
  <1> HIDE DEF t
  <1>2. \A i \in 2..Len(t) : i - 1 \in 1..Len(s) /\ t[i] = s[i - 1]
    BY <1>1
  <1>3. \A i \in 1..Len(s) : i + 1 \in 2..Len(t) /\ t[i + 1] = s[i]
    BY <1>1
  <1>4. Elems(t) = Elems(s) \cup {x}
    <2>1. \A e \in Elems(t) : e \in Elems(s) \cup {x}
      <3> SUFFICES ASSUME NEW i \in 1..Len(t) PROVE t[i] \in Elems(s) \cup {x}
        BY DEF Elems
      <3>1. CASE i = 1
        BY <1>1, <3>1
      <3>2. CASE i \in 2..Len(t)
        BY <1>2, <3>2 DEF Elems
      <3> QED BY <1>1, <3>1, <3>2
    <2>2. \A e \in Elems(s) : e \in Elems(t)
      <3> SUFFICES ASSUME NEW i \in 1..Len(s) PROVE s[i] \in Elems(t)
        BY DEF Elems
      <3>1. i + 1 \in 1..Len(t) /\ t[i + 1] = s[i]
        BY <1>1, <1>3
      <3> QED BY <3>1 DEF Elems
    <2>3. x \in Elems(t)
      BY <1>1 DEF Elems
    <2> QED BY <2>1, <2>2, <2>3
  <1>5. \A i \in 2..Len(t) : t[i] # x
    BY <1>2 DEF Elems
  <1>6. Distinct(t)
    <2> SUFFICES ASSUME NEW i \in 1..Len(t), NEW j \in 1..Len(t), t[i] = t[j] PROVE i = j
      BY DEF Distinct
    <2>1. CASE i = 1 \/ j = 1
      BY <1>1, <1>5, <2>1
    <2>2. CASE i \in 2..Len(t) /\ j \in 2..Len(t)
      <3>1. i - 1 = j - 1
        BY <1>2, <2>2 DEF Distinct
      <3> QED BY <3>1
    <2> QED BY <1>1, <2>1, <2>2
  <1> QED BY <1>1, <1>4, <1>6 DEF t

\* BLPOP.
LEMMA PopDistinct ==
  ASSUME NEW S, NEW s \in Seq(S), Distinct(s), s # <<>>
  PROVE  /\ Tail(s) \in Seq(S) /\ Distinct(Tail(s)) /\ Head(s) \in Elems(s) /\ Head(s) \in S
         /\ Elems(Tail(s)) = Elems(s) \ {Head(s)}
  <1> DEFINE t == Tail(s)
  <1>1. /\ t \in Seq(S) /\ Len(s) = Len(t) + 1 /\ Len(t) \in Nat /\ Head(s) = s[1] /\ s[1] \in S
        /\ \A i \in 1..Len(t) : t[i] = s[i + 1]
    OBVIOUS
  <1> HIDE DEF t
  <1>2. \A i \in 1..Len(t) : i + 1 \in 2..Len(s) /\ i + 1 \in 1..Len(s) /\ t[i] = s[i + 1]
    BY <1>1
  <1>3. 1 \in 1..Len(s)
    BY <1>1
  <1>4. Distinct(t)
    <2> SUFFICES ASSUME NEW i \in 1..Len(t), NEW j \in 1..Len(t), t[i] = t[j] PROVE i = j
      BY DEF Distinct
    <2>1. i + 1 = j + 1
      BY <1>2 DEF Distinct
    <2> QED BY <2>1
  <1>5. \A i \in 1..Len(t) : t[i] # s[1]
    BY <1>2, <1>3 DEF Distinct
  <1>6. \A i \in 1..Len(t) : t[i] \in Elems(s)
    BY <1>2 DEF Elems
  <1>7. \A i \in 1..Len(s) : s[i] # s[1] => s[i] \in Elems(t)
    <2> SUFFICES ASSUME NEW i \in 1..Len(s), s[i] # s[1] PROVE s[i] \in Elems(t)
      OBVIOUS
    <2>1. i - 1 \in 1..Len(t) /\ (i - 1) + 1 = i
      BY <1>1
    <2>2. t[i - 1] = s[i]
      BY <1>1, <2>1
    <2> QED BY <2>1, <2>2 DEF Elems
  <1>8. Elems(t) = Elems(s) \ {s[1]}
    BY <1>5, <1>6, <1>7 DEF Elems
  <1>9. s[1] \in Elems(s)
    BY <1>3 DEF Elems
  <1> QED BY <1>1, <1>4, <1>8, <1>9 DEF t

\* An empty list and stream, and no workers.
LEMMA RedisInitInv == RedisInit => RedisInv
  <1> SUFFICES ASSUME RedisInit PROVE RedisInv
    OBVIOUS
  <1> USE DEF RedisInit
  <1>1. RedisTypeOK
    BY RedisAssumption DEF RedisTypeOK, Messages
  <1>2. LifeInv /\ QueueInv /\ PendingInv
    BY RedisAssumption DEF LifeInv, QueueInv, PendingInv, Distinct, Elems
  <1>3. HandledInv
    BY DEF HandledInv, Messages
  <1>4. HandledAtMostOnce /\ StreamKeepsUnfinished
    BY DEF HandledAtMostOnce, StreamKeepsUnfinished
  <1> QED BY <1>1, <1>2, <1>3, <1>4 DEF RedisInv

\* What a step that hands m out does to the queues: m was untouched and is not any
\* more, nothing becomes untouched, and in stream mode m becomes pending.
HandsOut(m) ==
  /\ m \in Messages /\ m \in 1..sent /\ Untouched(m)
  /\ \A k \in Messages : Untouched(k)' => Untouched(k) /\ k # m
  /\ list' \in Seq(Messages) /\ QueueInv'
  /\ lastId' \in -1..sent /\ pel' \subseteq Messages
  /\ mode = "stream" => /\ lastId >= 0 /\ lastId' = lastId + 1 /\ m = lastId + 1
                        /\ pel' = pel \cup {m}
  /\ mode = "list" => lastId' = lastId

\* The next message is handed out like that.
LEMMA HandOutEffect ==
  ASSUME RedisInv, up # "off", Available, HandOut, UNCHANGED <<mode, sent>>
  PROVE  HandsOut(NextMessage)
  <1>1. /\ mode \in {"list", "stream"} /\ sent \in Nat /\ sent <= MaxMessages /\ MaxMessages \in Nat
        /\ lastId \in -1..sent /\ list \in Seq(Messages) /\ pel \subseteq Messages
    BY RedisAssumption DEF RedisInv, RedisTypeOK
  <1>2. Distinct(list) /\ Elems(list) \subseteq 1..sent
    BY DEF RedisInv, QueueInv
  <1>3. CASE mode = "list"
    <2>1. /\ list # <<>> /\ list' = Tail(list) /\ lastId' = lastId /\ pel' = pel
          /\ NextMessage = Head(list) /\ mode' = "list" /\ sent' = sent
      BY <1>3 DEF Available, HandOut, NextMessage
    <2>2. /\ list' \in Seq(Messages) /\ Distinct(list') /\ Head(list) \in Elems(list)
          /\ Head(list) \in Messages /\ Elems(list') = Elems(list) \ {Head(list)}
      BY <1>1, <1>2, <2>1, PopDistinct
    <2>3. \A k \in Messages : Untouched(k)' => Untouched(k) /\ k # Head(list)
      BY <1>1, <1>2, <1>3, <2>1, <2>2 DEF Untouched, Messages
    <2>4. QueueInv'
      BY <1>2, <2>1, <2>2 DEF QueueInv
    <2> QED BY <1>1, <1>2, <1>3, <2>1, <2>2, <2>3, <2>4 DEF HandsOut, Untouched
  <1>4. CASE mode = "stream"
    <2>1. /\ lastId < sent /\ list' = list /\ lastId' = lastId + 1 /\ pel' = pel \cup {lastId + 1}
          /\ NextMessage = lastId + 1 /\ mode' = "stream" /\ sent' = sent
      BY <1>4 DEF Available, HandOut, NextMessage
    <2>2. lastId >= 0
      BY <1>1, <1>4 DEF RedisInv, LifeInv
    <2>3. lastId + 1 \in Messages /\ lastId + 1 \in 1..sent /\ lastId' \in -1..sent
      BY <1>1, <2>1, <2>2 DEF Messages
    <2>4. Untouched(lastId + 1) /\ \A k \in Messages : Untouched(k)' => Untouched(k) /\ k # lastId + 1
      BY <1>1, <1>4, <2>1 DEF Untouched, Messages
    <2>5. QueueInv'
      BY <1>2, <2>1 DEF QueueInv, Distinct, Elems
    <2> QED BY <1>1, <1>4, <2>1, <2>2, <2>3, <2>4, <2>5 DEF HandsOut
  <1> QED BY <1>1, <1>3, <1>4

\* A message that leaves the queue is pending, whether or not a worker gets it.
LEMMA HandOutKeepsStream ==
  ASSUME RedisInv, NEW m, HandsOut(m), UNCHANGED <<mode, first, acked, good>>
  PROVE  /\ StreamKeepsUnfinished'
         /\ mode = "stream" => (lastId' = -1 => pel' = {} /\ acked' = {})
                               /\ (lastId' >= 0 => first' <= lastId')
  <1> SUFFICES ASSUME mode = "stream"
               PROVE  /\ acked \cup pel' = (first + 1)..lastId'
                      /\ acked \cap pel' = {} /\ acked \subseteq good
                      /\ lastId' >= 0 /\ first <= lastId'
    BY DEF StreamKeepsUnfinished, RedisInv, RedisTypeOK, HandsOut
  <1>1. /\ lastId \in Nat /\ lastId' = lastId + 1 /\ m = lastId + 1 /\ pel' = pel \cup {m}
        /\ first \in Nat /\ first <= lastId
    BY DEF HandsOut, RedisInv, RedisTypeOK, PendingInv
  <1>2. acked \cup pel = (first + 1)..lastId /\ acked \cap pel = {} /\ acked \subseteq good
    BY <1>1 DEF RedisInv, StreamKeepsUnfinished
  <1>3. m \notin acked
    BY <1>1, <1>2
  <1>4. (first + 1)..(lastId + 1) = ((first + 1)..lastId) \cup {lastId + 1}
    BY <1>1
  <1> QED BY <1>1, <1>2, <1>3, <1>4

\* BLPOP or XREADGROUP hand a message to w.
LEMMA ReceiveInv ==
  ASSUME RedisInv, NEW w \in Workers, Receive(w)
  PROVE  RedisInv'
  <1>1. UNCHANGED <<mode, up, starts, sent, first, acked, calls, good, faults>> /\ wk[w] = "poll"
    BY DEF Receive
  <1>2. up # "off"
    BY <1>1 DEF RedisInv, LifeInv
  <1> DEFINE m == NextMessage
  <1>3. HandsOut(m)
    BY <1>1, <1>2, HandOutEffect DEF Receive
  <1>4. msg' = [msg EXCEPT ![w] = m] /\ wk' = [wk EXCEPT ![w] = "busy"]
    BY DEF Receive
  <1>5. /\ StreamKeepsUnfinished'
        /\ mode = "stream" => (lastId' = -1 => pel' = {} /\ acked' = {})
                              /\ (lastId' >= 0 => first' <= lastId')
    BY <1>1, <1>3, HandOutKeepsStream
  <1> HIDE DEF m
  <1>6. m \in 1..MaxMessages
    BY <1>3 DEF HandsOut, Messages
  <1>7. RedisTypeOK'
    BY <1>1, <1>3, <1>4, <1>6, RedisAssumption DEF RedisInv, RedisTypeOK, HandsOut
  <1>8. LifeInv' /\ QueueInv'
    BY <1>1, <1>2, <1>3 DEF RedisInv, RedisTypeOK, LifeInv, HandsOut
  <1>9. calls[m] = 0 /\ \A v \in Workers : msg[v] # m
    BY <1>3 DEF HandsOut, RedisInv, HandledInv
  <1>10. \A v \in Workers : IF v = w THEN msg'[v] = m /\ wk'[v] = "busy"
                                     ELSE msg'[v] = msg[v] /\ wk'[v] = wk[v]
    BY <1>4 DEF RedisInv, RedisTypeOK
  <1>11. HandledInv'
    BY <1>1, <1>3, <1>9, <1>10 DEF HandsOut, RedisInv, HandledInv
  <1>12. PendingInv'
    BY <1>1, <1>3, <1>5, <1>10 DEF HandsOut, RedisInv, PendingInv
  <1>13. HandledAtMostOnce'
    BY <1>1, <1>9, <1>10 DEF RedisInv, HandledAtMostOnce
  <1> QED BY <1>5, <1>7, <1>8, <1>11, <1>12, <1>13 DEF RedisInv

\* A call that fails or is cancelled may lose the message it took.
LEMMA PollFailsInv ==
  ASSUME RedisInv, NEW w \in Workers, PollFails(w) \/ PollCancelled(w)
  PROVE  RedisInv'
  <1>1. /\ UNCHANGED <<mode, up, starts, sent, first, acked, msg, calls, good>> /\ wk[w] = "poll"
        /\ \E p \in {"idle", "off"} : wk' = [wk EXCEPT ![w] = p]
        /\ faults' = faults \/ (faults' = faults + 1 /\ faults < MaxFaults)
    BY DEF PollFails, PollCancelled
  <1>2. up # "off"
    BY <1>1 DEF RedisInv, LifeInv
  <1>3. \/ UNCHANGED <<list, lastId, pel>>
        \/ HandsOut(NextMessage)
    BY <1>1, <1>2, HandOutEffect DEF PollFails, PollCancelled, broker
  <1>4. /\ StreamKeepsUnfinished'
        /\ mode = "stream" => (lastId' = -1 => pel' = {} /\ acked' = {})
                              /\ (lastId' >= 0 => first' <= lastId')
    <2>1. CASE UNCHANGED <<list, lastId, pel>>
      BY <1>1, <2>1 DEF RedisInv, PendingInv, StreamKeepsUnfinished
    <2>2. CASE HandsOut(NextMessage)
      BY <1>1, <2>2, HandOutKeepsStream
    <2> QED BY <1>3, <2>1, <2>2
  <1>5. /\ list' \in Seq(Messages) /\ QueueInv' /\ lastId' \in -1..sent /\ pel' \subseteq Messages
        /\ \A k \in Messages : Untouched(k)' => Untouched(k)
        /\ mode = "stream" => pel \subseteq pel' /\ lastId' # -1
    <2>1. CASE UNCHANGED <<list, lastId, pel>>
      BY <1>1, <1>2, <2>1 DEF RedisInv, LifeInv, RedisTypeOK, QueueInv, Untouched, Elems, Distinct
    <2>2. CASE HandsOut(NextMessage)
      BY <2>2 DEF HandsOut, RedisInv, RedisTypeOK
    <2> QED BY <1>3, <2>1, <2>2
  <1>6. \A v \in Workers : wk'[v] \in {"busy", "ack"} => wk'[v] = wk[v]
    BY <1>1 DEF RedisInv, RedisTypeOK
  <1>7. RedisTypeOK'
    BY <1>1, <1>5, RedisAssumption DEF RedisInv, RedisTypeOK
  <1>8. LifeInv'
    BY <1>1, <1>2, <1>5 DEF LifeInv
  <1>9. HandledInv'
    BY <1>1, <1>5, <1>6 DEF RedisInv, HandledInv
  <1>10. PendingInv'
    BY <1>1, <1>4, <1>5, <1>6 DEF RedisInv, PendingInv
  <1>11. HandledAtMostOnce'
    BY <1>1 DEF RedisInv, HandledAtMostOnce
  <1> QED BY <1>4, <1>5, <1>7, <1>8, <1>9, <1>10, <1>11 DEF RedisInv

\* The steps of a worker that has no message.
LEMMA RoundInv ==
  ASSUME RedisInv, NEW w \in Workers, Enter(w) \/ PollEmpty(w)
  PROVE  RedisInv'
  <1>1. /\ UNCHANGED <<mode, up, starts, sent, list, lastId, pel, first, acked, msg, calls, good, faults>>
        /\ wk[w] \in {"idle", "poll"}
        /\ \E p \in {"idle", "poll", "off"} : wk' = [wk EXCEPT ![w] = p]
    BY DEF Enter, PollEmpty, broker
  <1>2. up # "off"
    BY <1>1 DEF RedisInv, LifeInv
  <1>3. \A v \in Workers : wk'[v] \in {"busy", "ack"} => wk'[v] = wk[v]
    BY <1>1 DEF RedisInv, RedisTypeOK
  <1>4. RedisTypeOK'
    BY <1>1 DEF RedisInv, RedisTypeOK
  <1>5. LifeInv' /\ QueueInv'
    BY <1>1, <1>2 DEF RedisInv, LifeInv, QueueInv, Elems, Distinct
  <1>6. HandledInv' /\ PendingInv'
    BY <1>1, <1>3 DEF RedisInv, HandledInv, PendingInv, Untouched, Elems
  <1>7. HandledAtMostOnce' /\ StreamKeepsUnfinished'
    BY <1>1 DEF RedisInv, HandledAtMostOnce, StreamKeepsUnfinished
  <1> QED BY <1>4, <1>5, <1>6, <1>7 DEF RedisInv

\* The processor returns.
LEMMA ProcessInv ==
  ASSUME RedisInv, NEW w \in Workers, Succeed(w) \/ Fail(w) \/ FailContext(w)
  PROVE  RedisInv'
  <1> DEFINE m == msg[w]
  <1>1. /\ UNCHANGED <<mode, up, starts, sent, list, lastId, pel, first, acked, faults>>
        /\ wk[w] = "busy" /\ calls' = [calls EXCEPT ![m] = @ + 1]
        /\ good' = good \/ good' = good \cup {m}
    BY DEF Succeed, Fail, FailContext, Process, broker
  <1>2. \E p \in {"idle", "off", "ack"} :
          /\ wk' = [wk EXCEPT ![w] = p] /\ msg' = [msg EXCEPT ![w] = IF p = "ack" THEN m ELSE 0]
          /\ p = "ack" => mode = "stream" /\ m \in good'
    BY DEF Succeed, Fail, FailContext, Process
  <1>3. up # "off"
    BY <1>1 DEF RedisInv, LifeInv
  <1>4. m \in Messages /\ calls[m] = 0 /\ ~Untouched(m)
    BY <1>1, RedisAssumption DEF RedisInv, RedisTypeOK, HandledInv, Messages
  <1> HIDE DEF m
  <1>5. \A v \in Workers : v # w => wk'[v] = wk[v] /\ msg'[v] = msg[v] /\ msg[v] # m
    <2> SUFFICES ASSUME NEW v \in Workers, v # w
                 PROVE  wk'[v] = wk[v] /\ msg'[v] = msg[v] /\ msg[v] # m
      OBVIOUS
    <2>1. msg[w] # msg[v]
      BY <1>1 DEF RedisInv, RedisTypeOK, HandledAtMostOnce
    <2> QED BY <1>2, <2>1 DEF m, RedisInv, RedisTypeOK
  <1>6. \/ wk'[w] = "ack" /\ msg'[w] = m /\ mode = "stream" /\ m \in good'
        \/ wk'[w] \in {"idle", "off"} /\ msg'[w] = 0
    BY <1>2 DEF RedisInv, RedisTypeOK
  <1>7. calls' \in [Messages -> Nat] /\ calls'[m] = 1
        /\ \A k \in Messages : k # m => calls'[k] = calls[k]
    BY <1>1, <1>4 DEF RedisInv, RedisTypeOK
  <1>8. /\ wk' \in [Workers -> {"off", "idle", "poll", "busy", "ack"}]
        /\ msg' \in [Workers -> 0..MaxMessages]
    BY <1>2, <1>4, RedisAssumption DEF RedisInv, RedisTypeOK, Messages
  <1>9. m # 0 /\ m = msg[w]
    BY <1>1 DEF m, RedisInv, RedisTypeOK
  <1>10. \A v \in Workers : wk'[v] \in {"busy", "ack"} <=> msg'[v] # 0
    BY <1>5, <1>6, <1>9 DEF RedisInv, RedisTypeOK
  <1>11. RedisTypeOK'
    BY <1>1, <1>4, <1>7, <1>8, <1>10 DEF RedisInv, RedisTypeOK
  <1>12. LifeInv' /\ QueueInv'
    BY <1>1, <1>3 DEF RedisInv, LifeInv, QueueInv, Elems, Distinct
  <1>13. \A v \in Workers : msg'[v] = msg[v] \/ msg'[v] = 0
    BY <1>5, <1>6, <1>9
  <1>14. HandledInv'
    <2>1. \A k \in Messages : Untouched(k)' => Untouched(k)
      BY <1>1 DEF Untouched, Elems
    <2>2. \A k \in Messages : Untouched(k)' => calls'[k] = 0 /\ \A v \in Workers : msg'[v] # k
      BY <1>4, <1>7, <1>13, <2>1 DEF RedisInv, HandledInv, Messages
    <2>3. \A v \in Workers : wk'[v] = "busy" => calls'[msg'[v]] = 0
      <3> SUFFICES ASSUME NEW v \in Workers, wk'[v] = "busy" PROVE calls'[msg'[v]] = 0
        OBVIOUS
      <3>1. v # w
        BY <1>6
      <3>2. msg'[v] = msg[v] /\ msg[v] # m /\ wk[v] = "busy"
        BY <1>5, <3>1
      <3>3. msg[v] \in Messages
        BY <3>2, RedisAssumption DEF RedisInv, RedisTypeOK, Messages
      <3> QED BY <1>7, <3>2, <3>3 DEF RedisInv, HandledInv
    <2> QED BY <2>2, <2>3 DEF HandledInv
  <1>15. PendingInv'
    BY <1>1, <1>5, <1>6, <1>13 DEF RedisInv, PendingInv
  <1>16. HandledAtMostOnce'
    <2>1. \A k \in Messages : calls'[k] <= 1
      BY <1>7 DEF RedisInv, HandledAtMostOnce
    <2>2. \A u, v \in Workers : u # v /\ msg'[u] # 0 => msg'[u] # msg'[v]
      BY <1>13 DEF RedisInv, HandledAtMostOnce
    <2> QED BY <2>1, <2>2 DEF HandledAtMostOnce
  <1>17. StreamKeepsUnfinished'
    BY <1>1 DEF RedisInv, StreamKeepsUnfinished
  <1> QED BY <1>11, <1>12, <1>14, <1>15, <1>16, <1>17 DEF RedisInv

\* A worker that had a message is done with it.
LEMMA AckInv ==
  ASSUME RedisInv, NEW w \in Workers, Ack(w) \/ AckFails(w)
  PROVE  RedisInv'
  <1> DEFINE m == msg[w]
  <1>1. /\ UNCHANGED <<mode, up, starts, sent, list, lastId, first, calls, good>>
        /\ wk[w] = "ack" /\ wk' = [wk EXCEPT ![w] = "idle"] /\ msg' = [msg EXCEPT ![w] = 0]
    BY DEF Ack, AckFails, broker
  <1>2. \/ pel' = pel \ {m} /\ acked' = acked \cup {m}
        \/ pel' = pel /\ acked' = acked
    BY DEF Ack, AckFails, broker
  <1>3. faults' = faults \/ (faults < MaxFaults /\ faults' = faults + 1)
    BY DEF Ack, AckFails
  <1>4. /\ up # "off" /\ mode = "stream" /\ m \in good /\ m # 0 /\ m \in pel /\ m \in Messages
    BY <1>1, RedisAssumption DEF RedisInv, RedisTypeOK, LifeInv, PendingInv, Messages
  <1>5. /\ msg'[w] = 0 /\ wk'[w] = "idle"
        /\ \A v \in Workers : v # w => wk'[v] = wk[v] /\ msg'[v] = msg[v] /\ msg[v] # m
    BY <1>1, <1>4 DEF RedisInv, RedisTypeOK, HandledAtMostOnce
  <1> HIDE DEF m
  <1>6. RedisTypeOK'
    BY <1>1, <1>2, <1>3, <1>4, RedisAssumption DEF RedisInv, RedisTypeOK
  <1>7. LifeInv' /\ QueueInv'
    BY <1>1, <1>4 DEF RedisInv, LifeInv, QueueInv, Elems, Distinct
  <1>8. HandledInv'
    BY <1>1, <1>5 DEF RedisInv, HandledInv, Untouched, Elems, Messages
  <1>9. lastId >= 0
    BY <1>4 DEF RedisInv, PendingInv, RedisTypeOK
  <1>10. PendingInv'
    BY <1>1, <1>2, <1>4, <1>5, <1>9 DEF RedisInv, PendingInv
  <1>11. HandledAtMostOnce'
    BY <1>1, <1>5 DEF RedisInv, HandledAtMostOnce
  <1>12. StreamKeepsUnfinished'
    <2>1. acked \cup pel = (first + 1)..lastId /\ acked \cap pel = {} /\ acked \subseteq good
      BY <1>4, <1>9 DEF RedisInv, StreamKeepsUnfinished
    <2>2. acked' \cup pel' = acked \cup pel /\ acked' \cap pel' = {} /\ acked' \subseteq good
      BY <1>2, <1>4, <2>1
    <2> QED BY <1>1, <2>1, <2>2 DEF StreamKeepsUnfinished
  <1> QED BY <1>6, <1>7, <1>8, <1>10, <1>11, <1>12 DEF RedisInv

\* A message is sent.
LEMMA EnqueueInv ==
  ASSUME RedisInv, EnqueueList \/ EnqueueStream
  PROVE  RedisInv'
  <1>1. /\ UNCHANGED <<mode, up, starts, lastId, pel, first, acked, wk, msg, calls, good, faults>>
        /\ sent' = sent + 1 /\ sent < MaxMessages
        /\ \/ mode = "list" /\ list' = <<sent + 1>> \o list
           \/ mode = "stream" /\ list' = list
    BY DEF EnqueueList, EnqueueStream, workers, broker
  <1>2. /\ sent \in Nat /\ list \in Seq(Messages) /\ Distinct(list) /\ Elems(list) \subseteq 1..sent
        /\ MaxMessages \in Nat
    BY RedisAssumption DEF RedisInv, RedisTypeOK, QueueInv
  <1>3. sent + 1 \in Messages /\ sent + 1 \notin Elems(list)
    BY <1>1, <1>2 DEF Messages
  <1>4. list' \in Seq(Messages) /\ Distinct(list') /\ Elems(list') \subseteq Elems(list) \cup {sent + 1}
    <2>1. /\ <<sent + 1>> \o list \in Seq(Messages) /\ Distinct(<<sent + 1>> \o list)
          /\ Elems(<<sent + 1>> \o list) = Elems(list) \cup {sent + 1}
      BY <1>2, <1>3, PushDistinct
    <2>2. CASE list' = <<sent + 1>> \o list
      BY <2>1, <2>2
    <2>3. CASE list' = list
      BY <1>2, <2>3
    <2> QED BY <1>1, <2>2, <2>3
  <1>5. RedisTypeOK'
    BY <1>1, <1>2, <1>4 DEF RedisInv, RedisTypeOK
  <1>6. LifeInv'
    BY <1>1 DEF RedisInv, LifeInv
  <1>7. QueueInv'
    BY <1>1, <1>2, <1>4 DEF QueueInv
  <1>8. \A k \in Messages : Untouched(k)' => Untouched(k)
    BY <1>1, <1>2, <1>4 DEF Untouched, Messages
  <1>9. HandledInv'
    BY <1>1, <1>8 DEF RedisInv, HandledInv
  <1>10. PendingInv' /\ HandledAtMostOnce' /\ StreamKeepsUnfinished'
    BY <1>1 DEF RedisInv, PendingInv, HandledAtMostOnce, StreamKeepsUnfinished
  <1> QED BY <1>5, <1>6, <1>7, <1>9, <1>10 DEF RedisInv

\* A service starts, or tries to.
LEMMA StartInv ==
  ASSUME RedisInv, Start \/ StartFails
  PROVE  RedisInv'
  <1>1. /\ UNCHANGED <<mode, sent, list, pel, acked, msg, calls, good>> /\ up = "off"
        /\ CreateGroup
    BY DEF Start, StartFails, workers
  <1>2. \/ wk' = [w \in Workers |-> "idle"] /\ up' = "run"
        \/ wk' = wk /\ up' = "off"
    BY DEF Start, StartFails, workers
  <1>3. starts' \in 0..MaxStarts /\ faults' \in 0..MaxFaults
    BY RedisAssumption DEF Start, StartFails, RedisInv, RedisTypeOK
  <1>4. \A w \in Workers : wk[w] = "off" /\ msg[w] = 0
    BY <1>1 DEF RedisInv, RedisTypeOK, LifeInv
  <1>5. \/ mode = "stream" /\ lastId = -1 /\ lastId' = sent /\ first' = sent
        \/ ~(mode = "stream" /\ lastId = -1) /\ lastId' = lastId /\ first' = first
    BY <1>1 DEF CreateGroup
  <1>6. RedisTypeOK'
    BY <1>1, <1>2, <1>3, <1>4, <1>5 DEF RedisInv, RedisTypeOK
  <1>7. LifeInv' /\ QueueInv'
    BY <1>1, <1>2, <1>4, <1>5 DEF RedisInv, RedisTypeOK, LifeInv, QueueInv, Elems, Distinct
  <1>8. \A k \in Messages : Untouched(k)' => Untouched(k)
    BY <1>1, <1>5 DEF RedisInv, RedisTypeOK, Untouched, Elems, Messages
  <1>9. HandledInv'
    BY <1>1, <1>2, <1>4, <1>8 DEF RedisInv, HandledInv
  <1>10. PendingInv'
    BY <1>1, <1>2, <1>4, <1>5 DEF RedisInv, RedisTypeOK, PendingInv
  <1>11. HandledAtMostOnce'
    BY <1>1 DEF RedisInv, HandledAtMostOnce
  <1>12. StreamKeepsUnfinished'
    BY <1>1, <1>5 DEF RedisInv, RedisTypeOK, PendingInv, StreamKeepsUnfinished
  <1> QED BY <1>6, <1>7, <1>9, <1>10, <1>11, <1>12 DEF RedisInv

\* A service stops, or the process dies.
LEMMA StopInv ==
  ASSUME RedisInv, StopBegin \/ StopEnd \/ Crash
  PROVE  RedisInv'
  <1>1. /\ UNCHANGED <<mode, starts, sent, list, lastId, pel, first, acked, calls, good, faults>>
        /\ up # "off"
    BY DEF StopBegin, StopEnd, Crash, workers, broker
  <1>2. \/ up' = "stopping" /\ wk' = wk /\ msg' = msg
        \/ up' = "off" /\ wk' = wk /\ msg' = msg /\ \A w \in Workers : wk[w] = "off"
        \/ up' = "off" /\ wk' = [w \in Workers |-> "off"] /\ msg' = [w \in Workers |-> 0]
    BY DEF StopBegin, StopEnd, Crash, workers
  <1>3. \A w \in Workers : \/ wk'[w] = wk[w] /\ msg'[w] = msg[w]
                           \/ wk'[w] = "off" /\ msg'[w] = 0
    BY <1>2
  <1>4. RedisTypeOK'
    BY <1>1, <1>2, RedisAssumption DEF RedisInv, RedisTypeOK
  <1>5. LifeInv' /\ QueueInv'
    BY <1>1, <1>2 DEF RedisInv, LifeInv, QueueInv, Elems, Distinct
  <1>6. HandledInv'
    BY <1>1, <1>3 DEF RedisInv, HandledInv, Untouched, Elems, Messages
  <1>7. PendingInv'
    BY <1>1, <1>3 DEF RedisInv, PendingInv
  <1>8. HandledAtMostOnce' /\ StreamKeepsUnfinished'
    BY <1>1, <1>3 DEF RedisInv, HandledAtMostOnce, StreamKeepsUnfinished
  <1> QED BY <1>4, <1>5, <1>6, <1>7, <1>8 DEF RedisInv

\* The invariant of the queues and their workers holds in every reachable state.
THEOREM RedisInvariance == RedisSpec => []RedisInv
  <1>1. RedisInv /\ [RedisNext]_redisVars => RedisInv'
    <2> SUFFICES ASSUME RedisInv, [RedisNext]_redisVars PROVE RedisInv'
      OBVIOUS
    <2>1. CASE UNCHANGED redisVars
      BY <2>1 DEF redisVars, broker, workers, RedisInv, RedisTypeOK, LifeInv, QueueInv, HandledInv,
                  Untouched, Elems, Distinct, PendingInv, HandledAtMostOnce, StreamKeepsUnfinished
    <2>2. CASE RedisNext
      BY <2>2, StartInv, StopInv, EnqueueInv, RoundInv, ReceiveInv, PollFailsInv, ProcessInv, AckInv
      DEF RedisNext, WorkerLoop, Poll, Handle
    <2> QED BY <2>1, <2>2
  <1> QED BY <1>1, RedisInitInv, PTL DEF RedisSpec

\* The processor gets a message at most once, and no two workers have the same one,
\* across restarts, crashes and failing calls (consumeList, consumeStream).
THEOREM ProcessorSeesMessageOnce == RedisSpec => []HandledAtMostOnce
  <1>1. RedisInv => HandledAtMostOnce
    BY DEF RedisInv
  <1> QED BY <1>1, RedisInvariance, PTL

\* Every entry the group delivered is acknowledged or pending, and only what the
\* processor succeeded with is acknowledged (consumeStream).
THEOREM GroupKeepsUnfinished == RedisSpec => []StreamKeepsUnfinished
  <1>1. RedisInv => StreamKeepsUnfinished
    BY DEF RedisInv
  <1> QED BY <1>1, RedisInvariance, PTL
=============================================================================
