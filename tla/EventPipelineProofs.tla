------------------------- MODULE EventPipelineProofs -------------------------
(***************************************************************************)
(* For every set of events and of publishers, every batch size and every   *)
(* number of attempts: a row that is marked published is on the stream,    *)
(* and a row that is given up failed at least MaxAttempts times.           *)
(*                                                                         *)
(* For any number of failures and restarts of either process: the          *)
(* consumer acknowledges only what is settled and handles a message at     *)
(* most once; with a single publisher a settled row stays settled, and the *)
(* copies on the stream are accounted for.                                 *)
(***************************************************************************)
EXTENDS EventPipeline, FiniteSetTheorems, WellFoundedInduction, TLAPS

\* A row that can still be tried, and a copy of a row that a publisher holds,
\* count no more attempts than there were failures.
CountInv ==
  /\ \A e \in Events : status[e] \in {"absent", "pending"} => attempts[e] <= failures[e]
  /\ \A p \in Publishers, e \in Events : cached[p][e] <= failures[e]

\* What a publisher knows of the event it is about to mark.
MarkInv == \A p \in Publishers, e \in Events : Current(p, e) =>
  /\ pubPc[p] = "sent" => OnStream(e)
  /\ pubPc[p] = "failed" => cached[p][e] < failures[e]

PubInv == PubTypeOK /\ CountInv /\ MarkInv /\ PublishedOnStream /\ DeadAfterMaxAttempts

\* FetchPending returns a row whenever one is ready.
LEMMA OldestNonempty ==
  ASSUME NEW S \in SUBSET Events, S # {}
  PROVE  Oldest(S) # {} /\ Oldest(S) \subseteq S
<1>1. S \in SUBSET Nat
  BY PublisherAssumption DEF PublisherAssumption
<1> DEFINE Less == OpToRel(<, Nat)
<1>a. IsWellFoundedOn(Less, Nat)
  BY NatLessThanWellFounded
<1>b. \A x, y \in Nat : x < y => <<x, y>> \in Less
  BY DEF OpToRel
<1> HIDE DEF Less
<1>c. PICK e \in S : \A f \in S : ~(<<f, e>> \in Less)
  BY <1>1, <1>a, WFMin
<1>2. e \in Nat
  BY <1>1
<1>3. {f \in S : f < e} = {}
  <2> SUFFICES ASSUME NEW f \in S, f < e PROVE FALSE
    OBVIOUS
  <2>1. f \in Nat
    BY <1>1
  <2>2. <<f, e>> \in Less
    BY <1>2, <1>b, <2>1
  <2> QED
    BY <1>c, <2>2
<1>4. Cardinality({f \in S : f < e}) < BatchSize
  BY <1>3, FS_EmptySet, PublisherAssumption DEF PublisherAssumption
<1> QED
  BY <1>4 DEF Oldest

\* Appending to the stream keeps what is on it and adds the new event.
LEMMA StreamGrows ==
  ASSUME NEW e \in Events, stream \in Seq(Events), stream' = Append(stream, e)
  PROVE  /\ stream' \in Seq(Events)
         /\ \A f \in Events : OnStream(f) => OnStream(f)'
         /\ OnStream(e)'
<1>1. stream' \in Seq(Events) /\ Len(stream') = Len(stream) + 1 /\ stream'[Len(stream) + 1] = e
  OBVIOUS
<1>2. \A n \in DOMAIN stream : n \in DOMAIN stream' /\ stream'[n] = stream[n]
  OBVIOUS
<1>3. Len(stream) + 1 \in DOMAIN stream'
  BY <1>1
<1> QED
  BY <1>1, <1>2, <1>3 DEF OnStream

\* The empty outbox and idle publishers satisfy the invariant.
LEMMA PubInitInv == PubInit => PubInv
<1> SUFFICES ASSUME PubInit PROVE PubInv
  OBVIOUS
<1>1. PubTypeOK
  BY DEF PubInit, PubTypeOK, Statuses
<1>2. CountInv
  BY DEF PubInit, CountInv
<1>3. MarkInv /\ PublishedOnStream /\ DeadAfterMaxAttempts
  BY DEF PubInit, MarkInv, PublishedOnStream, DeadAfterMaxAttempts, Current
<1> QED
  BY <1>1, <1>2, <1>3 DEF PubInv

\* A step of p that marks its current event e keeps the types, once the row has a
\* status and a number of attempts again.
LEMMA NextEventType ==
  ASSUME PubTypeOK, NEW p \in Publishers, NEW e \in Events,
         pubPc[p] \in {"sent", "failed"}, Current(p, e), NextEvent(p, e),
         status' \in [Events -> Statuses], attempts' \in [Events -> Nat], due' \subseteq Events
  PROVE  /\ PubTypeOK'
         /\ failures' = failures /\ stream' = stream
         /\ \A q \in Publishers, f \in Events :
              /\ cached'[q][f] <= cached[q][f]
              /\ pubPc'[q] \in {"sent", "failed"} =>
                   q # p /\ pubPc'[q] = pubPc[q] /\ fetched'[q] = fetched[q]
                   /\ cached'[q] = cached[q]
<1>1. e \in fetched[p] /\ fetched[p] \in SUBSET Events
  BY DEF PubTypeOK, Current
<1>2. fetched' \in [Publishers -> SUBSET Events]
  BY DEF NextEvent, PubTypeOK
<1>3. pubPc' \in [Publishers -> {"down", "poll", "send", "sent", "failed"}]
  BY DEF NextEvent, PubTypeOK
<1>4. cached' \in [Publishers -> [Events -> Nat]]
  BY DEF NextEvent, PubTypeOK
<1>5. \A q \in Publishers : fetched'[q] = {} <=> pubPc'[q] \in {"down", "poll"}
  <2> TAKE q \in Publishers
  <2>1. CASE q # p
    BY <2>1 DEF NextEvent, PubTypeOK
  <2>2. CASE q = p /\ fetched[p] = {e}
    BY <2>2 DEF NextEvent, PubTypeOK
  <2>3. CASE q = p /\ fetched[p] # {e}
    <3>1. fetched'[p] = fetched[p] \ {e} /\ pubPc'[p] = "send"
      BY <2>3 DEF NextEvent, PubTypeOK
    <3>2. fetched[p] \ {e} # {}
      BY <1>1, <2>3
    <3> QED
      BY <2>3, <3>1, <3>2
  <2> QED
    BY <2>1, <2>2, <2>3
<1>6. PubTypeOK'
  BY <1>2, <1>3, <1>4, <1>5 DEF NextEvent, PubTypeOK
<1>7. pubPc'[p] \in {"poll", "send"}
  BY DEF NextEvent, PubTypeOK
<1>8. \A q \in Publishers, f \in Events : cached'[q][f] <= cached[q][f]
  BY SMTT(30) DEF NextEvent, PubTypeOK
<1>9. \A q \in Publishers : q # p =>
        pubPc'[q] = pubPc[q] /\ fetched'[q] = fetched[q] /\ cached'[q] = cached[q]
  BY DEF NextEvent, PubTypeOK
<1> QED
  BY <1>6, <1>7, <1>8, <1>9 DEF NextEvent

\* Marking keeps what publishers know: nobody's knowledge depends on the rows.
LEMMA NextEventMark ==
  ASSUME PubTypeOK, CountInv, MarkInv, NEW p \in Publishers, NEW e \in Events,
         pubPc[p] \in {"sent", "failed"}, Current(p, e), NextEvent(p, e),
         status' \in [Events -> Statuses], attempts' \in [Events -> Nat], due' \subseteq Events
  PROVE  /\ PubTypeOK' /\ MarkInv'
         /\ failures' = failures /\ stream' = stream
         /\ \A q \in Publishers, f \in Events : cached'[q][f] <= failures'[f]
<1>1. PubTypeOK' /\ failures' = failures /\ stream' = stream
  BY NextEventType
<1>2. \A q \in Publishers, f \in Events : cached'[q][f] <= cached[q][f]
  BY NextEventType
<1>3. \A q \in Publishers : pubPc'[q] \in {"sent", "failed"} =>
        pubPc'[q] = pubPc[q] /\ fetched'[q] = fetched[q] /\ cached'[q] = cached[q]
  BY NextEventType
<1>4. \A q \in Publishers, f \in Events : cached'[q][f] <= failures'[f]
  BY <1>1, <1>2, SMTT(30) DEF CountInv, PubTypeOK
<1>5. MarkInv'
  BY <1>1, <1>3 DEF MarkInv, Current, OnStream
<1> QED
  BY <1>1, <1>4, <1>5

\* Commits of CreateOrder and the end of a backoff keep it.
LEMMA RowsInv ==
  ASSUME PubInv, NEW e \in Events, CommitOrder(e) \/ BackoffElapses(e)
  PROVE  PubInv'
<1>1. PubTypeOK'
  <2>1. CASE CommitOrder(e)
    BY <2>1 DEF PubInv, PubTypeOK, CommitOrder, Statuses, procs
  <2>2. CASE BackoffElapses(e)
    BY <2>2 DEF PubInv, PubTypeOK, BackoffElapses, procs
  <2> QED
    BY <2>1, <2>2
<1>2. CountInv'
  BY DEF PubInv, PubTypeOK, CountInv, CommitOrder, BackoffElapses, procs
<1>3. MarkInv'
  BY DEF PubInv, MarkInv, Current, OnStream, CommitOrder, BackoffElapses, procs
<1>4. PublishedOnStream' /\ DeadAfterMaxAttempts'
  BY DEF PubInv, PubTypeOK, PublishedOnStream, DeadAfterMaxAttempts, OnStream,
         CommitOrder, BackoffElapses
<1> QED
  BY <1>1, <1>2, <1>3, <1>4 DEF PubInv

\* FetchPending copies attempt counts that the failures already cover.
LEMMA FetchInv ==
  ASSUME PubInv, NEW p \in Publishers, Fetch(p)
  PROVE  PubInv'
<1>1. Ready \subseteq Events /\ Ready # {}
  BY DEF Fetch, Ready
<1>2. Oldest(Ready) # {} /\ Oldest(Ready) \subseteq Ready
  BY <1>1, OldestNonempty
<1> DEFINE copy == [f \in Events |-> IF f \in Oldest(Ready) THEN attempts[f] ELSE 0]
<1>a. copy \in [Events -> Nat] /\ \A f \in Events : copy[f] <= failures[f]
  <2>1. \A f \in Events : attempts[f] \in Nat /\ failures[f] \in Nat
    BY DEF PubInv, PubTypeOK
  <2>2. \A f \in Oldest(Ready) : attempts[f] <= failures[f]
    BY <1>2 DEF PubInv, CountInv, Ready
  <2> HIDE DEF Oldest
  <2> QED
    BY <2>1, <2>2
<1>b. /\ cached' = [cached EXCEPT ![p] = copy]
      /\ fetched' = [fetched EXCEPT ![p] = Oldest(Ready)]
      /\ pubPc' = [pubPc EXCEPT ![p] = "send"]
      /\ UNCHANGED <<status, attempts, due, stream, failures, exits, resends>>
  BY DEF Fetch, rows
<1> HIDE DEF copy
<1>c. /\ cached' \in [Publishers -> [Events -> Nat]]
      /\ fetched' \in [Publishers -> SUBSET Events]
      /\ pubPc' \in [Publishers -> {"down", "poll", "send", "sent", "failed"}]
  BY <1>1, <1>2, <1>a, <1>b DEF PubInv, PubTypeOK
<1>d. \A q \in Publishers : fetched'[q] = {} <=> pubPc'[q] \in {"down", "poll"}
  BY <1>2, <1>b DEF PubInv, PubTypeOK
<1>3. PubTypeOK'
  BY <1>b, <1>c, <1>d DEF PubInv, PubTypeOK
<1>4. CountInv'
  <2>1. \A q \in Publishers : cached'[q] = IF q = p THEN copy ELSE cached[q]
    BY <1>b DEF PubInv, PubTypeOK
  <2> QED
    BY <1>a, <1>b, <2>1 DEF PubInv, CountInv
<1>5. MarkInv'
  BY DEF PubInv, PubTypeOK, MarkInv, Current, OnStream, Fetch
<1>6. PublishedOnStream' /\ DeadAfterMaxAttempts'
  BY DEF PubInv, PublishedOnStream, DeadAfterMaxAttempts, OnStream, Fetch, rows
<1> QED
  BY <1>3, <1>4, <1>5, <1>6 DEF PubInv

\* A successful XADD puts the event on the stream before anything is marked.
LEMMA PublishInv ==
  ASSUME PubInv, NEW p \in Publishers, NEW e \in Events, Publish(p, e)
  PROVE  PubInv'
<1>1. stream \in Seq(Events) /\ stream' = Append(stream, e)
  BY DEF PubInv, PubTypeOK, Publish
<1>2. /\ stream' \in Seq(Events)
      /\ \A f \in Events : OnStream(f) => OnStream(f)'
      /\ OnStream(e)'
  BY <1>1, StreamGrows
<1>3. \A q \in Publishers : pubPc'[q] = IF q = p THEN "sent" ELSE pubPc[q]
  BY DEF PubInv, PubTypeOK, Publish
<1>4. fetched[p] # {}
  BY DEF Publish, Current
<1>5. PubTypeOK'
  BY <1>2, <1>3, <1>4 DEF PubInv, PubTypeOK, Publish, rows
<1>6. CountInv'
  BY DEF PubInv, CountInv, Publish, rows
<1>7. \A f \in Events : Current(p, f) => f = e
  BY PublisherAssumption DEF Publish, Current, PublisherAssumption
<1>8. MarkInv'
  BY <1>2, <1>3, <1>7 DEF PubInv, MarkInv, Current, Publish
<1>9. PublishedOnStream' /\ DeadAfterMaxAttempts'
  BY <1>2 DEF PubInv, PublishedOnStream, DeadAfterMaxAttempts, Publish, rows
<1> QED
  BY <1>5, <1>6, <1>8, <1>9 DEF PubInv

\* An XADD that is sent again only adds to the stream.
LEMMA ResendInv ==
  ASSUME PubInv, NEW p \in Publishers, NEW e \in Events, Resend(p, e)
  PROVE  PubInv'
<1>1. stream \in Seq(Events) /\ stream' = Append(stream, e)
  BY DEF PubInv, PubTypeOK, Resend
<1>2. stream' \in Seq(Events) /\ \A f \in Events : OnStream(f) => OnStream(f)'
  BY <1>1, StreamGrows
<1>3. PubTypeOK'
  BY <1>2 DEF PubInv, PubTypeOK, Resend, rows, procs
<1>4. CountInv'
  BY DEF PubInv, CountInv, Resend, rows, procs
<1>5. MarkInv'
  BY <1>2 DEF PubInv, MarkInv, Current, Resend, procs
<1>6. PublishedOnStream' /\ DeadAfterMaxAttempts'
  BY <1>2 DEF PubInv, PublishedOnStream, DeadAfterMaxAttempts, Resend, rows
<1> QED
  BY <1>3, <1>4, <1>5, <1>6 DEF PubInv

\* A failed Publish is counted before its row is marked.
LEMMA PublishFailsInv ==
  ASSUME PubInv, NEW p \in Publishers, NEW e \in Events, PublishFails(p, e)
  PROVE  PubInv'
<1>1. /\ stream' \in Seq(Events)
      /\ \A f \in Events : OnStream(f) => OnStream(f)'
  <2>1. stream \in Seq(Events)
    BY DEF PubInv, PubTypeOK
  <2>2. CASE stream' = stream
    BY <2>1, <2>2 DEF OnStream
  <2>3. CASE stream' = Append(stream, e)
    BY <2>1, <2>3, StreamGrows
  <2> QED
    BY <2>2, <2>3 DEF PublishFails
<1>2. \A q \in Publishers : pubPc'[q] = IF q = p THEN "failed" ELSE pubPc[q]
  BY DEF PubInv, PubTypeOK, PublishFails
<1>3. failures' \in [Events -> Nat] /\ \A f \in Events :
        failures'[f] = IF f = e THEN failures[f] + 1 ELSE failures[f]
  BY DEF PubInv, PubTypeOK, PublishFails
<1>4. fetched[p] # {}
  BY DEF PublishFails, Current
<1>5. PubTypeOK'
  BY <1>1, <1>2, <1>3, <1>4 DEF PubInv, PubTypeOK, PublishFails, rows
<1>6. CountInv'
  BY <1>3 DEF PubInv, PubTypeOK, CountInv, PublishFails, rows
<1>7. \A f \in Events : Current(p, f) => f = e
  BY PublisherAssumption DEF PublishFails, Current, PublisherAssumption
<1>8. cached[p][e] < failures'[e]
  BY <1>3 DEF PubInv, PubTypeOK, CountInv
<1>9. MarkInv'
  <2> SUFFICES ASSUME NEW q \in Publishers, NEW f \in Events, Current(q, f)'
               PROVE  /\ pubPc'[q] = "sent" => OnStream(f)'
                      /\ pubPc'[q] = "failed" => cached'[q][f] < failures'[f]
    BY DEF MarkInv
  <2>1. Current(q, f) /\ cached' = cached
    BY DEF Current, PublishFails
  <2>2. CASE q = p
    BY <1>2, <1>7, <1>8, <2>1, <2>2
  <2>3. CASE q # p
    <3>1. /\ pubPc'[q] = "sent" => OnStream(f)
          /\ pubPc'[q] = "failed" => cached[q][f] < failures[f]
      BY <1>2, <2>1, <2>3 DEF PubInv, MarkInv
    <3>2. cached[q][f] \in Nat /\ failures[f] \in Nat
      BY DEF PubInv, PubTypeOK
    <3>3. failures[f] <= failures'[f] /\ failures'[f] \in Nat
      BY <1>3, <3>2
    <3> QED
      BY <1>1, <2>1, <3>1, <3>2, <3>3
  <2> QED
    BY <2>2, <2>3
<1>10. PublishedOnStream' /\ DeadAfterMaxAttempts'
  BY <1>1, <1>3, PublisherAssumption, SMTT(30)
     DEF PubInv, PubTypeOK, PublishedOnStream, DeadAfterMaxAttempts, PublishFails, rows,
         PublisherAssumption
<1> QED
  BY <1>5, <1>6, <1>9, <1>10 DEF PubInv

\* MarkPublished, MarkRetry and MarkDead write only what was seen.
LEMMA MarkStepInv ==
  ASSUME PubInv, NEW p \in Publishers, NEW e \in Events,
         MarkPublished(p, e) \/ MarkRetry(p, e) \/ MarkDead(p, e)
  PROVE  PubInv'
<1>1. /\ pubPc[p] \in {"sent", "failed"} /\ Current(p, e) /\ NextEvent(p, e)
      /\ status' \in [Events -> Statuses] /\ attempts' \in [Events -> Nat]
      /\ due' \subseteq Events
  <2>1. cached[p][e] + 1 \in Nat /\ attempts[e] + 1 \in Nat
    BY DEF PubInv, PubTypeOK
  <2>2. CASE MarkPublished(p, e)
    BY <2>1, <2>2 DEF PubInv, PubTypeOK, MarkPublished, Statuses
  <2>3. CASE MarkRetry(p, e)
    BY <2>1, <2>3 DEF PubInv, PubTypeOK, MarkRetry, Statuses
  <2>4. CASE MarkDead(p, e)
    BY <2>1, <2>4 DEF PubInv, PubTypeOK, MarkDead, Statuses
  <2> QED
    BY <2>2, <2>3, <2>4
<1>2. /\ PubTypeOK' /\ MarkInv'
      /\ failures' = failures /\ stream' = stream
      /\ \A q \in Publishers, f \in Events : cached'[q][f] <= failures'[f]
  BY <1>1, NextEventMark DEF PubInv
<1>3. \A f \in Events : f # e => status'[f] = status[f] /\ attempts'[f] = attempts[f]
  BY DEF PubInv, PubTypeOK, MarkPublished, MarkRetry, MarkDead
<1>4. CASE MarkPublished(p, e)
  <2>1. OnStream(e) /\ status'[e] = "published"
    BY <1>4 DEF PubInv, PubTypeOK, MarkInv, MarkPublished
  <2> QED
    BY <1>2, <1>3, <2>1 DEF PubInv, CountInv, PublishedOnStream, DeadAfterMaxAttempts, OnStream
<1>5. CASE MarkRetry(p, e)
  <2>1. cached[p][e] < failures[e]
    BY <1>5 DEF PubInv, MarkInv, MarkRetry
  <2>2. status'[e] = "pending" /\ attempts'[e] <= failures[e]
    BY <1>5, <2>1 DEF PubInv, PubTypeOK, MarkRetry
  <2> QED
    BY <1>2, <1>3, <2>2 DEF PubInv, CountInv, PublishedOnStream, DeadAfterMaxAttempts, OnStream
<1>6. CASE MarkDead(p, e)
  <2>1. cached[p][e] < failures[e] /\ cached[p][e] + 1 >= MaxAttempts
    BY <1>6 DEF PubInv, MarkInv, MarkDead, GiveUp
  <2>2. status'[e] = "dead" /\ failures[e] >= MaxAttempts
    BY <1>6, <2>1, PublisherAssumption DEF PubInv, PubTypeOK, MarkDead, PublisherAssumption
  <2> QED
    BY <1>2, <1>3, <2>2 DEF PubInv, CountInv, PublishedOnStream, DeadAfterMaxAttempts, OnStream
<1> QED
  BY <1>4, <1>5, <1>6

\* Ending or starting a publisher forgets its batch and changes no row.
LEMMA LifeInv ==
  ASSUME PubInv, NEW p \in Publishers, Exit(p) \/ Start(p)
  PROVE  PubInv'
<1>1. PubTypeOK'
  <2>1. CASE Exit(p)
    BY <2>1 DEF PubInv, PubTypeOK, Exit, rows
  <2>2. CASE Start(p)
    BY <2>2 DEF PubInv, PubTypeOK, Start, rows
  <2> QED
    BY <2>1, <2>2
<1>2. /\ UNCHANGED <<status, attempts, due, stream, failures>>
      /\ \A q \in Publishers, f \in Events : cached'[q][f] = cached[q][f] \/ cached'[q][f] = 0
      /\ pubPc'[p] \in {"down", "poll"}
      /\ \A q \in Publishers : q # p =>
           pubPc'[q] = pubPc[q] /\ fetched'[q] = fetched[q] /\ cached'[q] = cached[q]
  <2>1. CASE Exit(p)
    BY <2>1 DEF PubInv, PubTypeOK, Exit, rows
  <2>2. CASE Start(p)
    BY <2>2 DEF PubInv, PubTypeOK, Start, rows
  <2> QED
    BY <2>1, <2>2
<1>a. \A f \in Events : failures[f] \in Nat
  BY DEF PubInv, PubTypeOK
<1>b. CountInv'
  BY <1>2, <1>a DEF PubInv, CountInv
<1>3. MarkInv'
  BY <1>2 DEF PubInv, MarkInv, Current, OnStream
<1>4. PublishedOnStream' /\ DeadAfterMaxAttempts'
  BY DEF PubInv, PublishedOnStream, DeadAfterMaxAttempts, OnStream, Exit, Start, rows
<1> QED
  BY <1>1, <1>b, <1>3, <1>4 DEF PubInv

\* Every step keeps the invariant.
LEMMA PubNextInv == PubInv /\ [PubNext]_pubVars => PubInv'
<1> SUFFICES ASSUME PubInv, [PubNext]_pubVars PROVE PubInv'
  OBVIOUS
<1>1. CASE UNCHANGED pubVars
  BY <1>1 DEF PubInv, PubTypeOK, CountInv, MarkInv, Current, PublishedOnStream,
              DeadAfterMaxAttempts, OnStream, pubVars, rows, procs
<1>2. CASE \E e \in Events : CommitOrder(e) \/ BackoffElapses(e)
  BY <1>2, RowsInv
<1>3. CASE \E p \in Publishers : Fetch(p)
  BY <1>3, FetchInv
<1>4. CASE \E p \in Publishers, e \in Events : Publish(p, e)
  BY <1>4, PublishInv
<1>5. CASE \E p \in Publishers, e \in Events : PublishFails(p, e)
  BY <1>5, PublishFailsInv
<1>6. CASE \E p \in Publishers, e \in Events :
             MarkPublished(p, e) \/ MarkRetry(p, e) \/ MarkDead(p, e)
  BY <1>6, MarkStepInv
<1>7. CASE \E p \in Publishers : Exit(p) \/ Start(p)
  BY <1>7, LifeInv
<1>8. CASE \E p \in Publishers, e \in Events : Resend(p, e)
  BY <1>8, ResendInv
<1> QED
  BY <1>1, <1>2, <1>3, <1>4, <1>5, <1>6, <1>7, <1>8 DEF PubNext, RunOnce

\* The inductive invariant of the publishers holds in every reachable state: copies of
\* rows lag behind the failures, and a publisher about to mark a row has seen why.
THEOREM PublisherInvariance == PubSpec => []PubInv
<1> QED
  BY PubInitInv, PubNextInv, PTL DEF PubSpec

\* The publishers' state is well typed, and a publisher holds rows exactly while
\* it works on a batch.
THEOREM PublisherTypeCorrect == PubSpec => []PubTypeOK
<1>1. PubInv => PubTypeOK
  BY DEF PubInv
<1> QED
  BY <1>1, PublisherInvariance, PTL

\* A row marked published has its event on the stream, for every number of
\* publishers that fetch the same rows and overwrite each other's marks.
THEOREM PublishedIsOnStream == PubSpec => []PublishedOnStream
<1>1. PubInv => PublishedOnStream
  BY DEF PubInv
<1> QED
  BY <1>1, PublisherInvariance, PTL

\* A row is given up only after MaxAttempts failed calls of Publish, whatever
\* stale counts the publishers work from.
THEOREM DeadOnlyAfterMaxAttempts == PubSpec => []DeadAfterMaxAttempts
<1>1. PubInv => DeadAfterMaxAttempts
  BY DEF PubInv
<1> QED
  BY <1>1, PublisherInvariance, PTL
-----------------------------------------------------------------------------

\* The group's position, its pending entries and the batch.
ConShape ==
  /\ cursor \in 0..Len(stream) /\ unacked \subseteq 1..cursor /\ batch \subseteq unacked
  /\ conPc \in {"down", "read", "handle", "dlq", "ack"}
  /\ conPc \in {"down", "read"} => batch = {}
  /\ handled \in [Consumer!Messages -> Nat]

\* The message about to be acknowledged is settled.
AckInv == conPc = "ack" =>
  \A m \in batch : Consumer!Upcoming(m) => stream[m] \in projection \/ m \in dlq

\* What the group has not delivered, and what of the batch comes later, is untouched.
FreshInv ==
  /\ \A n \in Consumer!Messages : n > cursor => handled[n] = 0
  /\ \A n \in batch \cap Consumer!Messages :
       conPc = "handle" \/ ~Consumer!Upcoming(n) => handled[n] = 0

ConInv == ConShape /\ AckInv /\ AckedAreSettled /\ FreshInv /\ HandledAtMostOnce

PipeInv == PubInv /\ ConInv

\* The consumer counts the same way.
LEMMA ConsumerCardinality ==
  ASSUME NEW S
  PROVE  Consumer!Cardinality(S) = Cardinality(S)
  BY DEF Consumer!Cardinality, Cardinality, Consumer!IsFiniteSet, IsFiniteSet

\* XREADGROUP with ">" and COUNT gives an interval right behind the group's position
\* and moves the position to its end.
LEMMA DeliveredInterval ==
  ASSUME stream \in Seq(Events), cursor \in 0..Len(stream)
  PROVE  \E top \in cursor..Len(stream) :
           /\ Consumer!Delivered = (cursor + 1)..top
           /\ Consumer!Max({cursor} \cup Consumer!Delivered) = top
  <1> DEFINE L == Len(stream)
             top == IF cursor + ReadCount <= L THEN cursor + ReadCount ELSE L
  <1>1. L \in Nat /\ cursor \in Nat /\ cursor <= L /\ ReadCount \in Nat \ {0}
    BY ConsumerAssumption
  <1>2. top \in cursor..L
    BY <1>1
  <1>3. \A n \in (cursor + 1)..L : Cardinality({k \in (cursor + 1)..L : k < n}) = n - 1 - cursor
    <2> SUFFICES ASSUME NEW n \in (cursor + 1)..L
                 PROVE  Cardinality({k \in (cursor + 1)..L : k < n}) = n - 1 - cursor
      OBVIOUS
    <2>1. {k \in (cursor + 1)..L : k < n} = (cursor + 1)..(n - 1)
      BY <1>1
    <2>2. Cardinality((cursor + 1)..(n - 1)) = n - 1 - cursor
      BY <1>1, FS_Interval
    <2> QED BY <2>1, <2>2
  <1>4. Consumer!Delivered = {n \in (cursor + 1)..L : n - 1 - cursor < ReadCount}
    <2>1. Consumer!Delivered =
            {n \in (cursor + 1)..L : Cardinality({k \in (cursor + 1)..L : k < n}) < ReadCount}
      BY ConsumerCardinality, Zenon DEF Consumer!Delivered, Consumer!Deliverable
    <2>2. \A n \in (cursor + 1)..L :
            Cardinality({k \in (cursor + 1)..L : k < n}) < ReadCount <=> n - 1 - cursor < ReadCount
      BY <1>3, Zenon
    <2> HIDE DEF L
    <2> QED BY <2>1, <2>2, Zenon
  <1>5. Consumer!Delivered = (cursor + 1)..top
    BY <1>1, <1>4
  <1> HIDE DEF top, L
  <1>6. {cursor} \cup Consumer!Delivered = cursor..top
    BY <1>1, <1>2, <1>5
  <1>7. top \in cursor..top /\ (\A y \in cursor..top : top >= y)
        /\ \A x \in cursor..top : (\A y \in cursor..top : x >= y) => x = top
    BY <1>1, <1>2
  <1>8. Consumer!Max(cursor..top) = top
    BY <1>7 DEF Consumer!Max
  <1> QED BY <1>2, <1>5, <1>6, <1>8 DEF L

\* A publisher's step leaves the stream or appends an event.
LEMMA PubAppends ==
  ASSUME PubNext
  PROVE  stream' = stream \/ \E e \in Events : stream' = Append(stream, e)
  BY DEF PubNext, RunOnce, CommitOrder, BackoffElapses, Fetch, Publish, PublishFails, MarkPublished,
         MarkRetry, MarkDead, NextEvent, Exit, Start, Resend

\* The consumer's invariant survives the publishers.
LEMMA PublisherKeepsConInv ==
  ASSUME ConInv, stream \in Seq(Events), UNCHANGED consumerOwn,
         stream' = stream \/ \E e \in Events : stream' = Append(stream, e)
  PROVE  ConInv'
  <1>1. UNCHANGED <<cursor, unacked, conPc, batch, tries, projection, dlq, handled, stops>>
    BY DEF consumerOwn
  <1>2. cursor \in 0..Len(stream) /\ unacked \subseteq 1..cursor /\ batch \subseteq unacked
    BY DEF ConInv, ConShape
  <1>3. /\ Len(stream) \in Nat /\ Len(stream) <= Len(stream') /\ Len(stream') \in Nat
        /\ \A n \in 1..Len(stream) : stream'[n] = stream[n]
    <2>1. CASE stream' = stream
      BY <2>1
    <2>2. CASE \E e \in Events : stream' = Append(stream, e)
      BY <2>2
    <2> QED BY <2>1, <2>2
  <1>4. \A n \in 1..cursor : stream'[n] = stream[n]
    BY <1>2, <1>3
  <1>5. ConShape'
    BY <1>1, <1>2, <1>3 DEF ConInv, ConShape, Consumer!Messages
  <1>6. AckInv'
    BY <1>1, <1>2, <1>4 DEF ConInv, AckInv, Consumer!Upcoming
  <1>7. AckedAreSettled'
    BY <1>1, <1>4 DEF ConInv, AckedAreSettled, Consumer!AckedAreSettled
  <1>8. FreshInv' /\ HandledAtMostOnce'
    BY <1>1 DEF ConInv, FreshInv, HandledAtMostOnce, Consumer!HandledAtMostOnce, Consumer!Messages,
                Consumer!Upcoming
  <1> QED BY <1>5, <1>6, <1>7, <1>8 DEF ConInv

\* XREADGROUP, whether or not its answer arrives.
LEMMA DeliverInv ==
  ASSUME ConInv, stream \in Seq(Events), Consumer!Read \/ Consumer!ReadLost
  PROVE  ConInv'
  <1> DEFINE D == Consumer!Delivered
  <1>1. /\ conPc = "read" /\ cursor' = Consumer!Max({cursor} \cup D) /\ unacked' = unacked \cup D
        /\ UNCHANGED <<stream, projection, dlq, handled>>
        /\ \/ batch' = D /\ conPc' = "handle"
           \/ batch' = batch /\ conPc' = conPc
    BY DEF Consumer!Read, Consumer!ReadLost, Consumer!Deliver, Consumer!tables
  <1>2. cursor \in 0..Len(stream) /\ unacked \subseteq 1..cursor /\ batch = {} /\ Len(stream) \in Nat
    BY <1>1 DEF ConInv, ConShape
  <1>3. PICK top \in cursor..Len(stream) : D = (cursor + 1)..top /\ cursor' = top
    BY <1>1, <1>2, DeliveredInterval
  <1> HIDE DEF D
  <1>4. /\ cursor \in Nat /\ cursor' \in Nat /\ cursor <= cursor' /\ cursor' <= Len(stream)
        /\ \A n \in 1..cursor' : n \in 1..cursor \/ n \in D
        /\ D \subseteq 1..cursor' /\ \A n \in D : n > cursor
    BY <1>2, <1>3
  <1>5. unacked' \subseteq 1..cursor'
    <2>1. 1..cursor \subseteq 1..cursor' /\ D \subseteq 1..cursor'
      BY <1>4
    <2> QED BY <1>1, <1>2, <2>1, Zenon
  <1>6. ConShape'
    <2>1. batch' \subseteq unacked' /\ conPc' \in {"read", "handle"} /\ (conPc' = "read" => batch' = {})
      BY <1>1, <1>2
    <2>2. handled' \in [Consumer!Messages -> Nat] /\ cursor' \in 0..Len(stream')
      BY <1>1, <1>4 DEF ConInv, ConShape
    <2> QED BY <1>5, <2>1, <2>2 DEF ConShape, Consumer!Messages
  <1>7. AckInv'
    BY <1>1 DEF AckInv
  <1>8. AckedAreSettled'
    BY <1>1, <1>4 DEF ConInv, AckedAreSettled, Consumer!AckedAreSettled
  <1>9. FreshInv'
    BY <1>1, <1>2, <1>4 DEF ConInv, FreshInv, Consumer!Messages
  <1>10. HandledAtMostOnce'
    BY <1>1 DEF ConInv, HandledAtMostOnce, Consumer!HandledAtMostOnce
  <1> QED BY <1>6, <1>7, <1>8, <1>9, <1>10 DEF ConInv

\* The batch has one next message.
LEMMA OneUpcoming ==
  ASSUME ConShape, NEW m \in batch, Consumer!Upcoming(m), NEW n \in batch, Consumer!Upcoming(n)
  PROVE  m = n
  <1>1. m <= n /\ n <= m
    BY DEF Consumer!Upcoming
  <1>2. m \in Int /\ n \in Int
    BY DEF ConShape
  <1> QED BY <1>1, <1>2

\* The handler is called.
LEMMA HandleInv ==
  ASSUME ConInv, NEW m \in batch, Consumer!HandleOk(m) \/ Consumer!HandleFails(m)
  PROVE  ConInv'
  <1>1. /\ conPc = "handle" /\ Consumer!Upcoming(m) /\ handled' = [handled EXCEPT ![m] = @ + 1]
        /\ UNCHANGED <<stream, cursor, unacked, dlq>>
        /\ projection' = projection \/ projection' = projection \cup {stream[m]}
    BY DEF Consumer!HandleOk, Consumer!HandleFails, Consumer!Try, Consumer!Upsert, Consumer!group
  <1>2. \/ conPc' = "ack" /\ batch' = batch /\ projection' = projection \cup {stream[m]}
        \/ conPc' = "dlq" /\ batch' = batch
        \/ conPc' = "handle" /\ batch' = batch \ {m}
        \/ conPc' = "read" /\ batch' = batch \ {m} /\ batch = {m}
    BY DEF Consumer!HandleOk, Consumer!HandleFails, Consumer!Try, Consumer!Upsert,
           Consumer!NextMessage
  <1>3. ConShape /\ cursor \in Nat /\ m <= cursor
    BY DEF ConInv, ConShape
  <1>4. /\ handled \in [Consumer!Messages -> Nat] /\ handled' \in [Consumer!Messages -> Nat]
        /\ \A n \in Consumer!Messages : n # m => handled'[n] = handled[n]
        /\ m \in Consumer!Messages => handled'[m] = handled[m] + 1 /\ handled[m] = 0
    <2> DEFINE M == Consumer!Messages
    <2>1. handled \in [M -> Nat] /\ (m \in M => handled[m] = 0)
      BY <1>1 DEF ConInv, ConShape, FreshInv
    <2> HIDE DEF M
    <2>2. /\ handled' \in [M -> Nat] /\ \A n \in M : n # m => handled'[n] = handled[n]
          /\ m \in M => handled'[m] = handled[m] + 1
      <3>1. handled' = [n \in M |-> IF n = m THEN handled[n] + 1 ELSE handled[n]]
        BY <1>1, <2>1
      <3>2. \A n \in M : handled[n] + 1 \in Nat
        BY <2>1
      <3> QED BY <2>1, <3>1, <3>2
    <2> QED BY <2>1, <2>2 DEF M
  <1>5. ConShape'
    BY <1>1, <1>2, <1>4 DEF ConInv, ConShape, Consumer!Messages
  <1>6. AckInv'
    <2> SUFFICES ASSUME conPc' = "ack", NEW n \in batch', Consumer!Upcoming(n)'
                 PROVE  stream'[n] \in projection'
      BY DEF AckInv
    <2>1. batch' = batch /\ projection' = projection \cup {stream[m]}
      BY <1>2
    <2>2. Consumer!Upcoming(n)
      BY <2>1 DEF Consumer!Upcoming
    <2>3. n = m
      BY <1>1, <1>3, <2>1, <2>2, OneUpcoming
    <2> QED BY <1>1, <2>1, <2>3
  <1>7. AckedAreSettled'
    BY <1>1 DEF ConInv, AckedAreSettled, Consumer!AckedAreSettled
  <1>8. FreshInv'
    <2>1. \A n \in Consumer!Messages : n > cursor => handled'[n] = 0
      BY <1>3, <1>4 DEF ConInv, FreshInv, Consumer!Messages
    <2>2. ASSUME NEW n \in batch', n \in Consumer!Messages, conPc' = "handle" \/ ~Consumer!Upcoming(n)'
          PROVE  handled'[n] = 0
      <3>1. n \in batch /\ handled[n] = 0
        BY <1>1, <1>2, <2>2 DEF ConInv, FreshInv
      <3>2. n # m
        BY <1>1, <1>2, <2>2 DEF Consumer!Upcoming
      <3> QED BY <1>4, <2>2, <3>1, <3>2
    <2> QED BY <1>1, <2>1, <2>2 DEF FreshInv, Consumer!Messages
  <1>9. HandledAtMostOnce'
    <2>1. \A n \in Consumer!Messages : handled'[n] <= 1
      BY <1>4 DEF ConInv, HandledAtMostOnce, Consumer!HandledAtMostOnce
    <2> QED BY <2>1 DEF HandledAtMostOnce, Consumer!HandledAtMostOnce, Consumer!Messages
  <1> QED BY <1>5, <1>6, <1>7, <1>8, <1>9 DEF ConInv

\* The message goes to the DLQ.
LEMMA InsertDLQInv ==
  ASSUME ConInv, NEW m \in batch, Consumer!InsertDLQ(m)
  PROVE  ConInv'
  <1>1. /\ conPc = "dlq" /\ Consumer!Upcoming(m) /\ conPc' = "ack" /\ dlq' = dlq \cup {m}
        /\ UNCHANGED <<stream, cursor, unacked, batch, projection, handled>>
    BY DEF Consumer!InsertDLQ, Consumer!group
  <1>2. ConShape'
    BY <1>1 DEF ConInv, ConShape, Consumer!Messages
  <1>3. \A n \in batch : Consumer!Upcoming(n)' <=> Consumer!Upcoming(n)
    BY <1>1 DEF Consumer!Upcoming
  <1>4. AckInv'
    BY <1>1, <1>3, OneUpcoming DEF ConInv, AckInv
  <1>5. AckedAreSettled' /\ HandledAtMostOnce'
    BY <1>1 DEF ConInv, AckedAreSettled, Consumer!AckedAreSettled, HandledAtMostOnce,
                Consumer!HandledAtMostOnce, Consumer!Messages
  <1>6. FreshInv'
    BY <1>1, <1>3 DEF ConInv, FreshInv, Consumer!Messages
  <1> QED BY <1>2, <1>4, <1>5, <1>6 DEF ConInv

\* XACK.
LEMMA AckStepInv ==
  ASSUME ConInv, NEW m \in batch, Consumer!Ack(m)
  PROVE  ConInv'
  <1>1. /\ conPc = "ack" /\ Consumer!Upcoming(m) /\ unacked' = unacked \ {m} /\ batch' = batch \ {m}
        /\ UNCHANGED <<stream, cursor, projection, dlq, handled>>
        /\ \/ conPc' = "handle"
           \/ conPc' = "read" /\ batch = {m}
    BY DEF Consumer!Ack, Consumer!NextMessage, Consumer!tables
  <1>2. stream[m] \in projection \/ m \in dlq
    BY <1>1 DEF ConInv, AckInv
  <1>3. ConShape'
    BY <1>1 DEF ConInv, ConShape, Consumer!Messages
  <1>4. AckInv'
    BY <1>1 DEF AckInv
  <1>5. AckedAreSettled'
    BY <1>1, <1>2 DEF ConInv, AckedAreSettled, Consumer!AckedAreSettled
  <1>6. \A n \in batch' \cap Consumer!Messages : handled[n] = 0
    BY <1>1, OneUpcoming DEF ConInv, FreshInv
  <1>7. FreshInv' /\ HandledAtMostOnce'
    BY <1>1, <1>6 DEF ConInv, FreshInv, HandledAtMostOnce, Consumer!HandledAtMostOnce,
                      Consumer!Messages
  <1> QED BY <1>3, <1>4, <1>5, <1>7 DEF ConInv

\* The consumer ends and starts again.
LEMMA ConsumerLifeInv ==
  ASSUME ConInv, Consumer!Stop \/ Consumer!Restart
  PROVE  ConInv'
  <1>1. /\ UNCHANGED <<stream, cursor, unacked, projection, dlq, handled>>
        /\ batch' = {} /\ conPc' \in {"down", "read"}
    BY DEF Consumer!Stop, Consumer!Restart, Consumer!group, Consumer!tables, ConInv, ConShape
  <1>2. ConShape' /\ AckInv'
    BY <1>1 DEF ConInv, ConShape, AckInv, Consumer!Messages
  <1>3. AckedAreSettled' /\ FreshInv' /\ HandledAtMostOnce'
    BY <1>1 DEF ConInv, FreshInv, AckedAreSettled, Consumer!AckedAreSettled, HandledAtMostOnce,
                Consumer!HandledAtMostOnce, Consumer!Messages
  <1> QED BY <1>2, <1>3 DEF ConInv

\* An empty stream and a consumer that has read nothing satisfy the invariant.
LEMMA PipeInitInv == PipeInit => PipeInv
  <1> SUFFICES ASSUME PipeInit PROVE PipeInv
    OBVIOUS
  <1>1. PubInv
    BY PubInitInv DEF PipeInit
  <1>2. /\ stream = <<>> /\ cursor = 0 /\ unacked = {} /\ conPc = "read" /\ batch = {}
        /\ handled = [n \in Consumer!Messages |-> 0]
    BY DEF PipeInit, Consumer!ConInit, Consumer!NoTries
  <1>3. ConShape /\ AckInv
    BY <1>2 DEF ConShape, AckInv
  <1>4. AckedAreSettled /\ FreshInv /\ HandledAtMostOnce
    BY <1>2 DEF AckedAreSettled, Consumer!AckedAreSettled, FreshInv, HandledAtMostOnce,
                Consumer!HandledAtMostOnce
  <1> QED BY <1>1, <1>3, <1>4 DEF PipeInv, ConInv

\* Steps of the publishers and of the consumer preserve it.
LEMMA PipeNextInv ==
  ASSUME PipeInv, [PipeNext]_pipeVars
  PROVE  PipeInv'
  <1>1. PubInv /\ ConInv /\ stream \in Seq(Events)
    BY DEF PipeInv, PubInv, PubTypeOK
  <1>2. CASE UNCHANGED pipeVars
    <2>1. UNCHANGED pubVars /\ UNCHANGED consumerOwn
      BY <1>2 DEF pipeVars
    <2>2. stream' = stream
      BY <2>1 DEF pubVars
    <2> QED BY <1>1, <2>1, <2>2, PubNextInv, PublisherKeepsConInv DEF PipeInv
  <1>3. CASE PublisherStep
    BY <1>1, <1>3, PubNextInv, PubAppends, PublisherKeepsConInv DEF PublisherStep, PipeInv
  <1>4. CASE ConsumerStep
    <2>1. stream' = stream
      BY <1>4 DEF ConsumerStep, Consumer!Consume, Consumer!Read, Consumer!ReadLost, Consumer!Deliver,
                  Consumer!HandleOk, Consumer!HandleFails, Consumer!Try, Consumer!InsertDLQ,
                  Consumer!Ack, Consumer!Stop, Consumer!Restart
    <2>2. UNCHANGED pubVars
      BY <1>4, <2>1 DEF ConsumerStep, pubVars
    <2>3. PubInv'
      BY <1>1, <2>2, PubNextInv
    <2>4. ConInv'
      BY <1>1, <1>4, DeliverInv, HandleInv, InsertDLQInv, AckStepInv, ConsumerLifeInv
      DEF ConsumerStep, Consumer!Consume
    <2> QED BY <2>3, <2>4 DEF PipeInv
  <1> QED BY <1>2, <1>3, <1>4 DEF PipeNext

\* The pipeline's invariant holds in every reachable state.
THEOREM PipelineInvariance == PipeSpec => []PipeInv
  BY PipeInitInv, PipeNextInv, PTL DEF PipeSpec

\* Wherever publishers and the consumer stop, an acknowledged message is in the
\* projection or in the DLQ (RunOnce of the consumer, Ack).
THEOREM AcknowledgedIsSettled == PipeSpec => []AckedAreSettled
  <1>1. PipeInv => AckedAreSettled
    BY DEF PipeInv, ConInv
  <1> QED BY <1>1, PipelineInvariance, PTL

\* The group never gives a message to the handler twice (Read with ">", RunOnce).
THEOREM HandlerSeesMessageOnce == PipeSpec => []HandledAtMostOnce
  <1>1. PipeInv => HandledAtMostOnce
    BY DEF PipeInv, ConInv
  <1> QED BY <1>1, PipelineInvariance, PTL

-----------------------------------------------------------------------------
\* docker-compose.yml runs one outbox-publisher.
Single == \A p, q \in Publishers : p = q

\* A publisher's row is still pending: nobody else marks it.
HeldPending == \A p \in Publishers : \A e \in fetched[p] : status[e] = "pending"

\* A publisher has put e on the stream and not marked it yet.
Sent(e) == \E p \in Publishers : pubPc[p] = "sent" /\ Current(p, e)

Spare(e) == failures[e] + exits + resends

\* The copy of a publish that worked is the one that a mark answers for.
CopyInv == \A e \in Events :
  /\ Cardinality(Copies(e)) <= 1 + Spare(e)
  /\ status[e] # "published" /\ ~Sent(e) => Cardinality(Copies(e)) <= Spare(e)

\* What XADD does to the copies.
LEMMA CopiesGrow ==
  ASSUME stream \in Seq(Events), NEW e \in Events
  PROVE  /\ Cardinality(Copies(e)) \in Nat
         /\ \A f \in Events : stream' = Append(stream, f) =>
              Cardinality(Copies(e)') = IF e = f THEN Cardinality(Copies(e)) + 1 ELSE Cardinality(Copies(e))
         /\ stream' = stream => Cardinality(Copies(e)') = Cardinality(Copies(e))
  <1>1. Len(stream) \in Nat /\ DOMAIN stream = 1..Len(stream)
    OBVIOUS
  <1>2. IsFiniteSet(Copies(e)) /\ Copies(e) \subseteq 1..Len(stream)
    <2>1. IsFiniteSet(1..Len(stream))
      BY <1>1, FS_Interval
    <2> QED BY <1>1, <2>1, FS_Subset DEF Copies
  <1>3. Cardinality(Copies(e)) \in Nat
    BY <1>2, FS_CardinalityType
  <1>4. ASSUME NEW f \in Events, stream' = Append(stream, f)
        PROVE  Cardinality(Copies(e)') = IF e = f THEN Cardinality(Copies(e)) + 1 ELSE Cardinality(Copies(e))
    <2>1. /\ DOMAIN stream' = 1..(Len(stream) + 1) /\ stream'[Len(stream) + 1] = f
          /\ \A n \in 1..Len(stream) : stream'[n] = stream[n]
      BY <1>1, <1>4
    <2>2. Copies(e)' = {n \in 1..(Len(stream) + 1) : stream'[n] = e}
      BY <2>1 DEF Copies
    <2>3. Copies(e) = {n \in 1..Len(stream) : stream[n] = e}
      BY <1>1 DEF Copies
    <2>4. \A n \in 1..(Len(stream) + 1) : n \in 1..Len(stream) \/ n = Len(stream) + 1
      BY <1>1
    <2>5. Len(stream) + 1 \notin Copies(e) /\ Len(stream) + 1 \in 1..(Len(stream) + 1)
          /\ 1..Len(stream) \subseteq 1..(Len(stream) + 1)
      BY <1>1, <2>3
    <2>6. CASE e = f
      <3>1. Copies(e)' = Copies(e) \cup {Len(stream) + 1}
        BY <2>1, <2>2, <2>3, <2>4, <2>5, <2>6
      <3>2. Cardinality(Copies(e) \cup {Len(stream) + 1}) = Cardinality(Copies(e)) + 1
        BY <1>2, <2>5, FS_AddElement
      <3> QED BY <2>6, <3>1, <3>2
    <2>7. CASE e # f
      <3>1. Copies(e)' = Copies(e)
        BY <2>1, <2>2, <2>3, <2>4, <2>5, <2>7
      <3> QED BY <2>7, <3>1
    <2> QED BY <2>6, <2>7
  <1>5. stream' = stream => Cardinality(Copies(e)') = Cardinality(Copies(e))
    BY DEF Copies
  <1> QED BY <1>3, <1>4, <1>5

\* The batch has one current event.
LEMMA OneCurrent ==
  ASSUME PubTypeOK, NEW p \in Publishers, NEW e \in Events, NEW f \in Events, Current(p, e), Current(p, f)
  PROVE  e = f
  <1>1. e <= f /\ f <= e /\ e \in Int /\ f \in Int
    BY PublisherAssumption DEF Current
  <1> QED BY <1>1

SoleInv == PubInv /\ HeldPending /\ CopyInv

\* A step keeps what a single publisher relies on, and settled rows stay settled.
SoleStep ==
  /\ HeldPending' /\ CopyInv'
  /\ \A e \in Events : status[e] \in {"published", "dead"} => status'[e] = status[e]

\* Steps that leave the stream, the batches and the counts alone.
LEMMA RowsSole ==
  ASSUME SoleInv, \/ \E e \in Events : CommitOrder(e) \/ BackoffElapses(e)
                  \/ \E p \in Publishers : Start(p)
                  \/ UNCHANGED pubVars
  PROVE  SoleStep
  <1> USE DEF rows, procs, pubVars
  <1>1. UNCHANGED <<stream, fetched, cached, failures, exits, resends>>
    BY DEF CommitOrder, BackoffElapses, Start
  <1>2. /\ status \in [Events -> Statuses] /\ stream \in Seq(Events)
        /\ pubPc \in [Publishers -> {"down", "poll", "send", "sent", "failed"}]
    BY DEF SoleInv, PubInv, PubTypeOK
  <1>3. \A f \in Events : status'[f] = status[f] \/ (status[f] = "absent" /\ status'[f] = "pending")
    BY <1>2 DEF CommitOrder, BackoffElapses, Start
  <1>4. \A q \in Publishers : pubPc'[q] = "sent" <=> pubPc[q] = "sent"
    BY <1>2 DEF CommitOrder, BackoffElapses, Start
  <1>5. \A f \in Events : Sent(f)' <=> Sent(f)
    BY <1>1, <1>4 DEF Sent, Current
  <1>6. \A f \in Events : Cardinality(Copies(f)') = Cardinality(Copies(f)) /\ Spare(f)' = Spare(f)
    BY <1>1 DEF Copies, Spare
  <1>7. CopyInv'
    BY <1>3, <1>5, <1>6 DEF SoleInv, CopyInv
  <1>8. \A q \in Publishers : \A f \in fetched[q] : f \in Events
    BY DEF SoleInv, PubInv, PubTypeOK
  <1>9. HeldPending'
    BY <1>1, <1>3, <1>8 DEF SoleInv, HeldPending
  <1>10. \A e \in Events : status[e] \in {"published", "dead"} => status'[e] = status[e]
    BY <1>3
  <1> QED BY <1>7, <1>9, <1>10 DEF SoleStep

\* FetchPending takes pending rows; Exit drops the batch and is counted.
LEMMA BatchSole ==
  ASSUME Single, SoleInv, NEW p \in Publishers, Fetch(p) \/ Exit(p)
  PROVE  SoleStep
  <1> USE DEF rows, procs
  <1>1. /\ UNCHANGED <<status, attempts, due, stream, failures, resends>>
        /\ \/ /\ pubPc[p] = "poll" /\ pubPc' = [pubPc EXCEPT ![p] = "send"] /\ exits' = exits
              /\ fetched' = [fetched EXCEPT ![p] = Oldest(Ready)]
           \/ /\ pubPc' = [pubPc EXCEPT ![p] = "down"] /\ exits' = exits + 1
              /\ fetched' = [fetched EXCEPT ![p] = {}]
    BY DEF Fetch, Exit
  <1>2. /\ pubPc \in [Publishers -> {"down", "poll", "send", "sent", "failed"}]
        /\ fetched \in [Publishers -> SUBSET Events] /\ stream \in Seq(Events)
        /\ failures \in [Events -> Nat] /\ exits \in Nat /\ resends \in Nat
    BY DEF SoleInv, PubInv, PubTypeOK
  <1>3. \A q \in Publishers : q = p
    BY DEF Single
  <1>4. Oldest(Ready) \subseteq Ready
    BY DEF Oldest
  <1>5. HeldPending'
    BY <1>1, <1>2, <1>3, <1>4 DEF HeldPending, Ready
  <1>6. \A f \in Events : ~Sent(f)'
    BY <1>1, <1>2, <1>3 DEF Sent
  <1>7. \A f \in Events : Cardinality(Copies(f)') = Cardinality(Copies(f)) /\ Cardinality(Copies(f)) \in Nat
    BY <1>1, <1>2, CopiesGrow
  <1>8. CASE exits' = exits /\ pubPc[p] = "poll"
    <2>1. \A f \in Events : ~Sent(f) /\ Spare(f)' = Spare(f)
      BY <1>1, <1>3, <1>8 DEF Sent, Spare
    <2>2. CopyInv'
      BY <1>1, <1>6, <1>7, <2>1 DEF SoleInv, CopyInv
    <2> QED BY <1>1, <1>5, <2>2 DEF SoleStep
  <1>9. CASE exits' = exits + 1
    <2>1. \A f \in Events : Spare(f)' = Spare(f) + 1 /\ Spare(f) \in Nat
      BY <1>1, <1>2, <1>9 DEF Spare
    <2>2. CopyInv'
      BY <1>7, <2>1 DEF SoleInv, CopyInv
    <2> QED BY <1>1, <1>5, <2>2 DEF SoleStep
  <1> QED BY <1>1, <1>8, <1>9

\* XADD: its copy is answered for by the event being sent, a failure or a resend.
LEMMA SendSole ==
  ASSUME Single, SoleInv, NEW p \in Publishers, NEW e \in Events,
         Publish(p, e) \/ PublishFails(p, e) \/ Resend(p, e)
  PROVE  SoleStep
  <1> USE DEF rows, procs
  <1>1. /\ UNCHANGED <<status, attempts, due, fetched, cached, exits>>
        /\ pubPc[p] = "send" /\ Current(p, e)
        /\ stream' = stream \/ stream' = Append(stream, e)
    BY DEF Publish, PublishFails, Resend
  <1>2. \/ pubPc' = [pubPc EXCEPT ![p] = "sent"] /\ failures' = failures /\ resends' = resends
        \/ /\ pubPc' = [pubPc EXCEPT ![p] = "failed"] /\ resends' = resends
           /\ failures' = [failures EXCEPT ![e] = @ + 1]
        \/ pubPc' = pubPc /\ failures' = failures /\ resends' = resends + 1
    BY DEF Publish, PublishFails, Resend
  <1>3. /\ pubPc \in [Publishers -> {"down", "poll", "send", "sent", "failed"}]
        /\ stream \in Seq(Events) /\ failures \in [Events -> Nat] /\ exits \in Nat /\ resends \in Nat
        /\ PubTypeOK
    BY DEF SoleInv, PubInv, PubTypeOK
  <1>4. \A q \in Publishers : q = p
    BY DEF Single
  <1>5. HeldPending'
    BY <1>1 DEF SoleInv, HeldPending
  <1>6. \A f \in Events : ~Sent(f)
    BY <1>1, <1>4 DEF Sent
  <1>7. status[e] = "pending"
    BY <1>1 DEF Current, SoleInv, HeldPending
  <1>8. \A f \in Events :
          /\ Cardinality(Copies(f)) \in Nat
          /\ f # e => Cardinality(Copies(f)') = Cardinality(Copies(f))
          /\ \/ Cardinality(Copies(f)') = Cardinality(Copies(f))
             \/ Cardinality(Copies(f)') = Cardinality(Copies(f)) + 1
    <2> SUFFICES ASSUME NEW f \in Events
                 PROVE  /\ Cardinality(Copies(f)) \in Nat
                        /\ f # e => Cardinality(Copies(f)') = Cardinality(Copies(f))
                        /\ \/ Cardinality(Copies(f)') = Cardinality(Copies(f))
                           \/ Cardinality(Copies(f)') = Cardinality(Copies(f)) + 1
      OBVIOUS
    <2>1. CASE stream' = stream
      BY <1>3, <2>1, CopiesGrow
    <2>2. CASE stream' = Append(stream, e)
      BY <1>3, <2>2, CopiesGrow
    <2> QED BY <1>1, <2>1, <2>2
  <1>9. \A f \in Events : Cardinality(Copies(f)) <= Spare(f) \/ status[f] = "published"
    BY <1>6 DEF SoleInv, CopyInv
  <1>10. \A f \in Events : Spare(f) \in Nat /\ Spare(f)' \in Nat /\ Spare(f)' >= Spare(f)
    <2>1. resends' \in Nat /\ resends' >= resends /\ exits' = exits
      BY <1>1, <1>2, <1>3
    <2>2. \A f \in Events : failures[f] \in Nat /\ failures'[f] \in Nat /\ failures'[f] >= failures[f]
      BY <1>2, <1>3
    <2> QED BY <1>3, <2>1, <2>2, SMTT(30) DEF Spare
  <1>11. ASSUME NEW f \in Events, f # e
         PROVE  /\ Cardinality(Copies(f)') <= 1 + Spare(f)'
                /\ status'[f] # "published" /\ ~Sent(f)' => Cardinality(Copies(f)') <= Spare(f)'
    <2>1. Cardinality(Copies(f)') = Cardinality(Copies(f)) /\ Cardinality(Copies(f)) \in Nat
      BY <1>8, <1>11
    <2>2. Cardinality(Copies(f)) <= 1 + Spare(f)
      BY DEF SoleInv, CopyInv
    <2> QED BY <1>1, <1>9, <1>10, <2>1, <2>2
  <1>12. /\ Cardinality(Copies(e)') <= 1 + Spare(e)'
         /\ status'[e] # "published" /\ ~Sent(e)' => Cardinality(Copies(e)') <= Spare(e)'
    <2>1. Cardinality(Copies(e)) <= Spare(e)
      BY <1>7, <1>9
    <2>2. Cardinality(Copies(e)') <= 1 + Spare(e)'
      BY <1>8, <1>10, <2>1
    <2>3. CASE pubPc' = [pubPc EXCEPT ![p] = "sent"]
      <3>1. Sent(e)'
        BY <1>1, <1>3, <2>3 DEF Sent, Current
      <3> QED BY <2>2, <3>1
    <2>4. CASE failures' = [failures EXCEPT ![e] = @ + 1] /\ resends' = resends
      <3>1. Spare(e)' = Spare(e) + 1
        BY <1>1, <1>3, <2>4 DEF Spare
      <3> QED BY <1>8, <1>10, <2>1, <2>2, <3>1
    <2>5. CASE failures' = failures /\ resends' = resends + 1
      <3>1. Spare(e)' = Spare(e) + 1
        BY <1>1, <1>3, <2>5 DEF Spare
      <3> QED BY <1>8, <1>10, <2>1, <2>2, <3>1
    <2> QED BY <1>2, <2>3, <2>4, <2>5
  <1>13. CopyInv'
    BY <1>11, <1>12 DEF CopyInv
  <1> QED BY <1>1, <1>5, <1>13 DEF SoleStep

\* A mark is of a row that was pending, and goes with the row's copy.
LEMMA MarkSole ==
  ASSUME Single, SoleInv, NEW p \in Publishers, NEW e \in Events,
         MarkPublished(p, e) \/ MarkRetry(p, e) \/ MarkDead(p, e)
  PROVE  SoleStep
  <1>1. /\ Current(p, e) /\ NextEvent(p, e)
        /\ \/ pubPc[p] = "sent" /\ status' = [status EXCEPT ![e] = "published"]
           \/ /\ pubPc[p] = "failed"
              /\ \/ status' = [status EXCEPT ![e] = "pending"]
                 \/ status' = [status EXCEPT ![e] = "dead"]
    BY DEF MarkPublished, MarkRetry, MarkDead
  <1>2. /\ UNCHANGED <<stream, failures, exits, resends>>
        /\ fetched' = [fetched EXCEPT ![p] = @ \ {e}]
        /\ pubPc' = [pubPc EXCEPT ![p] = IF fetched[p] = {e} THEN "poll" ELSE "send"]
    BY <1>1 DEF NextEvent
  <1>3. /\ pubPc \in [Publishers -> {"down", "poll", "send", "sent", "failed"}]
        /\ fetched \in [Publishers -> SUBSET Events] /\ status \in [Events -> Statuses] /\ PubTypeOK
    BY DEF SoleInv, PubInv, PubTypeOK
  <1>4. \A q \in Publishers : q = p
    BY DEF Single
  <1>5. \A f \in Events : f # e => status'[f] = status[f]
    BY <1>1, <1>3
  <1>6. status[e] = "pending"
    BY <1>1 DEF Current, SoleInv, HeldPending
  <1>7. HeldPending'
    BY <1>2, <1>3, <1>4, <1>5 DEF SoleInv, HeldPending
  <1>8. \A f \in Events : ~Sent(f)' /\ Cardinality(Copies(f)') = Cardinality(Copies(f)) /\ Spare(f)' = Spare(f)
    BY <1>2, <1>3, <1>4 DEF Sent, Copies, Spare
  <1>9. \A f \in Events : f # e => ~Sent(f)
    BY <1>1, <1>3, <1>4, OneCurrent DEF Sent
  <1>10. status'[e] # "published" => ~Sent(e)
    BY <1>1, <1>3, <1>4 DEF Sent
  <1>11. CopyInv'
    BY <1>5, <1>6, <1>8, <1>9, <1>10 DEF SoleInv, CopyInv
  <1> QED BY <1>5, <1>6, <1>7, <1>11 DEF SoleStep

\* With one publisher no step sets a settled row back or adds a copy nobody accounts for.
LEMMA SoleNext ==
  ASSUME Single, SoleInv, [PipeNext]_pipeVars
  PROVE  SoleInv' /\ SoleStep
  <1>1. [PubNext]_pubVars
    <2>1. CASE UNCHANGED pipeVars
      BY <2>1 DEF pipeVars
    <2>2. CASE PublisherStep
      BY <2>2 DEF PublisherStep
    <2>3. CASE ConsumerStep
      <3>1. stream' = stream
        BY <2>3 DEF ConsumerStep, Consumer!Consume, Consumer!Read, Consumer!ReadLost, Consumer!Deliver,
                    Consumer!HandleOk, Consumer!HandleFails, Consumer!Try, Consumer!InsertDLQ,
                    Consumer!Ack, Consumer!Stop, Consumer!Restart
      <3> QED BY <2>3, <3>1 DEF ConsumerStep, pubVars
    <2> QED BY <2>1, <2>2, <2>3 DEF PipeNext
  <1>2. PubInv'
    BY <1>1, PubNextInv DEF SoleInv
  <1>3. SoleStep
    BY <1>1, RowsSole, BatchSole, SendSole, MarkSole DEF PubNext, RunOnce
  <1> QED BY <1>2, <1>3 DEF SoleInv, SoleStep

\* Nothing is fetched, published or settled at first.
LEMMA SoleInit == PipeInit => SoleInv
  <1> SUFFICES ASSUME PipeInit PROVE SoleInv
    OBVIOUS
  <1>1. PubInv /\ PubInit
    BY PubInitInv DEF PipeInit
  <1>2. HeldPending
    BY <1>1 DEF PubInit, HeldPending
  <1>3. \A e \in Events : Copies(e) = {} /\ Spare(e) = 0
    BY <1>1 DEF PubInit, Copies, Spare
  <1>4. CopyInv
    BY <1>3, FS_EmptySet DEF CopyInv
  <1> QED BY <1>1, <1>2, <1>4 DEF SoleInv

\* With one publisher a published or dead row never changes again (MarkPublished,
\* MarkRetry and MarkDead write without looking at the status).
THEOREM SinglePublisherSettles ==
  ASSUME Single
  PROVE  PipeSpec => SettledForGood
  <1>1. SoleInv /\ [PipeNext]_pipeVars => SoleInv'
    BY SoleNext
  <1>2. PipeSpec => []SoleInv
    BY <1>1, SoleInit, PTL DEF PipeSpec
  <1>3. SoleInv /\ [PipeNext]_pipeVars =>
          [\A e \in Events : status[e] \in {"published", "dead"} => status'[e] = status[e]]_pipeVars
    BY SoleNext DEF SoleStep
  <1> QED BY <1>2, <1>3, PTL DEF PipeSpec, SettledForGood

\* With one publisher every further copy of an event is due to a failed publish, an
\* XADD sent again or an end of the publisher (RunOnce, Publish).
THEOREM SinglePublisherCopies ==
  ASSUME Single
  PROVE  PipeSpec => []CopiesAccounted
  <1>1. SoleInv /\ [PipeNext]_pipeVars => SoleInv'
    BY SoleNext
  <1>2. SoleInv => CopiesAccounted
    <2> SUFFICES ASSUME SoleInv, NEW e \in Events
                 PROVE  Cardinality(Copies(e)) <= 1 + failures[e] + exits + resends
      BY DEF CopiesAccounted
    <2>1. failures[e] \in Nat /\ exits \in Nat /\ resends \in Nat /\ Cardinality(Copies(e)) \in Nat
      BY CopiesGrow DEF SoleInv, PubInv, PubTypeOK
    <2>2. Cardinality(Copies(e)) <= 1 + (failures[e] + exits + resends)
      BY DEF SoleInv, CopyInv, Spare
    <2> QED BY <2>1, <2>2
  <1> QED BY <1>1, <1>2, SoleInit, PTL DEF PipeSpec
=============================================================================
