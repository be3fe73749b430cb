--------------------------- MODULE JobWorkerProofs ---------------------------
(***************************************************************************)
(* For any number of callers, workers, jobs and restarts, and any queue    *)
(* size and retry limit: no accepted job is lost or done twice, a job is   *)
(* given up after the retry limit, and a Stop that returns has drained the *)
(* queue.                                                                  *)
(***************************************************************************)
EXTENDS JobWorker, FiniteSetTheorems, TLAPS

Distinct(s) == \A i, j \in 1..Len(s) : s[i] = s[j] => i = j

\* A job is in one place: with a caller that has not sent it yet, in the queue, with
\* one worker, finished or dead.
PlacesInv ==
  /\ Distinct(queue)
  /\ \A w, v \in Workers : w # v /\ job[w] # 0 => job[w] # job[v]
  /\ \A w \in Workers : job[w] \notin Range(queue) /\ job[w] \notin done /\ job[w] \notin dead
  /\ Range(queue) \cap done = {} /\ Range(queue) \cap dead = {} /\ done \cap dead = {}
  /\ \A j \in accepted : j <= seq
  /\ \A c \in Callers : holding[c] <= seq /\ holding[c] \notin accepted
  /\ \A c, d \in Callers : c # d /\ holding[c] # 0 => holding[c] # holding[d]

\* A worker's job may be tried once more, any other job that is not over is fresh.
RunsInv ==
  /\ \A w \in Workers : job[w] # 0 => runs[job[w]] <= RetryLimit
  /\ \A j \in Jobs : j \in Range(queue) \/ j \notin accepted => runs[j] = 0

\* Workers end only once the queue is closed and empty, and Stop waits for them.
DrainInv ==
  /\ started /\ ~closed => \A w \in Workers : wk[w] # "off"
  /\ closed /\ (\E w \in Workers : wk[w] = "off") => queue = <<>>
  /\ main = "free" /\ ~started => sched = "off" /\ \A w \in Workers : wk[w] = "off"

JobInv ==
  JobTypeOK /\ PlacesInv /\ AcceptedAccounted /\ RunsInv /\ DeadAfterRetryLimit /\ DrainInv

\* A send on the queue.
LEMMA AppendDistinct ==
  ASSUME NEW S, NEW s \in Seq(S), Distinct(s), NEW x \in S, x \notin Range(s)
  PROVE  /\ Append(s, x) \in Seq(S) /\ Distinct(Append(s, x))
         /\ Range(Append(s, x)) = Range(s) \cup {x} /\ Len(Append(s, x)) = Len(s) + 1
  <1> DEFINE t == Append(s, x)
  <1>1. /\ t \in Seq(S) /\ Len(t) = Len(s) + 1 /\ Len(s) \in Nat /\ t[Len(s) + 1] = x
        /\ \A i \in 1..Len(s) : t[i] = s[i]
        /\ DOMAIN s = 1..Len(s) /\ DOMAIN t = 1..Len(t)
    OBVIOUS
  <1> HIDE DEF t
  <1>2. \A i \in 1..Len(t) : i \in 1..Len(s) \/ i = Len(s) + 1
    BY <1>1
  <1>3. \A i \in 1..Len(s) : s[i] # x /\ i \in 1..Len(t)
    BY <1>1 DEF Range
  <1>4. Distinct(t)
    BY <1>1, <1>2, <1>3 DEF Distinct
  <1>5. Range(t) = Range(s) \cup {x}
    BY <1>1, <1>2, <1>3 DEF Range
  <1> QED BY <1>1, <1>4, <1>5 DEF t

\* A receive from the queue.
LEMMA TailDistinct ==
  ASSUME NEW S, NEW s \in Seq(S), Distinct(s), s # <<>>
  PROVE  /\ Tail(s) \in Seq(S) /\ Distinct(Tail(s)) /\ Head(s) \in Range(s) /\ Head(s) \in S
         /\ Range(Tail(s)) = Range(s) \ {Head(s)} /\ Len(Tail(s)) = Len(s) - 1
  <1> DEFINE t == Tail(s)
  <1>1. /\ t \in Seq(S) /\ Len(s) = Len(t) + 1 /\ Len(t) \in Nat /\ Head(s) = s[1] /\ s[1] \in S
        /\ \A i \in 1..Len(t) : t[i] = s[i + 1]
        /\ DOMAIN s = 1..Len(s) /\ DOMAIN t = 1..Len(t)
    OBVIOUS
  <1> HIDE DEF t
  <1>2. \A i \in 1..Len(t) : i + 1 \in 1..Len(s) /\ t[i] = s[i + 1] /\ i + 1 # 1
    BY <1>1
  <1>3. 1 \in 1..Len(s)
    BY <1>1
  <1>4. Distinct(t)
    <2> SUFFICES ASSUME NEW i \in 1..Len(t), NEW j \in 1..Len(t), t[i] = t[j] PROVE i = j
      BY DEF Distinct
    <2>1. i + 1 = j + 1
      BY <1>2 DEF Distinct
    <2> QED BY <2>1
  <1>5. \A i \in 1..Len(t) : t[i] # s[1] /\ t[i] \in Range(s)
    BY <1>1, <1>2, <1>3 DEF Distinct, Range
  <1>6. \A i \in 1..Len(s) : s[i] # s[1] => s[i] \in Range(t)
    <2> SUFFICES ASSUME NEW i \in 1..Len(s), s[i] # s[1] PROVE s[i] \in Range(t)
      OBVIOUS
    <2>1. i - 1 \in 1..Len(t) /\ (i - 1) + 1 = i
      BY <1>1
    <2>2. t[i - 1] = s[i]
      BY <1>1, <2>1
    <2> QED BY <1>1, <2>1, <2>2 DEF Range
  <1>7. Range(t) = Range(s) \ {s[1]}
    BY <1>1, <1>5, <1>6 DEF Range
  <1>8. s[1] \in Range(s)
    BY <1>1, <1>3 DEF Range
  <1> QED BY <1>1, <1>4, <1>7, <1>8 DEF t

InHand == {w \in Workers : job[w] # 0}

\* The sets that are counted are finite.
LEMMA CountedFinite ==
  ASSUME JobInv
  PROVE  /\ IsFiniteSet(accepted) /\ IsFiniteSet(done) /\ IsFiniteSet(dead) /\ IsFiniteSet(InHand)
         /\ Cardinality(accepted) \in Nat /\ Cardinality(done) \in Nat
         /\ Cardinality(dead) \in Nat /\ Cardinality(InHand) \in Nat
         /\ Len(queue) \in Nat
  <1>1. IsFiniteSet(Jobs)
    BY JobAssumption, FS_Interval DEF Jobs
  <1>2. accepted \subseteq Jobs /\ done \subseteq Jobs /\ dead \subseteq Jobs /\ Len(queue) \in Nat
    BY DEF JobInv, JobTypeOK
  <1>3. InHand \subseteq Workers /\ IsFiniteSet(Workers)
    BY JobAssumption DEF InHand
  <1>4. IsFiniteSet(accepted) /\ IsFiniteSet(done) /\ IsFiniteSet(dead) /\ IsFiniteSet(InHand)
    BY <1>1, <1>2, <1>3, FS_Subset
  <1> QED BY <1>2, <1>4, FS_CardinalityType

\* A service that was never started has no jobs.
LEMMA JobInitInv == JobInit => JobInv
  <1> SUFFICES ASSUME JobInit PROVE JobInv
    OBVIOUS
  <1> USE DEF JobInit
  <1>1. JobTypeOK
    <2>1. 0 \in 0..MaxJobs /\ 0 \in 0..MaxTime /\ 0 \in 0..MaxStarts /\ -1 \in -1..(MaxTime + Every)
      BY JobAssumption
    <2>2. queue \in Seq(Jobs) /\ Len(queue) <= QueueSize
      BY JobAssumption
    <2> QED BY <2>1, <2>2 DEF JobTypeOK
  <1>2. Range(queue) = {} /\ Len(queue) = 0
    BY DEF Range
  <1>3. PlacesInv
    BY <1>2 DEF PlacesInv, Distinct
  <1>4. AcceptedAccounted
    <2>1. InWork = {} /\ {w \in Workers : job[w] # 0} = {}
      BY DEF InWork
    <2>2. Cardinality(accepted) = 0 /\ Cardinality(done) = 0 /\ Cardinality(dead) = 0
      BY FS_EmptySet
    <2>3. Cardinality({w \in Workers : job[w] # 0}) = 0
      BY <2>1, FS_EmptySet
    <2> QED BY <1>2, <2>1, <2>2, <2>3 DEF AcceptedAccounted
  <1>5. RunsInv /\ DeadAfterRetryLimit /\ DrainInv
    BY JobAssumption DEF RunsInv, DeadAfterRetryLimit, DrainInv
  <1> QED BY <1>1, <1>3, <1>4, <1>5 DEF JobInv

\* Steps that move no job.
LEMMA NoJobMoves ==
  ASSUME JobInv, UNCHANGED <<queue, seq, holding, accepted, job, runs, done, dead>>
  PROVE  PlacesInv' /\ AcceptedAccounted' /\ RunsInv' /\ DeadAfterRetryLimit'
  <1>1. PlacesInv' /\ RunsInv' /\ DeadAfterRetryLimit'
    BY DEF JobInv, PlacesInv, RunsInv, DeadAfterRetryLimit, Distinct
  <1>2. AcceptedAccounted'
    BY DEF JobInv, AcceptedAccounted, InWork
  <1> QED BY <1>1, <1>2

\* Start, Stop, the clock and the scheduler's loop.
LEMMA LifeInv ==
  ASSUME JobInv, ~panicked,
         \/ Start \/ StopBegin \/ StopEnd \/ RegisterSchedule \/ PassTime \/ CancelContext
         \/ LoopBegin("scheduler") \/ LoopBegin("caller") \/ LoopEnd \/ SchedulerExit
  PROVE  JobInv'
  <1> USE DEF jobVars, client, clock, timer, pool, life
  <1>1. UNCHANGED <<queue, seq, holding, accepted, job, runs, done, dead>>
    BY DEF Start, StopBegin, StopEnd, RegisterSchedule, PassTime, CancelContext, LoopBegin,
           LoopEnd, SchedulerExit
  <1>2. PlacesInv' /\ AcceptedAccounted' /\ RunsInv' /\ DeadAfterRetryLimit'
    BY <1>1, NoJobMoves
  <1>3. CASE Start
    <2>1. JobTypeOK'
      <3>1. \A w \in Workers : job[w] = 0
        BY <1>3 DEF JobInv, JobTypeOK, Start, DrainInv
      <3>2. /\ wk' = [w \in Workers |-> "idle"] /\ sched' = "wait" /\ started' = TRUE
            /\ schedStop' = FALSE /\ starts < MaxStarts /\ starts' = starts + 1
            /\ UNCHANGED <<closed, holder, upTo, now, nextRun, main, panicked>>
        BY <1>3 DEF Start
      <3>3. starts' \in 0..MaxStarts
        BY <3>2, JobAssumption DEF JobInv, JobTypeOK
      <3>4. wk' \in [Workers -> {"off", "idle", "run"}] /\ \A w \in Workers : wk'[w] = "run" <=> job[w] # 0
        BY <3>1, <3>2
      <3> QED BY <1>1, <3>2, <3>3, <3>4 DEF JobInv, JobTypeOK
    <2>2. DrainInv'
      BY <1>1, <1>3 DEF JobInv, DrainInv, Start
    <2> QED BY <1>2, <2>1, <2>2 DEF JobInv
  <1>4. CASE StopBegin
    <2>1. JobTypeOK'
      BY <1>1, <1>4 DEF JobInv, JobTypeOK, StopBegin
    <2>2. DrainInv'
      BY <1>1, <1>4 DEF JobInv, DrainInv, StopBegin
    <2> QED BY <1>2, <2>1, <2>2 DEF JobInv
  <1>5. CASE StopEnd
    <2>1. JobTypeOK'
      BY <1>1, <1>5 DEF JobInv, JobTypeOK, StopEnd
    <2>2. DrainInv'
      BY <1>1, <1>5 DEF JobInv, DrainInv, StopEnd, AllGone
    <2> QED BY <1>2, <2>1, <2>2 DEF JobInv
  <1>6. CASE RegisterSchedule \/ PassTime \/ CancelContext \/ LoopBegin("scheduler")
             \/ LoopBegin("caller") \/ LoopEnd \/ SchedulerExit
    <2>1. /\ UNCHANGED <<started, starts, main, closed, wk, panicked>>
          /\ sched' = sched \/ sched' = "off"
      BY <1>6 DEF RegisterSchedule, PassTime, CancelContext, LoopBegin, LoopEnd, SchedulerExit
    <2>2. /\ now' \in 0..MaxTime /\ nextRun' \in -1..(MaxTime + Every) /\ upTo' \in 0..MaxTime
          /\ schedStop' \in BOOLEAN /\ holder' \in {"none", "scheduler", "caller"}
      <3>1. /\ now \in 0..MaxTime /\ nextRun \in -1..(MaxTime + Every) /\ upTo \in 0..MaxTime
            /\ schedStop \in BOOLEAN /\ holder \in {"none", "scheduler", "caller"}
            /\ MaxTime \in Nat /\ Every \in Nat
        BY JobAssumption DEF JobInv, JobTypeOK
      <3>2. CASE RegisterSchedule \/ PassTime
        BY <3>1, <3>2 DEF RegisterSchedule, PassTime
      <3>3. CASE CancelContext \/ SchedulerExit \/ LoopEnd
        BY <3>1, <3>3 DEF CancelContext, SchedulerExit, LoopEnd
      <3>4. CASE LoopBegin("scheduler") \/ LoopBegin("caller")
        BY <3>1, <3>4 DEF LoopBegin
      <3> QED BY <1>6, <3>2, <3>3, <3>4
    <2>3. JobTypeOK'
      BY <1>1, <2>1, <2>2 DEF JobInv, JobTypeOK
    <2>4. DrainInv'
      BY <1>1, <2>1 DEF JobInv, DrainInv
    <2> QED BY <1>2, <2>3, <2>4 DEF JobInv
  <1> QED BY <1>3, <1>4, <1>5, <1>6

\* Enqueue takes a number.
LEMMA EnqueueBeginInv ==
  ASSUME JobInv, NEW c \in Callers, EnqueueBegin(c)
  PROVE  JobInv'
  <1> USE DEF client, clock, timer, pool, life
  <1>1. /\ UNCHANGED <<started, starts, schedStop, main, closed, queue, accepted, sched, holder, upTo,
                       now, nextRun, wk, job, runs, done, dead, panicked>>
        /\ seq < MaxJobs /\ seq' = seq + 1 /\ holding' = [holding EXCEPT ![c] = seq + 1]
    BY DEF EnqueueBegin
  <1>2. seq \in Nat /\ MaxJobs \in Nat /\ holding \in [Callers -> 0..MaxJobs] /\ accepted \subseteq Jobs
    BY JobAssumption DEF JobInv, JobTypeOK
  <1>3. JobTypeOK'
    BY <1>1, <1>2 DEF JobInv, JobTypeOK
  <1>4. \A d \in Callers : holding'[d] = IF d = c THEN seq + 1 ELSE holding[d]
    BY <1>1, <1>2
  <1>5. seq + 1 \notin accepted /\ \A d \in Callers : holding[d] <= seq /\ holding[d] \in Nat
    BY <1>2 DEF JobInv, PlacesInv, Jobs
  <1>6. PlacesInv'
    <2>1. \A j \in accepted' : j <= seq'
      BY <1>1, <1>2 DEF JobInv, PlacesInv, Jobs
    <2>2. \A d \in Callers : holding'[d] <= seq' /\ holding'[d] \notin accepted
      BY <1>1, <1>2, <1>4, <1>5 DEF JobInv, PlacesInv
    <2>3. \A d, e \in Callers : d # e /\ holding'[d] # 0 => holding'[d] # holding'[e]
      BY <1>2, <1>4, <1>5 DEF JobInv, PlacesInv
    <2> QED BY <1>1, <2>1, <2>2, <2>3 DEF JobInv, PlacesInv, Distinct
  <1>7. AcceptedAccounted' /\ RunsInv' /\ DeadAfterRetryLimit' /\ DrainInv'
    BY <1>1 DEF JobInv, AcceptedAccounted, InWork, RunsInv, DeadAfterRetryLimit, DrainInv
  <1> QED BY <1>3, <1>6, <1>7 DEF JobInv

\* A job that is neither accepted nor with a worker is sent.
LEMMA TrySendInv ==
  ASSUME JobInv, NEW j \in Jobs, j \notin accepted, TrySend(j),
         UNCHANGED <<started, main, closed, sched, wk, job, runs, done, dead>>,
         seq \in Nat, seq' \in Nat, seq <= seq', j <= seq',
         \A c \in Callers : holding'[c] <= seq' /\ holding'[c] \notin accepted \cup {j},
         \A c, d \in Callers : c # d /\ holding'[c] # 0 => holding'[c] # holding'[d]
  PROVE  /\ PlacesInv' /\ AcceptedAccounted' /\ RunsInv' /\ DeadAfterRetryLimit' /\ DrainInv'
         /\ queue' \in Seq(Jobs) /\ Len(queue') <= QueueSize /\ accepted' \subseteq Jobs
         /\ panicked' = closed
  <1>1. /\ queue \in Seq(Jobs) /\ Len(queue) <= QueueSize /\ Len(queue) \in Nat /\ Distinct(queue)
        /\ accepted \subseteq Jobs /\ \A k \in accepted : k <= seq
        /\ accepted = Range(queue) \cup InWork \cup done \cup dead
    BY DEF JobInv, JobTypeOK, PlacesInv, AcceptedAccounted
  <1>2. j \notin Range(queue) /\ j \notin done /\ j \notin dead /\ j # 0
        /\ \A w \in Workers : job[w] # j
    BY <1>1 DEF InWork, Jobs
  <1>3. CASE ~closed /\ Len(queue) < QueueSize
    <2>1. queue' = Append(queue, j) /\ accepted' = accepted \cup {j} /\ panicked' = closed
      BY <1>3 DEF TrySend
    <2>2. /\ queue' \in Seq(Jobs) /\ Distinct(queue') /\ Range(queue') = Range(queue) \cup {j}
          /\ Len(queue') = Len(queue) + 1
      BY <1>1, <1>2, <2>1, AppendDistinct
    <2>3. Len(queue') <= QueueSize /\ accepted' \subseteq Jobs
      BY <1>1, <1>3, <2>1, <2>2, JobAssumption
    <2>4. PlacesInv'
      <3>1. \A k \in accepted' : k <= seq'
        BY <1>1, <2>1 DEF Jobs
      <3>2. \A w \in Workers : job[w] \notin Range(queue') /\ job[w] \notin done /\ job[w] \notin dead
        BY <1>2, <2>2 DEF JobInv, PlacesInv
      <3>3. Range(queue') \cap done = {} /\ Range(queue') \cap dead = {} /\ done \cap dead = {}
        BY <1>2, <2>2 DEF JobInv, PlacesInv
      <3> QED BY <2>1, <2>2, <3>1, <3>2, <3>3 DEF JobInv, PlacesInv
    <2>5. AcceptedAccounted'
      <3>1. accepted' = Range(queue') \cup InWork' \cup done' \cup dead'
        BY <1>1, <2>1, <2>2 DEF InWork
      <3>2. Cardinality(accepted') = Cardinality(accepted) + 1
        BY <2>1, CountedFinite, FS_AddElement
      <3>3. Cardinality(accepted) = Len(queue) + Cardinality({w \in Workers : job[w] # 0})
                                      + Cardinality(done) + Cardinality(dead)
        BY DEF JobInv, AcceptedAccounted
      <3>4. Cardinality(accepted') = Len(queue') + Cardinality({w \in Workers : job[w] # 0})
                                      + Cardinality(done) + Cardinality(dead)
        BY <2>2, <3>2, <3>3, CountedFinite DEF InHand
      <3> QED BY <3>1, <3>4 DEF AcceptedAccounted
    <2>6. RunsInv' /\ DeadAfterRetryLimit'
      BY <2>1, <2>2 DEF JobInv, RunsInv, DeadAfterRetryLimit
    <2>7. DrainInv'
      BY <1>3 DEF JobInv, DrainInv
    <2> QED BY <2>1, <2>2, <2>3, <2>4, <2>5, <2>6, <2>7
  <1>4. CASE ~(~closed /\ Len(queue) < QueueSize)
    <2>1. queue' = queue /\ accepted' = accepted /\ panicked' = closed
      BY <1>4 DEF TrySend
    <2>2. PlacesInv'
      <3>1. \A k \in accepted' : k <= seq'
        BY <1>1, <2>1 DEF Jobs
      <3> QED BY <2>1, <3>1 DEF JobInv, PlacesInv, Distinct
    <2>3. AcceptedAccounted'
      BY <2>1 DEF JobInv, AcceptedAccounted, InWork
    <2>4. RunsInv' /\ DeadAfterRetryLimit' /\ DrainInv'
      BY <2>1 DEF JobInv, RunsInv, DeadAfterRetryLimit, DrainInv
    <2> QED BY <1>1, <2>1, <2>2, <2>3, <2>4
  <1> QED BY <1>3, <1>4

\* The send of Enqueue.
LEMMA EnqueueSendInv ==
  ASSUME JobInv, NEW c \in Callers, EnqueueSend(c)
  PROVE  JobInv'
  <1> USE DEF client, clock, timer, pool, life
  <1> DEFINE j == holding[c]
  <1>1. /\ UNCHANGED <<started, starts, schedStop, main, closed, seq, sched, holder, upTo,
                       now, nextRun, wk, job, runs, done, dead>>
        /\ j # 0 /\ TrySend(j) /\ holding' = [holding EXCEPT ![c] = 0]
    BY DEF EnqueueSend
  <1>2. seq \in Nat /\ MaxJobs \in Nat /\ holding \in [Callers -> 0..MaxJobs] /\ accepted \subseteq Jobs
    BY JobAssumption DEF JobInv, JobTypeOK
  <1>3. j \in Jobs /\ j \notin accepted /\ j <= seq
    BY <1>1, <1>2 DEF JobInv, PlacesInv, Jobs
  <1>4. \A d \in Callers : holding'[d] = IF d = c THEN 0 ELSE holding[d]
    BY <1>1, <1>2
  <1>5. \A d \in Callers : holding'[d] <= seq /\ holding'[d] \notin accepted \cup {j}
    BY <1>1, <1>2, <1>3, <1>4 DEF JobInv, PlacesInv, Jobs
  <1>6. \A d, e \in Callers : d # e /\ holding'[d] # 0 => holding'[d] # holding'[e]
    BY <1>4 DEF JobInv, PlacesInv
  <1> HIDE DEF j
  <1>7. /\ PlacesInv' /\ AcceptedAccounted' /\ RunsInv' /\ DeadAfterRetryLimit' /\ DrainInv'
        /\ queue' \in Seq(Jobs) /\ Len(queue') <= QueueSize /\ accepted' \subseteq Jobs
        /\ panicked' = closed
    BY <1>1, <1>2, <1>3, <1>5, <1>6, TrySendInv
  <1>8. JobTypeOK'
    BY <1>1, <1>2, <1>7 DEF JobInv, JobTypeOK
  <1> QED BY <1>7, <1>8 DEF JobInv

\* A run of the schedule.
LEMMA ScheduleRunInv ==
  ASSUME JobInv, ScheduleRun
  PROVE  JobInv'
  <1> USE DEF client, clock, timer, pool, life
  <1> DEFINE j == seq + 1
  <1>1. /\ UNCHANGED <<started, starts, schedStop, main, closed, holding, sched, holder, upTo,
                       now, wk, job, runs, done, dead>>
        /\ seq < MaxJobs /\ seq' = j /\ TrySend(j) /\ nextRun >= 0 /\ nextRun <= upTo
        /\ nextRun' = nextRun + Every
    BY DEF ScheduleRun, DueRun
  <1>2. seq \in Nat /\ MaxJobs \in Nat /\ holding \in [Callers -> 0..MaxJobs] /\ accepted \subseteq Jobs
    BY JobAssumption DEF JobInv, JobTypeOK
  <1>3. j \in Jobs /\ j \notin accepted /\ seq <= j /\ seq' \in 0..MaxJobs
    BY <1>1, <1>2 DEF JobInv, PlacesInv, Jobs
  <1>4. \A d \in Callers : holding'[d] <= seq' /\ holding'[d] \notin accepted \cup {j}
    BY <1>1, <1>2 DEF JobInv, PlacesInv, Jobs
  <1>5. \A d, e \in Callers : d # e /\ holding'[d] # 0 => holding'[d] # holding'[e]
    BY <1>1 DEF JobInv, PlacesInv
  <1>6. nextRun' \in -1..(MaxTime + Every)
    BY <1>1, JobAssumption DEF JobInv, JobTypeOK
  <1> HIDE DEF j
  <1>7. /\ PlacesInv' /\ AcceptedAccounted' /\ RunsInv' /\ DeadAfterRetryLimit' /\ DrainInv'
        /\ queue' \in Seq(Jobs) /\ Len(queue') <= QueueSize /\ accepted' \subseteq Jobs
        /\ panicked' = closed
    BY <1>1, <1>2, <1>3, <1>4, <1>5, TrySendInv DEF Jobs
  <1>8. JobTypeOK'
    BY <1>1, <1>3, <1>6, <1>7 DEF JobInv, JobTypeOK
  <1> QED BY <1>7, <1>8 DEF JobInv

\* A worker takes the oldest job.
LEMMA TakeInv ==
  ASSUME JobInv, NEW w \in Workers, Take(w)
  PROVE  JobInv'
  <1> USE DEF client, clock, timer, pool, life
  <1> DEFINE j == Head(queue)
  <1>1. /\ UNCHANGED <<started, starts, schedStop, main, closed, seq, holding, accepted, sched, holder,
                       upTo, now, nextRun, runs, done, dead, panicked>>
        /\ wk[w] = "idle" /\ queue # <<>> /\ queue' = Tail(queue)
        /\ job' = [job EXCEPT ![w] = j] /\ wk' = [wk EXCEPT ![w] = "run"]
    BY DEF Take
  <1>2. /\ queue \in Seq(Jobs) /\ Len(queue) <= QueueSize /\ Len(queue) \in Nat /\ Distinct(queue)
        /\ job \in [Workers -> 0..MaxJobs] /\ wk \in [Workers -> {"off", "idle", "run"}]
        /\ job[w] = 0
    BY <1>1 DEF JobInv, JobTypeOK, PlacesInv
  <1>3. /\ queue' \in Seq(Jobs) /\ Distinct(queue') /\ j \in Range(queue) /\ j \in Jobs
        /\ Range(queue') = Range(queue) \ {j} /\ Len(queue') = Len(queue) - 1
    BY <1>1, <1>2, TailDistinct
  <1> HIDE DEF j
  <1>4. \A v \in Workers : IF v = w THEN job'[v] = j /\ wk'[v] = "run"
                                    ELSE job'[v] = job[v] /\ wk'[v] = wk[v]
    BY <1>1, <1>2
  <1>5. j # 0 /\ \A v \in Workers : job[v] # j
    BY <1>3 DEF JobInv, PlacesInv, Jobs
  <1>6. JobTypeOK'
    <2>1. /\ job' \in [Workers -> 0..MaxJobs] /\ wk' \in [Workers -> {"off", "idle", "run"}]
          /\ Len(queue') <= QueueSize
      BY <1>1, <1>2, <1>3, JobAssumption DEF Jobs
    <2>2. \A v \in Workers : wk'[v] = "run" <=> job'[v] # 0
      BY <1>4, <1>5 DEF JobInv, JobTypeOK
    <2> QED BY <1>1, <1>3, <2>1, <2>2 DEF JobInv, JobTypeOK
  <1>7. PlacesInv'
    <2>1. \A u, v \in Workers : u # v /\ job'[u] # 0 => job'[u] # job'[v]
      BY <1>4, <1>5 DEF JobInv, PlacesInv
    <2>2. \A v \in Workers : job'[v] \notin Range(queue') /\ job'[v] \notin done /\ job'[v] \notin dead
      BY <1>3, <1>4 DEF JobInv, PlacesInv
    <2> QED BY <1>1, <1>3, <2>1, <2>2 DEF JobInv, PlacesInv
  <1>8. AcceptedAccounted'
    <2>1. InWork' = InWork \cup {j}
      BY <1>2, <1>4, <1>5 DEF InWork
    <2>2. accepted' = Range(queue') \cup InWork' \cup done' \cup dead'
      BY <1>1, <1>3, <2>1 DEF JobInv, AcceptedAccounted
    <2>3. {v \in Workers : job'[v] # 0} = InHand \cup {w} /\ w \notin InHand
      BY <1>2, <1>4, <1>5 DEF InHand
    <2>4. Cardinality({v \in Workers : job'[v] # 0}) = Cardinality(InHand) + 1
      BY <2>3, CountedFinite, FS_AddElement
    <2>5. Cardinality(accepted) = Len(queue) + Cardinality(InHand) + Cardinality(done) + Cardinality(dead)
      BY DEF JobInv, AcceptedAccounted, InHand
    <2>6. Cardinality(accepted') = Len(queue') + Cardinality({v \in Workers : job'[v] # 0})
                                    + Cardinality(done') + Cardinality(dead')
      BY <1>1, <1>3, <2>4, <2>5, CountedFinite
    <2> QED BY <2>2, <2>6 DEF AcceptedAccounted
  <1>9. RunsInv'
    <2>1. runs[j] = 0
      BY <1>3 DEF JobInv, RunsInv
    <2>2. \A v \in Workers : job'[v] # 0 => runs[job'[v]] <= RetryLimit
      BY <1>4, <2>1, JobAssumption DEF JobInv, RunsInv
    <2> QED BY <1>1, <1>3, <2>2 DEF JobInv, RunsInv
  <1>10. DeadAfterRetryLimit' /\ DrainInv'
    BY <1>1, <1>4 DEF JobInv, DeadAfterRetryLimit, DrainInv
  <1> QED BY <1>6, <1>7, <1>8, <1>9, <1>10 DEF JobInv

\* A worker finds the queue closed and empty.
LEMMA LeaveInv ==
  ASSUME JobInv, NEW w \in Workers, Leave(w)
  PROVE  JobInv'
  <1> USE DEF client, clock, timer, pool, life
  <1>1. /\ UNCHANGED <<started, starts, schedStop, main, closed, queue, seq, holding, accepted, sched,
                       holder, upTo, now, nextRun, job, runs, done, dead, panicked>>
        /\ wk[w] = "idle" /\ closed /\ queue = <<>> /\ wk' = [wk EXCEPT ![w] = "off"]
    BY DEF Leave
  <1>2. JobTypeOK'
    BY <1>1 DEF JobInv, JobTypeOK
  <1>3. DrainInv'
    BY <1>1 DEF JobInv, DrainInv
  <1> QED BY <1>1, <1>2, <1>3, NoJobMoves DEF JobInv

\* The processor fails and may be called again.
LEMMA RetryInv ==
  ASSUME JobInv, NEW w \in Workers, Retry(w)
  PROVE  JobInv'
  <1> USE DEF client, clock, timer, pool, life
  <1>1. /\ UNCHANGED <<started, starts, schedStop, main, closed, queue, seq, holding, accepted, sched,
                       holder, upTo, now, nextRun, wk, job, done, dead, panicked>>
        /\ wk[w] = "run" /\ runs' = [runs EXCEPT ![job[w]] = @ + 1] /\ ~(runs[job[w]] >= RetryLimit)
    BY DEF Retry, Process, Exhausted
  <1>2. /\ runs \in [Jobs -> Nat] /\ job[w] \in Jobs /\ job[w] # 0 /\ RetryLimit \in Nat
    BY <1>1, JobAssumption DEF JobInv, JobTypeOK, Jobs
  <1>3. runs' \in [Jobs -> Nat] /\ runs'[job[w]] <= RetryLimit
        /\ \A j \in Jobs : j # job[w] => runs'[j] = runs[j]
    BY <1>1, <1>2
  <1>4. JobTypeOK'
    BY <1>1, <1>3 DEF JobInv, JobTypeOK
  <1>5. PlacesInv' /\ AcceptedAccounted' /\ DrainInv'
    BY <1>1 DEF JobInv, PlacesInv, Distinct, AcceptedAccounted, InWork, DrainInv
  <1>6. /\ job[w] \notin Range(queue) /\ job[w] \in accepted /\ job[w] \notin dead
    BY <1>2 DEF JobInv, PlacesInv, AcceptedAccounted, InWork
  <1>7. RunsInv'
    <2>1. \A v \in Workers : job[v] # 0 => runs'[job[v]] <= RetryLimit
      <3> SUFFICES ASSUME NEW v \in Workers, job[v] # 0 PROVE runs'[job[v]] <= RetryLimit
        OBVIOUS
      <3>1. job[v] \in Jobs
        BY JobAssumption DEF JobInv, JobTypeOK, Jobs
      <3> QED BY <1>3, <3>1 DEF JobInv, RunsInv
    <2> QED BY <1>1, <1>3, <1>6, <2>1 DEF JobInv, RunsInv
  <1>8. DeadAfterRetryLimit'
    <2>1. \A j \in Jobs : runs'[j] <= RetryLimit + 1
      BY <1>2, <1>3 DEF JobInv, DeadAfterRetryLimit
    <2>2. \A j \in dead : runs'[j] = RetryLimit + 1
      BY <1>3, <1>6 DEF JobInv, JobTypeOK, DeadAfterRetryLimit
    <2> QED BY <1>1, <2>1, <2>2 DEF DeadAfterRetryLimit
  <1> QED BY <1>4, <1>5, <1>7, <1>8 DEF JobInv

\* A worker is done with its job: it succeeded, or failed for the last time.
LEMMA FinishInv ==
  ASSUME JobInv, NEW w \in Workers, Succeed(w) \/ Bury(w)
  PROVE  JobInv'
  <1> USE DEF client, clock, timer, pool, life
  <1> DEFINE j == job[w]
  <1>1. /\ UNCHANGED <<started, starts, schedStop, main, closed, queue, seq, holding, accepted, sched,
                       holder, upTo, now, nextRun, panicked>>
        /\ wk[w] = "run" /\ runs' = [runs EXCEPT ![j] = @ + 1]
        /\ wk' = [wk EXCEPT ![w] = "idle"] /\ job' = [job EXCEPT ![w] = 0]
    BY DEF Succeed, Bury, Process, Free
  <1>2. \/ done' = done \cup {j} /\ dead' = dead
        \/ done' = done /\ dead' = dead \cup {j} /\ runs[j] >= RetryLimit
    BY DEF Succeed, Bury, Exhausted
  <1>3. /\ runs \in [Jobs -> Nat] /\ j \in Jobs /\ j # 0 /\ RetryLimit \in Nat /\ j = job[w]
        /\ job \in [Workers -> 0..MaxJobs] /\ wk \in [Workers -> {"off", "idle", "run"}]
    BY <1>1, JobAssumption DEF JobInv, JobTypeOK, Jobs
  <1>4. /\ j \notin Range(queue) /\ j \in accepted /\ j \notin dead /\ j \notin done
        /\ runs[j] <= RetryLimit
    BY <1>3 DEF JobInv, PlacesInv, AcceptedAccounted, InWork, RunsInv
  <1> HIDE DEF j
  <1>5. /\ job'[w] = 0 /\ wk'[w] = "idle"
        /\ \A v \in Workers : v # w => job'[v] = job[v] /\ wk'[v] = wk[v] /\ job[v] # j
    BY <1>1, <1>3 DEF JobInv, PlacesInv
  <1>6. runs' \in [Jobs -> Nat] /\ runs'[j] = runs[j] + 1
        /\ \A k \in Jobs : k # j => runs'[k] = runs[k]
    BY <1>1, <1>3
  <1>7. JobTypeOK'
    <2>1. /\ job' \in [Workers -> 0..MaxJobs] /\ wk' \in [Workers -> {"off", "idle", "run"}]
      BY <1>1, <1>3, JobAssumption
    <2>2. \A v \in Workers : wk'[v] = "run" <=> job'[v] # 0
      BY <1>5 DEF JobInv, JobTypeOK
    <2>3. done' \subseteq Jobs /\ dead' \subseteq Jobs
      BY <1>2, <1>3 DEF JobInv, JobTypeOK
    <2> QED BY <1>1, <1>6, <2>1, <2>2, <2>3 DEF JobInv, JobTypeOK
  <1>8. PlacesInv'
    <2>1. \A u, v \in Workers : u # v /\ job'[u] # 0 => job'[u] # job'[v]
      BY <1>5 DEF JobInv, PlacesInv
    <2>2. 0 \notin Range(queue) /\ 0 \notin done' /\ 0 \notin dead'
      BY <1>1, <1>4, <1>7 DEF JobTypeOK, JobInv, AcceptedAccounted, Jobs
    <2>3. \A v \in Workers : job'[v] \notin Range(queue) /\ job'[v] \notin done' /\ job'[v] \notin dead'
      BY <1>2, <1>5, <2>2 DEF JobInv, PlacesInv
    <2>4. Range(queue) \cap done' = {} /\ Range(queue) \cap dead' = {} /\ done' \cap dead' = {}
      BY <1>2, <1>4 DEF JobInv, PlacesInv
    <2> QED BY <1>1, <2>1, <2>3, <2>4 DEF JobInv, PlacesInv, Distinct
  <1>9. AcceptedAccounted'
    <2>1. InWork' = InWork \ {j}
      BY <1>3, <1>5 DEF InWork
    <2>2. accepted' = Range(queue') \cup InWork' \cup done' \cup dead'
      BY <1>1, <1>2, <1>4, <2>1 DEF JobInv, AcceptedAccounted
    <2>3. {v \in Workers : job'[v] # 0} = InHand \ {w} /\ w \in InHand
      BY <1>3, <1>5 DEF InHand
    <2>4. Cardinality({v \in Workers : job'[v] # 0}) = Cardinality(InHand) - 1
      BY <2>3, CountedFinite, FS_RemoveElement
    <2>5. Cardinality(done') + Cardinality(dead') = Cardinality(done) + Cardinality(dead) + 1
      <3>1. Cardinality(done \cup {j}) = Cardinality(done) + 1
        BY <1>4, CountedFinite, FS_AddElement
      <3>2. Cardinality(dead \cup {j}) = Cardinality(dead) + 1
        BY <1>4, CountedFinite, FS_AddElement
      <3>3. Cardinality(done) \in Nat /\ Cardinality(dead) \in Nat
        BY CountedFinite
      <3>4. CASE done' = done \cup {j} /\ dead' = dead
        <4>1. Cardinality(done') = Cardinality(done) + 1 /\ Cardinality(dead') = Cardinality(dead)
          BY <3>1, <3>4, Zenon
        <4> QED BY <3>3, <4>1
      <3>5. CASE done' = done /\ dead' = dead \cup {j}
        <4>1. Cardinality(done') = Cardinality(done) /\ Cardinality(dead') = Cardinality(dead) + 1
          BY <3>2, <3>5, Zenon
        <4> QED BY <3>3, <4>1
      <3> QED BY <1>2, <3>4, <3>5
    <2>6. Cardinality(accepted) = Len(queue) + Cardinality(InHand) + Cardinality(done) + Cardinality(dead)
      BY DEF JobInv, AcceptedAccounted, InHand
    <2>7. Cardinality(done') \in Nat /\ Cardinality(dead') \in Nat
      BY <1>2, CountedFinite, FS_AddElement, FS_CardinalityType
    <2>8. Cardinality(accepted') = Len(queue') + Cardinality({v \in Workers : job'[v] # 0})
                                    + Cardinality(done') + Cardinality(dead')
      BY <1>1, <2>4, <2>5, <2>6, <2>7, CountedFinite, SMTT(30)
    <2> QED BY <2>2, <2>8 DEF AcceptedAccounted
  <1>10. RunsInv'
    <2>1. \A v \in Workers : job'[v] # 0 => runs'[job'[v]] <= RetryLimit
      <3> SUFFICES ASSUME NEW v \in Workers, job'[v] # 0 PROVE runs'[job'[v]] <= RetryLimit
        OBVIOUS
      <3>1. job'[v] = job[v] /\ job[v] # j
        BY <1>5
      <3>2. job[v] \in Jobs
        BY <3>1, JobAssumption DEF JobInv, JobTypeOK, Jobs
      <3> QED BY <1>6, <3>1, <3>2 DEF JobInv, RunsInv
    <2> QED BY <1>1, <1>4, <1>6, <2>1 DEF JobInv, RunsInv
  <1>11. DeadAfterRetryLimit'
    <2>1. runs'[j] <= RetryLimit + 1 /\ (j \in dead' => runs'[j] = RetryLimit + 1)
      BY <1>2, <1>3, <1>4, <1>6
    <2>2. dead' \subseteq dead \cup {j} /\ dead \subseteq Jobs
      BY <1>2 DEF JobInv, JobTypeOK
    <2> QED BY <1>6, <2>1, <2>2 DEF JobInv, DeadAfterRetryLimit
  <1>12. DrainInv'
    BY <1>1, <1>5 DEF JobInv, DrainInv
  <1> QED BY <1>7, <1>8, <1>9, <1>10, <1>11, <1>12 DEF JobInv

\* The job worker's invariant holds in every reachable state.
THEOREM JobInvariance == JobSpec => []JobInv
  <1>1. JobInv /\ [JobNext]_jobVars => JobInv'
    <2> SUFFICES ASSUME JobInv, [JobNext]_jobVars PROVE JobInv'
      OBVIOUS
    <2>1. CASE UNCHANGED jobVars
      <3>1. /\ UNCHANGED <<started, starts, schedStop, main, closed, queue, seq, holding, accepted>>
            /\ UNCHANGED <<sched, holder, upTo, now, nextRun, wk, job, runs, done, dead, panicked>>
        BY <2>1 DEF jobVars, client, clock, timer, pool, life
      <3>2. JobTypeOK' /\ DrainInv'
        BY <3>1 DEF JobInv, JobTypeOK, DrainInv
      <3> QED BY <3>1, <3>2, NoJobMoves DEF JobInv
    <2>2. CASE JobNext
      BY <2>2, LifeInv, EnqueueBeginInv, EnqueueSendInv, ScheduleRunInv, TakeInv, LeaveInv, RetryInv,
         FinishInv
      DEF JobNext, Schedule, Work
    <2> QED BY <2>1, <2>2
  <1> QED BY <1>1, JobInitInv, PTL DEF JobSpec

\* Every accepted job is in exactly one place (Enqueue, runScheduledLocked, workerLoop).
THEOREM NoJobLostOrDoubled == JobSpec => []AcceptedAccounted
  <1>1. JobInv => AcceptedAccounted
    BY DEF JobInv
  <1> QED BY <1>1, JobInvariance, PTL

\* The processor is called at most RetryLimit + 1 times, and exactly that often for a
\* job in the dead queue (processWithRetry).
THEOREM GivenUpAfterRetryLimit == JobSpec => []DeadAfterRetryLimit
  <1>1. JobInv => DeadAfterRetryLimit
    BY DEF JobInv
  <1> QED BY <1>1, JobInvariance, PTL

\* After Stop has returned nothing is queued and nobody works (Stop, workerLoop).
THEOREM StopLeavesNothing == JobSpec => []StopDrains
  <1>1. JobInv => StopDrains
    <2> SUFFICES ASSUME JobInv, closed, main = "free", ~started
                 PROVE  accepted = done \cup dead /\ sched = "off" /\ \A w \in Workers : wk[w] = "off"
      BY DEF StopDrains
    <2>1. sched = "off" /\ \A w \in Workers : wk[w] = "off" /\ job[w] = 0
      BY DEF JobInv, JobTypeOK, DrainInv
    <2>2. queue = <<>>
      BY <2>1, JobAssumption DEF JobInv, DrainInv
    <2>3. Range(queue) = {} /\ InWork = {}
      BY <2>1, <2>2 DEF Range, InWork
    <2> QED BY <2>1, <2>3 DEF JobInv, AcceptedAccounted
  <1> QED BY <1>1, JobInvariance, PTL
=============================================================================
