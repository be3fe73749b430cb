------------------------------ MODULE JobWorker ------------------------------
(***************************************************************************)
(* jobworker.Service: callers of Enqueue, one scheduler, a pool of workers *)
(* and a goroutine that calls Start and Stop share a bounded channel and   *)
(* the mutex s.mu.  Sections under the mutex that do not block are atomic; *)
(* runScheduledLocked keeps it over its whole loop.  A send on a closed    *)
(* channel panics, and a panic ends the program.                           *)
(*                                                                         *)
(* One schedule id is modelled: schedules share only the channel and seq.  *)
(***************************************************************************)
EXTENDS Integers, Sequences, FiniteSets, SequencesExt

CONSTANTS
  Callers,     \* goroutines that call Enqueue
  Workers,     \* the worker pool
  QueueSize,   \* cfg.QueueSize
  RetryLimit,  \* cfg.RetryLimit
  Every,       \* the schedule's interval
  MaxJobs,     \* bound on s.seq
  MaxTime,     \* bound on the clock
  MaxStarts    \* bound on calls of Start

\* New replaces sizes that are not positive.
ASSUME JobAssumption ==
  /\ IsFiniteSet(Workers) /\ Workers # {}
  /\ QueueSize \in Nat \ {0}
  /\ RetryLimit \in Nat
  /\ Every \in Nat \ {0}
  /\ MaxJobs \in Nat /\ MaxTime \in Nat /\ MaxStarts \in Nat

VARIABLES
  started,   \* s.started
  starts,    \* how often Start took effect
  closed,    \* s.queue is closed
  queue,     \* the jobs in s.queue
  seq,       \* s.seq; job n is the one numbered n
  holding,   \* holding[c]: the job c is about to send, 0 if none
  sched,     \* the scheduler goroutine: "off", "wait"
  schedStop, \* the current s.schedulerStop, or the context of Start, is done
  holder,    \* who runs runScheduledLocked: "none", "scheduler", "caller"
  upTo,      \* the time that loop was called with
  now,       \* the clock
  nextRun,   \* the schedule's nextRun, -1 until it is registered
  wk,        \* wk[w]: "off", "idle", "run"
  job,       \* job[w]: the job w processes, 0 if none
  runs,      \* runs[j]: how often the processor was called for job j
  accepted,  \* jobs whose Enqueue succeeded or that the scheduler queued
  done,      \* jobs the processor finished
  dead,      \* s.deadQueue
  main,      \* the goroutine of Start and Stop: "free", "stopping"
  panicked   \* a goroutine panicked

client == <<holding, accepted>>
clock  == <<now, nextRun>>
timer  == <<sched, holder, upTo>>
pool   == <<wk, job, runs, done, dead>>
life   == <<started, starts, schedStop, main>>
jobVars == <<life, closed, queue, seq, client, timer, clock, pool, panicked>>

Jobs == 1..MaxJobs

JobInit ==
  /\ started = FALSE /\ starts = 0
  /\ closed = FALSE /\ queue = <<>> /\ seq = 0
  /\ holding = [c \in Callers |-> 0]
  /\ sched = "off" /\ schedStop = FALSE
  /\ holder = "none" /\ upTo = 0
  /\ now = 0 /\ nextRun = -1
  /\ wk = [w \in Workers |-> "off"] /\ job = [w \in Workers |-> 0]
  /\ runs = [j \in Jobs |-> 0]
  /\ accepted = {} /\ done = {} /\ dead = {}
  /\ main = "free"
  /\ panicked = FALSE
-----------------------------------------------------------------------------
\* s.mu is not held by runScheduledLocked.
MuFree == holder = "none"

\* A non-blocking send of job j: a panic, an accepted job, or a full queue.
TrySend(j) ==
  /\ panicked' = closed
  /\ IF ~closed /\ Len(queue) < QueueSize
     THEN queue' = Append(queue, j) /\ accepted' = accepted \cup {j}
     ELSE UNCHANGED <<queue, accepted>>

\* Start: takes effect once; the goroutines begin.
Start ==
  /\ MuFree /\ ~started /\ main = "free" /\ starts < MaxStarts
  /\ started' = TRUE /\ starts' = starts + 1
  /\ schedStop' = FALSE
  /\ sched' = "wait"
  /\ wk' = [w \in Workers |-> "idle"]
  /\ UNCHANGED <<closed, queue, seq, client, holder, upTo, clock, job, runs, done, dead, main,
                 panicked>>

\* Mutant of StopBegin: the queue is left open.
StopBeginOpen ==
  /\ MuFree /\ started /\ main = "free"
  /\ started' = FALSE
  /\ schedStop' = TRUE
  /\ main' = "stopping"
  /\ UNCHANGED <<starts, closed, queue, seq, client, timer, clock, pool, panicked>>

\* Stop under the mutex: both channels are closed.  Closing twice panics.
StopBegin ==
  /\ MuFree /\ started /\ main = "free"
  /\ started' = FALSE
  /\ schedStop' = TRUE
  /\ closed' = TRUE
  /\ panicked' = closed
  /\ main' = "stopping"
  /\ UNCHANGED <<starts, queue, seq, client, timer, clock, pool>>

\* Mutant of AllGone: Stop waits for the scheduler only.
AllGoneEarly == sched = "off"

\* schedulerWG and workersWG are at zero.
AllGone == sched = "off" /\ \A w \in Workers : wk[w] = "off"

\* Stop returns.
StopEnd ==
  /\ main = "stopping" /\ AllGone
  /\ main' = "free"
  /\ UNCHANGED <<started, starts, schedStop, closed, queue, seq, client, timer, clock,
                 pool, panicked>>

\* Enqueue under the mutex: the job gets its number.
EnqueueBegin(c) ==
  /\ MuFree /\ started /\ holding[c] = 0 /\ seq < MaxJobs
  /\ seq' = seq + 1
  /\ holding' = [holding EXCEPT ![c] = seq + 1]
  /\ UNCHANGED <<life, closed, queue, accepted, timer, clock, pool, panicked>>

\* The send, after the mutex is released.
EnqueueSend(c) ==
  /\ holding[c] # 0
  /\ TrySend(holding[c])
  /\ holding' = [holding EXCEPT ![c] = 0]
  /\ UNCHANGED <<life, closed, seq, timer, clock, pool>>

\* RegisterSchedule adds the schedule or replaces it.
RegisterSchedule ==
  /\ MuFree /\ nextRun # now + Every
  /\ nextRun' = now + Every
  /\ UNCHANGED <<life, closed, queue, seq, client, timer, now, pool, panicked>>

PassTime ==
  /\ now < MaxTime
  /\ now' = now + 1
  /\ UNCHANGED <<life, closed, queue, seq, client, timer, nextRun, pool, panicked>>

\* The schedule is due at the time the loop was called with.
DueRun(t) == nextRun >= 0 /\ nextRun <= t

\* The ticker fires, or somebody calls RunScheduled, with something to do.
LoopBegin(who) ==
  /\ MuFree /\ started /\ DueRun(now) /\ seq < MaxJobs
  /\ who = "scheduler" => sched = "wait"
  /\ holder' = who /\ upTo' = now
  /\ UNCHANGED <<life, closed, queue, seq, client, sched, clock, pool, panicked>>

\* One run of the schedule; a run that finds the queue full is dropped.
ScheduleRun ==
  /\ holder # "none" /\ DueRun(upTo) /\ seq < MaxJobs
  /\ seq' = seq + 1
  /\ TrySend(seq + 1)
  /\ nextRun' = nextRun + Every
  /\ UNCHANGED <<life, closed, holding, timer, now, pool>>

\* All runs that were due are made up for.
LoopEnd ==
  /\ holder # "none" /\ (~DueRun(upTo) \/ seq = MaxJobs)
  /\ holder' = "none"
  /\ UNCHANGED <<life, closed, queue, seq, client, sched, upTo, clock, pool, panicked>>

\* The context given to Start is cancelled: only the scheduler looks at it.
CancelContext ==
  /\ started /\ ~schedStop
  /\ schedStop' = TRUE
  /\ UNCHANGED <<started, starts, main, closed, queue, seq, client, timer, clock, pool, panicked>>

\* schedulerLoop returns.
SchedulerExit ==
  /\ sched = "wait" /\ schedStop /\ holder # "scheduler"
  /\ sched' = "off"
  /\ UNCHANGED <<life, closed, queue, seq, client, holder, upTo, clock, pool, panicked>>

\* range s.queue yields a job.
Take(w) ==
  /\ wk[w] = "idle" /\ queue # <<>>
  /\ job' = [job EXCEPT ![w] = Head(queue)]
  /\ queue' = Tail(queue)
  /\ wk' = [wk EXCEPT ![w] = "run"]
  /\ UNCHANGED <<life, closed, seq, client, timer, clock, runs, done, dead, panicked>>

\* range s.queue ends: the channel is closed and empty.
Leave(w) ==
  /\ wk[w] = "idle" /\ closed /\ queue = <<>>
  /\ wk' = [wk EXCEPT ![w] = "off"]
  /\ UNCHANGED <<life, closed, queue, seq, client, timer, clock, job, runs, done, dead, panicked>>

\* A call of the processor by w.
Process(w) ==
  /\ wk[w] = "run"
  /\ runs' = [runs EXCEPT ![job[w]] = @ + 1]
  /\ UNCHANGED <<life, closed, queue, seq, client, timer, clock, panicked>>

\* w is done with its job.
Free(w) ==
  /\ wk' = [wk EXCEPT ![w] = "idle"]
  /\ job' = [job EXCEPT ![w] = 0]

Succeed(w) ==
  /\ Process(w) /\ Free(w)
  /\ done' = done \cup {job[w]}
  /\ UNCHANGED dead

\* Mutant of Exhausted: job.Attempts > RetryLimit.
ExhaustedLate(w) == runs[job[w]] > RetryLimit

\* job.Attempts >= RetryLimit, when Attempts retries went before this call.
Exhausted(w) == runs[job[w]] >= RetryLimit

Retry(w) ==
  /\ Process(w) /\ ~Exhausted(w)
  /\ UNCHANGED <<wk, job, done, dead>>

\* Mutant of Bury: the job is dropped instead of kept.
BuryNothing(w) ==
  /\ Process(w) /\ Exhausted(w) /\ Free(w)
  /\ UNCHANGED <<done, dead>>

\* The job joins the dead queue, under the mutex.
Bury(w) ==
  /\ Process(w) /\ Exhausted(w) /\ MuFree /\ Free(w)
  /\ dead' = dead \cup {job[w]}
  /\ UNCHANGED done

Work(w) == Take(w) \/ Leave(w) \/ Succeed(w) \/ Retry(w) \/ Bury(w)

Schedule == LoopBegin("scheduler") \/ ScheduleRun \/ LoopEnd \/ SchedulerExit

\* A panic ends the program.
JobNext ==
  /\ ~panicked
  /\ \/ Start \/ StopBegin \/ StopEnd
     \/ \E c \in Callers : EnqueueBegin(c) \/ EnqueueSend(c)
     \/ RegisterSchedule \/ PassTime \/ CancelContext
     \/ Schedule \/ LoopBegin("caller")
     \/ \E w \in Workers : Work(w)

\* Goroutines that can run do run, and the processor returns.  That the owner
\* calls Start or Stop, or that anybody calls Enqueue, is not assumed.
JobFairness ==
  /\ \A w \in Workers : WF_jobVars(~panicked /\ Work(w))
  /\ WF_jobVars(~panicked /\ Schedule)
  /\ WF_jobVars(~panicked /\ StopEnd)

JobSpec == JobInit /\ [][JobNext]_jobVars

FairJobSpec == JobSpec /\ JobFairness
-----------------------------------------------------------------------------
JobTypeOK ==
  /\ started \in BOOLEAN /\ closed \in BOOLEAN /\ schedStop \in BOOLEAN /\ panicked \in BOOLEAN
  /\ starts \in 0..MaxStarts
  /\ queue \in Seq(Jobs) /\ Len(queue) <= QueueSize
  /\ seq \in 0..MaxJobs
  /\ holding \in [Callers -> 0..MaxJobs]
  /\ sched \in {"off", "wait"}
  /\ holder \in {"none", "scheduler", "caller"} /\ upTo \in 0..MaxTime
  /\ now \in 0..MaxTime /\ nextRun \in -1..(MaxTime + Every)
  /\ wk \in [Workers -> {"off", "idle", "run"}]
  /\ job \in [Workers -> 0..MaxJobs]
  /\ \A w \in Workers : wk[w] = "run" <=> job[w] # 0
  /\ runs \in [Jobs -> Nat]
  /\ accepted \subseteq Jobs /\ done \subseteq Jobs /\ dead \subseteq Jobs
  /\ main \in {"free", "stopping"}

InWork == {job[w] : w \in Workers} \ {0}

\* No accepted job is lost or done twice: it is in the queue, with one worker,
\* finished or dead, and in one of these places only.
AcceptedAccounted ==
  /\ accepted = Range(queue) \cup InWork \cup done \cup dead
  /\ Cardinality(accepted) =
       Len(queue) + Cardinality({w \in Workers : job[w] # 0})
         + Cardinality(done) + Cardinality(dead)

\* A job is given up after exactly RetryLimit retries, and never tried more often.
DeadAfterRetryLimit ==
  /\ \A j \in Jobs : runs[j] <= RetryLimit + 1
  /\ \A j \in dead : runs[j] = RetryLimit + 1

\* When Stop has returned, every job that was accepted is finished or dead, and
\* no worker or scheduler is left.
StopDrains ==
  closed /\ main = "free" /\ ~started =>
    accepted = done \cup dead /\ sched = "off" /\ \A w \in Workers : wk[w] = "off"

\* Stop returns, however many jobs are queued and however often they fail.
StopReturns ==
  main = "stopping" ~> (main = "free" \/ panicked)

\* "Start/stop lifecycle for clean shutdown"
\* (docs/projects/in-process-job-worker.md): stopping never panics.
NoPanic == ~panicked
=============================================================================
