----------------------------- MODULE AppProcess -----------------------------
(***************************************************************************)
(* The life of the app's processes on one database: cmd/app's run, which   *)
(* opens the database and migrates it under an advisory lock, serves, and  *)
(* after a signal shuts the server down, stops the collector and closes    *)
(* the stores, in the order its deferred calls run.                        *)
(*                                                                         *)
(* The lock belongs to a database session.  Only runMigrations uses the    *)
(* pool while it runs, so its statements share a session until that one    *)
(* breaks; the pool then opens another, which does not hold the lock.      *)
(***************************************************************************)
EXTENDS Integers, FiniteSets

CONSTANTS
  Procs,        \* processes of cmd/app
  Files,        \* how many migration files there are
  MaxLaunches,  \* bound on starts
  MaxFaults,    \* bound on crashes and broken sessions
  None,         \* nobody
  Orphan        \* a session whose client is gone and that PostgreSQL still keeps

ASSUME ProcessAssumption ==
  /\ Files \in Nat /\ MaxLaunches \in Nat /\ MaxFaults \in Nat
  /\ None \notin Procs /\ Orphan \notin Procs /\ None # Orphan

VARIABLES
  phase,     \* where run is
  file,      \* file[p]: the migration file p is at
  ddl,       \* ddl[p]: "idle", or whether p's running file found its tables missing
  startErr,  \* startErr[p]: why runMigrations of p failed
  harsh,     \* p left Shutdown, or its server, with requests perhaps unfinished
  lock,      \* who holds the advisory lock
  applied,   \* the files whose tables exist
  launches,  \* starts so far
  broken,    \* sessions that broke under a process that went on
  crashes    \* processes that were killed

db == <<lock, applied>>
run == <<phase, file, ddl, startErr, harsh>>
tally == <<launches, broken, crashes>>
procVars == <<db, run, tally>>

Phases == {"down", "lock", "migrate", "unlock", "serve", "drain", "stop", "exit"}

ProcInit ==
  /\ phase = [p \in Procs |-> "down"] /\ file = [p \in Procs |-> 1]
  /\ ddl = [p \in Procs |-> "idle"] /\ startErr = [p \in Procs |-> "none"]
  /\ harsh = [p \in Procs |-> FALSE]
  /\ lock = None /\ applied = {}
  /\ launches = 0 /\ broken = 0 /\ crashes = 0

\* The database handle of p is open for its handlers.
DbOpen(p) == phase[p] \in {"serve", "drain", "stop"}

\* p goes from one phase to another and nothing else happens.
Go(p, from, to) ==
  /\ phase[p] = from
  /\ phase' = [phase EXCEPT ![p] = to]
  /\ UNCHANGED <<file, ddl, startErr, harsh, db, tally>>
-----------------------------------------------------------------------------
\* The operator starts the program.
Launch(p) ==
  /\ phase[p] = "down" /\ launches < MaxLaunches
  /\ launches' = launches + 1
  /\ phase' = [phase EXCEPT ![p] = "lock"]
  /\ file' = [file EXCEPT ![p] = 1]
  /\ startErr' = [startErr EXCEPT ![p] = "none"]
  /\ harsh' = [harsh EXCEPT ![p] = FALSE]
  /\ UNCHANGED <<ddl, db, broken, crashes>>

\* sql.Open, the ping or the lock statement fails: run returns the error.
OpenFails(p) == Go(p, "lock", "down")

\* Mutant of LockFree: pg_try_advisory_lock, its result not looked at.
LockFreeAlways == TRUE

\* Nobody's session holds the advisory lock.
LockFree == lock = None

\* SELECT pg_advisory_lock waits, without a timeout, until the lock is free.
Lock(p) ==
  /\ phase[p] = "lock" /\ LockFree
  /\ lock' = p
  /\ phase' = [phase EXCEPT ![p] = "migrate"]
  /\ UNCHANGED <<applied, file, ddl, startErr, harsh, tally>>

\* A file starts: its IF NOT EXISTS tests look at what is committed.
BeginFile(p) ==
  /\ phase[p] = "migrate" /\ file[p] <= Files /\ ddl[p] = "idle"
  /\ ddl' = [ddl EXCEPT ![p] = IF file[p] \in applied THEN "present" ELSE "missing"]
  /\ UNCHANGED <<phase, file, startErr, harsh, db, tally>>

\* Another session has created what p's file found missing: a duplicate key in
\* the catalog fails the file.
Duplicate(p) == ddl[p] = "missing" /\ file[p] \in applied

\* The file is one implicit transaction: all of it commits.
EndFile(p) ==
  /\ ddl[p] # "idle" /\ ~Duplicate(p)
  /\ applied' = applied \cup {file[p]}
  /\ file' = [file EXCEPT ![p] = @ + 1]
  /\ ddl' = [ddl EXCEPT ![p] = "idle"]
  /\ UNCHANGED <<phase, startErr, harsh, lock, tally>>

\* runMigrations returns an error; its deferred unlock is next.
Abandon(p, err) ==
  /\ phase' = [phase EXCEPT ![p] = "unlock"]
  /\ ddl' = [ddl EXCEPT ![p] = "idle"]
  /\ startErr' = [startErr EXCEPT ![p] = err]
  /\ UNCHANGED <<file, harsh>>

FileRefused(p) ==
  /\ Duplicate(p)
  /\ Abandon(p, "duplicate")
  /\ UNCHANGED <<db, tally>>

\* The file cannot be read, or its statement fails and is rolled back.
FileFails(p) ==
  /\ ddl[p] # "idle"
  /\ Abandon(p, "error")
  /\ UNCHANGED <<db, tally>>

\* The session with the lock breaks.  Between two files the pool opens another
\* one unnoticed; a file that is running fails, whether or not it took effect.
BreakSession(p) ==
  /\ lock = p /\ broken + crashes < MaxFaults
  /\ lock' = Orphan
  /\ broken' = broken + 1
  /\ applied' \in IF ddl[p] = "idle" THEN {applied} ELSE {applied, applied \cup {file[p]}}
  /\ IF ddl[p] = "idle" THEN UNCHANGED run ELSE Abandon(p, "error")
  /\ UNCHANGED <<launches, crashes>>

\* PostgreSQL ends the session of a client that is gone, and its lock with it.
ReapSession ==
  /\ lock = Orphan
  /\ lock' = None
  /\ UNCHANGED <<applied, run, tally>>

FilesDone(p) == file[p] > Files /\ Go(p, "migrate", "unlock")

\* Mutant of Release: the unlock is left out and the pool keeps the session.
ReleaseForgotten(p) == lock

\* pg_advisory_unlock does nothing on a session that does not hold the lock.
Release(p) == IF lock = p THEN None ELSE lock

\* NewPostgresTaskRepository got no error from runMigrations.
Started(p) == startErr[p] = "none"

\* The deferred unlock, whose error is dropped; then run serves, or closes the
\* database and returns the error.
Unlock(p) ==
  /\ phase[p] = "unlock"
  /\ lock' = Release(p)
  /\ phase' = [phase EXCEPT ![p] = IF Started(p) THEN "serve" ELSE "down"]
  /\ UNCHANGED <<applied, file, ddl, startErr, harsh, tally>>
-----------------------------------------------------------------------------
\* SIGINT or SIGTERM: Shutdown closes the listener.
Signal(p) == Go(p, "serve", "drain")

\* run goes on to its deferred calls although handlers may be running.
LeaveHarshly(p, from) ==
  /\ phase[p] = from
  /\ phase' = [phase EXCEPT ![p] = "stop"]
  /\ harsh' = [harsh EXCEPT ![p] = TRUE]
  /\ UNCHANGED <<file, ddl, startErr, db, tally>>

\* ListenAndServe returns an error other than ErrServerClosed.
ServerFails(p) == LeaveHarshly(p, "serve")

\* Mutant of Drained: run does not wait for Shutdown to return.
DrainedAtOnce(p, busy) == TRUE

\* No request of p is in flight.
Drained(p, busy) == busy = {}

\* Shutdown returns nil, then ListenAndServe has returned ErrServerClosed.
DrainDone(p, busy) == Drained(p, busy) /\ Go(p, "drain", "stop")

\* shutdownTimeout passes first: it is shorter than requestTimeout.
DrainTimeout(p, busy) == busy # {} /\ LeaveHarshly(p, "drain")

\* The deferred calls, last one first: collector.Stop returns (it waits for its
\* workers 3 s at most; the last Flush then has no deadline of its own, but the
\* calls of the store end), then the metrics store and the database are closed.
CloseStores(p) == Go(p, "stop", "exit")

\* run returns and main ends, and every goroutine with it.
Exit(p) == Go(p, "exit", "down")

\* The process is killed in any phase.
Crash(p) ==
  /\ phase[p] # "down" /\ broken + crashes < MaxFaults
  /\ phase' = [phase EXCEPT ![p] = "down"]
  /\ ddl' = [ddl EXCEPT ![p] = "idle"]
  /\ lock' = IF lock = p THEN Orphan ELSE lock
  /\ applied' \in IF ddl[p] = "idle" THEN {applied} ELSE {applied, applied \cup {file[p]}}
  /\ crashes' = crashes + 1
  /\ UNCHANGED <<file, startErr, harsh, launches, broken>>

\* What p does on its own until it serves.
StartUp(p) ==
  \/ Lock(p)
  \/ BeginFile(p) \/ EndFile(p) \/ FileRefused(p) \/ FilesDone(p)
  \/ Unlock(p)

\* What p does on its own between a signal and its end.
ShutDown(p, busy) ==
  \/ DrainDone(p, busy) \/ DrainTimeout(p, busy)
  \/ CloseStores(p)

\* What the operator and the machines do to p.
Environment(p) ==
  \/ Launch(p) \/ Signal(p)
  \/ OpenFails(p) \/ FileFails(p) \/ ServerFails(p) \/ BreakSession(p)
-----------------------------------------------------------------------------
\* A process serves on a complete schema, files take effect in their order, and
\* no start fails on tables that another process creates at the same time, unless
\* a session broke and its process went on without the lock (runMigrations).
SchemaReady ==
  /\ \A p \in Procs : DbOpen(p) => applied = 1..Files
  /\ \A i \in applied : 1..i \subseteq applied
  /\ broken = 0 => \A p \in Procs : startErr[p] # "duplicate"
=============================================================================
