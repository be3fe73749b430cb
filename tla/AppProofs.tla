------------------------------ MODULE AppProofs ------------------------------
(***************************************************************************)
(* The safety of App for any number of processes, migration files, starts, *)
(* faults and uploads.                                                     *)
(***************************************************************************)
EXTENDS App, TLAPS

\* The values of AppProcess's variables.
ProcTypeOK ==
  /\ phase \in [Procs -> Phases]
  /\ file \in [Procs -> Nat \ {0}]
  /\ ddl \in [Procs -> {"idle", "present", "missing"}]
  /\ startErr \in [Procs -> {"none", "duplicate", "error"}]
  /\ harsh \in [Procs -> BOOLEAN]
  /\ lock \in Procs \cup {None, Orphan}
  /\ applied \in SUBSET (1..Files)
  /\ launches \in Nat /\ broken \in Nat /\ crashes \in Nat

\* What p has migrated: the files before the one it is at; a file runs only
\* while p migrates; p that has got no error is past the last file.
ProgressInv ==
  \A p \in Procs :
    /\ ddl[p] # "idle" => phase[p] = "migrate" /\ file[p] <= Files
    /\ phase[p] \in {"lock", "migrate"} => startErr[p] = "none"
    /\ phase[p] \in {"lock", "migrate", "unlock"} => \A i \in 1..Files : i < file[p] => i \in applied
    /\ phase[p] = "unlock" /\ startErr[p] = "none" => file[p] > Files
    /\ DbOpen(p) => applied = 1..Files

\* Unless a session broke, who migrates holds the lock, so that nobody else
\* creates what its running file found missing.
LockInv ==
  broken = 0 =>
    \A p \in Procs :
      /\ phase[p] \in {"migrate", "unlock"} => lock = p
      /\ ddl[p] = "missing" => file[p] \notin applied
      /\ startErr[p] # "duplicate"

ProcInv ==
  /\ ProcTypeOK
  /\ \A i \in applied : 1..i \subseteq applied
  /\ ProgressInv
  /\ LockInv

\* The invariant holds before any process has started.
LEMMA ProcInitInv == ProcInit => ProcInv
  BY ProcessAssumption DEF ProcInit, ProcInv, ProcTypeOK, ProgressInv, LockInv, DbOpen, Phases

\* A change of phase alone, to one that needs no lock.
LEMMA GoInv ==
  ASSUME ProcInv, NEW p \in Procs, NEW from, NEW to \in Phases, Go(p, from, to),
         from # "migrate",
         to \notin {"lock", "migrate", "unlock"},
         to \in {"serve", "drain", "stop"} => DbOpen(p)
  PROVE  ProcInv'
  BY DEF ProcInv, ProcTypeOK, ProgressInv, LockInv, DbOpen, Go, db, tally

\* The steps of a process until it serves preserve the invariant.
LEMMA StartUpInv ==
  ASSUME ProcInv, NEW p \in Procs, StartUp(p)
  PROVE  ProcInv'
  <1> USE ProcessAssumption
  <1>1. CASE Lock(p)
    BY <1>1 DEF Lock, LockFree, ProcInv, ProcTypeOK, ProgressInv, LockInv, DbOpen, tally, Phases
  <1>2. CASE BeginFile(p)
    BY <1>2 DEF BeginFile, ProcInv, ProcTypeOK, ProgressInv, LockInv, DbOpen, db, tally
  <1>3. CASE EndFile(p)
    <2>1. /\ phase[p] = "migrate" /\ file[p] \in 1..Files
          /\ \A i \in 1..Files : i < file[p] => i \in applied
      BY <1>3 DEF EndFile, ProcInv, ProcTypeOK, ProgressInv
    <2>2. /\ applied' = applied \cup {file[p]}
          /\ file' = [file EXCEPT ![p] = @ + 1] /\ ddl' = [ddl EXCEPT ![p] = "idle"]
          /\ UNCHANGED <<phase, startErr, harsh, lock, launches, broken, crashes>>
      BY <1>3 DEF EndFile, tally
    <2>3. ProcTypeOK'
      <3>1. file' \in [Procs -> Nat \ {0}] /\ ddl' \in [Procs -> {"idle", "present", "missing"}]
        BY <2>1, <2>2 DEF ProcInv, ProcTypeOK
      <3>2. applied' \in SUBSET (1..Files)
        BY <2>1, <2>2 DEF ProcInv, ProcTypeOK
      <3> QED BY <3>1, <3>2, <2>2 DEF ProcInv, ProcTypeOK
    <2>4. (\A i \in applied : 1..i \subseteq applied)'
      <3> SUFFICES ASSUME NEW i \in applied', NEW j \in 1..i PROVE j \in applied'
        OBVIOUS
      <3>1. CASE i \in applied
        BY <3>1, <2>2 DEF ProcInv
      <3>2. CASE i = file[p]
        BY <3>2, <2>1, <2>2
      <3> QED BY <3>1, <3>2, <2>2
    <2>5. ProgressInv'
      <3> SUFFICES ASSUME NEW q \in Procs PROVE ProgressInv!(q)'
        BY DEF ProgressInv
      <3>1. CASE q = p
        BY <3>1, <2>1, <2>2 DEF ProcInv, ProcTypeOK, ProgressInv, DbOpen
      <3>2. CASE q # p
        BY <3>2, <2>1, <2>2 DEF ProcInv, ProcTypeOK, ProgressInv, DbOpen
      <3> QED BY <3>1, <3>2
    <2>6. LockInv'
      BY <2>1, <2>2 DEF ProcInv, ProcTypeOK, ProgressInv, LockInv
    <2> QED BY <2>3, <2>4, <2>5, <2>6 DEF ProcInv
  <1>4. CASE FileRefused(p)
    <2>1. broken # 0 /\ phase[p] = "migrate"
      BY <1>4 DEF FileRefused, Duplicate, ProcInv, ProgressInv, LockInv
    <2> QED BY <1>4, <2>1 DEF FileRefused, Abandon, ProcInv, ProcTypeOK, ProgressInv, LockInv,
                              DbOpen, db, tally, Phases
  <1>5. CASE FilesDone(p)
    BY <1>5 DEF FilesDone, Go, ProcInv, ProcTypeOK, ProgressInv, LockInv, DbOpen, db, tally, Phases
  <1>6. CASE Unlock(p)
    <2>1. Started(p) => applied = 1..Files
      <3> SUFFICES ASSUME Started(p) PROVE \A i \in 1..Files : i \in applied
        BY DEF ProcInv, ProcTypeOK
      <3> QED BY <1>6 DEF Unlock, Started, ProcInv, ProcTypeOK, ProgressInv
    <2>2. ProcTypeOK'
      BY <1>6 DEF Unlock, Release, ProcInv, ProcTypeOK, tally, Phases
    <2>3. ProgressInv'
      BY <1>6, <2>1 DEF Unlock, ProcInv, ProcTypeOK, ProgressInv, DbOpen, tally, Phases
    <2>4. LockInv'
      BY <1>6 DEF Unlock, Release, ProcInv, ProcTypeOK, LockInv, tally, Phases
    <2> QED BY <1>6, <2>2, <2>3, <2>4 DEF Unlock, ProcInv
  <1> QED BY <1>1, <1>2, <1>3, <1>4, <1>5, <1>6 DEF StartUp

\* A process that ends with an error of runMigrations keeps what is committed.
LEMMA AbandonInv ==
  ASSUME ProcInv, NEW p \in Procs, phase[p] = "migrate", Abandon(p, "error"),
         UNCHANGED <<launches, crashes>>, broken' = broken \/ broken' = broken + 1,
         broken' = broken => lock' = lock, lock' \in {lock, Orphan},
         applied' = applied \/ (file[p] \in 1..Files /\ applied' = applied \cup {file[p]}),
         applied' = applied \/ broken' # broken
  PROVE  ProcInv'
  <1> USE ProcessAssumption
  <1>1. ProcTypeOK'
    <2>1. applied' \subseteq 1..Files
      <3>1. CASE applied' = applied
        BY <3>1 DEF ProcInv, ProcTypeOK
      <3>2. CASE file[p] \in 1..Files /\ applied' = applied \cup {file[p]}
        BY <3>2 DEF ProcInv, ProcTypeOK
      <3> QED BY <3>1, <3>2
    <2>2. broken' \in Nat
      BY DEF ProcInv, ProcTypeOK
    <2> QED BY <2>1, <2>2 DEF Abandon, ProcInv, ProcTypeOK, Phases
  <1>2. (\A i \in applied : 1..i \subseteq applied)'
    <2> SUFFICES ASSUME NEW i \in applied', NEW j \in 1..i PROVE j \in applied'
      OBVIOUS
    <2>1. \A k \in 1..Files : k < file[p] => k \in applied
      BY DEF ProcInv, ProgressInv
    <2>2. CASE i \in applied
      BY <2>2 DEF ProcInv
    <2>3. CASE i \notin applied
      BY <2>1, <2>3 DEF ProcInv, ProcTypeOK
    <2> QED BY <2>2, <2>3
  <1>3. ProgressInv'
    BY ZenonT(60) DEF Abandon, ProcInv, ProcTypeOK, ProgressInv, DbOpen
  <1>4. LockInv'
    BY DEF Abandon, ProcInv, ProcTypeOK, LockInv
  <1> QED BY <1>1, <1>2, <1>3, <1>4 DEF ProcInv

\* What the operator and the machines do preserves the invariant.
LEMMA EnvironmentInv ==
  ASSUME ProcInv, NEW p \in Procs, Environment(p)
  PROVE  ProcInv'
  <1> USE ProcessAssumption
  <1>1. CASE Launch(p)
    BY <1>1 DEF Launch, ProcInv, ProcTypeOK, ProgressInv, LockInv, DbOpen, db, Phases
  <1>2. CASE Signal(p)
    BY <1>2, GoInv DEF Signal, Go, DbOpen, Phases
  <1>3. CASE OpenFails(p)
    BY <1>3, GoInv DEF OpenFails, Phases
  <1>4. CASE FileFails(p)
    BY <1>4, AbandonInv DEF FileFails, db, tally, ProcInv, ProgressInv
  <1>5. CASE ServerFails(p)
    BY <1>5 DEF ServerFails, LeaveHarshly, ProcInv, ProcTypeOK, ProgressInv, LockInv, DbOpen,
                db, tally, Phases
  <1>6. CASE BreakSession(p)
    <2>1. lock = p /\ lock' = Orphan /\ broken' = broken + 1 /\ UNCHANGED <<launches, crashes>>
      BY <1>6 DEF BreakSession
    <2>2. CASE ddl[p] = "idle"
      <3>1. UNCHANGED <<applied, phase, file, ddl, startErr, harsh>>
        BY <1>6, <2>2 DEF BreakSession, run
      <3> QED BY <2>1, <3>1 DEF ProcInv, ProcTypeOK, ProgressInv, LockInv, DbOpen
    <2>3. CASE ddl[p] # "idle"
      <3>1. /\ Abandon(p, "error")
            /\ applied' = applied \/ applied' = applied \cup {file[p]}
        BY <1>6, <2>3 DEF BreakSession
      <3>2. phase[p] = "migrate" /\ file[p] \in 1..Files /\ broken' # broken
        BY <2>1, <2>3 DEF ProcInv, ProcTypeOK, ProgressInv
      <3> QED BY <2>1, <3>1, <3>2, AbandonInv
    <2> QED BY <2>2, <2>3
  <1> QED BY <1>1, <1>2, <1>3, <1>4, <1>5, <1>6 DEF Environment

\* The steps between a signal and the end preserve the invariant.
LEMMA ShutDownInv ==
  ASSUME ProcInv, NEW p \in Procs, NEW busy, ShutDown(p, busy) \/ Exit(p)
  PROVE  ProcInv'
  <1>1. CASE DrainDone(p, busy)
    BY <1>1, GoInv DEF DrainDone, Go, DbOpen, Phases
  <1>2. CASE DrainTimeout(p, busy)
    BY <1>2 DEF DrainTimeout, LeaveHarshly, ProcInv, ProcTypeOK, ProgressInv, LockInv, DbOpen,
                db, tally, Phases
  <1>3. CASE CloseStores(p)
    BY <1>3, GoInv DEF CloseStores, Phases
  <1>4. CASE Exit(p)
    BY <1>4, GoInv DEF Exit, Phases
  <1> QED BY <1>1, <1>2, <1>3, <1>4 DEF ShutDown

\* Nothing is lost when a process is killed but the lock, which stays a while.
LEMMA CrashInv ==
  ASSUME ProcInv, NEW p \in Procs, Crash(p)
  PROVE  ProcInv'
  <1> USE ProcessAssumption
  <1>1. /\ phase' = [phase EXCEPT ![p] = "down"] /\ ddl' = [ddl EXCEPT ![p] = "idle"]
        /\ lock' = IF lock = p THEN Orphan ELSE lock
        /\ crashes' = crashes + 1
        /\ UNCHANGED <<file, startErr, harsh, launches, broken>>
    BY DEF Crash
  <1>2. \/ applied' = applied
        \/ /\ applied' = applied \cup {file[p]}
           /\ phase[p] = "migrate" /\ file[p] \in 1..Files
           /\ \A i \in 1..Files : i < file[p] => i \in applied
    BY DEF Crash, ProcInv, ProcTypeOK, ProgressInv
  <1>3. ProcTypeOK'
    <2>1. applied' \in SUBSET (1..Files)
      BY <1>2 DEF ProcInv, ProcTypeOK
    <2> QED BY <1>1, <2>1 DEF ProcInv, ProcTypeOK, Phases
  <1>4. (\A i \in applied : 1..i \subseteq applied)'
    <2> SUFFICES ASSUME NEW i \in applied', NEW j \in 1..i PROVE j \in applied'
      OBVIOUS
    <2>1. CASE i \in applied
      BY <1>2, <2>1 DEF ProcInv
    <2>2. CASE i \notin applied
      BY <1>2, <2>2
    <2> QED BY <2>1, <2>2
  <1>5. ProgressInv'
    BY <1>1, <1>2, ZenonT(60) DEF ProcInv, ProcTypeOK, ProgressInv, DbOpen
  <1>6. LockInv'
    BY <1>1, <1>2 DEF ProcInv, ProcTypeOK, ProgressInv, LockInv
  <1> QED BY <1>3, <1>4, <1>5, <1>6 DEF ProcInv

\* PostgreSQL's end of a dead session preserves the invariant.
LEMMA ReapInv == ProcInv /\ ReapSession => ProcInv'
  BY ProcessAssumption DEF ReapSession, run, tally, ProcInv, ProcTypeOK, ProgressInv, LockInv, DbOpen
-----------------------------------------------------------------------------
\* Every step of App preserves what is known of the processes.
LEMMA ProcNextInv == ProcInv /\ [AppNext]_appVars => ProcInv'
  <1> SUFFICES ASSUME ProcInv, [AppNext]_appVars PROVE ProcInv'
    OBVIOUS
  <1>1. ASSUME NEW p \in Procs, Run(p) PROVE ProcInv'
    BY <1>1, StartUpInv, ShutDownInv DEF Run
  <1>2. ASSUME NEW p \in Procs, Leave(p) PROVE ProcInv'
    BY <1>2, ShutDownInv DEF Leave
  <1>3. ASSUME NEW p \in Procs, Die(p) PROVE ProcInv'
    BY <1>3, CrashInv DEF Die
  <1>4. ASSUME UNCHANGED procVars PROVE ProcInv'
    BY <1>4 DEF procVars, db, run, tally, ProcInv, ProcTypeOK, ProgressInv, LockInv, DbOpen
  <1> QED BY <1>1, <1>2, <1>3, <1>4, EnvironmentInv, ReapInv DEF AppNext, appVars
-----------------------------------------------------------------------------
\* How far an upload is tells what is stored of it.
StoreInv ==
  /\ upAt \in [Uploads -> {"idle", "read", "put", "row", "reply", "done"}]
  /\ blob \in [Uploads -> {"none", "part", "whole"}]
  /\ rows \in SUBSET Uploads
  /\ DOMAIN upSent = Uploads /\ DOMAIN upProc = Uploads /\ DOMAIN hook = Uploads
  /\ \A u \in Uploads :
       /\ upAt[u] \in {"idle", "read", "put"} => u \notin rows
       /\ upAt[u] \in {"row", "reply"} => blob[u] = "whole"
       /\ upAt[u] = "reply" => u \in rows
       /\ upSent[u] = "created" => upAt[u] = "done"

\* An upload's own step changes nothing of the others.
LEMMA UploadInv ==
  ASSUME StoreInv, RowsHaveBlobs, UpNext
  PROVE  StoreInv' /\ RowsHaveBlobs'
  <1> PICK u \in Uploads :
        \/ \E p \in Procs : AcceptUpload(u, p)
        \/ RefuseUpload(u)
        \/ PutBegin(u) \/ PutEnd(u) \/ PutFails(u)
        \/ CreateFile(u) \/ CreateFileFails(u)
        \/ Respond(u) \/ RunHook(u)
    BY DEF UpNext
  <1>1. CASE \E p \in Procs : AcceptUpload(u, p)
    BY <1>1 DEF AcceptUpload, StoreInv, RowsHaveBlobs
  <1>2. CASE RefuseUpload(u)
    BY <1>2 DEF RefuseUpload, Answer, StoreInv, RowsHaveBlobs
  <1>3. CASE PutBegin(u)
    BY <1>3 DEF PutBegin, StoreInv, RowsHaveBlobs
  <1>4. CASE PutEnd(u)
    BY <1>4 DEF PutEnd, StoreInv, RowsHaveBlobs
  <1>5. CASE PutFails(u)
    BY <1>5 DEF PutFails, Answer, StoreInv, RowsHaveBlobs
  <1>6. CASE CreateFile(u)
    BY <1>6 DEF CreateFile, Stored, StoreInv, RowsHaveBlobs
  <1>7. CASE CreateFileFails(u)
    BY <1>7 DEF CreateFileFails, Stored, Answer, StoreInv, RowsHaveBlobs
  <1>8. CASE Respond(u)
    BY <1>8 DEF Respond, Answer, StoreInv, RowsHaveBlobs
  <1>9. CASE RunHook(u)
    BY <1>9 DEF RunHook, StoreInv, RowsHaveBlobs
  <1> QED BY <1>1, <1>2, <1>3, <1>4, <1>5, <1>6, <1>7, <1>8, <1>9

\* The end of a process answers nobody with 201 and stores nothing.
LEMMA UploadsEndInv ==
  ASSUME StoreInv, RowsHaveBlobs, NEW p \in Procs, UploadsEnd(p)
  PROVE  StoreInv' /\ RowsHaveBlobs'
  BY DEF UploadsEnd, Uploading, StoreInv, RowsHaveBlobs

\* Every step of App preserves what is known of the uploads.
LEMMA StoreNextInv == StoreInv /\ RowsHaveBlobs /\ [AppNext]_appVars => StoreInv' /\ RowsHaveBlobs'
  <1> SUFFICES ASSUME StoreInv, RowsHaveBlobs, [AppNext]_appVars
               PROVE  StoreInv' /\ RowsHaveBlobs'
    OBVIOUS
  <1>1. ASSUME UNCHANGED upVars PROVE StoreInv' /\ RowsHaveBlobs'
    BY <1>1 DEF upVars, StoreInv, RowsHaveBlobs
  <1> QED BY <1>1, UploadInv, UploadsEndInv DEF AppNext, Run, Leave, Die, appVars
-----------------------------------------------------------------------------
\* Requests come only to processes that have not left Shutdown yet.
LEMMA UploadDrain ==
  ASSUME ProcInv, StoreInv, DrainedBeforeClose, UpNext, UNCHANGED procVars
  PROVE  DrainedBeforeClose'
  <1> SUFFICES ASSUME NEW q \in Procs, phase[q] \in {"stop", "exit"}, ~harsh[q]
               PROVE  Uploading(q)' \subseteq Uploading(q)
    BY DEF DrainedBeforeClose, InFlight, procVars, run
  <1> PICK u \in Uploads :
        \/ \E p \in Procs : AcceptUpload(u, p)
        \/ RefuseUpload(u)
        \/ PutBegin(u) \/ PutEnd(u) \/ PutFails(u)
        \/ CreateFile(u) \/ CreateFileFails(u)
        \/ Respond(u) \/ RunHook(u)
    BY DEF UpNext
  <1>1. CASE \E p \in Procs : AcceptUpload(u, p)
    BY <1>1 DEF AcceptUpload, Uploading, StoreInv
  <1>2. CASE ~(\E p \in Procs : AcceptUpload(u, p))
    <2>1. /\ upProc' = upProc
          /\ upAt[u] \notin {"idle", "done"} \/ upAt' = upAt
          /\ \A v \in Uploads : v # u => upAt'[v] = upAt[v]
      BY <1>2 DEF RefuseUpload, PutBegin, PutEnd, PutFails, CreateFile, CreateFileFails, Stored,
                  Respond, RunHook, Answer, StoreInv
    <2> QED BY <2>1 DEF Uploading
  <1> QED BY <1>1, <1>2

\* Every step of App preserves the order of draining and closing.
LEMMA DrainNext ==
  ProcInv /\ StoreInv /\ DrainedBeforeClose /\ [AppNext]_appVars => DrainedBeforeClose'
  <1> SUFFICES ASSUME ProcInv, StoreInv, DrainedBeforeClose, [AppNext]_appVars
               PROVE  DrainedBeforeClose'
    OBVIOUS
  <1>1. ASSUME NEW p \in Procs, StartUp(p) \/ Environment(p), UNCHANGED upVars
        PROVE  DrainedBeforeClose'
    BY <1>1 DEF StartUp, Environment, Lock, BeginFile, EndFile, FileRefused, FilesDone, Unlock,
                Launch, Signal, OpenFails, FileFails, ServerFails, BreakSession, LeaveHarshly,
                Abandon, Go, run, upVars, DrainedBeforeClose, InFlight, Uploading,
                ProcInv, ProcTypeOK
  <1>2. ASSUME NEW p \in Procs, ShutDown(p, InFlight(p)), UNCHANGED upVars
        PROVE  DrainedBeforeClose'
    BY <1>2 DEF ShutDown, DrainDone, Drained, DrainTimeout, CloseStores, LeaveHarshly, Go,
                upVars, DrainedBeforeClose, InFlight, Uploading, ProcInv, ProcTypeOK
  <1>3. ASSUME NEW p \in Procs, Exit(p) \/ Crash(p), UploadsEnd(p)
        PROVE  DrainedBeforeClose'
    <2>1. /\ phase' = [phase EXCEPT ![p] = "down"] /\ harsh' = harsh
          /\ \A q \in Procs : Uploading(q)' \subseteq Uploading(q)
      BY <1>3 DEF Exit, Crash, Go, UploadsEnd, Uploading, StoreInv
    <2> QED BY <2>1 DEF DrainedBeforeClose, InFlight, ProcInv, ProcTypeOK
  <1>4. ASSUME UNCHANGED <<phase, harsh, upVars>> PROVE DrainedBeforeClose'
    BY <1>4 DEF upVars, DrainedBeforeClose, InFlight, Uploading
  <1> QED BY <1>1, <1>2, <1>3, <1>4, UploadDrain
          DEF AppNext, Run, Leave, Die, ReapSession, run, procVars, appVars
-----------------------------------------------------------------------------
\* The inductive invariant of App.
AppInv ==
  /\ ProcInv
  /\ StoreInv /\ RowsHaveBlobs
  /\ DrainedBeforeClose

\* Every reachable state satisfies the inductive invariant.
THEOREM AppInvariance == AppSpec => []AppInv
  <1>1. AppInit => AppInv
    <2> SUFFICES ASSUME AppInit PROVE AppInv
      OBVIOUS
    <2>1. ProcInv
      BY ProcInitInv DEF AppInit
    <2>2. StoreInv /\ RowsHaveBlobs
      BY DEF AppInit, UpInit, StoreInv, RowsHaveBlobs
    <2>3. DrainedBeforeClose
      BY DEF AppInit, ProcInit, DrainedBeforeClose
    <2> QED BY <2>1, <2>2, <2>3 DEF AppInv
  <1>2. AppInv /\ [AppNext]_appVars => AppInv'
    BY ProcNextInv, StoreNextInv, DrainNext DEF AppInv
  <1> QED BY <1>1, <1>2, PTL DEF AppSpec

\* No process serves on a schema that is not complete, migrations take effect in
\* their order, and no start fails on another's tables unless a session broke
\* (runMigrations).
THEOREM SchemaIsReady == AppSpec => []SchemaReady
  <1>1. AppInv => SchemaReady
    BY DEF AppInv, ProcInv, ProgressInv, LockInv, SchemaReady
  <1> QED BY <1>1, AppInvariance, PTL

\* Rows name complete blobs, and a 201 a row, whatever fails (fileAPI.upload).
THEOREM RowsNameBlobs == AppSpec => []RowsHaveBlobs
  BY AppInvariance, PTL DEF AppInv

\* Stores close under a running request only after a timeout or a failed server
\* (run's deferred calls).
THEOREM DrainsBeforeClosing == AppSpec => []DrainedBeforeClose
  BY AppInvariance, PTL DEF AppInv
=============================================================================
