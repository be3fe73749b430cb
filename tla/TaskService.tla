----------------------------- MODULE TaskService -----------------------------
(***************************************************************************)
(* taskAPI behind authMiddleware, over either task repository.  Updating   *)
(* and deleting read the task and check its owner with one call of the     *)
(* repository and write with another: other requests come between.         *)
(***************************************************************************)
EXTENDS AuthSessions

CONSTANTS
  TaskRequests,  \* concurrent requests of the task endpoints
  MaxTasks,      \* bound on tasks created
  MaxRestarts    \* bound on restarts of the app

ASSUME TaskAssumption == MaxTasks \in Nat /\ MaxRestarts \in Nat

VARIABLES
  tasks,   \* the stored tasks: id, owner, and who wrote the content last; of the
           \* two the row has only the owner's id
  nextID,  \* the next task id
  edit,    \* edit[r]: what r is about to write after its check
  ended    \* the deleted tasks, with who deleted them

taskVars == <<tasks, nextID, edit, ended>>
serviceVars == <<authVars, taskVars>>

Nothing == [op |-> "none"]

ServiceInit ==
  /\ AuthInit
  /\ tasks = {} /\ nextID = 1
  /\ edit = [r \in TaskRequests |-> Nothing]
  /\ ended = {}
-----------------------------------------------------------------------------
\* role == "admin" or the caller has the id of the task's owner.
MayWrite(a, t) == a.role = "admin" \/ t.owner.uid = a.who.uid

CreateTask(a) ==
  /\ Valid(a) /\ nextID <= MaxTasks
  /\ tasks' = tasks \cup {[id |-> nextID, owner |-> a.who, by |-> a.who, admin |-> FALSE]}
  /\ nextID' = nextID + 1
  /\ UNCHANGED <<authVars, edit, ended>>

\* updateTask and deleteTask up to the owner check, which reads the task.
CheckTask(r, op, a, t) ==
  /\ edit[r] = Nothing /\ Valid(a) /\ MayWrite(a, t)
  /\ edit' = [edit EXCEPT ![r] = [op |-> op, id |-> t.id, by |-> a.who,
                                  admin |-> a.role = "admin"]]
  /\ UNCHANGED <<authVars, tasks, nextID, ended>>

\* The row that r's write finds.
Target(r) == {t \in tasks : t.id = edit[r].id}

\* Mutant of UpdateTask: the row is written back without looking for it.
UpdateTaskBlind(r) ==
  /\ edit[r].op = "update"
  /\ tasks' = (tasks \ Target(r)) \cup
       {[id |-> edit[r].id, owner |-> edit[r].by, by |-> edit[r].by, admin |-> edit[r].admin]}
  /\ edit' = [edit EXCEPT ![r] = Nothing]
  /\ UNCHANGED <<authVars, nextID, ended>>

\* Update: 404 if the task is gone by now; the owner column is left alone.
UpdateTask(r) ==
  /\ edit[r].op = "update"
  /\ tasks' = (tasks \ Target(r)) \cup
       {[t EXCEPT !.by = edit[r].by, !.admin = edit[r].admin] : t \in Target(r)}
  /\ edit' = [edit EXCEPT ![r] = Nothing]
  /\ UNCHANGED <<authVars, nextID, ended>>

\* Delete: 404 if the task is gone by now.
DeleteTask(r) ==
  /\ edit[r].op = "delete"
  /\ tasks' = tasks \ Target(r)
  /\ ended' = ended \cup {[id |-> t.id, owner |-> t.owner, by |-> edit[r].by,
                           admin |-> edit[r].admin] : t \in Target(r)}
  /\ edit' = [edit EXCEPT ![r] = Nothing]
  /\ UNCHANGED <<authVars, nextID>>

\* The database or the request's context fails the write: 500, nothing changes.
\* (A write that took effect before its answer was lost leaves what UpdateTask or
\* DeleteTask leaves.)
WriteFails(r) ==
  /\ edit[r] # Nothing
  /\ edit' = [edit EXCEPT ![r] = Nothing]
  /\ UNCHANGED <<authVars, tasks, nextID, ended>>

\* The app restarts on the same database: the rows stay, with the owner ids of users
\* that are gone and whose ids will be given again.
Restart ==
  /\ life < MaxRestarts
  /\ Forget
  /\ edit' = [r \in TaskRequests |-> Nothing]
  /\ UNCHANGED <<tasks, nextID, ended>>

AuthStep == AuthNext /\ UNCHANGED taskVars

TaskStep ==
  \/ \E a \in access : CreateTask(a)
  \/ \E r \in TaskRequests :
       \/ \E op \in {"update", "delete"}, a \in access, t \in tasks : CheckTask(r, op, a, t)
       \/ UpdateTask(r) \/ DeleteTask(r) \/ WriteFails(r)

ServiceNext == AuthStep \/ TaskStep \/ Restart

ServiceSpec == ServiceInit /\ [][ServiceNext]_serviceVars
-----------------------------------------------------------------------------
\* Types of both parts.
ServiceTypeOK ==
  /\ AuthTypeOK
  /\ \A t \in tasks \cup ended :
       t.id \in 1..(nextID - 1) /\ t.owner \in Whos /\ t.by \in Whos
  /\ nextID \in 1..(MaxTasks + 1)
  /\ \A r \in TaskRequests : edit[r].op \in {"none", "update", "delete"}

\* "`user`: only own tasks" (docs/projects/notes-rbac.md), for the people of one life
\* of the process: every task, deleted or not, was last written by the person whose
\* task it is or by an admin, although the check is older than the write and compares
\* ids.  Between a token of one life and a task of another the check lets a stranger
\* through who has the owner's id; this is the exception, and the document does not
\* have it.  A write that comes after the deletion does not bring the task back.
OnlyOwnerWrites ==
  /\ \A t \in tasks \cup ended :
       \/ t.admin
       \/ /\ t.by.uid = t.owner.uid
          /\ t.by.mail = t.owner.mail \/ t.by.life # t.owner.life
  /\ \A t \in tasks, u \in ended : t.id # u.id
  /\ \A t, u \in tasks : t.id = u.id => t = u
=============================================================================
