----------------------------- MODULE FileUpload -----------------------------
(***************************************************************************)
(* POST /files: fileAPI.upload streams the part into the blob storage,     *)
(* inserts the row and starts the processing hook in a goroutine.  The     *)
(* two stores share no transaction, and the process may end at any point.  *)
(* An upload's storage key is random, so its blob and its row bear its     *)
(* name.                                                                   *)
(***************************************************************************)
EXTENDS AppProcess

CONSTANT Uploads   \* POST /files requests

VARIABLES
  driver,  \* FILE_STORAGE_DRIVER: "disk" or "s3"
  upAt,    \* the statement upload u executes next
  upProc,  \* upProc[u]: the process that handles u
  blob,    \* blob[u]: what the blob storage has of u
  rows,    \* uploads with a row in uploaded_files
  hook,    \* hook[u]: the goroutine that calls OnUploaded
  upSent   \* what the client of u got

upVars == <<driver, upAt, upProc, blob, rows, hook, upSent>>

UpInit ==
  /\ driver \in {"disk", "s3"}
  /\ upAt = [u \in Uploads |-> "idle"] /\ upProc = [u \in Uploads |-> None]
  /\ blob = [u \in Uploads |-> "none"] /\ rows = {}
  /\ hook = [u \in Uploads |-> "none"] /\ upSent = [u \in Uploads |-> "none"]

Uploading(p) == {u \in Uploads : upProc[u] = p /\ upAt[u] \notin {"idle", "done"}}

\* The handler returns after it has answered.
Answer(u, status) ==
  /\ upAt' = [upAt EXCEPT ![u] = "done"]
  /\ upSent' = [upSent EXCEPT ![u] = status]
-----------------------------------------------------------------------------
\* The request reaches a process that listens, or comes on a connection that was
\* open before Shutdown closed the listener.
AcceptUpload(u, p) ==
  /\ upAt[u] = "idle" /\ phase[p] \in {"serve", "drain"}
  /\ upAt' = [upAt EXCEPT ![u] = "read"]
  /\ upProc' = [upProc EXCEPT ![u] = p]
  /\ UNCHANGED <<driver, blob, rows, hook, upSent>>

\* No caller, no multipart form, no "file" part, no file name; or no storage
\* key, no bucket, no directory.
RefuseUpload(u) ==
  /\ upAt[u] = "read"
  /\ \E status \in {"rejected", "internal_error"} : Answer(u, status)
  /\ UNCHANGED <<driver, upProc, blob, rows, hook>>

\* Put begins: the disk storage creates the file and copies into it; an object
\* appears in the bucket only when it is complete.
PutBegin(u) ==
  /\ upAt[u] = "read"
  /\ upAt' = [upAt EXCEPT ![u] = "put"]
  /\ blob' = [blob EXCEPT ![u] = IF driver = "disk" THEN "part" ELSE "none"]
  /\ UNCHANGED <<driver, upProc, rows, hook, upSent>>

\* Put has read the part to its end.  How long that takes is up to the client.  (The
\* disk storage drops the error of closing the file: that the blob is whole is what
\* Put reports, not what a full disk may have made of it.)
PutEnd(u) ==
  /\ upAt[u] = "put"
  /\ upAt' = [upAt EXCEPT ![u] = "row"]
  /\ blob' = [blob EXCEPT ![u] = "whole"]
  /\ UNCHANGED <<driver, upProc, rows, hook, upSent>>

\* Put fails and removes nothing: the file stays as far as it was written, an
\* object is there if only its answer was lost.
PutFails(u) ==
  /\ upAt[u] = "put"
  /\ blob' \in {blob} \cup
       (IF driver = "s3" THEN {[blob EXCEPT ![u] = "whole"]} ELSE {})
  /\ Answer(u, "internal_error")
  /\ UNCHANGED <<driver, upProc, rows, hook>>

\* Mutant of Stored: the row is inserted while the blob is written.
StoredEarly(u) == upAt[u] \in {"put", "row"}

\* Put has returned without an error.
Stored(u) == upAt[u] = "row"

\* CreateFile on a database that is open.
CreateFile(u) ==
  /\ Stored(u) /\ DbOpen(upProc[u])
  /\ rows' = rows \cup {u}
  /\ upAt' = [upAt EXCEPT ![u] = "reply"]
  /\ UNCHANGED <<driver, upProc, blob, hook, upSent>>

\* CreateFile fails: the statement or the context, before or after it took effect,
\* or the database handle is closed already.  The blob stays.
CreateFileFails(u) ==
  /\ Stored(u)
  /\ rows' \in {rows} \cup (IF DbOpen(upProc[u]) THEN {rows \cup {u}} ELSE {})
  /\ Answer(u, "internal_error")
  /\ UNCHANGED <<driver, upProc, blob, hook>>

\* The hook's goroutine is started, then the client gets 201.
Respond(u) ==
  /\ upAt[u] = "reply"
  /\ hook' = [hook EXCEPT ![u] = "started"]
  /\ Answer(u, "created")
  /\ UNCHANGED <<driver, upProc, blob, rows>>

\* OnUploaded returns, perhaps with an error that is logged.  Nobody waits for it: a
\* process that drains and exits may leave it behind (UploadsEnd).
RunHook(u) ==
  /\ hook[u] = "started"
  /\ hook' = [hook EXCEPT ![u] = "ran"]
  /\ UNCHANGED <<driver, upAt, upProc, blob, rows, upSent>>

\* Process p ends: its clients get no answer, its hooks no more time.
UploadsEnd(p) ==
  /\ upAt' = [u \in Uploads |-> IF u \in Uploading(p) THEN "done" ELSE upAt[u]]
  /\ upSent' = [u \in Uploads |-> IF u \in Uploading(p) THEN "cut" ELSE upSent[u]]
  /\ hook' = [u \in Uploads |-> IF upProc[u] = p /\ hook[u] = "started" THEN "lost" ELSE hook[u]]
  /\ UNCHANGED <<driver, upProc, blob, rows>>

UpNext ==
  \E u \in Uploads :
    \/ \E p \in Procs : AcceptUpload(u, p)
    \/ RefuseUpload(u)
    \/ PutBegin(u) \/ PutEnd(u) \/ PutFails(u)
    \/ CreateFile(u) \/ CreateFileFails(u)
    \/ Respond(u) \/ RunHook(u)
-----------------------------------------------------------------------------
\* Metadata never promises what the blob storage does not have: a row's blob is
\* complete, a client that got 201 has its row, and OnUploaded is given nothing less
\* than both, through failures of either store and the end of the process at any
\* point (fileAPI.upload).
RowsHaveBlobs ==
  /\ \A u \in rows : blob[u] = "whole"
  /\ \A u \in Uploads : upSent[u] = "created" \/ hook[u] # "none" => u \in rows
=============================================================================
