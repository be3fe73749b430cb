--------------------------------- MODULE App ---------------------------------
(***************************************************************************)
(* The app's processes with the requests they handle: start-up, uploads,   *)
(* graceful and other ends, on one database and one blob storage.          *)
(***************************************************************************)
EXTENDS FileUpload

appVars == <<procVars, upVars>>

AppInit == ProcInit /\ UpInit

\* The requests that Shutdown of p waits for; hook goroutines are not among them.
InFlight(p) == Uploading(p)

\* The steps of run that end no request.
Run(p) == (StartUp(p) \/ ShutDown(p, InFlight(p))) /\ UNCHANGED upVars

\* The goroutines of p end with it.
Leave(p) == Exit(p) /\ UploadsEnd(p)

Die(p) == Crash(p) /\ UploadsEnd(p)

AppNext ==
  \/ \E p \in Procs :
       \/ Run(p) \/ Leave(p) \/ Die(p)
       \/ Environment(p) /\ UNCHANGED upVars
  \/ ReapSession /\ UNCHANGED upVars
  \/ UpNext /\ UNCHANGED procVars

\* A process that is starting or ending keeps going, PostgreSQL drops dead
\* sessions.  A request may stall in its client, no statement has to fail, and nobody
\* has to start or stop a process.
AppFairness ==
  /\ \A p \in Procs : WF_appVars(Run(p)) /\ WF_appVars(Leave(p))
  /\ WF_appVars(ReapSession /\ UNCHANGED upVars)

AppSpec == AppInit /\ [][AppNext]_appVars /\ AppFairness
-----------------------------------------------------------------------------
\* "Calls `Shutdown` with timeout (`10s`) to drain in-flight requests"
\* (docs/projects/graceful-shutdown-timeouts.md): when the collector stops and the
\* stores close, a request is still in flight only if that time ran out or the
\* server had failed.
DrainedBeforeClose ==
  \A p \in Procs :
    phase[p] \in {"stop", "exit"} /\ InFlight(p) # {} => harsh[p]

\* Every start comes to an end, serving or not, although the lock's holder may
\* crash, fail or lose its session; and a signalled process ends, although its
\* requests may stall for ever.
LivesGoOn ==
  \A p \in Procs :
    /\ phase[p] = "lock" ~> phase[p] \in {"serve", "down"}
    /\ phase[p] = "drain" ~> phase[p] = "down"
=============================================================================
