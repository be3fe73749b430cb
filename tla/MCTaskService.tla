---------------------------- MODULE MCTaskService ----------------------------
(***************************************************************************)
(* Two addresses and two requests of each kind: two signups of one         *)
(* address, two refreshes with one token, a deletion between the check and *)
(* the write of an update.  Addresses and requests are interchangeable.    *)
(***************************************************************************)
EXTENDS TaskService, TLC

Symmetry == Permutations(Emails) \cup Permutations(AuthRequests) \cup Permutations(TaskRequests)
=============================================================================
