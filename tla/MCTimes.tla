-------------------------------- MODULE MCTimes --------------------------------
(***************************************************************************)
(* The two computations with times for TLC.  Either the controller         *)
(* remembers an autoscaler over its scans, or drain.Backoff computes the   *)
(* wait after a failed drain, for any bounds.                              *)
(***************************************************************************)
EXTENDS AutoscalerMemory, Backoff

\* No wait is being computed.
NoDrainFailed ==
  /\ initial = 1 /\ max = 1 /\ wait = 1
  /\ attempts = 1 /\ i = 0 /\ returned = TRUE

Remember == i = 0 /\ Next /\ UNCHANGED backoffVars
Wait == BackoffNext /\ UNCHANGED vars

TimesSpec ==
  /\ (Init /\ NoDrainFailed) \/ (Init /\ BackoffInit)
  /\ [][Remember \/ Wait]_<<vars, backoffVars>>
===============================================================================
