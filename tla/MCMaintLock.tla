----------------------------- MODULE MCMaintLock -----------------------------
(* A few readers and two threads that wait for them.                       *)
EXTENDS MaintLock
=============================================================================
