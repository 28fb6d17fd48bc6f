---------------------------- MODULE MCCompletion ----------------------------
(* The completion queue with a few workers, waiters and items.             *)
EXTENDS Completion
=============================================================================
