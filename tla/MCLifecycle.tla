---------------------------- MODULE MCLifecycle ----------------------------
(* Every kind of object, with two users.                                   *)
EXTENDS Lifecycle, TLC

UserSymmetry == Permutations(Users)
=============================================================================
