-------------------------- MODULE MCDrainableQueue --------------------------
(* Every operation on the lists, with three or more items.                 *)
EXTENDS DrainableQueue, TLC

ItemSymmetry == Permutations(Items)
=============================================================================
