---------------------------- MODULE MCTrdlRWLock ----------------------------
(***************************************************************************)
(* Two readers that both lock and try, a writer that locks and one that    *)
(* tries.  No more than MaxInside of the four are in a call or have the    *)
(* lock at a time, which ones changes as they come and go.  Only the start *)
(* of a call can be held back by that, for which there is no fairness.     *)
(***************************************************************************)
EXTENDS TrdlRWLock

CONSTANT MaxInside

FewInside == Cardinality({t \in Threads : pc'[t] # "idle"}) <= MaxInside

MCSpec == TrdlInit /\ [][TrdlNext /\ FewInside]_allVars /\ TrdlFairness
=============================================================================
