------------------------------ MODULE LockAttr ------------------------------
(***************************************************************************)
(* Mutex attributes, as the attribute objects of the library keep and copy *)
(* them: the helpers of src/utility.h, and the setmutexattr function that  *)
(* the wheel, the toggle, the completion objects, the maintlock and the    *)
(* rwlock each have.                                                       *)
(***************************************************************************)
EXTENDS Naturals

Shared == "shared"
Private == "private"

\* A ceiling of 0 is no ceiling.
LockAttrs == [pshared : {Private, Shared},
              prioceiling : {0, 1},
              protocol : {"none", "inherit"}]

DefaultAttr == [pshared |-> Private, prioceiling |-> 0, protocol |-> "none"]

\* What the getter and the setter of a platform may answer ENOSYS for.
Optional == {"pshared", "prioceiling"}

Missing(missing, field) == field \in missing

\* Mutant: the protocol is left out.
CopiedTwo(from, to, n, missing) ==
  [to EXCEPT
     !.pshared = IF n > 0 /\ ~Missing(missing, "pshared") THEN from.pshared ELSE @,
     !.prioceiling = IF n > 1 /\ ~Missing(missing, "prioceiling") /\ from.prioceiling # 0
                       THEN from.prioceiling ELSE @]

\* The first n of the three assignments of setmutexattr, a failing one ends it.
Copied(from, to, n, missing) ==
  [to EXCEPT
     !.pshared = IF n > 0 /\ ~Missing(missing, "pshared") THEN from.pshared ELSE @,
     !.prioceiling = IF n > 1 /\ ~Missing(missing, "prioceiling") /\ from.prioceiling # 0
                       THEN from.prioceiling ELSE @,
     !.protocol = IF n > 2 THEN from.protocol ELSE @]
=============================================================================
