----------------------------- MODULE WheelEvent -----------------------------
(***************************************************************************)
(* What a mutexgear_wheel_t promises: an event with one pending signal.    *)
(*                                                                         *)
(* The host of the wheel engages it, signals it with an advance and        *)
(* disengages it.  One client at a time grips on to it; a turn of that     *)
(* client returns only after consuming a signal, and a signal given while  *)
(* the client is gripped on is kept until the client consumes it.  Signals *)
(* do not accumulate: a second advance before the turn is absorbed.  The   *)
(* first turn after a grip-on may return without a signal, which is why    *)
(* pending starts with either value.                                       *)
(*                                                                         *)
(* Guards of this module that no code enforces are the duties of the users *)
(* of a wheel (include/mutexgear/wheel.h): clients are serialised, they    *)
(* access an engaged wheel only, and the wheel is disengaged without them. *)
(***************************************************************************)
CONSTANTS Clients,    \* the threads that may grip on to the wheel
          Nobody      \* no thread

VARIABLES engaged,    \* the host is attached
          gripped,    \* the client that is gripped on, or Nobody
          pending     \* the gripped client's next turn is not going to block

vars == <<engaged, gripped, pending>>

TypeOK == /\ engaged \in BOOLEAN
          /\ gripped \in Clients \cup {Nobody}
          /\ pending \in BOOLEAN

Init == /\ engaged = FALSE
        /\ gripped = Nobody
        /\ pending = FALSE

-----------------------------------------------------------------------------
Engage == /\ ~engaged
          /\ gripped = Nobody
          /\ engaged' = TRUE
          /\ UNCHANGED <<gripped, pending>>

\* A signal: kept for the gripped client, lost when there is none.
Advance == /\ engaged
           /\ pending' = (gripped # Nobody)
           /\ UNCHANGED <<engaged, gripped>>

Disengage == /\ engaged
             /\ gripped = Nobody
             /\ engaged' = FALSE
             /\ UNCHANGED <<gripped, pending>>

GripOn(c) == /\ engaged
             /\ gripped = Nobody
             /\ gripped' = c
             /\ pending' \in BOOLEAN
             /\ UNCHANGED engaged

Turn(c) == /\ gripped = c
           /\ pending
           /\ pending' = FALSE
           /\ UNCHANGED <<engaged, gripped>>

Release(c) == /\ gripped = c
              /\ gripped' = Nobody
              /\ pending' = FALSE
              /\ UNCHANGED engaged

Next == \/ Engage \/ Advance \/ Disengage
        \/ \E c \in Clients : GripOn(c) \/ Turn(c) \/ Release(c)

Spec == Init /\ [][Next]_vars
=============================================================================
