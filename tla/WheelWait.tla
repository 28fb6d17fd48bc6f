------------------------------ MODULE WheelWait ------------------------------
(***************************************************************************)
(* The usage pattern of include/mutexgear/wheel.h: the host changes some   *)
(* state and advances the wheel once per change; a client that waits for   *)
(* the last of the changes tests, grips on, and turns the wheel between    *)
(* further tests until it sees the change.  The tests and the changes are  *)
(* not synchronised in any other way.                                      *)
(*                                                                         *)
(* Only the pattern is added here: every step of the wheel itself is the   *)
(* action of module Wheel.                                                 *)
(***************************************************************************)
EXTENDS Wheel

CONSTANT LastChange     \* the number of state changes the host makes

ASSUME WheelWaitAssumption == LastChange \in Nat \ {0}

VARIABLES changes,      \* state changes made so far
          announced,    \* the host called advanced after the last change
          saw           \* what each client's last test told: "untested", "no", "yes"

waitVars == <<vars, changes, announced, saw>>

WaitTypeOK == /\ TypeOK
              /\ changes \in 0 .. LastChange
              /\ announced \in BOOLEAN
              /\ saw \in [Clients -> {"untested", "no", "yes"}]

WaitInit == /\ Init
            /\ changes = 0
            /\ announced = TRUE
            /\ saw = [c \in Clients |-> "untested"]

TestIsRealized == changes = LastChange

-----------------------------------------------------------------------------
ChangeState == /\ pc[Host] = "idle" /\ Engaged /\ announced
               /\ changes < LastChange
               /\ changes' = changes + 1
               /\ announced' = FALSE
               /\ UNCHANGED <<vars, saw>>

AnnounceChange == /\ ~announced
                  /\ AdvanceCall
                  /\ announced' = TRUE
                  /\ UNCHANGED <<changes, saw>>

\* The host may advance more often than it changes the state, and does for a
\* push-on, though not for ever: a grip-on tries the mutexes one by one, and a
\* host that goes round and round could be at each of them when it is tried.
SpareAdvance == /\ announced
                /\ ~TestIsRealized \/ \E c \in Clients : pc[c] = "pushon"
                /\ AdvanceCall

HostWheelStep == /\ \/ SpareAdvance
                    \/ AdvanceTryAcquire \/ AdvanceSkip \/ AdvanceRelease
                    \/ Disengage /\ TestIsRealized /\ announced
                 /\ UNCHANGED <<changes, announced, saw>>

\* The changes begin anew when the wheel is engaged again.
EngageAnew == /\ Engage
              /\ changes' = 0
              /\ UNCHANGED <<announced, saw>>

\* The first test, before gripping on: the loop is not entered when it holds.
EnterLoop(c) == /\ ~TestIsRealized
                /\ GripOnCall(c)
                /\ UNCHANGED <<changes, announced, saw>>

Test(c) == /\ pc[c] = "gripped"
           /\ saw[c] = "untested"
           /\ saw' = [saw EXCEPT ![c] = IF TestIsRealized THEN "yes" ELSE "no"]
           /\ UNCHANGED <<vars, changes, announced>>

TurnAfterTest(c) == /\ saw[c] = "no"
                    /\ TurnCall(c)
                    /\ saw' = [saw EXCEPT ![c] = "untested"]
                    /\ UNCHANGED <<changes, announced>>

LeaveLoop(c) == /\ saw[c] = "yes"
                /\ Release(c)
                /\ saw' = [saw EXCEPT ![c] = "untested"]
                /\ UNCHANGED <<changes, announced>>

\* A client may also use the wheel as a toggle, while no other is gripped on.
PushonOnce(c) == /\ PushonCall(c)
                 /\ UNCHANGED <<changes, announced, saw>>

ClientWheelStep(c) ==
  /\ \/ GripOnAcquire(c) \/ GripOnBusy(c) \/ TurnAcquire(c) \/ TurnRelease(c)
     \/ PushonAcquire(c) \/ PushonRelease(c)
  /\ UNCHANGED <<changes, announced, saw>>

HostStep == EngageAnew \/ ChangeState \/ AnnounceChange \/ HostWheelStep

ClientStep(c) == \/ EnterLoop(c) \/ Test(c) \/ TurnAfterTest(c)
                 \/ LeaveLoop(c) \/ PushonOnce(c) \/ ClientWheelStep(c)

WaitNext == HostStep \/ \E c \in Clients : ClientStep(c)

(* The scheduler runs every thread that can take a step, and the host makes  *)
(* its changes however often it advances between them.  A client chooses by  *)
(* itself whether to start waiting, and has no duty to.                      *)
Fairness == /\ SF_waitVars(ChangeState \/ AnnounceChange)
            /\ WF_waitVars((AdvanceTryAcquire \/ AdvanceSkip \/ AdvanceRelease)
                           /\ UNCHANGED <<changes, announced, saw>>)
            /\ \A c \in Clients :
                 /\ WF_waitVars(Test(c) \/ TurnAfterTest(c) \/ LeaveLoop(c))
                 /\ WF_waitVars(ClientWheelStep(c))

WaitSpec == WaitInit /\ [][WaitNext]_waitVars /\ Fairness

-----------------------------------------------------------------------------
(* A client blocked in a turn after the host announced its last change is    *)
(* never left behind: there need not be another advance to awaken it.        *)
NotLeftBehind ==
  /\ WaitTypeOK
  /\ TestIsRealized /\ announced /\ pc[Host] = "idle" =>
       \A c \in Clients : pc[c] = "turn" => Free(Following(clientSide))

(* Every client that started to wait sees the last change and leaves the     *)
(* wheel (wheel.h: "its waiting for a signal on the object").                *)
EveryWaitEnds == \A c \in Clients : pc[c] \in {"gripon", "gripped"} ~> pc[c] = "idle"
=============================================================================
