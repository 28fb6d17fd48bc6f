----------------------------- MODULE WheelProofs -----------------------------
(***************************************************************************)
(* The wheel's invariants and its refinement of the event, for any set of  *)
(* clients; and that its usage pattern keeps to the rules of the wheel and *)
(* leaves no client behind, for any number of changes.                     *)
(***************************************************************************)
EXTENDS WheelWait, TLAPS

\* The inductive invariant: types, who is inside, and who owns which mutex.
IInv == TypeOK /\ IndicesMatchUse /\ HeldExactly

-----------------------------------------------------------------------------
LEMMA FollowingElement ==
  ASSUME NEW i \in Element
  PROVE  /\ Following(i) \in Element
         /\ Preceding(i) \in Element
         /\ Following(i) # i
         /\ Following(Following(i)) # i
         /\ Following(Following(i)) # Following(i)
         /\ \A j \in Element : j # i => j = Following(i) \/ i = Following(j)
BY DEF Element, NumElements, Following, Preceding

LEMMA PushonCoding ==
  /\ \A i \in Element : /\ EncodePushon(i) \in PushonIndices
                        /\ DecodePushon(EncodePushon(i)) = i
                        /\ EncodePushon(i) \notin Element
  /\ \A v \in PushonIndices : v \notin Element /\ DecodePushon(v) \in Element
BY DEF Element, NumElements, EncodePushon, DecodePushon, PushonIndices, Invalid

LEMMA InitIInv == Init => IInv
BY WheelAssumption, PushonCoding
   DEF Init, IInv, TypeOK, IndicesMatchUse, HeldExactly, HostHolds, ClientHolds,
       Engaged, GrippedOn, GrippedPC, HostPC, ClientPC, AttachFirst, Element,
       NumElements, Invalid, PushonIndices

-----------------------------------------------------------------------------
LEMMA StepIInv == IInv /\ [Next]_vars => IInv'
<1> SUFFICES ASSUME IInv, [Next]_vars PROVE IInv'
  OBVIOUS
<1> USE WheelAssumption, FollowingElement, PushonCoding
    DEF IInv, TypeOK, IndicesMatchUse, HeldExactly, HostHolds, ClientHolds,
        Engaged, GrippedOn, GrippedPC, HostPC, ClientPC, Free, Goto, NoClientActive
<1>0. AttachFirst \in Element /\ Invalid \notin Element
  BY DEF AttachFirst, Element, NumElements, Invalid
<1>1. CASE Engage
  BY <1>1, <1>0, SMTT(60) DEF Engage
<1>2. CASE AdvanceCall
  BY <1>2, <1>0, SMTT(60) DEF AdvanceCall
<1>3. CASE AdvanceTryAcquire
  BY <1>3, <1>0, SMTT(60) DEF AdvanceTryAcquire
<1>4. CASE AdvanceSkip
  BY <1>4, <1>0, SMTT(60) DEF AdvanceSkip
<1>5. CASE AdvanceRelease
  BY <1>5, <1>0, SMTT(60) DEF AdvanceRelease
<1>6. CASE Disengage
  BY <1>6, <1>0, SMTT(60) DEF Disengage
<1>7. ASSUME NEW c \in Clients, ClientNext(c) PROVE IInv'
  <2>1. CASE GripOnCall(c)
    BY <2>1, SMTT(60) DEF GripOnCall
  <2>2. CASE GripOnAcquire(c)
    BY <2>2, SMTT(60) DEF GripOnAcquire
  <2>3. CASE GripOnBusy(c)
    BY <2>3, SMTT(60) DEF GripOnBusy
  <2>4. CASE TurnCall(c)
    BY <2>4, SMTT(60) DEF TurnCall
  <2>5. CASE TurnAcquire(c)
    BY <2>5, SMTT(60) DEF TurnAcquire
  <2>6. CASE TurnRelease(c)
    BY <2>6, SMTT(60) DEF TurnRelease
  <2>7. CASE Release(c)
    BY <2>7, SMTT(60) DEF Release
  <2>8. CASE PushonCall(c)
    BY <2>8, SMTT(60) DEF PushonCall
  <2>9. CASE PushonAcquire(c)
    BY <2>9, SMTT(60) DEF PushonAcquire
  <2>10. CASE PushonRelease(c)
    BY <2>10, SMTT(60) DEF PushonRelease
  <2>. QED BY <1>7, <2>1, <2>2, <2>3, <2>4, <2>5, <2>6, <2>7, <2>8, <2>9, <2>10 DEF ClientNext
<1>8. CASE UNCHANGED vars
  BY <1>8 DEF vars
<1>. QED BY <1>1, <1>2, <1>3, <1>4, <1>5, <1>6, <1>7, <1>8 DEF Next, HostNext

(* In every state of the wheel its variables have their types: indices stay  *)
(* within the three elements or the encoded values (wheel.h, the index       *)
(* checks that return EINVAL never fire).                                    *)
THEOREM TypeCorrect == Spec => []TypeOK
<1>1. IInv => TypeOK
  BY DEF IInv
<1>. QED BY InitIInv, StepIInv, <1>1, PTL DEF Spec

(* Each mutex is always owned by the thread the indices name, and by no      *)
(* other, whatever the interleaving of the host and the clients.             *)
THEOREM Ownership == Spec => [](HeldExactly /\ IndicesMatchUse)
<1>1. IInv => HeldExactly /\ IndicesMatchUse
  BY DEF IInv
<1>. QED BY InitIInv, StepIInv, <1>1, PTL DEF Spec

LEMMA IInvSignalable == IInv => BlockedClientIsSignalable
<1> SUFFICES ASSUME IInv, NEW c \in Clients, NEW i \in Element,
                    Blocking(c, i), ~Free(i)
             PROVE  /\ HostHolds(i)
                    /\ owner[Following(wheelSide)] \in {Nobody, Host}
  BY DEF BlockedClientIsSignalable
<1> USE WheelAssumption, FollowingElement, PushonCoding
    DEF IInv, TypeOK, IndicesMatchUse, HeldExactly, HostHolds, ClientHolds,
        Engaged, GrippedOn, GrippedPC, HostPC, ClientPC, Free, Blocking
<1>1. \A d \in Clients : d # c => ~ClientHolds(d, i)
  OBVIOUS
<1>2. ~ClientHolds(c, i)
  OBVIOUS
<1>3. owner[i] = Host
  BY <1>1, <1>2
<1>4. \A d \in Clients : ~ClientHolds(d, Following(wheelSide))
  BY <1>3
<1>. QED BY <1>3, <1>4

(* A client that has to wait in a turn or in a push-on waits for the host,   *)
(* and the host's next advance is not skipped: no wake-up is lost.           *)
THEOREM NoLostSignal == Spec => []BlockedClientIsSignalable
BY InitIInv, StepIInv, IInvSignalable, PTL DEF Spec

-----------------------------------------------------------------------------
LEMMA InitRefines == Init => Event!Init
BY PushonCoding
   DEF Init, Event!Init, Engaged, GrippedClient, TurnAvailable, GrippedOn,
       Element, NumElements, Invalid, PushonIndices, AttachFirst

LEMMA StepRefines == IInv /\ IInv' /\ [Next]_vars => [Event!Next]_Event!vars
<1> SUFFICES ASSUME IInv, IInv', [Next]_vars PROVE [Event!Next]_Event!vars
  OBVIOUS
<1> USE WheelAssumption, FollowingElement, PushonCoding
    DEF IInv, TypeOK, IndicesMatchUse, HeldExactly, HostHolds, ClientHolds,
        Engaged, GrippedOn, GrippedPC, HostPC, ClientPC, Free, Goto,
        NoClientActive, GrippedClient, TurnAvailable
<1>0. AttachFirst \in Element /\ Invalid \notin Element
  BY DEF AttachFirst, Element, NumElements, Invalid
<1>1. CASE Engage
  BY <1>1, <1>0 DEF Engage, Event!Next, Event!Engage
<1>2. CASE AdvanceCall \/ AdvanceTryAcquire
  BY <1>2 DEF AdvanceCall, AdvanceTryAcquire, Event!vars
<1>3. CASE AdvanceSkip
  BY <1>3 DEF AdvanceSkip, Event!Next, Event!Advance
<1>4. CASE AdvanceRelease
  BY <1>4 DEF AdvanceRelease, Event!Next, Event!Advance
<1>5. CASE Disengage
  BY <1>5, <1>0 DEF Disengage, Event!Next, Event!Disengage
<1>6. ASSUME NEW c \in Clients, ClientNext(c)
      PROVE  [Event!Next]_Event!vars
  <2>1. CASE GripOnCall(c) \/ GripOnBusy(c) \/ TurnCall(c) \/ TurnAcquire(c)
    BY <2>1 DEF GripOnCall, GripOnBusy, TurnCall, TurnAcquire, Event!vars
  <2>2. CASE GripOnAcquire(c)
    BY <2>2 DEF GripOnAcquire, Event!Next, Event!GripOn
  <2>3. CASE TurnRelease(c)
    BY <2>3 DEF TurnRelease, Event!Next, Event!Turn
  <2>4. CASE Release(c)
    BY <2>4 DEF Release, Event!Next, Event!Release
  <2>5. CASE PushonCall(c) \/ PushonAcquire(c) \/ PushonRelease(c)
    BY <2>5 DEF PushonCall, PushonAcquire, PushonRelease, Event!vars
  <2>. QED BY <1>6, <2>1, <2>2, <2>3, <2>4, <2>5 DEF ClientNext
<1>7. CASE UNCHANGED vars
  BY <1>7 DEF vars, Event!vars
<1>. QED BY <1>1, <1>2, <1>3, <1>4, <1>5, <1>6, <1>7 DEF Next, HostNext

(* The three-mutex wheel implements the one-signal event of WheelEvent.      *)
THEOREM Refinement == Spec => EventSpec
BY InitIInv, StepIInv, InitRefines, StepRefines, PTL
   DEF Spec, EventSpec, Event!Spec

-----------------------------------------------------------------------------
(***************************************************************************)
(* The usage pattern.                                                      *)
(***************************************************************************)

\* A client inside has not seen the last change, and does not test before it turns.
Unseen(c) == \/ pc[c] = "turn"
             \/ pc[c] = "gripped" /\ saw[c] = "no"

WaitTyped ==
  /\ changes \in 0 .. LastChange
  /\ announced \in BOOLEAN
  /\ saw \in [Clients -> {"untested", "no", "yes"}]

(* A test tells about the position from which the client turns or leaves.    *)
TestsAreFresh == \A c \in Clients : saw[c] # "untested" => pc[c] = "gripped"

(* The advance for the last change makes a turn available to those who       *)
(* tested before it: the host goes past them, or it was past them and skips. *)
SignalKept ==
  TestIsRealized /\ announced /\ pc[Host] = "idle" =>
    \A c \in Clients : Unseen(c) => wheelSide # Following(clientSide)

WaitInv == IInv /\ WaitTyped /\ TestsAreFresh /\ SignalKept

-----------------------------------------------------------------------------
LEMMA InitWaitInv == WaitInit => WaitInv
BY InitIInv, WheelWaitAssumption, WheelAssumption
   DEF WaitInit, WaitInv, WaitTyped, TestsAreFresh, SignalKept, TestIsRealized

(* Every step of the pattern is one of the wheel, or none.                   *)
LEMMA StepIsOfWheel == ASSUME WaitNext PROVE [Next]_vars
<1>1. CASE HostStep
  BY <1>1 DEF HostStep, EngageAnew, ChangeState, AnnounceChange, HostWheelStep, SpareAdvance,
     Next, HostNext
<1>2. ASSUME NEW c \in Clients, ClientStep(c) PROVE [Next]_vars
  BY <1>2 DEF ClientStep, EnterLoop, Test, TurnAfterTest, LeaveLoop, PushonOnce, ClientWheelStep,
     Next, ClientNext
<1>. QED BY <1>1, <1>2 DEF WaitNext

(* An advance ends past every client that is gripped on, or before one that  *)
(* has a turn available already.                                             *)
LEMMA AdvanceSignals ==
  ASSUME IInv, AdvanceSkip \/ AdvanceRelease,
         NEW c \in Clients, pc[c] \in {"gripped", "turn"}
  PROVE  wheelSide' # Following(clientSide')
<1> USE WheelAssumption, FollowingElement
    DEF IInv, TypeOK, HeldExactly, HostHolds, ClientHolds, GrippedPC, Free, Goto
<1>1. clientSide \in Element /\ owner[clientSide] = c /\ wheelSide \in Element
  BY DEF IndicesMatchUse, GrippedOn, Engaged
<1>2. CASE AdvanceRelease
  BY <1>1, <1>2 DEF AdvanceRelease
<1>3. CASE AdvanceSkip
  <2>1. PICK d \in Clients : ClientHolds(d, Following(wheelSide))
    BY <1>1, <1>3 DEF AdvanceSkip
  <2>2. d = c
    BY <2>1 DEF IndicesMatchUse
  <2>3. Following(wheelSide) = clientSide
    BY <2>1, <2>2
  <2>. QED BY <1>1, <1>3, <2>3 DEF AdvanceSkip
<1>. QED BY <1>2, <1>3

LEMMA StepWaitInv == ASSUME WaitInv, [WaitNext]_waitVars PROVE WaitInv'
<1> USE DEF WaitInv, WaitTyped, TestsAreFresh, SignalKept, TestIsRealized, Unseen
<1>1. IInv'
  BY StepIsOfWheel, StepIInv DEF waitVars
<1>2. CASE EngageAnew
  BY <1>1, <1>2, WheelWaitAssumption DEF EngageAnew, Engage
<1>3. CASE ChangeState
  <2>1. changes' \in 0 .. LastChange /\ ~announced' /\ UNCHANGED <<pc, saw>>
    BY <1>3, WheelWaitAssumption DEF ChangeState, vars
  <2>2. announced' \in BOOLEAN
    BY <1>3 DEF ChangeState
  <2>. QED BY <1>1, <2>1, <2>2
<1>4. CASE AnnounceChange \/ (SpareAdvance /\ UNCHANGED <<changes, announced, saw>>)
  <2>1. AdvanceCall /\ announced' /\ UNCHANGED <<changes, saw>>
    BY <1>4 DEF AnnounceChange, SpareAdvance
  <2>2. pc'[Host] = "advance" /\ \A c \in Clients : pc'[c] = pc[c]
    BY <2>1, WheelAssumption DEF AdvanceCall, Goto, IInv, TypeOK
  <2>. QED BY <1>1, <2>1, <2>2
<1>5. CASE AdvanceTryAcquire /\ UNCHANGED <<changes, announced, saw>>
  BY <1>1, <1>5, WheelAssumption DEF AdvanceTryAcquire, Goto, IInv, TypeOK
<1>6. CASE (AdvanceSkip \/ AdvanceRelease) /\ UNCHANGED <<changes, announced, saw>>
  <2>1. \A c \in Clients : pc'[c] = pc[c]
    BY <1>6, WheelAssumption DEF AdvanceSkip, AdvanceRelease, Goto, IInv, TypeOK
  <2>. QED BY <1>1, <1>6, <2>1, AdvanceSignals
<1>7. CASE Disengage /\ UNCHANGED <<changes, announced, saw>>
  BY <1>1, <1>7 DEF Disengage, NoClientActive
<1>8. ASSUME NEW c \in Clients, ClientStep(c) PROVE WaitInv'
  <2>1. \A t \in Clients \cup {Host} : t # c => pc'[t] = pc[t]
    BY <1>8 DEF ClientStep, EnterLoop, Test, TurnAfterTest, LeaveLoop, PushonOnce,
       ClientWheelStep,
       GripOnCall, GripOnAcquire, GripOnBusy, TurnCall, TurnAcquire, TurnRelease, Release,
       PushonCall, PushonAcquire, PushonRelease, Goto, vars, IInv, TypeOK
  <2>2. UNCHANGED <<changes, announced, wheelSide>>
    BY <1>8 DEF ClientStep, EnterLoop, Test, TurnAfterTest, LeaveLoop, PushonOnce,
       ClientWheelStep,
       GripOnCall, GripOnAcquire, GripOnBusy, TurnCall, TurnAcquire, TurnRelease, Release,
       PushonCall, PushonAcquire, PushonRelease, vars
  <2>3. ASSUME NEW d \in Clients, Unseen(d)' PROVE d = c
    <3>1. CASE pc[c] = "idle"
      BY <1>8, <2>1, <2>3, <3>1 DEF ClientStep, EnterLoop, Test, TurnAfterTest, LeaveLoop,
         PushonOnce,
         ClientWheelStep, GripOnCall, GripOnAcquire, GripOnBusy, TurnCall, TurnAcquire, TurnRelease,
         Release, PushonCall, PushonAcquire, PushonRelease, NoClientActive, Goto
    <3>2. CASE pc[c] # "idle"
      BY <2>1, <2>3, <3>2 DEF IInv, IndicesMatchUse
    <3>. QED BY <3>1, <3>2
  <2>4. CASE Test(c)
    BY <1>1, <2>4 DEF Test, vars
  <2>5. CASE TurnAfterTest(c)
    BY <1>1, <2>1, <2>2, <2>5 DEF TurnAfterTest, TurnCall, Goto, IInv, TypeOK
  <2>6. CASE ~(Test(c) \/ TurnAfterTest(c))
    <3>1. pc'[c] # "turn" /\ (pc'[c] = "gripped" => saw'[c] = "untested")
      BY <1>8, <2>6 DEF ClientStep, EnterLoop, LeaveLoop, PushonOnce, ClientWheelStep,
         GripOnCall, GripOnAcquire, GripOnBusy, TurnCall, TurnAcquire, TurnRelease, Release,
         PushonCall, PushonAcquire, PushonRelease, Goto, IInv, TypeOK
    <3>2. (saw' = saw /\ saw[c] = "untested") \/ saw' = [saw EXCEPT ![c] = "untested"]
      BY <1>8, <2>6 DEF ClientStep, EnterLoop, LeaveLoop, PushonOnce, ClientWheelStep,
         GripOnCall, GripOnAcquire, GripOnBusy, TurnAcquire, TurnRelease,
         PushonCall, PushonAcquire, PushonRelease, Goto
    <3>. QED BY <1>1, <2>1, <2>2, <2>3, <3>1, <3>2
  <2>. QED BY <2>4, <2>5, <2>6
<1>9. CASE UNCHANGED waitVars
  BY <1>1, <1>9 DEF waitVars, vars
<1>. QED BY <1>2, <1>3, <1>4, <1>5, <1>6, <1>7, <1>8, <1>9
         DEF WaitNext, HostStep, HostWheelStep

(* The pattern of wheel.h is a use of the wheel that the wheel allows.       *)
THEOREM PatternKeepsRules == WaitSpec => Spec
<1>1. WaitInit => Init
  BY DEF WaitInit
<1>2. [WaitNext]_waitVars => [Next]_vars
  BY StepIsOfWheel DEF waitVars
<1>. QED BY <1>1, <1>2, PTL DEF WaitSpec, Spec

(* Tests and changes are not synchronised otherwise, and yet a client that   *)
(* blocks after the last change was announced has a turn available           *)
(* (wheel.h: "advanced" once per change, and the client's wait loop).        *)
THEOREM NobodyLeftBehind == WaitSpec => []NotLeftBehind
<1>1. ASSUME WaitInv PROVE NotLeftBehind
  <2>1. WaitTypeOK
    BY <1>1 DEF WaitInv, WaitTyped, WaitTypeOK, IInv
  <2>2. ASSUME TestIsRealized, announced, pc[Host] = "idle", NEW c \in Clients, pc[c] = "turn"
        PROVE  Free(Following(clientSide))
    <3> USE WheelAssumption, FollowingElement
        DEF IInv, TypeOK, HeldExactly, HostHolds, ClientHolds, GrippedPC, Free
    <3>1. clientSide \in Element /\ wheelSide # Following(clientSide)
      BY <1>1, <2>2 DEF WaitInv, SignalKept, Unseen, IndicesMatchUse, GrippedOn
    <3>2. owner[Following(clientSide)] # Host
      BY <1>1, <2>2, <3>1 DEF WaitInv
    <3>3. \A d \in Clients : owner[Following(clientSide)] # d
      BY <1>1, <2>2, <3>1 DEF WaitInv, IndicesMatchUse
    <3>. QED BY <1>1, <3>1, <3>2, <3>3 DEF WaitInv
  <2>. QED BY <2>1, <2>2 DEF NotLeftBehind
<1>. QED BY <1>1, InitWaitInv, StepWaitInv, PTL DEF WaitSpec
=============================================================================
