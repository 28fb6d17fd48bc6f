---------------------------- MODULE ToggleProofs ----------------------------
(***************************************************************************)
(* The toggle's invariants for any set of clients: those that hold however *)
(* often it is engaged, and those of the toggle that is engaged once.      *)
(***************************************************************************)
EXTENDS Toggle, TLAPS

\* Calls run on an engaged toggle only, and one client at a time.
CallsWhenEngaged ==
  /\ \A t \in Clients \cup {Host} : pc[t] # "idle" => Engaged
  /\ \A c, d \in Clients : c # d /\ pc[c] # "idle" => pc[d] = "idle"

\* The inductive invariant for any number of engagements.
IInv == TypeOK /\ HeldExactly /\ CallsWhenEngaged

\* What holds in addition until the toggle is engaged again.
FreshAsInit == fresh => thumb = Invalid /\ push = EncodePushon(AttachFirst)
OnceIInv == IInv /\ InStep /\ FreshAsInit

-----------------------------------------------------------------------------
LEMMA Positions ==
  /\ AttachFirst \in Element /\ Invalid \notin Element
  /\ \A i \in Element :
       /\ Following(i) \in Element
       /\ Following(i) # i
       /\ \A j \in Element : j # i => j = Following(i)
       /\ DecodePushon(EncodePushon(i)) = i
  /\ \A v \in {EncodePushon(i) : i \in Element} : DecodePushon(v) \in Element
BY DEF Element, NumElements, AttachFirst, Invalid, Following, EncodePushon, DecodePushon

LEMMA InitIInv == Init => IInv /\ OnceIInv
<1> SUFFICES ASSUME Init PROVE IInv /\ InStep /\ FreshAsInit
  BY DEF OnceIInv
<1> USE ToggleAssumption, Positions DEF Init
<1>1. TypeOK
  BY DEF TypeOK, HostPC, ClientPC
<1>2. HeldExactly
  BY DEF HeldExactly
<1>3. CallsWhenEngaged /\ InStep /\ FreshAsInit
  BY DEF CallsWhenEngaged, InStep, FreshAsInit, Engaged
<1>. QED BY <1>1, <1>2, <1>3 DEF IInv

LEMMA StepIInv == IInv /\ [OnceNext \/ Reengage]_vars => IInv'
<1> SUFFICES ASSUME IInv, [OnceNext \/ Reengage]_vars PROVE IInv'
  OBVIOUS
<1> USE ToggleAssumption, Positions
    DEF IInv, TypeOK, HeldExactly, CallsWhenEngaged, Engaged, HostPC, ClientPC,
        Free, Goto, NoClientActive
<1>1. CASE Engage \/ Reengage
  <2>. Attach
    BY <1>1 DEF Engage, Reengage
  <2>1. TypeOK'
    BY DEF Attach
  <2>2. HeldExactly'
    BY DEF Attach
  <2>3. CallsWhenEngaged'
    BY DEF Attach
  <2>. QED BY <2>1, <2>2, <2>3
<1>2. CASE FlipCall
  BY <1>2 DEF FlipCall
<1>3. CASE FlipAcquire
  BY <1>3 DEF FlipAcquire
<1>4. CASE FlipRelease
  BY <1>4 DEF FlipRelease
<1>5. CASE Disengage
  <2>1. TypeOK'
    BY <1>5 DEF Disengage
  <2>2. HeldExactly'
    BY <1>5 DEF Disengage
  <2>3. CallsWhenEngaged'
    BY <1>5 DEF Disengage
  <2>. QED BY <2>1, <2>2, <2>3
<1>6. ASSUME NEW c \in Clients, PushonCall(c) PROVE IInv'
  BY <1>6 DEF PushonCall
<1>7. ASSUME NEW c \in Clients, PushonAcquire(c) PROVE IInv'
  BY <1>7 DEF PushonAcquire
<1>8. ASSUME NEW c \in Clients, PushonRelease(c) PROVE IInv'
  <2>1. TypeOK'
    <3>1. Following(DecodePushon(push)) \in Element
      OBVIOUS
    <3>2. push' \in {EncodePushon(i) : i \in Element}
      BY <1>8, <3>1 DEF PushonRelease
    <3>. QED BY <1>8, <3>2 DEF PushonRelease
  <2>2. HeldExactly'
    BY <1>8 DEF PushonRelease
  <2>3. CallsWhenEngaged'
    BY <1>8 DEF PushonRelease
  <2>. QED BY <2>1, <2>2, <2>3
<1>9. CASE UNCHANGED vars
  BY <1>9 DEF vars
<1>. QED BY <1>1, <1>2, <1>3, <1>4, <1>5, <1>6, <1>7, <1>8, <1>9 DEF OnceNext

LEMMA StepOnce == OnceIInv /\ IInv' /\ [OnceNext]_vars => OnceIInv'
<1> SUFFICES ASSUME OnceIInv, IInv', [OnceNext]_vars PROVE InStep' /\ FreshAsInit'
  BY DEF OnceIInv
<1> USE ToggleAssumption, Positions
    DEF OnceIInv, InStep, FreshAsInit, IInv, TypeOK, HeldExactly,
        CallsWhenEngaged, Engaged, HostPC, ClientPC, Free, Goto, NoClientActive
<1>1. CASE Engage
  BY <1>1 DEF Engage, Attach
<1>2. CASE FlipCall
  BY <1>2 DEF FlipCall
<1>3. CASE FlipAcquire
  BY <1>3 DEF FlipAcquire
<1>4. CASE FlipRelease
  BY <1>4 DEF FlipRelease
<1>5. CASE Disengage
  BY <1>5 DEF Disengage
<1>6. ASSUME NEW c \in Clients, PushonCall(c) PROVE InStep' /\ FreshAsInit'
  BY <1>6 DEF PushonCall
<1>7. ASSUME NEW c \in Clients, PushonAcquire(c) PROVE InStep' /\ FreshAsInit'
  BY <1>7 DEF PushonAcquire
<1>8. ASSUME NEW c \in Clients, PushonRelease(c) PROVE InStep' /\ FreshAsInit'
  BY <1>8 DEF PushonRelease
<1>9. CASE UNCHANGED vars
  BY <1>9 DEF vars
<1>. QED BY <1>1, <1>2, <1>3, <1>4, <1>5, <1>6, <1>7, <1>8, <1>9 DEF OnceNext

(* Each mutex of the toggle is always owned by the thread that the positions *)
(* name, however often the toggle is engaged (toggle.c, flipped and pushon). *)
THEOREM Ownership == Spec => [](TypeOK /\ HeldExactly)
<1>1. IInv => TypeOK /\ HeldExactly
  BY DEF IInv
<1>. QED BY InitIInv, StepIInv, <1>1, PTL DEF Spec

LEMMA OnceStepIInv == OnceIInv /\ [OnceNext]_vars => OnceIInv'
BY StepIInv, StepOnce DEF OnceIInv, vars

(* The positions of a toggle that is engaged once stay in step.              *)
THEOREM StaysInStep == OnceSpec => []InStep
<1>1. OnceIInv => InStep
  BY DEF OnceIInv
<1>. QED BY InitIInv, OnceStepIInv, <1>1, PTL DEF OnceSpec

(* Every push-on on a toggle that is engaged once returns only for a flip.   *)
THEOREM PushonsAwait == OnceSpec => PushonAwaitsFlip
<1> DEFINE A == \A c \in Clients : pc[c] = "pushonRelease" /\ pc'[c] = "idle" => due
<1>1. OnceIInv /\ [OnceNext]_vars => [A]_vars
  BY DEF OnceIInv, IInv, InStep, CallsWhenEngaged, Engaged
<1>. QED BY InitIInv, OnceStepIInv, <1>1, PTL DEF OnceSpec, PushonAwaitsFlip
=============================================================================
