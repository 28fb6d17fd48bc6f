-------------------------------- MODULE Wheel --------------------------------
(***************************************************************************)
(* The wheel of src/wheel.h and src/wheel.c: three mutexes in a loop.  The *)
(* host always holds one of them and signals by taking the next one and    *)
(* releasing its own; the client does the same behind it and so blocks on  *)
(* the mutex of the host until the host moves on.                          *)
(*                                                                         *)
(* A step of a thread is the stretch of its call up to the next operation  *)
(* on a mutex.  The calls are made as include/mutexgear/wheel.h asks:      *)
(* clients are serialised, they come after the host engaged the wheel, and *)
(* the host disengages it when they have left.                             *)
(***************************************************************************)
EXTENDS Integers

CONSTANTS Host,       \* the thread of the wheel side
          Clients,    \* the threads of the client side
          Nobody      \* the owner of a free mutex

ASSUME WheelAssumption == /\ Host \notin Clients
                          /\ Nobody \notin Clients \cup {Host}

VARIABLES owner,        \* who holds each of the mutexes (muteces)
          wheelSide,    \* wheel_side_index
          clientSide,   \* client_side_index: an element when gripped on, or
                        \* an encoded push-on index
          trial,        \* trial_index of the grip-on under way
          pc            \* where in a call each thread is

vars == <<owner, wheelSide, clientSide, trial, pc>>

-----------------------------------------------------------------------------
\* Mutant: a wheel of two mutexes.
TwoElements == 2

NumElements == 3
Element == 0 .. NumElements - 1
AttachFirst == 0
Invalid == -1

Following(i) == IF i # NumElements - 1 THEN i + 1 ELSE 0
Preceding(i) == IF i # 0 THEN i - 1 ELSE NumElements - 1

\* Push-on indices are kept as negative offsets from Invalid.
EncodePushon(i) == Invalid - i
DecodePushon(v) == Invalid - v
PushonIndices == {EncodePushon(i) : i \in Element}

\* The client side points to an element: some client is gripped on.
GrippedOn == clientSide \in Element
Engaged == wheelSide \in Element

HostPC == {"idle", "advance", "advanceRelease"}
ClientPC == {"idle", "gripon", "gripped", "turn", "turnRelease",
             "pushon", "pushonRelease"}

TypeOK == /\ owner \in [Element -> Clients \cup {Host, Nobody}]
          /\ wheelSide \in Element \cup {Invalid}
          /\ clientSide \in Element \cup PushonIndices
          /\ trial \in Element
          /\ pc \in [Clients \cup {Host} -> HostPC \cup ClientPC]
          /\ pc[Host] \in HostPC
          /\ \A c \in Clients : pc[c] \in ClientPC

Init == /\ owner = [i \in Element |-> Nobody]
        /\ wheelSide = Invalid
        /\ clientSide = EncodePushon(AttachFirst)
        /\ trial = AttachFirst
        /\ pc = [t \in Clients \cup {Host} |-> "idle"]

Free(i) == owner[i] = Nobody

Goto(t, from, to) == /\ pc[t] = from
                     /\ pc' = [pc EXCEPT ![t] = to]

NoClientActive == \A c \in Clients : pc[c] = "idle"

-----------------------------------------------------------------------------
(* The wheel side.                                                         *)

Engage == /\ pc[Host] = "idle"
          /\ ~Engaged
          /\ NoClientActive
          /\ Free(AttachFirst)
          /\ owner' = [owner EXCEPT ![AttachFirst] = Host]
          /\ wheelSide' = AttachFirst
          /\ UNCHANGED <<clientSide, trial, pc>>

AdvanceCall == /\ Engaged
               /\ Goto(Host, "idle", "advance")
               /\ UNCHANGED <<owner, wheelSide, clientSide, trial>>

AdvanceTryAcquire == /\ Goto(Host, "advance", "advanceRelease")
                     /\ Free(Following(wheelSide))
                     /\ owner' = [owner EXCEPT ![Following(wheelSide)] = Host]
                     /\ UNCHANGED <<wheelSide, clientSide, trial>>

\* Mutant: the advance is skipped though its mutex is free.
AdvanceSkipAlways == /\ Goto(Host, "advance", "idle")
                     /\ UNCHANGED <<owner, wheelSide, clientSide, trial>>

\* EBUSY: the client side still has a turn available, the advance is skipped.
AdvanceSkip == /\ Goto(Host, "advance", "idle")
               /\ ~Free(Following(wheelSide))
               /\ UNCHANGED <<owner, wheelSide, clientSide, trial>>

AdvanceRelease == /\ Goto(Host, "advanceRelease", "idle")
                  /\ owner' = [owner EXCEPT ![wheelSide] = Nobody]
                  /\ wheelSide' = Following(wheelSide)
                  /\ UNCHANGED <<clientSide, trial>>

Disengage == /\ pc[Host] = "idle"
             /\ Engaged
             /\ NoClientActive
             /\ owner' = [owner EXCEPT ![wheelSide] = Nobody]
             /\ wheelSide' = Invalid
             /\ UNCHANGED <<clientSide, trial, pc>>

HostNext == \/ Engage \/ AdvanceCall \/ AdvanceTryAcquire \/ AdvanceSkip
            \/ AdvanceRelease \/ Disengage

-----------------------------------------------------------------------------
(* The client side.                                                        *)

GripOnCall(c) == /\ Engaged
                 /\ NoClientActive
                 /\ trial' = DecodePushon(clientSide)
                 /\ Goto(c, "idle", "gripon")
                 /\ UNCHANGED <<owner, wheelSide, clientSide>>

\* Trials go backwards from the push-on index until a mutex is free.
GripOnAcquire(c) == LET i == Preceding(trial) IN
                    /\ Goto(c, "gripon", "gripped")
                    /\ Free(i)
                    /\ owner' = [owner EXCEPT ![i] = c]
                    /\ clientSide' = i
                    /\ trial' = i
                    /\ UNCHANGED wheelSide

\* Mutant: the next trial is the same.
GripOnBusyAgain(c) == /\ pc[c] = "gripon"
                      /\ ~Free(Preceding(trial))
                      /\ UNCHANGED vars

GripOnBusy(c) == /\ pc[c] = "gripon"
                 /\ ~Free(Preceding(trial))
                 /\ trial' = Preceding(trial)
                 /\ UNCHANGED <<owner, wheelSide, clientSide, pc>>

TurnCall(c) == /\ Goto(c, "gripped", "turn")
               /\ UNCHANGED <<owner, wheelSide, clientSide, trial>>

\* Mutant: the turn does not wait for its mutex.
TurnAcquireUnwaited(c) ==
  /\ Goto(c, "turn", "turnRelease")
  /\ owner' = [owner EXCEPT ![Following(clientSide)] = c]
  /\ UNCHANGED <<wheelSide, clientSide, trial>>

\* Blocks while the next mutex is held.
TurnAcquire(c) == /\ Goto(c, "turn", "turnRelease")
                  /\ Free(Following(clientSide))
                  /\ owner' = [owner EXCEPT ![Following(clientSide)] = c]
                  /\ UNCHANGED <<wheelSide, clientSide, trial>>

\* Mutant: the index moves before the release.
TurnReleaseNew(c) ==
  /\ Goto(c, "turnRelease", "gripped")
  /\ owner' = [owner EXCEPT ![Following(clientSide)] = Nobody]
  /\ clientSide' = Following(clientSide)
  /\ UNCHANGED <<wheelSide, trial>>

TurnRelease(c) == /\ Goto(c, "turnRelease", "gripped")
                  /\ owner' = [owner EXCEPT ![clientSide] = Nobody]
                  /\ clientSide' = Following(clientSide)
                  /\ UNCHANGED <<wheelSide, trial>>

\* The index after the released one is kept for push-ons.
Release(c) == /\ Goto(c, "gripped", "idle")
              /\ owner' = [owner EXCEPT ![clientSide] = Nobody]
              /\ clientSide' = EncodePushon(Following(clientSide))
              /\ UNCHANGED <<wheelSide, trial>>

PushonCall(c) == /\ Engaged
                 /\ NoClientActive
                 /\ Goto(c, "idle", "pushon")
                 /\ UNCHANGED <<owner, wheelSide, clientSide, trial>>

PushonAcquire(c) == /\ Goto(c, "pushon", "pushonRelease")
                    /\ Free(DecodePushon(clientSide))
                    /\ owner' = [owner EXCEPT ![DecodePushon(clientSide)] = c]
                    /\ UNCHANGED <<wheelSide, clientSide, trial>>

PushonRelease(c) == LET i == DecodePushon(clientSide) IN
                    /\ Goto(c, "pushonRelease", "idle")
                    /\ owner' = [owner EXCEPT ![i] = Nobody]
                    /\ clientSide' = EncodePushon(Following(i))
                    /\ UNCHANGED <<wheelSide, trial>>

ClientNext(c) == \/ GripOnCall(c) \/ GripOnAcquire(c) \/ GripOnBusy(c)
                 \/ TurnCall(c) \/ TurnAcquire(c) \/ TurnRelease(c)
                 \/ Release(c)
                 \/ PushonCall(c) \/ PushonAcquire(c) \/ PushonRelease(c)

Next == HostNext \/ \E c \in Clients : ClientNext(c)

Spec == Init /\ [][Next]_vars

-----------------------------------------------------------------------------
(***************************************************************************)
(* Properties.                                                             *)
(***************************************************************************)

GrippedPC == {"gripped", "turn", "turnRelease"}

\* Whether a thread holds mutex i, as its call position and the indices say.
HostHolds(i) == \/ i = wheelSide
                \/ pc[Host] = "advanceRelease" /\ i = Following(wheelSide)

ClientHolds(c, i) ==
  \/ pc[c] \in GrippedPC /\ i = clientSide
  \/ pc[c] = "turnRelease" /\ i = Following(clientSide)
  \/ pc[c] = "pushonRelease" /\ i = DecodePushon(clientSide)

(* The owner of every mutex is the thread that the indices and the call      *)
(* positions name: no thread releases a mutex it does not own, leaks one, or *)
(* acquires one that it already holds (wheel.h, the release calls of         *)
(* advanced, turn, release and pushon).                                      *)
HeldExactly ==
  \A i \in Element :
    /\ owner[i] = Host <=> HostHolds(i)
    /\ \A c \in Clients : owner[i] = c <=> ClientHolds(c, i)

(* client_side_index is an element while one client is gripped on and an     *)
(* encoded push-on index otherwise, the wheel stays engaged while it is used *)
(* and two clients are never inside at once.                                 *)
IndicesMatchUse ==
  /\ \A c \in Clients : pc[c] # "idle" =>
       /\ Engaged
       /\ GrippedOn <=> pc[c] \in GrippedPC
       /\ \A d \in Clients \ {c} : pc[d] = "idle"
  /\ GrippedOn => \E c \in Clients : pc[c] \in GrippedPC
  /\ pc[Host] # "idle" => Engaged

\* The mutex that the call a client is in has to wait for.
Blocking(c, i) ==
  \/ pc[c] = "turn" /\ i = Following(clientSide)
  \/ pc[c] = "pushon" /\ i = DecodePushon(clientSide)

(* No signal is lost on a blocked client: when a turn or a push-on has to    *)
(* wait, it waits for the host, and the mutex after the one of the host is   *)
(* free or already taken by the host, so that the advance the client needs   *)
(* is never skipped on EBUSY (wheel.h, _mutexgear_wheel_advanced).           *)
BlockedClientIsSignalable ==
  \A c \in Clients, i \in Element :
    Blocking(c, i) /\ ~Free(i) =>
      /\ HostHolds(i)
      /\ owner[Following(wheelSide)] \in {Nobody, Host}

\* The wheel as the event it implements.
GrippedClient == IF GrippedOn THEN owner[clientSide] ELSE Nobody
TurnAvailable == GrippedOn /\ wheelSide # Following(clientSide)

Event == INSTANCE WheelEvent WITH engaged <- Engaged,
                                  gripped <- GrippedClient,
                                  pending <- TurnAvailable

(* The wheel implements the one-signal event: a turn returns only after a    *)
(* signal, a signal to a gripped client is never lost, and a skipped advance *)
(* is one whose signal is still pending.                                     *)
EventSpec == Event!Spec
=============================================================================
