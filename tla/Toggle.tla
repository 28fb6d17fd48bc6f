------------------------------- MODULE Toggle -------------------------------
(***************************************************************************)
(* The toggle of src/toggle.c: two mutexes in a loop.  The host always     *)
(* holds one and flips to the other; a client that pushes on acquires and  *)
(* releases the mutex the host held when the flip was still to come.       *)
(*                                                                         *)
(* The users' duties of include/mutexgear/toggle.h are kept as guards:     *)
(* clients are serialised and use an engaged toggle, and the host does not *)
(* flip again before a client pushed on for the last flip.                 *)
(***************************************************************************)
EXTENDS Integers

CONSTANTS Host, Clients,
          Nobody          \* the owner of a free mutex

ASSUME ToggleAssumption == /\ Host \notin Clients
                           /\ Nobody \notin Clients \cup {Host}

VARIABLES owner,      \* who holds each of the mutexes (muteces)
          thumb,      \* thumb_position
          push,       \* push_position, encoded
          fresh,      \* the toggle was never engaged
          due,        \* history: a flip for which nobody pushed on yet
          pc

vars == <<owner, thumb, push, fresh, due, pc>>

NumElements == 2
Element == 0 .. NumElements - 1
AttachFirst == 0
Invalid == -1

Following(i) == IF i # NumElements - 1 THEN i + 1 ELSE 0
EncodePushon(i) == Invalid - i
DecodePushon(v) == Invalid - v

Engaged == thumb # Invalid

HostPC == {"idle", "flip", "flipRelease"}
ClientPC == {"idle", "pushon", "pushonRelease"}

TypeOK == /\ owner \in [Element -> Clients \cup {Host, Nobody}]
          /\ thumb \in Element \cup {Invalid}
          /\ push \in {EncodePushon(i) : i \in Element}
          /\ fresh \in BOOLEAN /\ due \in BOOLEAN
          /\ pc \in [Clients \cup {Host} -> HostPC \cup ClientPC]
          /\ pc[Host] \in HostPC
          /\ \A c \in Clients : pc[c] \in ClientPC

Init == /\ owner = [i \in Element |-> Nobody]
        /\ thumb = Invalid
        /\ push = EncodePushon(AttachFirst)
        /\ fresh = TRUE /\ due = FALSE
        /\ pc = [t \in Clients \cup {Host} |-> "idle"]

Free(i) == owner[i] = Nobody

Goto(t, from, to) == pc[t] = from /\ pc' = [pc EXCEPT ![t] = to]

NoClientActive == \A c \in Clients : pc[c] = "idle"

-----------------------------------------------------------------------------
Attach == /\ pc[Host] = "idle" /\ ~Engaged
          /\ Free(AttachFirst)
          /\ owner' = [owner EXCEPT ![AttachFirst] = Host]
          /\ thumb' = AttachFirst
          /\ fresh' = FALSE
          /\ due' = FALSE
          /\ UNCHANGED <<push, pc>>

Engage == fresh /\ Attach

\* push_position stays where the last push-on left it.
Reengage == ~fresh /\ Attach

FlipCall == /\ Goto(Host, "idle", "flip")
            /\ Engaged
            /\ ~due
            /\ UNCHANGED <<owner, thumb, push, fresh, due>>

FlipAcquire == /\ Goto(Host, "flip", "flipRelease")
               /\ Free(Following(thumb))
               /\ owner' = [owner EXCEPT ![Following(thumb)] = Host]
               /\ UNCHANGED <<thumb, push, fresh, due>>

\* Mutant: the position moves before the release.
FlipReleaseNew == /\ Goto(Host, "flipRelease", "idle")
                  /\ owner' = [owner EXCEPT ![Following(thumb)] = Nobody]
                  /\ thumb' = Following(thumb)
                  /\ due' = TRUE
                  /\ UNCHANGED <<push, fresh>>

FlipRelease == /\ Goto(Host, "flipRelease", "idle")
               /\ owner' = [owner EXCEPT ![thumb] = Nobody]
               /\ thumb' = Following(thumb)
               /\ due' = TRUE
               /\ UNCHANGED <<push, fresh>>

Disengage == /\ pc[Host] = "idle" /\ Engaged
             /\ NoClientActive
             /\ owner' = [owner EXCEPT ![thumb] = Nobody]
             /\ thumb' = Invalid
             /\ UNCHANGED <<push, fresh, due, pc>>

PushonCall(c) == /\ Goto(c, "idle", "pushon")
                 /\ Engaged /\ NoClientActive
                 /\ UNCHANGED <<owner, thumb, push, fresh, due>>

\* Mutant: the push-on does not wait for its mutex.
PushonAcquireUnwaited(c) ==
  /\ Goto(c, "pushon", "pushonRelease")
  /\ owner' = [owner EXCEPT ![DecodePushon(push)] = c]
  /\ UNCHANGED <<thumb, push, fresh, due>>

PushonAcquire(c) == /\ Goto(c, "pushon", "pushonRelease")
                    /\ Free(DecodePushon(push))
                    /\ owner' = [owner EXCEPT ![DecodePushon(push)] = c]
                    /\ UNCHANGED <<thumb, push, fresh, due>>

\* Mutant: the push position stays.
PushonReleaseUnmoved(c) ==
  /\ Goto(c, "pushonRelease", "idle")
  /\ owner' = [owner EXCEPT ![DecodePushon(push)] = Nobody]
  /\ due' = FALSE
  /\ UNCHANGED <<thumb, push, fresh>>

PushonRelease(c) == /\ Goto(c, "pushonRelease", "idle")
                    /\ owner' = [owner EXCEPT ![DecodePushon(push)] = Nobody]
                    /\ push' = EncodePushon(Following(DecodePushon(push)))
                    /\ due' = FALSE
                    /\ UNCHANGED <<thumb, fresh>>

OnceNext == \/ Engage \/ FlipCall \/ FlipAcquire \/ FlipRelease \/ Disengage
            \/ \E c \in Clients : PushonCall(c) \/ PushonAcquire(c) \/ PushonRelease(c)

\* The toggle is engaged once; and engaged again after a disengagement.
OnceSpec == Init /\ [][OnceNext]_vars
Spec == Init /\ [][OnceNext \/ Reengage]_vars

-----------------------------------------------------------------------------
(* Every mutex belongs to the thread that the positions name, so that no     *)
(* thread releases what it does not own or acquires what it holds            *)
(* (toggle.c, flipped and pushon).                                           *)
HeldExactly ==
  \A i \in Element :
    /\ owner[i] = Host <=> \/ i = thumb
                           \/ pc[Host] = "flipRelease" /\ i = Following(thumb)
    /\ \A c \in Clients :
         owner[i] = c <=> pc[c] = "pushonRelease" /\ i = DecodePushon(push)

(* The positions are in step: a client that pushes on meets the mutex of the *)
(* host exactly when no flip is due.  So a push-on after the flip does not   *)
(* wait for the next one, and the next flip finds its mutex free.            *)
InStep ==
  Engaged =>
    /\ due <=> DecodePushon(push) # thumb
    /\ pc[Host] # "idle" => ~due
    /\ \A c \in Clients : pc[c] = "pushonRelease" => due

(* A push-on returns only for a flip (toggle.h: "If the state change has not *)
(* been signaled yet, the call will block").                                 *)
PushonAwaitsFlip ==
  [][\A c \in Clients : pc[c] = "pushonRelease" /\ pc'[c] = "idle" => due]_vars
=============================================================================
