---------------------------- MODULE ReadWriteLock ----------------------------
(***************************************************************************)
(* What the rwlock promises: readers share it, a writer has it alone, and  *)
(* a reader that asks for it while writers claim it comes after all those  *)
(* writers (include/mutexgear/rwlock.h, mutexgear_rwlock_wrlock).          *)
(***************************************************************************)
CONSTANTS Readers, Writers, Nobody

VARIABLES readers,     \* those that hold the lock for read
          writer,      \* the one that holds it for write, or Nobody
          claims,      \* writers that wait with write priority
          ahead        \* for each reader that asks, the writers it comes after

vars == <<readers, writer, claims, ahead>>

Init == /\ readers = {}
        /\ writer = Nobody
        /\ claims = {}
        /\ ahead = [r \in Readers |-> {}]

Claim(w) == /\ w \notin claims /\ writer # w
            /\ claims' = claims \cup {w}
            /\ UNCHANGED <<readers, writer, ahead>>

AskRead(r) == /\ r \notin readers
              /\ ahead' = [ahead EXCEPT ![r] = claims]
              /\ UNCHANGED <<readers, writer, claims>>

BeginRead(r) == /\ writer = Nobody
                /\ ahead[r] = {}
                /\ readers' = readers \cup {r}
                /\ UNCHANGED <<writer, claims, ahead>>

EndRead(r) == /\ r \in readers
              /\ readers' = readers \ {r}
              /\ UNCHANGED <<writer, claims, ahead>>

BeginWrite(w) == /\ writer = Nobody /\ readers = {}
                 /\ writer' = w
                 /\ claims' = claims \ {w}
                 /\ ahead' = [r \in Readers |-> ahead[r] \ {w}]
                 /\ UNCHANGED readers

EndWrite(w) == /\ writer = w
               /\ writer' = Nobody
               /\ UNCHANGED <<readers, claims, ahead>>

Next == \/ \E r \in Readers : AskRead(r) \/ BeginRead(r) \/ EndRead(r)
        \/ \E w \in Writers : Claim(w) \/ BeginWrite(w) \/ EndWrite(w)

Spec == Init /\ [][Next]_vars
=============================================================================
