------------------------------ MODULE Handling ------------------------------
(***************************************************************************)
(* What a completion queue promises about an item: it is handled once per  *)
(* use, a thread that waits for it leaves only when the handling is done,  *)
(* and the item gets back to its owner only when those that waited left.   *)
(***************************************************************************)
CONSTANTS Items, Waiters, None

VARIABLES phase,      \* of each item: "out", "queued", "handled" or "done"
          awaited     \* the item each waiter waits for, or None

vars == <<phase, awaited>>

Init == /\ phase = [i \in Items |-> "out"]
        /\ awaited = [t \in Waiters |-> None]

Move(i, from, to) == /\ phase[i] \in from
                     /\ phase' = [phase EXCEPT ![i] = to]
                     /\ UNCHANGED awaited

Enqueue(i) == Move(i, {"out"}, "queued")

\* Started in the queue, or marked before it is added.
Begin(i) == Move(i, {"out", "queued"}, "handled")

Finish(i) == Move(i, {"handled"}, "done")

\* A cancel gives an item nobody started back to its owner.
Withdraw(i) == Move(i, {"queued"}, "out")

GiveBack(i) == /\ \A t \in Waiters : awaited[t] # i
               /\ Move(i, {"done"}, "out")

Wait(t, i) == /\ awaited[t] = None
              /\ phase[i] = "handled"
              /\ awaited' = [awaited EXCEPT ![t] = i]
              /\ UNCHANGED phase

Leave(t) == /\ awaited[t] # None
            /\ phase[awaited[t]] = "done"
            /\ awaited' = [awaited EXCEPT ![t] = None]
            /\ UNCHANGED phase

Next == \/ \E i \in Items :
             \/ Enqueue(i) \/ Begin(i) \/ Finish(i) \/ Withdraw(i) \/ GiveBack(i)
             \/ \E t \in Waiters : Wait(t, i)
        \/ \E t \in Waiters : Leave(t)

Spec == Init /\ [][Next]_vars
=============================================================================
