--------------------------- MODULE DrainableQueue ---------------------------
(***************************************************************************)
(* The work list of a completion queue and the drain of a drainable one,   *)
(* store by store (src/completion.h over include/mutexgear/_llisttmpl.h).  *)
(* The stores modelled here are made under the access lock of the queue;   *)
(* lodisempty, gettail and getpreceding read between them, without the     *)
(* lock.  (src/rwlock.c has one link that is made without the access lock, *)
(* that of a try-read behind the separator, under tryread_queue_lock.      *)
(* Module TrdlRWLock has it as one step.)                                  *)
(*                                                                         *)
(* A drain request names an item and the drain index that the queue had    *)
(* when the item was enqueued.  It is ignored unless the item is at the    *)
(* head or the index is still that of the queue: the item may have been    *)
(* drained already, and there is no quick way to tell.                     *)
(*                                                                         *)
(* An item stands for the thread that enqueues and finishes it.            *)
(***************************************************************************)
EXTENDS LinkedList

CONSTANTS Items, Splicer, Nobody,
          Queue, Drain,    \* the end items of the two lists
          LastDrainIdx     \* the largest drain index: the next one is the first

ASSUME DrainableQueueAssumption ==
  /\ IsFiniteSet(Items)
  /\ Queue \notin Items /\ Drain \notin Items /\ Queue # Drain
  /\ Splicer \notin Items /\ Nobody \notin Items \cup {Splicer}
  /\ LastDrainIdx \in Nat \ {0, 1}

VARIABLES drainable,    \* the queue is a drainable one (with a drain), or a plain one
          ptr,          \* p_next_item and p_prev_item
          drainIdx,     \* drain_index
          index,        \* the drain index each item was enqueued at
          lock,         \* who holds access_lock
          pc,
          stores,       \* what the holder of the lock still has to store
          span          \* the first and the last item of a splice under way

vars == <<drainable, ptr, drainIdx, index, lock, pc, stores, span>>

Nodes == Items \cup {Queue, Drain}
Threads == Items \cup {Splicer}

NumItems == Cardinality(Items)

TypeOK == /\ drainable \in BOOLEAN
          /\ ptr \in [{"next", "prev"} \X Nodes -> Nodes]
          /\ drainIdx \in 1 .. LastDrainIdx /\ index \in [Items -> 1 .. LastDrainIdx]
          /\ lock \in Threads \cup {Nobody}
          /\ pc \in [Threads -> {"out", "enqueue", "in", "move", "drain", "drained", "finish"}]
          /\ stores \in Seq({"next", "prev"} \X Nodes \X Nodes)

\* list_init, item_init: every item is its own neighbour.
Init == /\ drainable \in BOOLEAN
        /\ ptr = [p \in {"next", "prev"} \X Nodes |-> p[2]]
        /\ drainIdx = 1 /\ index = [i \in Items |-> 1]
        /\ lock = Nobody
        /\ pc = [t \in Threads |-> "out"]
        /\ stores = << >> /\ span = << >>

-----------------------------------------------------------------------------
LodIsEmpty == ~IsLinked(ptr, Queue)
GetHead == ptr[<<"next", Queue>>]
GetNext(i) == ptr[<<"next", i>>]
GetPreceding(i) == ptr[<<"prev", i>>]

Lock(t) == lock = Nobody /\ lock' = t
Unlock(t) == lock = t /\ stores = << >> /\ lock' = Nobody

Goto(t, from, to) == pc[t] = from /\ pc' = [pc EXCEPT ![t] = to]

Linked(i) == IsLinked(ptr, i)

\* The items in the queue, when nobody changes it.
Queued == ToSet(Backward(ptr, Queue, NumItems))

Store == /\ stores # << >>
         /\ ptr' = Write(ptr, Head(stores))
         /\ stores' = Tail(stores)
         /\ UNCHANGED <<drainable, drainIdx, index, lock, pc, span>>

\* _mutexgear_completion_drainidx_increment: past the largest, 0 is skipped.
Increment(i) == IF i = LastDrainIdx THEN 1 ELSE i + 1

\* Bound: indices do not come back while an item enqueued at one of them is about
\* (they have as many values as there are positive ptrdiff_t).
IndexIsFresh == \A i \in Items : pc[i] \in {"in", "drain", "drained"} =>
                                   index[i] # Increment(drainIdx)

-----------------------------------------------------------------------------
(* Coming in.                                                              *)

\* At the end of a drainable queue; the drain index is taken under the same lock.
Enqueue(i) ==
  /\ drainable
  /\ Goto(i, "out", "enqueue") /\ Lock(i)
  /\ index' = [index EXCEPT ![i] = drainIdx]
  /\ stores' = LinkAt(ptr, i, i, Queue)
  /\ UNCHANGED <<drainable, ptr, drainIdx, span>>

\* Anywhere in a plain queue.
EnqueueBefore(i, before) ==
  /\ ~drainable
  /\ Goto(i, "out", "enqueue") /\ Lock(i)
  /\ before \in Queued \cup {Queue}
  /\ stores' = LinkAt(ptr, i, i, before)
  /\ UNCHANGED <<drainable, ptr, drainIdx, index, span>>

\* unsafemultiqueue_before: i has chained j to itself before.
EnqueueChain(i, j, before) ==
  /\ ~drainable /\ i # j /\ pc[i] = "out" /\ pc[j] = "out" /\ Lock(i)
  /\ pc' = [pc EXCEPT ![i] = "enqueue", ![j] = "enqueue"]
  /\ before \in Queued \cup {Queue}
  /\ LET chained == Write(Write(ptr, <<"next", i, j>>), <<"prev", j, i>>) IN
     /\ ptr' = chained
     /\ stores' = LinkAt(chained, i, j, before)
  /\ UNCHANGED <<drainable, drainIdx, index, span>>

EnqueueReturn(i) ==
  /\ pc[i] = "enqueue" /\ Unlock(i)
  /\ pc' = [t \in Threads |-> IF pc[t] = "enqueue" THEN "in" ELSE pc[t]]
  /\ UNCHANGED <<drainable, ptr, drainIdx, index, stores, span>>

-----------------------------------------------------------------------------
(* Moving.                                                                 *)

\* spliceat by the holder of the lock.
Splice(before, begin, end) ==
  LET s == SpliceAt(ptr, before, begin, end) IN
  /\ stores' = s
  /\ span' = IF s = << >> THEN << >> ELSE << begin, GetPreceding(end) >>

\* unsafespliceat: one item to another place in the queue.
Move(i, before) ==
  /\ ~drainable
  /\ Goto(i, "in", "move") /\ Lock(i)
  /\ before \in (Queued \cup {Queue}) \ {i}
  /\ Splice(before, i, GetNext(i))
  /\ UNCHANGED <<drainable, ptr, drainIdx, index>>

MoveReturn(i) ==
  /\ Goto(i, "move", "in") /\ Unlock(i)
  /\ span' = << >>
  /\ UNCHANGED <<drainable, ptr, drainIdx, index, stores>>

\* Mutant: the index is not looked at.
DrainsAlways(i) == TRUE

Drains(i) == i = GetHead \/ index[i] = drainIdx

\* unsafedrain__locked, when the request is not ignored.
DrainFrom(i) == /\ drainable /\ IndexIsFresh
                /\ Lock(i)
                /\ Drains(i)
                /\ Splice(Drain, i, Queue)
                /\ UNCHANGED <<drainable, ptr, drainIdx, index>>

SafeDrain(i) == Goto(i, "in", "drained") /\ DrainFrom(i)

\* safefinish with a drain: the item is unlinked after the splice.
FinishDraining(i) == Goto(i, "in", "drain") /\ DrainFrom(i)

\* unsafedsplice__locked, for one who waits for all that is in the queue.
SpliceAll ==
  /\ drainable /\ IndexIsFresh
  /\ Goto(Splicer, "out", "drained") /\ Lock(Splicer)
  /\ Splice(Drain, GetHead, Queue)
  /\ UNCHANGED <<drainable, ptr, drainIdx, index>>

\* The index changes after the list.
Drained(t) ==
  /\ lock = t /\ stores = << >>
  /\ drainIdx' = Increment(drainIdx)
  /\ span' = << >>
  /\ \/ /\ Goto(t, "drain", "finish")
        /\ stores' = Unlink(ptr, t)
        /\ UNCHANGED lock
     \/ /\ Goto(t, "drained", IF t = Splicer THEN "out" ELSE "in")
        /\ lock' = Nobody
        /\ UNCHANGED stores
  /\ UNCHANGED <<drainable, ptr, index>>

-----------------------------------------------------------------------------
(* Going.                                                                  *)

\* safefinish, of a plain queue or with a drain that is not due.
Finish(i) ==
  /\ Goto(i, "in", "finish") /\ Lock(i)
  /\ stores' = Unlink(ptr, i)
  /\ UNCHANGED <<drainable, ptr, drainIdx, index, span>>

FinishReturn(i) ==
  /\ Goto(i, "finish", "out") /\ Unlock(i)
  /\ UNCHANGED <<drainable, ptr, drainIdx, index, stores, span>>

Next == \/ Store \/ SpliceAll
        \/ \E i \in Items :
             \/ EnqueueReturn(i) \/ MoveReturn(i) \/ FinishReturn(i)
             \/ Enqueue(i) \/ SafeDrain(i) \/ FinishDraining(i) \/ Finish(i)
             \/ \E before \in Nodes : EnqueueBefore(i, before) \/ Move(i, before)
             \/ \E j \in Items, before \in Nodes : EnqueueChain(i, j, before)
        \/ \E t \in Threads : Drained(t)

Spec == Init /\ [][Next]_vars

-----------------------------------------------------------------------------
(***************************************************************************)
(* Properties.                                                             *)
(***************************************************************************)

\* The items of a splice are in neither list from the second to the fifth store.
Moving == IF span # << >> /\ Len(stores) \in 2 .. 4
            THEN Span(ptr, span[1], span[2], NumItems) ELSE << >>

Abstract == INSTANCE DrainSpec WITH
              queue <- Backward(ptr, Queue, NumItems),
              drain <- Backward(ptr, Drain, NumItems),
              moving <- Moving

(* Between any two stores, the previous pointers that are read without the   *)
(* lock show two sequences of items, changed as DrainSpec allows: nothing is *)
(* lost, doubled or reordered, and a drain request never takes items along   *)
(* that are in the drain already (unsafedrain__locked in src/completion.h).  *)
AbstractSpec == Abstract!Spec

(* Whenever the lock is free both directions of each list agree, every item  *)
(* that is in is in exactly one list, and an item that is out is unlinked    *)
(* (the assertions of linkat, unlink and item_destroy).                      *)
ListsConsistent ==
  /\ TypeOK
  /\ lock = Nobody =>
       LET queue == Forward(ptr, Queue, NumItems)
           drain == Forward(ptr, Drain, NumItems) IN
       /\ queue = Backward(ptr, Queue, NumItems)
       /\ drain = Backward(ptr, Drain, NumItems)
       /\ IsInjective(queue \o drain)
       /\ LodIsEmpty <=> queue = << >>
       /\ \A i \in Items : /\ pc[i] = "in" <=> i \in ToSet(queue \o drain)
                           /\ pc[i] = "in" <=> Linked(i)
=============================================================================
