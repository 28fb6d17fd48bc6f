-------------------------- MODULE CompletionProofs --------------------------
(***************************************************************************)
(* The completion queue for any number of workers, waiters and items: the  *)
(* detach handshake protects items, workers and waiters, no wake-up is     *)
(* lost, cancels reach the right worker, the wheels are used as wheel.h    *)
(* demands, and the queue implements Handling.                             *)
(***************************************************************************)
EXTENDS Completion, ListFacts

\* Where a worker is while its item is in the queue.
Handles(w) == pc[w] \in {"busy", "recheck", "finish"}

\* The waiter may find its item not finished.
MayBlock(t) == pc[t] \in {"check", "grip", "test", "turn"}

(* The worker of an item, its place in the queue and its wow.                *)
WorkersOwnItems ==
  \A w \in Workers :
    /\ item[w] = None <=> pc[w] \in {"off", "idle"}
    /\ \A v \in Workers : item[w] = item[v] /\ item[w] # None => w = v
    /\ workerDetach = w <=> pc[w] \in {"signal", "advance", "meet", "leave"}
    /\ \A i \in Items : item[w] = i =>
         /\ i \in ToSet(queue) <=> Handles(w)
         /\ pc[w] \in {"enqueue", "reinit"} => wow[i] = w
         /\ Handles(w) \/ pc[w] = "unlinked" => wow[i] \in {w} \cup Waiters
         /\ pc[w] \in {"detach", "signal"} => wow[i] = peer[w] /\ peer[w] \in Waiters
         /\ pc[w] \in {"advance", "meet", "leave", "untag"} => wow[i] = None

(* An item that no worker has is as it was before its use.                   *)
OthersUntouched ==
  \A i \in Items : (\A w \in Workers : item[w] # i) => wow[i] = None /\ i \notin cancelTag

(* A waiter in wow is attached to that item.                                 *)
WowNamesWaiter ==
  \A i \in Items, t \in Waiters : wow[i] = t => item[t] = i /\ MayBlock(t)

(* The waiter of an item, its locks and its worker.                          *)
WaitersAttach ==
  \A t \in Waiters :
    /\ item[t] = None <=> pc[t] \in {"idle", "confirm"}
    /\ \A u \in Waiters : item[t] = item[u] /\ item[t] # None => t = u
    /\ accessLock = t <=> pc[t] \in {"locked", "publish"}
    /\ t \in waitDetach <=> pc[t] = "publish" \/ Attached(t)
    /\ \A i \in Items : item[t] = i =>
         /\ pc[t] = "locked" =>
              /\ i \in ToSet(queue) /\ peer[t] = wow[i] /\ peer[t] \in Workers \cup {None}
         /\ pc[t] = "publish" \/ Attached(t) => peer[t] \in Workers /\ item[peer[t]] = i
         /\ pc[t] = "publish" => Handles(peer[t]) /\ wow[i] = peer[t]
         /\ Attached(t) =>
              \/ /\ wow[i] = t /\ MayBlock(t)
                 /\ Handles(peer[t]) \/ pc[peer[t]] \in {"unlinked", "detach", "signal"}
              \/ /\ wow[i] = None
                 /\ pc[peer[t]] \in {"advance", "meet"} /\ peer[peer[t]] = t

(* A worker that gives back an item meets the waiter that waited for it,     *)
(* or finds it on its way out.                                               *)
WorkersMeet ==
  \A w \in Workers :
    /\ pc[w] = "recheck" => peer[w] = wow[item[w]] /\ peer[w] \in Waiters
    /\ pc[w] \in {"signal", "advance", "meet"} =>
         /\ peer[w] \in Waiters
         /\ pc[peer[w]] = "confirm" \/ (Attached(peer[w]) /\ peer[peer[w]] = w)

(* The wheel of a worker: who grips it, and that a signal is there when it   *)
(* is needed.                                                                *)
WheelsFollow ==
  /\ \A w \in Workers :
       /\ wheel[w].engaged <=> pc[w] # "off"
       /\ wheel[w].pending => wheel[w].gripped # None
       /\ \A t \in Waiters :
            wheel[w].gripped = t <=> pc[t] \in {"test", "turn", "release"} /\ peer[t] = w
  /\ NoWaitLost

\* A waiter has told the worker of i to cancel, and it may be in wow already.
CancelAsked(i) ==
  \E t \in Waiters : (pc[t] = "publish" \/ Attached(t)) /\ item[t] = i /\ intent[t] = "cancel"
CancelPublished(i) ==
  \E t \in Waiters : Attached(t) /\ item[t] = i /\ intent[t] = "cancel"

(* The tag of an item tells of a waiter that cancels.                        *)
TagsFollow ==
  \A w \in Workers, i \in Items : item[w] = i =>
    /\ pc[w] = "enqueue" => i \notin cancelTag /\ ~canceled[w]
    /\ Handles(w) => (i \in cancelTag <=> CancelAsked(i))
    /\ pc[w] \in {"busy", "recheck"} /\ canceled[w] => CancelPublished(i)

IInv == /\ TypeOK /\ IsInjective(queue)
        /\ WorkersOwnItems /\ OthersUntouched /\ WowNamesWaiter
        /\ WaitersAttach /\ WorkersMeet /\ WheelsFollow /\ TagsFollow

-----------------------------------------------------------------------------
(* All queues and threads at rest.                                           *)
LEMMA InitIInv == Init => IInv
<1> SUFFICES ASSUME Init PROVE IInv
  OBVIOUS
<1> USE CompletionAssumption, EmptyList DEF Init, Threads
<1>1. TypeOK /\ IsInjective(queue)
  BY DEF TypeOK, WorkerPC, WaiterPC, WheelState
<1>2. WorkersOwnItems /\ OthersUntouched /\ WowNamesWaiter /\ WaitersAttach
  BY DEF WorkersOwnItems, OthersUntouched, WowNamesWaiter, WaitersAttach, Attached, Handles
<1>3. WorkersMeet /\ WheelsFollow /\ TagsFollow
  BY DEF WorkersMeet, WheelsFollow, TagsFollow, NoWaitLost, Handles
<1>. QED BY <1>1, <1>2, <1>3 DEF IInv

(* Changing one field of one wheel.                                          *)
LEMMA WheelUpdates ==
  ASSUME NEW v \in Workers, wheel \in [Workers -> WheelState]
  PROVE  /\ \A e \in BOOLEAN : wheel' = [wheel EXCEPT ![v].engaged = e] =>
              /\ wheel' \in [Workers -> WheelState]
              /\ wheel'[v].engaged = e
              /\ wheel'[v].gripped = wheel[v].gripped /\ wheel'[v].pending = wheel[v].pending
              /\ \A u \in Workers : u # v => wheel'[u] = wheel[u]
         /\ \A p \in BOOLEAN : wheel' = [wheel EXCEPT ![v].pending = p] =>
              /\ wheel' \in [Workers -> WheelState]
              /\ wheel'[v].pending = p
              /\ wheel'[v].gripped = wheel[v].gripped /\ wheel'[v].engaged = wheel[v].engaged
              /\ \A u \in Workers : u # v => wheel'[u] = wheel[u]
BY DEF WheelState

(* The wheel of the worker of t after t has gripped it.                       *)
LEMMA GripChanges ==
  ASSUME NEW t \in Waiters, peer[t] \in Workers, wheel \in [Workers -> WheelState],
         GripOnWheel(t)
  PROVE  /\ wheel' \in [Workers -> WheelState]
         /\ wheel'[peer[t]].engaged = wheel[peer[t]].engaged
         /\ wheel'[peer[t]].gripped = t
         /\ \A v \in Workers : v # peer[t] => wheel'[v] = wheel[v]
<1>1. PICK b \in BOOLEAN :
        wheel' = [wheel EXCEPT ![peer[t]].gripped = t, ![peer[t]].pending = b]
  BY DEF GripOnWheel
<1>. QED BY <1>1 DEF WheelState

(* The wheel of the worker of t after t has released it.                      *)
LEMMA ReleaseChanges ==
  ASSUME NEW t \in Waiters, peer[t] \in Workers, wheel \in [Workers -> WheelState],
         ReleaseWheel(t)
  PROVE  /\ wheel' \in [Workers -> WheelState]
         /\ wheel'[peer[t]].engaged = wheel[peer[t]].engaged
         /\ wheel'[peer[t]].gripped = None /\ ~wheel'[peer[t]].pending
         /\ \A v \in Workers : v # peer[t] => wheel'[v] = wheel[v]
BY DEF ReleaseWheel, WheelState

(* A waiter on its way through a wait, its item and its worker.              *)
LEMMA AttachedWaiter ==
  ASSUME IInv, NEW t \in Waiters, pc[t] = "publish" \/ Attached(t)
  PROVE  /\ item[t] \in Items /\ peer[t] \in Workers /\ item[peer[t]] = item[t]
         /\ pc[peer[t]] \in {"busy", "recheck", "finish", "unlinked", "detach", "signal",
                             "advance", "meet"}
BY CompletionAssumption
   DEF IInv, TypeOK, Threads, WaitersAttach, Attached, MayBlock, Handles

(* A step that no waiting waiter takes leaves the cancels as they are.       *)
LEMMA CancelsStay ==
  ASSUME \A u \in Waiters :
           \/ pc'[u] = pc[u] /\ item'[u] = item[u] /\ intent'[u] = intent[u]
           \/ ~(pc[u] = "publish" \/ Attached(u)) /\ ~(pc[u] = "publish" \/ Attached(u))'
  PROVE  \A i : (CancelAsked(i)' <=> CancelAsked(i)) /\ (CancelPublished(i)' <=> CancelPublished(i))
<1> SUFFICES ASSUME NEW i
             PROVE  (CancelAsked(i)' <=> CancelAsked(i)) /\ (CancelPublished(i)' <=> CancelPublished(i))
  OBVIOUS
<1>1. \A u \in Waiters : /\ (pc[u] = "publish" \/ Attached(u)) /\ item[u] = i /\ intent[u] = "cancel"
                          <=> ((pc[u] = "publish" \/ Attached(u)) /\ item[u] = i /\ intent[u] = "cancel")'
  BY DEF Attached
<1>2. \A u \in Waiters : /\ Attached(u) /\ item[u] = i /\ intent[u] = "cancel"
                          <=> (Attached(u) /\ item[u] = i /\ intent[u] = "cancel")'
  BY DEF Attached
<1>. QED BY <1>1, <1>2 DEF CancelAsked, CancelPublished

(* A worker has one waiter at a time.                                        *)
LEMMA OneWaiterEach ==
  ASSUME IInv, NEW t \in Waiters, NEW u \in Waiters, Attached(t), Attached(u),
         peer[t] = peer[u]
  PROVE  t = u
BY AttachedWaiter, CompletionAssumption DEF IInv, WaitersAttach

(* Each step of a worker, and what of the invariant it disturbs.             *)
LEMMA WorkerKeepsIInv ==
  ASSUME IInv, NEW w \in Workers, 
         WorkerLock(w) \/ WorkerUnlock(w) \/ Start(w) \/ WorkerStep(w) \/ \E i \in Items : Prestart(w, i)
  PROVE  IInv'
<1> USE CompletionAssumption DEF IInv, TypeOK, Threads, lockVars, Goto, QueueLockFree, Started, Queued,
        WorkersOwnItems, OthersUntouched, WowNamesWaiter, WaitersAttach, WorkersMeet,
        WheelsFollow, TagsFollow, CancelAsked, CancelPublished, Handles, MayBlock, Attached, NoWaitLost, WorkerPC, WaiterPC,
        WheelState, HasTag, WithTag
<1>1. CASE WorkerLock(w)
  <2>3. wheel' = [wheel EXCEPT ![w].engaged = TRUE]
    BY <1>1 DEF WorkerLock
  <2>4. /\ wheel' \in [Workers -> WheelState]
        /\ wheel'[w].engaged /\ wheel'[w].gripped = wheel[w].gripped
        /\ wheel'[w].pending = wheel[w].pending
        /\ \A v \in Workers : v # w => wheel'[v] = wheel[v]
    BY <2>3, WheelUpdates
  <2>5. TypeOK'
    BY <1>1, <2>4 DEF WorkerLock
  <2>6. IsInjective(queue)'
    BY <1>1 DEF WorkerLock
  <2>7. (WorkersOwnItems /\ OthersUntouched /\ WowNamesWaiter)'
    BY <1>1 DEF WorkerLock
  <2>8. WaitersAttach'
    BY <1>1 DEF WorkerLock
  <2>9. WorkersMeet'
    BY <1>1 DEF WorkerLock
  <2>10. WheelsFollow'
    BY <1>1, <2>4 DEF WorkerLock
  <2>11. TagsFollow'
    BY <1>1 DEF WorkerLock
  <2>. QED BY <2>5, <2>6, <2>7, <2>8, <2>9, <2>10, <2>11
<1>2. CASE WorkerUnlock(w)
  <2>3. wheel' = [wheel EXCEPT ![w].engaged = FALSE]
    BY <1>2 DEF WorkerUnlock
  <2>4. /\ wheel' \in [Workers -> WheelState]
        /\ ~wheel'[w].engaged /\ wheel'[w].gripped = wheel[w].gripped
        /\ wheel'[w].pending = wheel[w].pending
        /\ \A v \in Workers : v # w => wheel'[v] = wheel[v]
    BY <2>3, WheelUpdates
  <2>5. TypeOK'
    BY <1>2, <2>4 DEF WorkerUnlock
  <2>6. IsInjective(queue)'
    BY <1>2 DEF WorkerUnlock
  <2>7. (WorkersOwnItems /\ OthersUntouched /\ WowNamesWaiter)'
    BY <1>2 DEF WorkerUnlock
  <2>8. WaitersAttach'
    BY <1>2 DEF WorkerUnlock
  <2>9. WorkersMeet'
    BY <1>2 DEF WorkerUnlock
  <2>10. WheelsFollow'
    BY <1>2, <2>4 DEF WorkerUnlock
  <2>11. TagsFollow'
    BY <1>2 DEF WorkerUnlock
  <2>. QED BY <2>5, <2>6, <2>7, <2>8, <2>9, <2>10, <2>11
<1>3. CASE Start(w)
  <2>2. PICK k \in DOMAIN queue :
          /\ ~Started(queue[k])
          /\ wow' = [wow EXCEPT ![queue[k]] = w]
          /\ item' = [item EXCEPT ![w] = queue[k]]
    BY <1>3 DEF Start
  <2> DEFINE i == queue[k]
  <2>3. i \in Items /\ i \in ToSet(queue) /\ wow[i] = None /\ accessLock = None
    BY <1>3, <2>2 DEF Start, ToSet
  <2>. HIDE DEF i
  <2>4. \A v \in Workers : item[v] # i
    BY <2>3
  <2>5. i \notin cancelTag
    BY <2>3, <2>4
  <2>6. \A t \in Waiters : item[t] = i => pc[t] \notin {"locked", "publish"} /\ ~Attached(t)
    BY <2>3, <2>4
  <2>7. /\ pc[w] = "idle" /\ pc' = [pc EXCEPT ![w] = "busy"]
        /\ wow' = [wow EXCEPT ![i] = w] /\ item' = [item EXCEPT ![w] = i]
        /\ canceled' = [canceled EXCEPT ![w] = FALSE]
        /\ UNCHANGED <<queue, lockVars, cancelTag, wheel, peer, intent>>
    BY <1>3, <2>2 DEF Start, i
  <2>8. (TypeOK /\ IsInjective(queue))'
    BY <2>3, <2>4, <2>5, <2>6, <2>7
  <2>9. (WorkersOwnItems /\ OthersUntouched /\ WowNamesWaiter)'
    BY <2>3, <2>4, <2>5, <2>6, <2>7
  <2>10. WaitersAttach'
    BY <2>3, <2>4, <2>5, <2>6, <2>7
  <2>11. (WorkersMeet /\ WheelsFollow)'
    BY <2>3, <2>4, <2>5, <2>6, <2>7
  <2>12. TagsFollow'
    BY <2>3, <2>4, <2>5, <2>6, <2>7
  <2>. QED BY <2>8, <2>9, <2>10, <2>11, <2>12
<1>4. ASSUME NEW i \in Items, Prestart(w, i) PROVE IInv'
  <2>1. (TypeOK /\ IsInjective(queue))'
    BY <1>4 DEF Prestart, Unused
  <2>2. (WorkersOwnItems /\ OthersUntouched /\ WowNamesWaiter)'
    BY <1>4 DEF Prestart, Unused
  <2>3. WaitersAttach'
    BY <1>4 DEF Prestart, Unused
  <2>4. (WorkersMeet /\ WheelsFollow)'
    BY <1>4 DEF Prestart, Unused
  <2>5. TagsFollow'
    <3>1. \A u \in Waiters :
            \/ pc'[u] = pc[u] /\ item'[u] = item[u] /\ intent'[u] = intent[u]
            \/ ~(pc[u] = "publish" \/ Attached(u)) /\ ~(pc[u] = "publish" \/ Attached(u))'
      BY <1>4 DEF Prestart, Unused
    <3>2. \A j : (CancelAsked(j)' <=> CancelAsked(j)) /\ (CancelPublished(j)' <=> CancelPublished(j))
      BY <3>1, CancelsStay
    <3>3. cancelTag' = cancelTag /\ i \notin cancelTag /\ pc'[w] = "enqueue" /\ item'[w] = i /\ ~canceled'[w]
      BY <1>4 DEF Prestart, Unused
    <3>4. \A v \in Workers : v # w => pc'[v] = pc[v] /\ item'[v] = item[v] /\ canceled'[v] = canceled[v]
      BY <1>4 DEF Prestart, Unused
    <3>. HIDE DEF CancelAsked, CancelPublished
    <3>. QED BY <3>2, <3>3, <3>4
  <2>. QED BY <2>1, <2>2, <2>3, <2>4, <2>5
<1>5. CASE EnqueuePrestarted(w)
  <2>1. queue' \in Seq(Items) /\ IsInjective(queue') /\ ToSet(queue') = ToSet(queue) \cup {item[w]}
    BY <1>5, AppendToList DEF EnqueuePrestarted
  <2>2. item[w] \in Items /\ pc[w] = "enqueue"
    BY <1>5 DEF EnqueuePrestarted
  <2>3. \A t \in Waiters : item[t] = item[w] => ~(pc[t] = "publish" \/ Attached(t))
    BY <2>2, AttachedWaiter
  <2>4. (TypeOK /\ IsInjective(queue))'
    BY <1>5, <2>1 DEF EnqueuePrestarted
  <2>5. (WorkersOwnItems /\ OthersUntouched /\ WowNamesWaiter)'
    BY <1>5, <2>1 DEF EnqueuePrestarted
  <2>6. WaitersAttach'
    BY <1>5, <2>1 DEF EnqueuePrestarted
  <2>7. (WorkersMeet /\ WheelsFollow)'
    BY <1>5, <2>1 DEF EnqueuePrestarted
  <2>8. TagsFollow'
    <3>1. ASSUME NEW v \in Workers, v # w, NEW i \in Items, item'[v] = i
          PROVE  pc'[v] = pc[v] /\ item[v] = i
      BY <1>5, <3>1 DEF EnqueuePrestarted
    <3>2. /\ pc'[w] = "busy" /\ ~canceled'[w] /\ item'[w] = item[w] /\ item[w] \notin cancelTag'
          /\ UNCHANGED <<item, intent, canceled, cancelTag>>
          /\ \A t \in Waiters : pc'[t] = pc[t]
      BY <1>5, <2>2 DEF EnqueuePrestarted
    <3>. QED BY <2>2, <2>3, <3>1, <3>2
  <2>. QED BY <2>4, <2>5, <2>6, <2>7, <2>8
<1>6. CASE AskCanceled(w)
  <2>2. CASE wow[item[w]] = w
    <3>1. UNCHANGED <<pc, peer>> /\ canceled' = [canceled EXCEPT ![w] = FALSE]
      BY <1>6, <2>2 DEF AskCanceled
    <3>2. UNCHANGED <<queue, lockVars, wow, cancelTag, wheel, item, intent>>
      BY <1>6 DEF AskCanceled
    <3>. QED BY <3>1, <3>2
  <2>3. CASE wow[item[w]] # w
    <3>1. /\ pc[w] = "busy" /\ pc' = [pc EXCEPT ![w] = "recheck"]
          /\ peer' = [peer EXCEPT ![w] = wow[item[w]]]
          /\ wow[item[w]] \in Waiters /\ item[w] \in Items
          /\ UNCHANGED <<queue, lockVars, wow, cancelTag, wheel, item, intent, canceled>>
      BY <1>6, <2>3 DEF AskCanceled
    <3>3. (TypeOK /\ IsInjective(queue))'
      BY <3>1
    <3>4. (WorkersOwnItems /\ OthersUntouched /\ WowNamesWaiter)'
      BY <3>1
    <3>5. WaitersAttach'
      BY <3>1
    <3>6. (WorkersMeet /\ WheelsFollow)'
      BY <3>1
    <3>7. TagsFollow'
      BY <3>1
    <3>. QED BY <3>3, <3>4, <3>5, <3>6, <3>7
  <2>. QED BY <2>2, <2>3
<1>7. CASE RecheckCanceled(w)
  <2>1. (TypeOK /\ IsInjective(queue))'
    BY <1>7 DEF RecheckCanceled
  <2>2. (WorkersOwnItems /\ OthersUntouched /\ WowNamesWaiter)'
    BY <1>7 DEF RecheckCanceled
  <2>3. WaitersAttach'
    BY <1>7 DEF RecheckCanceled
  <2>4. (WorkersMeet /\ WheelsFollow)'
    BY <1>7 DEF RecheckCanceled
  <2>5. TagsFollow'
    BY <1>7 DEF RecheckCanceled
  <2>. QED BY <2>1, <2>2, <2>3, <2>4, <2>5
<1>8. CASE FinishCall(w)
  <2>1. (TypeOK /\ IsInjective(queue))'
    BY <1>8 DEF FinishCall
  <2>2. (WorkersOwnItems /\ OthersUntouched /\ WowNamesWaiter)'
    BY <1>8 DEF FinishCall
  <2>3. WaitersAttach'
    BY <1>8 DEF FinishCall
  <2>4. (WorkersMeet /\ WheelsFollow)'
    BY <1>8 DEF FinishCall
  <2>5. TagsFollow'
    BY <1>8 DEF FinishCall
  <2>. QED BY <2>1, <2>2, <2>3, <2>4, <2>5
<1>9. CASE Unlink(w)
  <2>1. queue' \in Seq(Items) /\ IsInjective(queue') /\ ToSet(queue') = ToSet(queue) \ {item[w]}
    BY <1>9, RemoveFromList DEF Unlink
  <2>2. (TypeOK /\ IsInjective(queue))'
    BY <1>9, <2>1 DEF Unlink
  <2>3. (WorkersOwnItems /\ OthersUntouched /\ WowNamesWaiter)'
    BY <1>9, <2>1 DEF Unlink
  <2>4. WaitersAttach'
    BY <1>9, <2>1 DEF Unlink
  <2>5. (WorkersMeet /\ WheelsFollow)'
    BY <1>9, <2>1 DEF Unlink
  <2>6. TagsFollow'
    BY <1>9, <2>1 DEF Unlink
  <2>. QED BY <2>2, <2>3, <2>4, <2>5, <2>6
<1>10. CASE ReadWaiter(w)
  <2>1. (TypeOK /\ IsInjective(queue))'
    BY <1>10 DEF ReadWaiter
  <2>2. (WorkersOwnItems /\ OthersUntouched /\ WowNamesWaiter)'
    BY <1>10 DEF ReadWaiter
  <2>3. WaitersAttach'
    BY <1>10 DEF ReadWaiter
  <2>4. (WorkersMeet /\ WheelsFollow)'
    BY <1>10 DEF ReadWaiter
  <2>5. TagsFollow'
    BY <1>10 DEF ReadWaiter
  <2>. QED BY <2>1, <2>2, <2>3, <2>4, <2>5
<1>11. CASE Reinit(w)
  <2>1. (TypeOK /\ IsInjective(queue))'
    BY <1>11 DEF Reinit
  <2>2. (WorkersOwnItems /\ OthersUntouched /\ WowNamesWaiter)'
    BY <1>11 DEF Reinit
  <2>3. WaitersAttach'
    BY <1>11 DEF Reinit
  <2>4. (WorkersMeet /\ WheelsFollow)'
    BY <1>11 DEF Reinit
  <2>5. TagsFollow'
    BY <1>11 DEF Reinit
  <2>. QED BY <2>1, <2>2, <2>3, <2>4, <2>5
<1>12. CASE AcquireWorkerDetach(w)
  <2>1. (TypeOK /\ IsInjective(queue))'
    BY <1>12 DEF AcquireWorkerDetach
  <2>2. (WorkersOwnItems /\ OthersUntouched /\ WowNamesWaiter)'
    BY <1>12 DEF AcquireWorkerDetach
  <2>3. WaitersAttach'
    BY <1>12 DEF AcquireWorkerDetach
  <2>4. WorkersMeet'
    BY <1>12 DEF AcquireWorkerDetach
  <2>5. WheelsFollow'
    BY <1>12 DEF AcquireWorkerDetach
  <2>6. TagsFollow'
    BY <1>12 DEF AcquireWorkerDetach
  <2>. QED BY <2>1, <2>2, <2>3, <2>4, <2>5, <2>6
<1>13. CASE ClearWow(w)
  <2>1. (TypeOK /\ IsInjective(queue))'
    BY <1>13 DEF ClearWow
  <2>2. (WorkersOwnItems /\ OthersUntouched /\ WowNamesWaiter)'
    BY <1>13 DEF ClearWow
  <2>3. WaitersAttach'
    BY <1>13 DEF ClearWow
  <2>4. (WorkersMeet /\ WheelsFollow)'
    BY <1>13 DEF ClearWow
  <2>5. TagsFollow'
    BY <1>13 DEF ClearWow
  <2>. QED BY <2>1, <2>2, <2>3, <2>4, <2>5
<1>14. CASE AdvanceWheel(w)
  <2>1. (TypeOK /\ IsInjective(queue))'
    BY <1>14 DEF AdvanceWheel
  <2>2. (WorkersOwnItems /\ OthersUntouched /\ WowNamesWaiter)'
    BY <1>14 DEF AdvanceWheel
  <2>3. WaitersAttach'
    BY <1>14 DEF AdvanceWheel
  <2>4. (WorkersMeet /\ WheelsFollow)'
    BY <1>14 DEF AdvanceWheel
  <2>5. TagsFollow'
    BY <1>14 DEF AdvanceWheel
  <2>. QED BY <2>1, <2>2, <2>3, <2>4, <2>5
<1>15. CASE MeetWaiter(w)
  <2>1. (TypeOK /\ IsInjective(queue))'
    BY <1>15 DEF MeetWaiter
  <2>2. (WorkersOwnItems /\ OthersUntouched /\ WowNamesWaiter)'
    BY <1>15 DEF MeetWaiter
  <2>3. WaitersAttach'
    BY <1>15 DEF MeetWaiter
  <2>4. (WorkersMeet /\ WheelsFollow)'
    BY <1>15 DEF MeetWaiter
  <2>5. TagsFollow'
    BY <1>15 DEF MeetWaiter
  <2>. QED BY <2>1, <2>2, <2>3, <2>4, <2>5
<1>16. CASE ReleaseWorkerDetach(w)
  <2>1. (TypeOK /\ IsInjective(queue))'
    BY <1>16 DEF ReleaseWorkerDetach
  <2>2. (WorkersOwnItems /\ OthersUntouched /\ WowNamesWaiter)'
    BY <1>16 DEF ReleaseWorkerDetach
  <2>3. WaitersAttach'
    BY <1>16 DEF ReleaseWorkerDetach
  <2>4. (WorkersMeet /\ WheelsFollow)'
    BY <1>16 DEF ReleaseWorkerDetach
  <2>5. TagsFollow'
    BY <1>16 DEF ReleaseWorkerDetach
  <2>. QED BY <2>1, <2>2, <2>3, <2>4, <2>5
<1>17. CASE ClearTag(w)
  <2>1. (TypeOK /\ IsInjective(queue))'
    BY <1>17 DEF ClearTag
  <2>2. (WorkersOwnItems /\ OthersUntouched /\ WowNamesWaiter)'
    BY <1>17 DEF ClearTag
  <2>3. WaitersAttach'
    BY <1>17 DEF ClearTag
  <2>4. (WorkersMeet /\ WheelsFollow)'
    BY <1>17 DEF ClearTag
  <2>5. TagsFollow'
    <3>1. \A u \in Waiters :
            \/ pc'[u] = pc[u] /\ item'[u] = item[u] /\ intent'[u] = intent[u]
            \/ ~(pc[u] = "publish" \/ Attached(u)) /\ ~(pc[u] = "publish" \/ Attached(u))'
      BY <1>17 DEF ClearTag
    <3>2. \A i : (CancelAsked(i)' <=> CancelAsked(i)) /\ (CancelPublished(i)' <=> CancelPublished(i))
      BY <3>1, CancelsStay
    <3>3. cancelTag' = cancelTag \ {item[w]} /\ pc'[w] = "idle" /\ item'[w] = None
      BY <1>17 DEF ClearTag
    <3>4. \A v \in Workers : v # w => pc'[v] = pc[v] /\ item'[v] = item[v] /\ canceled'[v] = canceled[v]
      BY <1>17 DEF ClearTag
    <3>5. \A v \in Workers : v # w => item[v] # item[w] \/ item[w] = None
      BY <1>17 DEF ClearTag
    <3>. HIDE DEF CancelAsked, CancelPublished
    <3>. QED BY <3>2, <3>3, <3>4, <3>5
  <2>. QED BY <2>1, <2>2, <2>3, <2>4, <2>5
<1>. QED BY <1>1, <1>2, <1>3, <1>4, <1>5, <1>6, <1>7, <1>8, <1>9, <1>10, <1>11, <1>12, <1>13, <1>14, <1>15, <1>16, <1>17 DEF WorkerStep

(* Each step of a waiter.                                                    *)
LEMMA WaiterKeepsIInv ==
  ASSUME IInv, NEW t \in Waiters, 
         WaiterStep(t) \/ \E i \in Items : LockQueue(t, i)
  PROVE  IInv'
<1> USE CompletionAssumption DEF IInv, TypeOK, Threads, lockVars, Goto, QueueLockFree, Started, Queued,
        WorkersOwnItems, OthersUntouched, WowNamesWaiter, WaitersAttach, WorkersMeet,
        WheelsFollow, TagsFollow, CancelAsked, CancelPublished, Handles, MayBlock, Attached, NoWaitLost, WorkerPC, WaiterPC,
        WheelState, HasTag, WithTag
<1>1. CASE WaitNotStarted(t)
  <2>1. (TypeOK /\ IsInjective(queue))'
    BY <1>1 DEF WaitNotStarted
  <2>2. (WorkersOwnItems /\ OthersUntouched /\ WowNamesWaiter)'
    BY <1>1 DEF WaitNotStarted
  <2>3. WaitersAttach'
    BY <1>1 DEF WaitNotStarted
  <2>4. (WorkersMeet /\ WheelsFollow)'
    BY <1>1 DEF WaitNotStarted
  <2>5. TagsFollow'
    BY <1>1 DEF WaitNotStarted
  <2>. QED BY <2>1, <2>2, <2>3, <2>4, <2>5
<1>2. CASE CancelNotStarted(t)
  <2>1. queue' \in Seq(Items) /\ IsInjective(queue') /\ ToSet(queue') = ToSet(queue) \ {item[t]}
    BY <1>2, RemoveFromList DEF CancelNotStarted
  <2>2. (TypeOK /\ IsInjective(queue))'
    BY <1>2, <2>1 DEF CancelNotStarted
  <2>3. (WorkersOwnItems /\ OthersUntouched /\ WowNamesWaiter)'
    BY <1>2, <2>1 DEF CancelNotStarted
  <2>4. WaitersAttach'
    BY <1>2, <2>1 DEF CancelNotStarted
  <2>5. (WorkersMeet /\ WheelsFollow)'
    BY <1>2, <2>1 DEF CancelNotStarted
  <2>6. TagsFollow'
    <3>1. \A u \in Waiters :
            \/ pc'[u] = pc[u] /\ item'[u] = item[u] /\ intent'[u] = intent[u]
            \/ ~(pc[u] = "publish" \/ Attached(u)) /\ ~(pc[u] = "publish" \/ Attached(u))'
      BY <1>2 DEF CancelNotStarted
    <3>2. \A i : (CancelAsked(i)' <=> CancelAsked(i)) /\ (CancelPublished(i)' <=> CancelPublished(i))
      BY <3>1, CancelsStay
    <3>3. UNCHANGED <<cancelTag, canceled>> /\ \A w \in Workers : pc'[w] = pc[w] /\ item'[w] = item[w]
      BY <1>2 DEF CancelNotStarted
    <3>. HIDE DEF CancelAsked, CancelPublished
    <3>. QED BY <3>2, <3>3
  <2>. QED BY <2>2, <2>3, <2>4, <2>5, <2>6
<1>3. CASE AcquireWaitDetach(t)
  <2>2. /\ item[t] \in Items /\ peer[t] \in Workers /\ wow[item[t]] = peer[t]
        /\ item[t] \in ToSet(queue)
    BY <1>3 DEF AcquireWaitDetach
  <2>3. item[peer[t]] = item[t] /\ Handles(peer[t])
    BY <2>2
  <2>4. (TypeOK /\ IsInjective(queue))'
    BY <1>3 DEF AcquireWaitDetach
  <2>5. (WorkersOwnItems /\ OthersUntouched /\ WowNamesWaiter)'
    BY <1>3 DEF AcquireWaitDetach
  <2>6. WaitersAttach'
    BY <1>3, <2>2, <2>3 DEF AcquireWaitDetach
  <2>7. (WorkersMeet /\ WheelsFollow)'
    BY <1>3 DEF AcquireWaitDetach
  <2>8. TagsFollow'
    BY <1>3, <2>2, <2>3 DEF AcquireWaitDetach
  <2>. QED BY <2>4, <2>5, <2>6, <2>7, <2>8
<1>4. CASE PublishWaiter(t)
  <2>1. (TypeOK /\ IsInjective(queue))'
    BY <1>4 DEF PublishWaiter
  <2>2. (WorkersOwnItems /\ OthersUntouched /\ WowNamesWaiter)'
    BY <1>4 DEF PublishWaiter
  <2>3. WaitersAttach'
    BY <1>4 DEF PublishWaiter
  <2>4. (WorkersMeet /\ WheelsFollow)'
    BY <1>4 DEF PublishWaiter
  <2>5. TagsFollow'
    BY <1>4 DEF PublishWaiter
  <2>. QED BY <2>1, <2>2, <2>3, <2>4, <2>5
<1>5. CASE CheckCompleted(t)
  <2>1. (TypeOK /\ IsInjective(queue))'
    BY <1>5 DEF CheckCompleted
  <2>2. (WorkersOwnItems /\ OthersUntouched /\ WowNamesWaiter)'
    BY <1>5 DEF CheckCompleted
  <2>3. WaitersAttach'
    BY <1>5 DEF CheckCompleted
  <2>4. (WorkersMeet /\ WheelsFollow)'
    BY <1>5 DEF CheckCompleted
  <2>5. TagsFollow'
    BY <1>5 DEF CheckCompleted
  <2>. QED BY <2>1, <2>2, <2>3, <2>4, <2>5
<1>6. CASE GripOnWheel(t)
  <2>2. peer[t] \in Workers
    BY <1>6, AttachedWaiter DEF GripOnWheel
  <2>3. /\ wheel' \in [Workers -> WheelState]
        /\ wheel'[peer[t]].engaged = wheel[peer[t]].engaged
        /\ wheel'[peer[t]].gripped = t
        /\ \A v \in Workers : v # peer[t] => wheel'[v] = wheel[v]
    BY <1>6, <2>2, GripChanges
  <2>4. /\ pc[t] = "grip" /\ pc' = [pc EXCEPT ![t] = "test"]
        /\ UNCHANGED <<wow, item, peer>>
    BY <1>6 DEF GripOnWheel
  <2>5. \A u \in Waiters : u # t /\ Attached(u) => peer[u] # peer[t]
    BY <2>4, OneWaiterEach
  <2>6. TypeOK'
    BY <1>6, <2>2, <2>3 DEF GripOnWheel
  <2>7. IsInjective(queue)'
    BY <1>6 DEF GripOnWheel
  <2>8. (WorkersOwnItems /\ OthersUntouched /\ WowNamesWaiter)'
    BY <1>6 DEF GripOnWheel
  <2>9. WaitersAttach'
    BY <1>6 DEF GripOnWheel
  <2>10. WorkersMeet'
    BY <1>6 DEF GripOnWheel
  <2>11. WheelsFollow'
    <3>1. ASSUME NEW w \in Workers
          PROVE  /\ wheel'[w].engaged <=> pc'[w] # "off"
                 /\ wheel'[w].pending => wheel'[w].gripped # None
                 /\ \A u \in Waiters :
                      wheel'[w].gripped = u <=> pc'[u] \in {"test", "turn", "release"} /\ peer'[u] = w
      BY <2>2, <2>3, <2>4, <2>5
    <3>2. ASSUME NEW u \in Waiters, pc'[u] = "turn", ~Started(item[u])'
          PROVE  wheel'[peer'[u]].pending \/ pc'[peer'[u]] = "advance"
      BY <2>2, <2>3, <2>4, <2>5, <3>2, AttachedWaiter
    <3>. QED BY <3>1, <3>2
  <2>12. TagsFollow'
    BY <1>6 DEF GripOnWheel
  <2>. QED BY <2>6, <2>7, <2>8, <2>9, <2>10, <2>11, <2>12
<1>7. CASE TestCompleted(t)
  <2>1. (TypeOK /\ IsInjective(queue))'
    BY <1>7 DEF TestCompleted
  <2>2. (WorkersOwnItems /\ OthersUntouched /\ WowNamesWaiter)'
    BY <1>7 DEF TestCompleted
  <2>3. WaitersAttach'
    BY <1>7 DEF TestCompleted
  <2>4. (WorkersMeet /\ WheelsFollow)'
    BY <1>7 DEF TestCompleted
  <2>5. TagsFollow'
    BY <1>7 DEF TestCompleted
  <2>. QED BY <2>1, <2>2, <2>3, <2>4, <2>5
<1>8. CASE TurnWheel(t)
  <2>2. peer[t] \in Workers
    BY <1>8, AttachedWaiter DEF TurnWheel
  <2>3. wheel' = [wheel EXCEPT ![peer[t]].pending = FALSE]
    BY <1>8 DEF TurnWheel
  <2>4. /\ wheel' \in [Workers -> WheelState]
        /\ wheel'[peer[t]].gripped = wheel[peer[t]].gripped
        /\ wheel'[peer[t]].engaged = wheel[peer[t]].engaged /\ ~wheel'[peer[t]].pending
        /\ \A v \in Workers : v # peer[t] => wheel'[v] = wheel[v]
    BY <2>2, <2>3, WheelUpdates
  <2>5. TypeOK'
    BY <1>8, <2>2, <2>4 DEF TurnWheel
  <2>6. IsInjective(queue)'
    BY <1>8 DEF TurnWheel
  <2>7. (WorkersOwnItems /\ OthersUntouched /\ WowNamesWaiter)'
    BY <1>8 DEF TurnWheel
  <2>8. WaitersAttach'
    BY <1>8 DEF TurnWheel
  <2>9. WorkersMeet'
    BY <1>8 DEF TurnWheel
  <2>10. WheelsFollow'
    BY <1>8, <2>2, <2>4 DEF TurnWheel
  <2>11. TagsFollow'
    BY <1>8 DEF TurnWheel
  <2>. QED BY <2>5, <2>6, <2>7, <2>8, <2>9, <2>10, <2>11
<1>9. CASE ReleaseWheel(t)
  <2>2. peer[t] \in Workers
    BY <1>9, AttachedWaiter DEF ReleaseWheel
  <2>3. /\ wheel' \in [Workers -> WheelState]
        /\ wheel'[peer[t]].engaged = wheel[peer[t]].engaged
        /\ wheel'[peer[t]].gripped = None /\ ~wheel'[peer[t]].pending
        /\ \A v \in Workers : v # peer[t] => wheel'[v] = wheel[v]
    BY <1>9, <2>2, ReleaseChanges
  <2>4. /\ pc[t] = "release" /\ pc' = [pc EXCEPT ![t] = "detach"]
        /\ UNCHANGED <<wow, item, peer>>
    BY <1>9 DEF ReleaseWheel
  <2>5. \A u \in Waiters : u # t /\ Attached(u) => peer[u] # peer[t]
    BY <2>4, OneWaiterEach
  <2>6. TypeOK'
    BY <1>9, <2>2, <2>3 DEF ReleaseWheel
  <2>7. IsInjective(queue)'
    BY <1>9 DEF ReleaseWheel
  <2>8. (WorkersOwnItems /\ OthersUntouched /\ WowNamesWaiter)'
    BY <1>9 DEF ReleaseWheel
  <2>9. WaitersAttach'
    BY <1>9 DEF ReleaseWheel
  <2>10. WorkersMeet'
    BY <1>9 DEF ReleaseWheel
  <2>11. WheelsFollow'
    <3>1. ASSUME NEW w \in Workers
          PROVE  /\ wheel'[w].engaged <=> pc'[w] # "off"
                 /\ wheel'[w].pending => wheel'[w].gripped # None
                 /\ \A u \in Waiters :
                      wheel'[w].gripped = u <=> pc'[u] \in {"test", "turn", "release"} /\ peer'[u] = w
      BY <2>2, <2>3, <2>4, <2>5
    <3>2. ASSUME NEW u \in Waiters, pc'[u] = "turn", ~Started(item[u])'
          PROVE  wheel'[peer'[u]].pending \/ pc'[peer'[u]] = "advance"
      BY <2>2, <2>3, <2>4, <2>5, <3>2, AttachedWaiter
    <3>. QED BY <3>1, <3>2
  <2>12. TagsFollow'
    BY <1>9 DEF ReleaseWheel
  <2>. QED BY <2>6, <2>7, <2>8, <2>9, <2>10, <2>11, <2>12
<1>10. CASE ReleaseWaitDetach(t)
  <2>1. (TypeOK /\ IsInjective(queue))'
    BY <1>10 DEF ReleaseWaitDetach
  <2>2. (WorkersOwnItems /\ OthersUntouched /\ WowNamesWaiter)'
    BY <1>10 DEF ReleaseWaitDetach
  <2>3. WaitersAttach'
    BY <1>10 DEF ReleaseWaitDetach
  <2>4. (WorkersMeet /\ WheelsFollow)'
    BY <1>10 DEF ReleaseWaitDetach
  <2>5. TagsFollow'
    BY <1>10 DEF ReleaseWaitDetach
  <2>. QED BY <2>1, <2>2, <2>3, <2>4, <2>5
<1>11. CASE ConfirmDetached(t)
  <2>1. (TypeOK /\ IsInjective(queue))'
    BY <1>11 DEF ConfirmDetached
  <2>2. (WorkersOwnItems /\ OthersUntouched /\ WowNamesWaiter)'
    BY <1>11 DEF ConfirmDetached
  <2>3. WaitersAttach'
    BY <1>11 DEF ConfirmDetached
  <2>4. (WorkersMeet /\ WheelsFollow)'
    BY <1>11 DEF ConfirmDetached
  <2>5. TagsFollow'
    BY <1>11 DEF ConfirmDetached
  <2>. QED BY <2>1, <2>2, <2>3, <2>4, <2>5
<1>12. ASSUME NEW i \in Items, LockQueue(t, i) PROVE IInv'
  <2>1. (TypeOK /\ IsInjective(queue))'
    BY <1>12 DEF LockQueue, WaitsFor
  <2>2. (WorkersOwnItems /\ OthersUntouched /\ WowNamesWaiter)'
    BY <1>12 DEF LockQueue, WaitsFor
  <2>3. WaitersAttach'
    BY <1>12 DEF LockQueue, WaitsFor
  <2>4. (WorkersMeet /\ WheelsFollow)'
    BY <1>12 DEF LockQueue, WaitsFor
  <2>5. TagsFollow'
    <3>1. \A u \in Waiters :
            \/ pc'[u] = pc[u] /\ item'[u] = item[u] /\ intent'[u] = intent[u]
            \/ ~(pc[u] = "publish" \/ Attached(u)) /\ ~(pc[u] = "publish" \/ Attached(u))'
      BY <1>12 DEF LockQueue
    <3>2. \A j : (CancelAsked(j)' <=> CancelAsked(j)) /\ (CancelPublished(j)' <=> CancelPublished(j))
      BY <3>1, CancelsStay
    <3>3. UNCHANGED <<cancelTag, canceled>> /\ \A w \in Workers : pc'[w] = pc[w] /\ item'[w] = item[w]
      BY <1>12 DEF LockQueue
    <3>. HIDE DEF CancelAsked, CancelPublished
    <3>. QED BY <3>2, <3>3
  <2>. QED BY <2>1, <2>2, <2>3, <2>4, <2>5
<1>. QED BY <1>1, <1>2, <1>3, <1>4, <1>5, <1>6, <1>7, <1>8, <1>9, <1>10, <1>11, <1>12 DEF WaiterStep

(* A producer adds an item that nobody has.                                  *)
LEMMA EnqueueKeepsIInv ==
  ASSUME IInv, NEW i \in Items, Enqueue(i)
  PROVE  IInv'
<1> USE CompletionAssumption DEF IInv, TypeOK, Threads, lockVars, QueueLockFree, Started, Queued
<1>1. queue' \in Seq(Items) /\ IsInjective(queue') /\ ToSet(queue') = ToSet(queue) \cup {i}
  BY AppendToList DEF Enqueue, Unused
<1>2. \A w \in Workers : item[w] # i
  BY DEF Enqueue, Unused
<1>3. UNCHANGED <<lockVars, wow, cancelTag, wheel, pc, item, peer, intent, canceled>>
  BY DEF Enqueue
<1>4. \A w \in Workers : (Handles(w)' <=> Handles(w))
  BY <1>3 DEF Handles
<1>5. \A t \in Waiters : (Attached(t)' <=> Attached(t)) /\ (MayBlock(t)' <=> MayBlock(t))
  BY <1>3 DEF Attached, MayBlock
<1>6. TypeOK' /\ IsInjective(queue)'
  BY <1>1, <1>3
<1>7. WorkersOwnItems' /\ OthersUntouched' /\ WowNamesWaiter'
  BY <1>1, <1>2, <1>3, <1>4, <1>5 DEF WorkersOwnItems, OthersUntouched, WowNamesWaiter
<1>8. WaitersAttach'
  BY <1>1, <1>2, <1>3, <1>4, <1>5 DEF WaitersAttach
<1>9. WorkersMeet' /\ WheelsFollow'
  BY <1>3, <1>5 DEF WorkersMeet, WheelsFollow, NoWaitLost
<1>10. \A j : (CancelAsked(j)' <=> CancelAsked(j)) /\ (CancelPublished(j)' <=> CancelPublished(j))
  BY <1>3, CancelsStay
<1>11. TagsFollow'
  BY <1>3, <1>4, <1>10 DEF TagsFollow
<1>. QED BY <1>6, <1>7, <1>8, <1>9, <1>11

(* All steps together, with the one that changes nothing.                    *)
LEMMA StepKeepsIInv == IInv /\ [Next]_vars => IInv'
<1> SUFFICES ASSUME IInv, [Next]_vars PROVE IInv'
  OBVIOUS
<1>1. ASSUME NEW w \in Workers,
             \/ WorkerLock(w) \/ WorkerUnlock(w) \/ Start(w) \/ WorkerStep(w)
             \/ \E i \in Items : Prestart(w, i)
      PROVE  IInv'
  BY <1>1, WorkerKeepsIInv
<1>2. ASSUME NEW t \in Waiters, WaiterStep(t) \/ \E i \in Items : LockQueue(t, i)
      PROVE  IInv'
  BY <1>2, WaiterKeepsIInv
<1>3. ASSUME NEW i \in Items, Enqueue(i) PROVE IInv'
  BY <1>3, EnqueueKeepsIInv
<1>4. CASE UNCHANGED vars
  <2>1. \A t \in Waiters : (Attached(t)' <=> Attached(t)) /\ (MayBlock(t)' <=> MayBlock(t))
    BY <1>4 DEF Attached, MayBlock, vars
  <2>2. \A w \in Workers : (Handles(w)' <=> Handles(w))
    BY <1>4 DEF Handles, vars
  <2>3. \A j : (CancelAsked(j)' <=> CancelAsked(j)) /\ (CancelPublished(j)' <=> CancelPublished(j))
    BY <1>4, CancelsStay DEF vars
  <2>4. (TypeOK /\ IsInjective(queue) /\ WorkersOwnItems /\ OthersUntouched /\ WowNamesWaiter)'
    BY <1>4, <2>1, <2>2
    DEF IInv, TypeOK, WorkersOwnItems, OthersUntouched, WowNamesWaiter, vars, lockVars
  <2>5. (WaitersAttach /\ WorkersMeet /\ WheelsFollow /\ TagsFollow)'
    BY <1>4, <2>1, <2>2, <2>3
    DEF IInv, WaitersAttach, WorkersMeet, WheelsFollow, TagsFollow, NoWaitLost, Started, vars, lockVars
  <2>. QED BY <2>4, <2>5 DEF IInv
<1>. QED BY <1>1, <1>2, <1>3, <1>4 DEF Next

(* The invariant, and with it the type invariant, for any number of threads  *)
(* and items.                                                                *)
THEOREM InvariantHolds == Spec => []IInv
<1>1. Spec => Init /\ [][Next]_vars
  BY DEF Spec
<1>. QED BY <1>1, InitIInv, StepKeepsIInv, PTL

(* The item and the worker of an attached waiter stay the ones it attached to *)
(* (completion.h, the two detach locks of commcompletiontowaiter).           *)
THEOREM ItemsStayWithTheirWaiters == Spec => []AttachedItemNotReused
<1>1. IInv => AttachedItemNotReused
  BY AttachedWaiter, CompletionAssumption
  DEF AttachedItemNotReused, IInv, TypeOK, Threads, WaitersAttach, Attached, Handles
<1>. QED BY <1>1, InvariantHolds, PTL

(* The waiter a worker is going to access is still in its call.              *)
THEOREM WorkersMeetLiveWaiters == Spec => []WaiterObjectAlive
<1>1. IInv => WaiterObjectAlive
  BY CompletionAssumption
  DEF WaiterObjectAlive, IInv, TypeOK, Threads, WorkersMeet, WorkersOwnItems, WowNamesWaiter,
      MayBlock, Attached
<1>. QED BY <1>1, InvariantHolds, PTL

(* A waiter that turns the wheel after its item was finished is woken.       *)
THEOREM WakeUpsArrive == Spec => []NoWaitLost
<1>1. IInv => NoWaitLost
  BY DEF IInv, WheelsFollow
<1>. QED BY <1>1, InvariantHolds, PTL

(* No item has two workers, and none is queued twice.                        *)
THEOREM ItemsHaveOneOwner == Spec => []OneOwner
<1>1. ASSUME IInv PROVE OneOwner
  <2>1. TypeOK /\ \A w, v \in Workers : w # v /\ item[w] # None => item[w] # item[v]
    BY <1>1 DEF IInv, WorkersOwnItems
  <2>2. \A j, k \in DOMAIN queue : queue[j] = queue[k] => j = k
    BY <1>1 DEF IInv, IsInjective
  <2>3. ASSUME NEW i \in Items, Queued(i)
        PROVE  Started(i) <=> \E w \in Workers : item[w] = i /\ pc[w] \in {"busy", "recheck", "finish"}
    BY <1>1, <2>3, CompletionAssumption
    DEF IInv, TypeOK, Threads, WorkersOwnItems, OthersUntouched, Handles, Queued, Started
  <2>. QED BY <2>1, <2>2, <2>3 DEF OneOwner
<1>. QED BY <1>1, InvariantHolds, PTL

(* A worker is told to cancel on the request of the waiter of its own item   *)
(* only (completion.c, iscanceled and unlockandcancel).                      *)
THEOREM CancelsReachTheirWorker == Spec => []CanceledOnRequest
<1>1. ASSUME IInv, NEW w \in Workers, pc[w] = "recheck"
      PROVE  wow[item[w]] = peer[w] /\ (item[w] \in cancelTag <=> intent[peer[w]] = "cancel")
  <2>1. /\ item[w] \in Items /\ peer[w] \in Waiters /\ wow[item[w]] = peer[w]
        /\ item[peer[w]] = item[w] /\ Attached(peer[w])
    BY <1>1, CompletionAssumption
    DEF IInv, TypeOK, Threads, WorkersMeet, WorkersOwnItems, WowNamesWaiter, MayBlock, Attached
  <2>2. item[w] \in cancelTag <=> CancelAsked(item[w])
    BY <1>1, <2>1 DEF IInv, TagsFollow, Handles
  <2>3. \A t \in Waiters : item[t] = item[w] => t = peer[w]
    BY <1>1, <2>1, CompletionAssumption DEF IInv, WaitersAttach
  <2>. QED BY <2>1, <2>2, <2>3 DEF CancelAsked
<1>2. ASSUME IInv, NEW w \in Workers, pc[w] \in {"busy", "recheck"}, canceled[w]
      PROVE  \E t \in Waiters : Attached(t) /\ item[t] = item[w] /\ intent[t] = "cancel"
  BY <1>2 DEF IInv, TypeOK, Threads, WorkersOwnItems, TagsFollow, CancelPublished
<1>3. IInv => CanceledOnRequest
  BY <1>1, <1>2 DEF CanceledOnRequest
<1>. QED BY <1>3, InvariantHolds, PTL

-----------------------------------------------------------------------------
(* The wheel of a worker that waits for nobody is gripped by nobody.         *)
LEMMA NobodyGrips ==
  ASSUME IInv, NEW w \in Workers, pc[w] \in {"off", "idle"}
  PROVE  wheel[w].gripped = None
<1>1. wheel[w].gripped \in Waiters \cup {None}
  BY DEF IInv, TypeOK, WheelState
<1>2. ASSUME NEW t \in Waiters, wheel[w].gripped = t PROVE FALSE
  <2>1. Attached(t) /\ peer[t] = w
    BY <1>2 DEF IInv, WheelsFollow, Attached
  <2>. QED BY <2>1, AttachedWaiter
<1>. QED BY <1>1, <1>2

(* A step that changes a wheel is a step of its event.                      *)
LEMMA WheelSteps ==
  ASSUME IInv, [Next]_vars, NEW v \in Workers, wheel'[v] # wheel[v]
  PROVE  Event(v)!Next
<1> USE DEF IInv, TypeOK, Goto
<1>1. ASSUME NEW w \in Workers, WorkerLock(w) PROVE Event(v)!Next
  <2>1. w = v /\ pc[v] = "off" /\ ~wheel[v].engaged /\ wheel[v].gripped = None
    BY <1>1, NobodyGrips DEF WorkerLock, WheelsFollow
  <2>2. /\ wheel'[v].engaged /\ wheel'[v].gripped = wheel[v].gripped
        /\ wheel'[v].pending = wheel[v].pending
    BY <1>1, <2>1, WheelUpdates DEF WorkerLock
  <2>. QED BY <2>1, <2>2 DEF Event!Next, Event!Engage
<1>2. ASSUME NEW w \in Workers, WorkerUnlock(w) PROVE Event(v)!Next
  <2>1. w = v /\ pc[v] = "idle" /\ wheel[v].engaged /\ wheel[v].gripped = None
    BY <1>2, NobodyGrips DEF WorkerUnlock, WheelsFollow
  <2>2. /\ ~wheel'[v].engaged /\ wheel'[v].gripped = wheel[v].gripped
        /\ wheel'[v].pending = wheel[v].pending
    BY <1>2, <2>1, WheelUpdates DEF WorkerUnlock
  <2>. QED BY <2>1, <2>2 DEF Event!Next, Event!Disengage
<1>3. ASSUME NEW w \in Workers, AdvanceWheel(w) PROVE Event(v)!Next
  <2>1. w = v /\ wheel[v].engaged
    BY <1>3 DEF AdvanceWheel, WheelsFollow
  <2>2. /\ wheel'[v].pending = (wheel[v].gripped # None)
        /\ wheel'[v].gripped = wheel[v].gripped /\ wheel'[v].engaged = wheel[v].engaged
    BY <1>3, <2>1 DEF AdvanceWheel, WheelState
  <2>. QED BY <2>1, <2>2 DEF Event!Next, Event!Advance
<1>4. ASSUME NEW t \in Waiters, GripOnWheel(t) PROVE Event(v)!Next
  <2>1. Attached(t) /\ pc[t] = "grip" /\ peer[t] \in Workers
    BY <1>4, AttachedWaiter DEF GripOnWheel, Attached
  <2>2. v = peer[t] /\ wheel'[v] \in WheelState /\ wheel'[v].gripped = t
        /\ wheel'[v].engaged = wheel[v].engaged
    BY <1>4, <2>1, GripChanges
  <2>3. wheel[v].engaged
    BY <2>1, <2>2, AttachedWaiter DEF WheelsFollow
  <2>4. ASSUME NEW u \in Waiters, wheel[v].gripped = u PROVE FALSE
    <3>1. pc[u] \in {"test", "turn", "release"} /\ peer[u] = v
      BY <2>4 DEF WheelsFollow
    <3>. QED BY <2>1, <2>2, <3>1, OneWaiterEach DEF Attached
  <2>5. wheel[v].gripped = None
    BY <2>4 DEF WheelState
  <2>. QED BY <2>2, <2>3, <2>5 DEF Event!Next, Event!GripOn, WheelState
<1>5. ASSUME NEW t \in Waiters, TurnWheel(t) PROVE Event(v)!Next
  <2>1. Attached(t) /\ pc[t] = "turn" /\ peer[t] \in Workers
    BY <1>5, AttachedWaiter DEF TurnWheel, Attached
  <2>2. /\ v = peer[t] /\ wheel[v].pending
        /\ ~wheel'[v].pending /\ wheel'[v].gripped = wheel[v].gripped
        /\ wheel'[v].engaged = wheel[v].engaged
    BY <1>5, <2>1, WheelUpdates DEF TurnWheel
  <2>3. wheel[v].gripped = t
    BY <2>1, <2>2 DEF WheelsFollow
  <2>. QED BY <2>2, <2>3 DEF Event!Next, Event!Turn
<1>6. ASSUME NEW t \in Waiters, ReleaseWheel(t) PROVE Event(v)!Next
  <2>1. Attached(t) /\ pc[t] = "release" /\ peer[t] \in Workers
    BY <1>6, AttachedWaiter DEF ReleaseWheel, Attached
  <2>2. /\ v = peer[t] /\ wheel'[v].gripped = None /\ ~wheel'[v].pending
        /\ wheel'[v].engaged = wheel[v].engaged
    BY <1>6, <2>1, ReleaseChanges
  <2>3. wheel[v].gripped = t
    BY <2>1, <2>2 DEF WheelsFollow
  <2>. QED BY <2>2, <2>3 DEF Event!Next, Event!Release
<1>7. ASSUME NEW w \in Workers, WorkerStep(w) PROVE AdvanceWheel(w)
  BY <1>7 DEF WorkerStep, AskCanceled, RecheckCanceled, EnqueuePrestarted, FinishCall, Unlink,
     ReadWaiter, Reinit, AcquireWorkerDetach, ClearWow, MeetWaiter, ReleaseWorkerDetach, ClearTag
<1>8. ASSUME NEW t \in Waiters, WaiterStep(t)
      PROVE  GripOnWheel(t) \/ TurnWheel(t) \/ ReleaseWheel(t)
  BY <1>8 DEF WaiterStep, WaitNotStarted, CancelNotStarted, AcquireWaitDetach, PublishWaiter,
     CheckCompleted, TestCompleted, ReleaseWaitDetach, ConfirmDetached
<1>9. /\ \A i \in Items : ~Enqueue(i)
      /\ \A w \in Workers : ~Start(w) /\ \A i \in Items : ~Prestart(w, i)
      /\ \A t \in Waiters, i \in Items : ~LockQueue(t, i)
  BY DEF Enqueue, Start, Prestart, LockQueue
<1>10. ~UNCHANGED vars
  BY DEF vars
<1>. QED BY <1>1, <1>2, <1>3, <1>4, <1>5, <1>6, <1>7, <1>8, <1>9, <1>10 DEF Next

(* The queue uses the wheels as wheel.h demands of their users.              *)
THEOREM WheelsServeTheirClients == Spec => WheelsUsedRightly
<1>1. IInv /\ [Next]_vars => [\A w \in Workers : wheel'[w] # wheel[w] => Event(w)!Next]_vars
  BY WheelSteps
<1>. QED BY <1>1, InvariantHolds, PTL DEF Spec, WheelsUsedRightly

-----------------------------------------------------------------------------
(* The abstract state: the substitutions of Promise under names of their own. *)
phases == [i \in Items |-> Phase(i)]
waits == [t \in Waiters |-> IF Attached(t) THEN item[t] ELSE None]

(* What the worker of an item and its place in the queue say of its phase.   *)
LEMMA Phases ==
  ASSUME IInv, NEW i \in Items
  PROVE  /\ \A w \in Workers : item[w] = i =>
              Phase(i) = IF pc[w] \in {"advance", "meet", "leave", "untag"} THEN "done" ELSE "handled"
         /\ (\A w \in Workers : item[w] # i) => Phase(i) = IF Queued(i) THEN "queued" ELSE "out"
BY CompletionAssumption
DEF IInv, TypeOK, Threads, WorkersOwnItems, Handles, Phase, Started, WorkerPC

(* An item whose worker, wow and place stay keeps its phase; the place of an *)
(* item that a worker has does not matter.                                   *)
LEMMA PhaseStays ==
  ASSUME NEW i \in Items, \A w \in Workers : item'[w] = i <=> item[w] = i,
         wow'[i] = None <=> wow[i] = None,
         (\E w \in Workers : item[w] = i) \/ (Queued(i)' <=> Queued(i))
  PROVE  Phase(i)' = Phase(i)
BY DEF Phase, Started

(* One item moves.                                                           *)
LEMMA OneMoves ==
  ASSUME NEW i \in Items, NEW from, NEW to,
         Phase(i) \in from, Phase(i)' = to, \A j \in Items : j # i => Phase(j)' = Phase(j),
         \A t \in Waiters : Attached(t)' <=> Attached(t),
         \A t \in Waiters : Attached(t) => item'[t] = item[t]
  PROVE  Promise!Move(i, from, to)
<1>1. phases' = [phases EXCEPT ![i] = to]
  BY DEF phases
<1>2. phases[i] \in from
  BY DEF phases
<1>3. waits' = waits
  BY DEF waits
<1>. QED BY <1>1, <1>2, <1>3 DEF phases, waits, Promise!Move

(* A step that moves no item and lets no waiter come or go.                 *)
LEMMA NothingMoves ==
  ASSUME \A j \in Items : Phase(j)' = Phase(j),
         \A t \in Waiters : Attached(t)' <=> Attached(t),
         \A t \in Waiters : Attached(t) => item'[t] = item[t]
  PROVE  UNCHANGED Promise!vars
BY DEF Promise!vars

(* Each step that moves an item, and the step of Handling it stands for.    *)
LEMMA EnqueueMapped == ASSUME IInv, NEW i \in Items, Enqueue(i) PROVE Promise!Next
<1>1. /\ \A w \in Workers : item[w] # i
      /\ ~Queued(i) /\ queue' = Append(queue, i) /\ queue \in Seq(Items)
      /\ UNCHANGED <<wow, item, pc>>
  BY DEF Enqueue, Unused, IInv, TypeOK
<1>2. \A j \in Items : Queued(j)' <=> Queued(j) \/ j = i
  BY <1>1, AppendToList DEF Queued
<1>3. Phase(i) = "out" /\ Phase(i)' = "queued"
  BY <1>1, <1>2, Phases DEF Phase
<1>4. \A j \in Items : j # i => Phase(j)' = Phase(j)
  BY <1>1, <1>2, PhaseStays
<1>5. Promise!Move(i, {"out"}, "queued")
  BY <1>1, <1>3, <1>4, OneMoves DEF Attached
<1>. QED BY <1>5 DEF Promise!Next, Promise!Enqueue

(* The worker w makes the item j its own.                                    *)
LEMMA BeginMapped ==
  ASSUME IInv, NEW w \in Workers, NEW j \in Items,
         pc[w] = "idle", pc' = [pc EXCEPT ![w] = pc'[w]],
         \A v \in Workers : item[v] # j,
         wow' = [wow EXCEPT ![j] = w], item' = [item EXCEPT ![w] = j], queue' = queue
  PROVE  Promise!Next
<1> USE CompletionAssumption DEF IInv, TypeOK, Threads
<1>1. Phase(j) \in {"out", "queued"}
  BY Phases
<1>2. Phase(j)' = "handled"
  BY DEF Phase, Started
<1>3. item[w] = None
  BY DEF WorkersOwnItems
<1>4. \A k \in Items : k # j => Phase(k)' = Phase(k)
  <2> SUFFICES ASSUME NEW k \in Items, k # j PROVE Phase(k)' = Phase(k)
    OBVIOUS
  <2>1. (\A v \in Workers : item'[v] = k <=> item[v] = k) /\ wow'[k] = wow[k]
    BY <1>3
  <2>2. Queued(k)' <=> Queued(k)
    BY DEF Queued
  <2>. QED BY <2>1, <2>2, PhaseStays
<1>5. \A t \in Waiters : pc'[t] = pc[t] /\ item'[t] = item[t]
  OBVIOUS
<1>6. Promise!Move(j, {"out", "queued"}, "handled")
  BY <1>1, <1>2, <1>4, <1>5, OneMoves DEF Attached
<1>. QED BY <1>6 DEF Promise!Next, Promise!Begin

(* A start and a mark before the enqueue are the two ways to begin.         *)
LEMMA StartMapped == ASSUME IInv, NEW w \in Workers, Start(w) PROVE Promise!Next
<1>1. PICK k \in DOMAIN queue :
        /\ ~Started(queue[k])
        /\ wow' = [wow EXCEPT ![queue[k]] = w]
        /\ item' = [item EXCEPT ![w] = queue[k]]
  BY DEF Start
<1> DEFINE j == queue[k]
<1>2. j \in Items /\ j \in ToSet(queue) /\ wow[j] = None
  BY <1>1 DEF ToSet, IInv, TypeOK, Started
<1>3. /\ wow' = [wow EXCEPT ![j] = w] /\ item' = [item EXCEPT ![w] = j] /\ queue' = queue
      /\ pc[w] = "idle" /\ pc' = [pc EXCEPT ![w] = "busy"]
  BY <1>1 DEF Start, Goto
<1>. HIDE DEF j
<1>4. \A v \in Workers : item[v] # j
  BY <1>2, CompletionAssumption DEF IInv, TypeOK, Threads, WorkersOwnItems, Handles
<1>5. pc' = [pc EXCEPT ![w] = pc'[w]]
  BY <1>3 DEF IInv, TypeOK, Threads
<1>. QED BY <1>2, <1>3, <1>4, <1>5, BeginMapped

LEMMA PrestartMapped ==
  ASSUME IInv, NEW w \in Workers, NEW i \in Items, Prestart(w, i) PROVE Promise!Next
<1>1. pc' = [pc EXCEPT ![w] = pc'[w]]
  BY DEF Prestart, Goto, IInv, TypeOK, Threads
<1>. QED BY <1>1, BeginMapped DEF Prestart, Goto, Unused

(* The worker w resets wow of its item.                                      *)
LEMMA FinishMapped ==
  ASSUME IInv, NEW w \in Workers, Reinit(w) \/ ClearWow(w) PROVE Promise!Next
<1> USE CompletionAssumption DEF IInv, TypeOK, Threads
<1>0. PICK j \in Items : item[w] = j
  BY DEF Reinit, ClearWow, Goto, WorkersOwnItems
<1>1. /\ pc[w] \in {"reinit", "signal"} /\ \A t \in Waiters : pc'[t] = pc[t]
      /\ wow' = [wow EXCEPT ![j] = None] /\ item' = item /\ queue' = queue
  BY <1>0 DEF Reinit, ClearWow, Goto
<1>3. Phase(j) \in {"handled"}
  BY <1>0, <1>1, Phases
<1>4. Phase(j)' = "done"
  BY <1>0, <1>1 DEF Phase, Started
<1>5. \A k \in Items : k # j => Phase(k)' = Phase(k)
  BY <1>1, PhaseStays DEF Queued
<1>6. \A t \in Waiters : (Attached(t)' <=> Attached(t)) /\ item'[t] = item[t]
  BY <1>1 DEF Attached
<1>7. Promise!Move(j, {"handled"}, "done")
  BY <1>3, <1>4, <1>5, <1>6, OneMoves
<1>. QED BY <1>7 DEF Promise!Next, Promise!Finish

(* The worker w returns its item to the owner.                              *)
LEMMA GiveBackMapped ==
  ASSUME IInv, NEW w \in Workers, ClearTag(w) PROVE Promise!Next
<1> USE CompletionAssumption DEF IInv, TypeOK, Threads
<1>0. PICK j \in Items : item[w] = j
  BY DEF ClearTag, Goto, WorkersOwnItems
<1>1. /\ pc[w] = "untag" /\ \A t \in Waiters : pc'[t] = pc[t] /\ item'[t] = item[t]
      /\ item' = [item EXCEPT ![w] = None] /\ wow' = wow /\ queue' = queue
  BY DEF ClearTag, Goto
<1>2. ~Queued(j) /\ \A v \in Workers : item[v] = j => v = w
  BY <1>0, <1>1 DEF WorkersOwnItems, Handles, Queued
<1>3. \A t \in Waiters : Attached(t) => item[t] # j
  BY <1>0, <1>1, <1>2, AttachedWaiter
<1>4. Phase(j) \in {"done"}
  BY <1>0, <1>1, Phases
<1>5. ~Queued(j)'
  BY <1>1, <1>2 DEF Queued
<1>6. \A v \in Workers : item'[v] # j
  BY <1>0, <1>1, <1>2
<1>7. Phase(j)' = "out"
  BY <1>1, <1>5, <1>6 DEF Phase
<1>8. \A k \in Items : k # j => Phase(k)' = Phase(k)
  <2> SUFFICES ASSUME NEW k \in Items, k # j PROVE Phase(k)' = Phase(k)
    OBVIOUS
  <2>1. (\A v \in Workers : item'[v] = k <=> item[v] = k) /\ wow'[k] = wow[k]
    BY <1>0, <1>1
  <2>2. Queued(k)' <=> Queued(k)
    BY <1>1 DEF Queued
  <2>. QED BY <2>1, <2>2, PhaseStays
<1>9. Promise!Move(j, {"done"}, "out")
  BY <1>1, <1>4, <1>7, <1>8, OneMoves DEF Attached
<1>10. \A t \in Waiters : waits[t] # j
  BY <1>3 DEF waits
<1>. QED BY <1>9, <1>10 DEF Promise!Next, Promise!GiveBack, waits

(* A cancel takes back an item nobody has started.                          *)
LEMMA WithdrawMapped ==
  ASSUME IInv, NEW t \in Waiters, CancelNotStarted(t) PROVE Promise!Next
<1> USE CompletionAssumption DEF IInv, TypeOK, Threads
<1>0. PICK j \in Items : item[t] = j
  BY DEF CancelNotStarted, Goto, WaitersAttach
<1>1. /\ pc[t] = "locked" /\ pc' = [pc EXCEPT ![t] = "idle"]
      /\ item' = [item EXCEPT ![t] = None] /\ wow' = wow
      /\ peer[t] = None /\ queue' = RemoveFirst(queue, j)
  BY <1>0 DEF CancelNotStarted, Goto
<1>2. Queued(j) /\ wow[j] = None
  BY <1>0, <1>1 DEF WaitersAttach, Queued
<1>3. \A w \in Workers : item[w] # j /\ item'[w] = item[w]
  BY <1>1, <1>2 DEF WorkersOwnItems, Handles, Queued
<1>4. \A k \in Items : Queued(k)' <=> Queued(k) /\ k # j
  BY <1>1, RemoveFromList DEF Queued
<1>5. Phase(j) \in {"queued"} /\ Phase(j)' = "out"
  BY <1>2, <1>3, <1>4, Phases DEF Phase
<1>6. \A k \in Items : k # j => Phase(k)' = Phase(k)
  BY <1>1, <1>3, <1>4, PhaseStays
<1>7. \A u \in Waiters : Attached(u)' <=> Attached(u)
  BY <1>1 DEF Attached
<1>8. \A u \in Waiters : Attached(u) => item'[u] = item[u]
  BY <1>1 DEF Attached
<1>9. Promise!Move(j, {"queued"}, "out")
  BY <1>5, <1>6, <1>7, <1>8, OneMoves
<1>. QED BY <1>9 DEF Promise!Next, Promise!Withdraw

(* A waiter attaches when it publishes itself in wow.                       *)
LEMMA WaitMapped ==
  ASSUME IInv, NEW t \in Waiters, PublishWaiter(t) PROVE Promise!Next
<1> USE CompletionAssumption DEF IInv, TypeOK, Threads
<1>0. PICK j \in Items : item[t] = j
  BY DEF PublishWaiter, Goto, WaitersAttach
<1>1. /\ pc[t] = "publish" /\ pc' = [pc EXCEPT ![t] = "check"]
      /\ item' = item /\ wow' = [wow EXCEPT ![j] = t] /\ queue' = queue
  BY <1>0 DEF PublishWaiter, Goto
<1>2. /\ wow[j] # None /\ peer[t] \in Workers /\ item[peer[t]] = j
      /\ pc[peer[t]] \in {"busy", "recheck", "finish"}
  BY <1>0, <1>1 DEF WaitersAttach, Handles
<1>3. \A k \in Items : Phase(k)' = Phase(k)
  BY <1>1, <1>2, PhaseStays DEF Queued
<1>4. phases' = phases /\ phases[j] = "handled"
  BY <1>2, <1>3, Phases DEF phases
<1>5. waits[t] = None
  BY <1>1 DEF waits, Attached
<1>6. waits' = [waits EXCEPT ![t] = j]
  <2>1. \A u \in Waiters : u # t => (Attached(u)' <=> Attached(u))
    BY <1>1 DEF Attached
  <2>2. Attached(t)' /\ item'[t] = j
    BY <1>0, <1>1 DEF Attached
  <2>. QED BY <1>1, <2>1, <2>2 DEF waits
<1>7. Promise!Wait(t, j)
  BY <1>4, <1>5, <1>6 DEF Promise!Wait, phases, waits
<1>. QED BY <1>7 DEF Promise!Next

(* A waiter leaves when it has released its own detach lock.                *)
LEMMA LeaveMapped ==
  ASSUME IInv, NEW t \in Waiters, ReleaseWaitDetach(t) PROVE Promise!Next
<1> USE CompletionAssumption DEF IInv, TypeOK, Threads
<1>0. PICK j \in Items : item[t] = j
  BY DEF ReleaseWaitDetach, Goto, WaitersAttach
<1>1. /\ pc[t] = "detach" /\ pc' = [pc EXCEPT ![t] = "confirm"]
      /\ item' = [item EXCEPT ![t] = None] /\ wow' = wow /\ queue' = queue
  BY DEF ReleaseWaitDetach, Goto
<1>2. /\ peer[t] \in Workers /\ item[peer[t]] = j
      /\ pc[peer[t]] \in {"advance", "meet"} /\ Attached(t)
  BY <1>0, <1>1, AttachedWaiter DEF WaitersAttach, MayBlock, Attached
<1>3. \A k \in Items : Phase(k)' = Phase(k)
  BY <1>1, PhaseStays DEF Queued
<1>4. phases' = phases /\ phases[j] = "done"
  BY <1>2, <1>3, Phases DEF phases
<1>5. waits[t] = j
  BY <1>0, <1>2 DEF waits
<1>6. waits' = [waits EXCEPT ![t] = None]
  <2>1. \A u \in Waiters : u # t => (Attached(u)' <=> Attached(u)) /\ item'[u] = item[u]
    BY <1>1 DEF Attached
  <2>2. ~Attached(t)'
    BY <1>1 DEF Attached
  <2>. QED BY <2>1, <2>2 DEF waits
<1>7. waits[t] # None /\ phases[waits[t]] = "done"
  BY <1>4, <1>5, CompletionAssumption
<1>8. Promise!Leave(t)
  BY <1>4, <1>6, <1>7 DEF Promise!Leave, phases, waits
<1>. QED BY <1>8 DEF Promise!Next

(* All other steps of a worker,                                            *)
LEMMA WorkerStutters ==
  ASSUME IInv, NEW w \in Workers, WorkerLock(w) \/ WorkerUnlock(w) \/ WorkerStep(w),
         ~(Reinit(w) \/ ClearWow(w) \/ ClearTag(w))
  PROVE  UNCHANGED Promise!vars
<1>1. /\ UNCHANGED <<item, wow>> /\ \A t \in Waiters : pc'[t] = pc[t]
      /\ \/ queue' = queue
         \/ pc[w] \in {"enqueue", "finish"} /\ queue' = Append(queue, item[w])
         \/ pc[w] \in {"enqueue", "finish"} /\ queue' = RemoveFirst(queue, item[w])
  BY CompletionAssumption
  DEF IInv, TypeOK, Threads, Goto, WorkerLock, WorkerUnlock, WorkerStep, AskCanceled,
      RecheckCanceled, EnqueuePrestarted, FinishCall, Unlink, ReadWaiter, AcquireWorkerDetach,
      AdvanceWheel, MeetWaiter, ReleaseWorkerDetach
<1>2. pc[w] \in {"enqueue", "finish"} => item[w] \in Items
  BY CompletionAssumption DEF IInv, TypeOK, Threads, WorkersOwnItems
<1>3. ASSUME NEW i \in Items, item[w] # i PROVE Queued(i)' <=> Queued(i)
  <2>1. queue \in Seq(Items) /\ IsInjective(queue)
    BY DEF IInv, TypeOK
  <2>2. CASE pc[w] \in {"enqueue", "finish"} /\ queue' = Append(queue, item[w])
    BY <1>2, <1>3, <2>1, <2>2, AppendToList DEF Queued
  <2>3. CASE queue' = RemoveFirst(queue, item[w])
    BY <1>3, <2>1, <2>3, RemoveFromList DEF Queued
  <2>. QED BY <1>1, <2>2, <2>3 DEF Queued
<1>4. \A i \in Items : Phase(i)' = Phase(i)
  BY <1>1, <1>3, PhaseStays
<1>5. \A t \in Waiters : Attached(t)' <=> Attached(t)
  BY <1>1 DEF Attached
<1>. QED BY <1>1, <1>4, <1>5, NothingMoves

(* All other steps of a waiter.                                             *)
LEMMA WaiterStutters ==
  ASSUME IInv, NEW t \in Waiters, WaiterStep(t) \/ \E i \in Items : LockQueue(t, i),
         ~(CancelNotStarted(t) \/ PublishWaiter(t) \/ ReleaseWaitDetach(t))
  PROVE  UNCHANGED Promise!vars
<1> USE CompletionAssumption DEF IInv, TypeOK, Threads
<1>1. /\ queue' = queue /\ wow' = wow /\ (Attached(t)' <=> Attached(t))
      /\ Attached(t) => item'[t] = item[t]
      /\ \A u \in Threads \ {t} : pc'[u] = pc[u] /\ item'[u] = item[u]
  <2>1. CASE \E i \in Items : LockQueue(t, i)
    BY <2>1 DEF LockQueue, Goto, Attached
  <2>2. CASE WaitNotStarted(t) \/ AcquireWaitDetach(t)
    BY <2>2 DEF WaitNotStarted, AcquireWaitDetach, Goto, Attached
  <2>3. CASE CheckCompleted(t) \/ GripOnWheel(t) \/ TestCompleted(t)
    BY <2>3 DEF CheckCompleted, GripOnWheel, TestCompleted, Goto, Attached
  <2>4. CASE TurnWheel(t) \/ ReleaseWheel(t) \/ ConfirmDetached(t)
    BY <2>4 DEF TurnWheel, ReleaseWheel, ConfirmDetached, Goto, Attached
  <2>. QED BY <2>1, <2>2, <2>3, <2>4 DEF WaiterStep
<1>2. \A w \in Workers : item'[w] = item[w]
  BY <1>1
<1>3. \A i \in Items : Phase(i)' = Phase(i)
  BY <1>1, <1>2, PhaseStays DEF Queued
<1>4. \A u \in Waiters : Attached(u)' <=> Attached(u)
  BY <1>1 DEF Attached
<1>5. \A u \in Waiters : Attached(u) => item'[u] = item[u]
  BY <1>1
<1>. QED BY <1>3, <1>4, <1>5, NothingMoves

(* The queue implements Handling: every step is a step of the promise or     *)
(* leaves it alone (completion.h, the handling of an item and its waits).    *)
THEOREM QueueKeepsPromise == Spec => HandlingSpec
<1>1. ASSUME Init PROVE Promise!Init
  <2>1. \A i \in Items : Phase(i) = "out"
    BY <1>1, EmptyList, CompletionAssumption DEF Init, Phase, Queued, Threads
  <2>2. \A t \in Waiters : ~Attached(t)
    BY <1>1, CompletionAssumption DEF Init, Attached, Threads
  <2>. QED BY <2>1, <2>2 DEF Promise!Init
<1>2. ASSUME IInv, [Next]_vars PROVE [Promise!Next]_(Promise!vars)
  <2>1. ASSUME NEW w \in Workers,
               \/ WorkerLock(w) \/ WorkerUnlock(w) \/ Start(w) \/ WorkerStep(w)
               \/ \E i \in Items : Prestart(w, i)
        PROVE  Promise!Next \/ UNCHANGED Promise!vars
    BY <1>2, <2>1, StartMapped, PrestartMapped, FinishMapped, GiveBackMapped, WorkerStutters
  <2>2. ASSUME NEW t \in Waiters, WaiterStep(t) \/ \E i \in Items : LockQueue(t, i)
        PROVE  Promise!Next \/ UNCHANGED Promise!vars
    BY <1>2, <2>2, WithdrawMapped, WaitMapped, LeaveMapped, WaiterStutters
  <2>3. ASSUME NEW i \in Items, Enqueue(i) PROVE Promise!Next
    BY <1>2, <2>3, EnqueueMapped
  <2>4. CASE UNCHANGED vars
    <3>1. /\ \A i \in Items : Phase(i)' = Phase(i)
          /\ \A t \in Waiters : (Attached(t)' <=> Attached(t)) /\ item'[t] = item[t]
      BY <2>4, PhaseStays DEF vars, Attached, Queued
    <3>. QED BY <3>1, NothingMoves
  <2>. QED BY <1>2, <2>1, <2>2, <2>3, <2>4 DEF Next
<1>. QED BY <1>1, <1>2, InvariantHolds, PTL DEF Spec, HandlingSpec, Promise!Spec
=============================================================================
