----------------------------- MODULE Completion -----------------------------
(***************************************************************************)
(* The completion queues of src/completion.h and src/completion.c: items   *)
(* wait in a queue, a worker handles an item and finishes it, and a waiter *)
(* waits for that, or asks the worker to cancel.  The field wow of an item *)
(* ("worker or waiter") is the only channel between the two: the worker    *)
(* that handles the item, then the waiter that waits for it.               *)
(*                                                                         *)
(* The queue is the cancelable one; the plain queue is the same code       *)
(* without the cancel tag.  The progress wheel of a worker is the event of *)
(* WheelEvent, written here without the guards that are the duty of its    *)
(* user: property WheelsUsedRightly checks that the queue fulfils them.    *)
(*                                                                         *)
(* Duties of the callers, kept as guards of the calls: a worker handles    *)
(* one item at a time, an item has one waiter at a time, and a waiter      *)
(* names an item that it sees in the queue while it holds the queue's lock.*)
(***************************************************************************)
EXTENDS CompletionItem

CONSTANTS Workers, Waiters, Items,
          None        \* no thread, no item, or a null wow

ASSUME CompletionAssumption ==
  /\ Workers \cap Waiters = {}
  /\ None \notin Workers \cup Waiters \cup Items

VARIABLES queue,        \* work_list
          accessLock,   \* access_lock: the waiter that holds it across steps
          workerDetach, \* worker_detach_lock: the worker that holds it
          waitDetach,   \* the waiters that hold their own wait_detach_lock
          wow,          \* p_worker_or_waiter of each item
          cancelTag,    \* the items tagged cancelrequested
          wheel,        \* progress_wheel of each worker
          pc,
          item,         \* the item each thread is busy with
          peer,         \* the thread it read from wow of that item
          intent,       \* "wait" or "cancel", for each waiter
          canceled      \* what each worker was last told by iscanceled

lockVars == <<accessLock, workerDetach, waitDetach>>
vars == <<queue, lockVars, wow, cancelTag, wheel, pc, item, peer, intent, canceled>>

Threads == Workers \cup Waiters

WorkerPC == {"off", "idle", "enqueue", "busy", "recheck", "finish", "unlinked",
             "reinit", "detach", "signal", "advance", "meet", "leave", "untag"}
WaiterPC == {"idle", "locked", "publish", "check", "grip", "test", "turn",
             "release", "detach", "confirm"}

WheelState == [engaged : BOOLEAN, gripped : Waiters \cup {None}, pending : BOOLEAN]

TypeOK == /\ queue \in Seq(Items)
          /\ accessLock \in Waiters \cup {None}
          /\ workerDetach \in Workers \cup {None}
          /\ waitDetach \subseteq Waiters
          /\ wow \in [Items -> Threads \cup {None}]
          /\ cancelTag \subseteq Items
          /\ wheel \in [Workers -> WheelState]
          /\ pc \in [Threads -> WorkerPC \cup WaiterPC]
          /\ \A w \in Workers : pc[w] \in WorkerPC
          /\ \A t \in Waiters : pc[t] \in WaiterPC
          /\ item \in [Threads -> Items \cup {None}]
          /\ peer \in [Threads -> Threads \cup {None}]
          /\ intent \in [Waiters -> {"wait", "cancel"}]
          /\ canceled \in [Workers -> BOOLEAN]

Init == /\ queue = << >>
        /\ accessLock = None
        /\ workerDetach = None
        /\ waitDetach = {}
        /\ wow = [i \in Items |-> None]
        /\ cancelTag = {}
        /\ wheel = [w \in Workers |->
                      [engaged |-> FALSE, gripped |-> None, pending |-> FALSE]]
        /\ pc = [t \in Threads |-> IF t \in Workers THEN "off" ELSE "idle"]
        /\ item = [t \in Threads |-> None]
        /\ peer = [t \in Threads |-> None]
        /\ intent = [t \in Waiters |-> "wait"]
        /\ canceled = [w \in Workers |-> FALSE]

-----------------------------------------------------------------------------
Goto(t, from, to) == pc[t] = from /\ pc' = [pc EXCEPT ![t] = to]

Queued(i) == i \in ToSet(queue)
Started(i) == wow[i] # None

\* An item that its owner may put to use: nobody handles or finishes it.
Unused(i) == ~Queued(i) /\ \A w \in Workers : item[w] # i

\* A waiter accesses its item until it has released its wait_detach_lock.
WaitsFor(t, i) == item[t] = i

\* Waiters hold the access lock across steps, all others within one step.
QueueLockFree == accessLock = None

-----------------------------------------------------------------------------
(* Items and workers.                                                      *)

\* mutexgear_completion_worker_lock, _unlock: engage and disengage the wheel.
WorkerLock(w) == /\ Goto(w, "off", "idle")
                 /\ wheel' = [wheel EXCEPT ![w].engaged = TRUE]
                 /\ UNCHANGED <<queue, lockVars, wow, cancelTag, item, peer, intent, canceled>>

WorkerUnlock(w) == /\ Goto(w, "idle", "off")
                   /\ wheel' = [wheel EXCEPT ![w].engaged = FALSE]
                   /\ UNCHANGED <<queue, lockVars, wow, cancelTag, item, peer, intent, canceled>>

\* A producer adds an item for any worker.
Enqueue(i) == /\ Unused(i) /\ QueueLockFree
              /\ queue' = Append(queue, i)
              /\ UNCHANGED <<lockVars, wow, cancelTag, wheel, pc, item, peer, intent, canceled>>

\* Mutant: the first item is taken whether or not it is started.
StartHead(w) == /\ Goto(w, "idle", "busy")
                /\ QueueLockFree
                /\ queue # << >>
                /\ wow' = [wow EXCEPT ![Head(queue)] = w]
                /\ item' = [item EXCEPT ![w] = Head(queue)]
                /\ canceled' = [canceled EXCEPT ![w] = FALSE]
                /\ UNCHANGED <<queue, lockVars, cancelTag, wheel, peer, intent>>

\* A worker takes the first item nobody has started.
Start(w) == /\ Goto(w, "idle", "busy")
            /\ QueueLockFree
            /\ \E k \in DOMAIN queue :
                 LET i == queue[k] IN
                 /\ ~Started(i) /\ \A j \in 1 .. k - 1 : Started(queue[j])
                 /\ wow' = [wow EXCEPT ![i] = w]
                 /\ item' = [item EXCEPT ![w] = i]
            /\ canceled' = [canceled EXCEPT ![w] = FALSE]
            /\ UNCHANGED <<queue, lockVars, cancelTag, wheel, peer, intent>>

\* A worker marks an item its own before it adds it.
Prestart(w, i) == /\ Goto(w, "idle", "enqueue")
                  /\ Unused(i)
                  /\ wow' = [wow EXCEPT ![i] = w]
                  /\ item' = [item EXCEPT ![w] = i]
                  /\ canceled' = [canceled EXCEPT ![w] = FALSE]
                  /\ UNCHANGED <<queue, lockVars, cancelTag, wheel, peer, intent>>

EnqueuePrestarted(w) ==
  /\ Goto(w, "enqueue", "busy")
  /\ QueueLockFree
  /\ queue' = Append(queue, item[w])
  /\ UNCHANGED <<lockVars, wow, cancelTag, wheel, item, peer, intent, canceled>>

\* iscanceled: a first read of wow, then a second one and the tag.
AskCanceled(w) ==
  /\ pc[w] = "busy"
  /\ IF wow[item[w]] # w
       THEN /\ pc' = [pc EXCEPT ![w] = "recheck"]
            /\ peer' = [peer EXCEPT ![w] = wow[item[w]]]
            /\ UNCHANGED canceled
       ELSE /\ canceled' = [canceled EXCEPT ![w] = FALSE]
            /\ UNCHANGED <<pc, peer>>
  /\ UNCHANGED <<queue, lockVars, wow, cancelTag, wheel, item, intent>>

RecheckCanceled(w) ==
  /\ Goto(w, "recheck", "busy")
  /\ canceled' = [canceled EXCEPT ![w] = HasTag(cancelTag, item[w])]
  /\ peer' = [peer EXCEPT ![w] = None]
  /\ UNCHANGED <<queue, lockVars, wow, cancelTag, wheel, item, intent>>

\* safefinish: unlink the item, then see who is in wow.
FinishCall(w) ==
  /\ Goto(w, "busy", "finish")
  /\ UNCHANGED <<queue, lockVars, wow, cancelTag, wheel, item, peer, intent, canceled>>

Unlink(w) == /\ Goto(w, "finish", "unlinked")
             /\ QueueLockFree
             /\ queue' = RemoveFirst(queue, item[w])
             /\ UNCHANGED <<lockVars, wow, cancelTag, wheel, item, peer, intent, canceled>>

ReadWaiter(w) ==
  /\ pc[w] = "unlinked"
  /\ peer' = [peer EXCEPT ![w] = IF wow[item[w]] = w THEN None ELSE wow[item[w]]]
  /\ pc' = [pc EXCEPT ![w] = IF wow[item[w]] = w THEN "reinit" ELSE "detach"]
  /\ UNCHANGED <<queue, lockVars, wow, cancelTag, wheel, item, intent, canceled>>

Reinit(w) == /\ Goto(w, "reinit", "untag")
             /\ wow' = [wow EXCEPT ![item[w]] = None]
             /\ UNCHANGED <<queue, lockVars, cancelTag, wheel, item, peer, intent, canceled>>

\* commcompletiontowaiter, one action per lock or shared access.
AcquireWorkerDetach(w) ==
  /\ Goto(w, "detach", "signal")
  /\ workerDetach = None
  /\ workerDetach' = w
  /\ UNCHANGED <<queue, accessLock, waitDetach, wow, cancelTag, wheel, item, peer, intent, canceled>>

ClearWow(w) == /\ Goto(w, "signal", "advance")
               /\ wow' = [wow EXCEPT ![item[w]] = None]
               /\ UNCHANGED <<queue, lockVars, cancelTag, wheel, item, peer, intent, canceled>>

\* Mutant: the wheel is not advanced.
AdvanceNothing(w) == /\ Goto(w, "advance", "meet")
                     /\ UNCHANGED <<queue, lockVars, wow, cancelTag, wheel, item, peer, intent, canceled>>

AdvanceWheel(w) ==
  /\ Goto(w, "advance", "meet")
  /\ wheel' = [wheel EXCEPT ![w].pending = wheel[w].gripped # None]
  /\ UNCHANGED <<queue, lockVars, wow, cancelTag, item, peer, intent, canceled>>

\* Mutant: the worker does not wait for the waiter to detach.
MeetNobody(w) == /\ Goto(w, "meet", "leave")
                 /\ UNCHANGED <<queue, lockVars, wow, cancelTag, wheel, item, peer, intent, canceled>>

\* Acquires and at once releases the lock of the waiter.
MeetWaiter(w) ==
  /\ Goto(w, "meet", "leave")
  /\ peer[w] \notin waitDetach
  /\ UNCHANGED <<queue, lockVars, wow, cancelTag, wheel, item, peer, intent, canceled>>

ReleaseWorkerDetach(w) ==
  /\ Goto(w, "leave", "untag")
  /\ workerDetach' = None
  /\ peer' = [peer EXCEPT ![w] = None]
  /\ UNCHANGED <<queue, accessLock, waitDetach, wow, cancelTag, wheel, item, intent, canceled>>

\* Mutant: the tag stays.
KeepTag(w) == /\ Goto(w, "untag", "idle")
              /\ item' = [item EXCEPT ![w] = None]
              /\ UNCHANGED <<queue, lockVars, wow, cancelTag, wheel, peer, intent, canceled>>

\* The last thing the finish of a cancelable item does with the item.
ClearTag(w) == /\ Goto(w, "untag", "idle")
               /\ cancelTag' = WithTag(cancelTag, item[w], FALSE)
               /\ item' = [item EXCEPT ![w] = None]
               /\ UNCHANGED <<queue, lockVars, wow, wheel, peer, intent, canceled>>

WorkerStep(w) == \/ AskCanceled(w) \/ RecheckCanceled(w)
                 \/ EnqueuePrestarted(w) \/ FinishCall(w) \/ Unlink(w)
                 \/ ReadWaiter(w) \/ Reinit(w)
                 \/ AcquireWorkerDetach(w) \/ ClearWow(w) \/ AdvanceWheel(w)
                 \/ MeetWaiter(w) \/ ReleaseWorkerDetach(w) \/ ClearTag(w)

-----------------------------------------------------------------------------
(* Waiters.                                                                *)

\* The caller locks the queue and picks an item of it.
LockQueue(t, i) ==
  /\ Goto(t, "idle", "locked")
  /\ QueueLockFree
  /\ Queued(i) /\ \A u \in Waiters : ~WaitsFor(u, i)
  /\ accessLock' = t
  /\ item' = [item EXCEPT ![t] = i]
  /\ peer' = [peer EXCEPT ![t] = wow[i]]
  /\ intent' \in {[intent EXCEPT ![t] = n] : n \in {"wait", "cancel"}}
  /\ UNCHANGED <<queue, workerDetach, waitDetach, wow, cancelTag, wheel, canceled>>

\* unlockandwait of an item nobody has started: ESRCH.
WaitNotStarted(t) ==
  /\ Goto(t, "locked", "idle")
  /\ peer[t] = None /\ intent[t] = "wait"
  /\ accessLock' = None
  /\ item' = [item EXCEPT ![t] = None]
  /\ UNCHANGED <<queue, workerDetach, waitDetach, wow, cancelTag, wheel, peer, intent, canceled>>

\* unlockandcancel of an item nobody has started: the caller owns it again.
CancelNotStarted(t) ==
  /\ Goto(t, "locked", "idle")
  /\ peer[t] = None /\ intent[t] = "cancel"
  /\ queue' = RemoveFirst(queue, item[t])
  /\ accessLock' = None
  /\ item' = [item EXCEPT ![t] = None]
  /\ UNCHANGED <<workerDetach, waitDetach, wow, cancelTag, wheel, peer, intent, canceled>>

\* A worker has the item: take the own detach lock and tag for cancel.
AcquireWaitDetach(t) ==
  /\ Goto(t, "locked", "publish")
  /\ peer[t] # None
  /\ t \notin waitDetach
  /\ waitDetach' = waitDetach \cup {t}
  /\ cancelTag' = IF intent[t] = "cancel" THEN WithTag(cancelTag, item[t], TRUE) ELSE cancelTag
  /\ UNCHANGED <<queue, accessLock, workerDetach, wow, wheel, item, peer, intent, canceled>>

PublishWaiter(t) ==
  /\ Goto(t, "publish", "check")
  /\ wow' = [wow EXCEPT ![item[t]] = t]
  /\ accessLock' = None
  /\ UNCHANGED <<queue, workerDetach, waitDetach, cancelTag, wheel, item, peer, intent, canceled>>

\* wait_item_completion_and_detach.
CheckCompleted(t) ==
  /\ pc[t] = "check"
  /\ pc' = [pc EXCEPT ![t] = IF Started(item[t]) THEN "grip" ELSE "detach"]
  /\ UNCHANGED <<queue, lockVars, wow, cancelTag, wheel, item, peer, intent, canceled>>

GripOnWheel(t) ==
  /\ Goto(t, "grip", "test")
  /\ \E b \in BOOLEAN :
       wheel' = [wheel EXCEPT ![peer[t]].gripped = t, ![peer[t]].pending = b]
  /\ UNCHANGED <<queue, lockVars, wow, cancelTag, item, peer, intent, canceled>>

TestCompleted(t) ==
  /\ pc[t] = "test"
  /\ pc' = [pc EXCEPT ![t] = IF Started(item[t]) THEN "turn" ELSE "release"]
  /\ UNCHANGED <<queue, lockVars, wow, cancelTag, wheel, item, peer, intent, canceled>>

\* Mutant: the wheel is turned once, not in a loop.
TurnWheelOnce(t) ==
  /\ Goto(t, "turn", "release")
  /\ wheel[peer[t]].pending
  /\ wheel' = [wheel EXCEPT ![peer[t]].pending = FALSE]
  /\ UNCHANGED <<queue, lockVars, wow, cancelTag, item, peer, intent, canceled>>

TurnWheel(t) ==
  /\ Goto(t, "turn", "test")
  /\ wheel[peer[t]].pending
  /\ wheel' = [wheel EXCEPT ![peer[t]].pending = FALSE]
  /\ UNCHANGED <<queue, lockVars, wow, cancelTag, item, peer, intent, canceled>>

\* Mutant: the wheel is not released.
LeaveWheel(t) == /\ Goto(t, "release", "detach")
                 /\ UNCHANGED <<queue, lockVars, wow, cancelTag, wheel, item, peer, intent, canceled>>

ReleaseWheel(t) ==
  /\ Goto(t, "release", "detach")
  /\ wheel' = [wheel EXCEPT ![peer[t]].gripped = None, ![peer[t]].pending = FALSE]
  /\ UNCHANGED <<queue, lockVars, wow, cancelTag, item, peer, intent, canceled>>

\* From here on the waiter accesses neither its item nor its worker.
ReleaseWaitDetach(t) ==
  /\ Goto(t, "detach", "confirm")
  /\ waitDetach' = waitDetach \ {t}
  /\ item' = [item EXCEPT ![t] = None]
  /\ peer' = [peer EXCEPT ![t] = None]
  /\ UNCHANGED <<queue, accessLock, workerDetach, wow, cancelTag, wheel, intent, canceled>>

\* Mutant: the waiter returns without the worker's leave.
ReturnUnconfirmed(t) == /\ Goto(t, "confirm", "idle")
                        /\ UNCHANGED <<queue, lockVars, wow, cancelTag, wheel, item, peer, intent, canceled>>

\* Acquires and at once releases worker_detach_lock, and returns.
ConfirmDetached(t) ==
  /\ Goto(t, "confirm", "idle")
  /\ workerDetach = None
  /\ UNCHANGED <<queue, lockVars, wow, cancelTag, wheel, item, peer, intent, canceled>>

WaiterStep(t) == \/ WaitNotStarted(t) \/ CancelNotStarted(t)
                 \/ AcquireWaitDetach(t) \/ PublishWaiter(t)
                 \/ CheckCompleted(t) \/ GripOnWheel(t) \/ TestCompleted(t)
                 \/ TurnWheel(t) \/ ReleaseWheel(t) \/ ReleaseWaitDetach(t)
                 \/ ConfirmDetached(t)

Next == \/ \E w \in Workers :
             \/ WorkerLock(w) \/ WorkerUnlock(w) \/ Start(w) \/ WorkerStep(w)
             \/ \E i \in Items : Prestart(w, i)
        \/ \E t \in Waiters :
             WaiterStep(t) \/ \E i \in Items : LockQueue(t, i)
        \/ \E i \in Items : Enqueue(i)

(* Every call runs to its end.  A mutex is handed to each thread that keeps  *)
(* waiting for it, which is what strong fairness says of the steps that      *)
(* acquire one; a worker may ask whether it is canceled any number of times, *)
(* and then calls finish.                                                    *)
Fairness ==
  /\ \A w \in Workers :
       /\ WF_vars(ReadWaiter(w) \/ Reinit(w) \/ ClearWow(w) \/ AdvanceWheel(w)
                  \/ MeetWaiter(w) \/ ReleaseWorkerDetach(w) \/ ClearTag(w))
       /\ WF_vars(RecheckCanceled(w)) /\ SF_vars(FinishCall(w))
       /\ SF_vars(EnqueuePrestarted(w) \/ Unlink(w))
       /\ SF_vars(AcquireWorkerDetach(w))
  /\ \A t \in Waiters : WF_vars(WaiterStep(t)) /\ SF_vars(ConfirmDetached(t))

Spec == Init /\ [][Next]_vars /\ Fairness

-----------------------------------------------------------------------------
(***************************************************************************)
(* Properties.                                                             *)
(***************************************************************************)

\* The waiter is known to its worker and still has the item and the worker.
Attached(t) == pc[t] \in {"check", "grip", "test", "turn", "release", "detach"}

(* The item and the worker of an attached waiter stay the ones it attached   *)
(* to: the item is not put to another use, so that wow tells of the waiter's *)
(* own item, and the worker has not returned from finishing it               *)
(* (completion.h, the two detach locks of commcompletiontowaiter).           *)
AttachedItemNotReused ==
  \A t \in Waiters : Attached(t) =>
    /\ wow[item[t]] \in {t, None}
    /\ peer[t] \in Workers
    /\ item[peer[t]] = item[t]
    /\ pc[peer[t]] \notin {"off", "idle", "enqueue", "leave", "untag"}

(* The waiter object a worker is going to access belongs to a wait that has  *)
(* not returned: its owner may destroy or reuse it after the wait.           *)
WaiterObjectAlive ==
  \A w \in Workers :
    pc[w] \in {"detach", "signal", "advance", "meet"} => pc[peer[w]] \notin {"idle", "locked", "publish"}

(* No wake-up is lost: a waiter that turns the wheel after its item was      *)
(* finished has a signal to consume, or its worker is about to give one.     *)
NoWaitLost ==
  \A t \in Waiters :
    pc[t] = "turn" /\ ~Started(item[t]) =>
      wheel[peer[t]].pending \/ pc[peer[t]] = "advance"

(* Each started item has exactly one worker, and an item in the queue is     *)
(* there once: neither two workers nor a worker and a canceling owner get    *)
(* the same item (completion.c, unlockandcancel).                            *)
OneOwner ==
  /\ TypeOK
  /\ \A w, v \in Workers : w # v /\ item[w] # None => item[w] # item[v]
  /\ \A j, k \in DOMAIN queue : queue[j] = queue[k] => j = k
  /\ \A i \in Items :
       Queued(i) => (Started(i) <=> \E w \in Workers : item[w] = i /\ pc[w] \in {"busy", "recheck", "finish"})

(* A worker is told to cancel only on the request of the waiter of the item  *)
(* it works on, never for the request of an earlier use of the item; and wow *)
(* cannot change between the two reads of iscanceled, nor can the tag be     *)
(* missing once a canceling waiter is there (completion.c, MG_VERIFY).       *)
CanceledOnRequest ==
  \A w \in Workers :
    /\ pc[w] = "recheck" => /\ wow[item[w]] = peer[w]
                           /\ item[w] \in cancelTag <=> intent[peer[w]] = "cancel"
    /\ pc[w] \in {"busy", "recheck"} /\ canceled[w] =>
         \E t \in Waiters : Attached(t) /\ item[t] = item[w] /\ intent[t] = "cancel"

(* The queue uses the wheels of the workers as wheel.h demands: one client   *)
(* at a time, on an engaged wheel, gone when it is disengaged.               *)
Event(w) == INSTANCE WheelEvent WITH Clients <- Waiters, Nobody <- None,
                                     engaged <- wheel[w].engaged,
                                     gripped <- wheel[w].gripped,
                                     pending <- wheel[w].pending
WheelsUsedRightly ==
  [][\A w \in Workers : wheel'[w] # wheel[w] => Event(w)!Next]_vars

(* The detailed queue keeps the promise of module Handling: no wait ends     *)
(* before the handling does, no item is given back under its waiter, and no  *)
(* item is handled twice or withdrawn from under its worker.                 *)
Phase(i) == IF \E w \in Workers : item[w] = i
              THEN IF Started(i) THEN "handled" ELSE "done"
              ELSE IF Queued(i) THEN "queued" ELSE "out"

Promise == INSTANCE Handling WITH
             phase <- [i \in Items |-> Phase(i)],
             awaited <- [t \in Waiters |-> IF Attached(t) THEN item[t] ELSE None]

HandlingSpec == Promise!Spec

(* A plain wait of an item that is in the queue returns when the item has    *)
(* left it, even if nobody had started it when the wait was called           *)
(* (completion.h: "blocks until a Worker starts and then finishes handling   *)
(* the item").                                                               *)
WaitOutlastsHandling ==
  [][\A t \in Waiters :
       pc[t] # "idle" /\ pc'[t] = "idle" /\ intent[t] = "wait" /\ item[t] # None
         => ~Queued(item[t])]_vars

(* Every wait and every cancel returns, and no finish is held back for ever  *)
(* by its waiter or by another worker (completion.h, unlockandwait and       *)
(* commcompletiontowaiter, which wait for each other).                       *)
EveryCallReturns ==
  /\ \A t \in Waiters : pc[t] = "check" ~> pc[t] = "idle"
  /\ \A w \in Workers : pc[w] = "finish" ~> pc[w] = "idle"
=============================================================================
