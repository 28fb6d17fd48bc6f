# Verification of MutexGear

MutexGear builds synchronisation objects out of mutexes only: no semaphores, no
condition variables, no futexes. A thread that has something to signal *holds a
mutex*, and the thread that waits blocks on that mutex. This gives the objects
priority inheritance, and makes them hard to test: what must be held by whom, in
which order, changes with every step.

This directory holds TLA+ modules of the objects, the TLC runs that check them
on small instances, and theorems about them that TLAPS checks for all values of
the constants.

## 1. The system

| Component | State | Operations | Used by |
|---|---|---|---|
| **wheel** `src/wheel.h`, `src/wheel.c` | three mutexes, `wheel_side_index`, `client_side_index` | host: engaged, advanced, disengaged; client: gripon, turn, release, pushon | completion worker |
| **toggle** `src/toggle.c` | two mutexes, `thumb_position`, `push_position` | host: engaged, flipped, disengaged; client: pushon | applications |
| **completion queue** `src/completion.h` | work list, `access_lock`, `worker_detach_lock`; in each item `p_worker_or_waiter` ("wow"); in each worker a wheel and its lock; in each waiter a `wait_detach_lock` | lock, unlock, enqueue, start, prestart, safefinish, unsafefinish (locked and unlocked part), unlockandwait | drainable queue, rwlock, maintlock, applications |
| **cancelable queue** `src/completion.c` | the same, and a cancel tag in each item | iscanceled, unlockandcancel, finish that clears the tag | applications |
| **drainable queue** `src/completion.h` | the same, and `drain_index` | enqueue with index, splice to a drain, finish with drain | rwlock, maintlock |
| **maintenance lock** `src/maintlock.c` | flags LOCKED_FOR_UPDATE and LOCKED_FOR_WAIT, queues `acquired_reads` (drainable) and `awaited_reads` | set_maintenance, clear_maintenance, test_maintenance, tryrdlock, rdunlock, wait_rdunlock | applications |
| **rwlock** `src/rwlock.c` | queues `acquired_reads`, `waiting_writes`, `waiting_reads` (drainable), `express_reads`, `express_commits`, `reader_push_locks` | wrlock, trywrlock, wrunlock, rdlock, rdunlock | applications |
| **trdl rwlock** `src/rwlock.c` | the same, `wrlock_waits`, a separator item in `acquired_reads`, `tryread_queue_lock` | the same, and tryrdlock | applications |
| **lists** `include/mutexgear/_llisttmpl.h` | `p_next_item`, `p_previous_item` of each item and end item | link, unlink, splice, swap, and reads of the previous pointers without a lock | all the queues |
| **lock attributes** `src/utility.h` and a copy in each component | pshared, prioceiling, protocol; reader push locks | init, destroy, set, get, setmutexattr | every init function |
| mutex and atomics wrappers, C++ wrappers | | | all of them |

How they interact. All interaction is through shared memory. A *worker* engages
its wheel once and keeps it engaged. A *waiter* publishes itself in the wow
field of an item, grips on to the wheel of the worker it found there, and turns
that wheel until wow is null. The worker that finishes an item clears wow and
advances its wheel. Two mutexes then end the meeting: the worker takes the
waiter's `wait_detach_lock` (so the item and the worker are free), the waiter takes the
queue's `worker_detach_lock` (so the waiter object is free). The locks
use the queue as a list of holders: a writer waits for the items of the readers, a reader for
the items of the writers, a maintenance wait for all readers that were there.

What is hard:

* the interleavings of two or three threads over mutexes, each taken and released in the
  middle of a call (wheel, toggle, the detach handshake);
* signals that may be given early, late, or more often than they are
  consumed (the skipped advance on `EBUSY`, the free first turn after a grip-on);
* reads without a lock whose result is used later (wow read twice, the drain
  index preview, the emptiness tests, the mode flags, the previous pointers of
  a list while it is spliced, the count of writers);
* the reuse of an item, a worker or a waiter at once after a call returned;
* indices that wrap around (wheel, toggle, drain index) and one integer that
  encodes two kinds of position;
* liveness: a wait must end although new readers come for ever;
* init and destroy of objects made of up to eleven mutexes, any of which may
  fail, against users that are still inside the last call they made.

No process crashes, messages or timeouts occur in this code, nothing is
persisted.

What makes each component correct:

* wheel: mutexes are released by their owners only; a signal given to a client
  that is gripped on is never lost; a turn needs a signal;
* toggle: a push-on returns for the flip that is due, neither before it nor
  after the next one;
* completion: a wait returns after the handling of the item and not
  before; it does return; no object is used after its owner got it back;
  an item has one owner; a cancel reaches the worker of this use of the item;
* maintenance lock: a wait outlasts all the earlier readers, readers stay out
  under maintenance, waits end, calls that should not block do not;
* drainable queue: whoever reads it without the lock sees a sequence of items; a drain
  takes what is in the queue, in its order, and nothing that was drained before;
* init and destroy: all or nothing, nothing destroyed in use, the attributes of the
  caller in every mutex;
* trdl rwlock: as the rwlock; try-reads and writers that refuse each other do
  so for a reason; the count of writers is that of the writers;
* rwlock: exclusion, priority of writers over later readers, each item linked and waited
  for once, no deadlock among competing writers, progress of both sides.

## 2. The modules

| Module | Models | Role |
|---|---|---|
| `WheelEvent` | what a wheel promises: an event with room for one signal | abstract specification |
| `Wheel` | `src/wheel.h`, `src/wheel.c` | detailed specification, implements `WheelEvent` |
| `WheelProofs` | | theorems about `Wheel` and `WheelWait` |
| `WheelWait` | the usage pattern of `include/mutexgear/wheel.h`, on top of `Wheel` | composition, liveness |
| `Toggle`, `ToggleProofs` | `src/toggle.c` | specification and theorems |
| `Handling` | what a completion queue promises about items and waits | abstract specification |
| `Completion` | completion queue and cancelable queue, with the wheels of the workers as `WheelEvent`s | detailed specification, implements `Handling` |
| `CompletionProofs` | | theorems about `Completion` |
| `MaintLock`, `MaintLockProofs` | `src/maintlock.c` with the drain index of `src/completion.h` | specification and theorems |
| `ReadWriteLock` | what the rwlock promises: sharing, exclusion, priority of writers | abstract specification |
| `RWLock` | `src/rwlock.c`, the basic lock, with the queues of `src/completion.h` | detailed specification, implements `ReadWriteLock` |
| `RWLockProofs` | | theorems about `RWLock` |
| `TrdlRWLock` | `src/rwlock.c`, the lock with try-reads: the changes to `RWLock`, which it extends | detailed specification, implements `ReadWriteLock` |
| `TrdlRWLockProofs` | | theorems about `TrdlRWLock` |
| `ListFacts` | | lemmas about lists that the proofs share |
| `CompletionItem` | the tags of items, `include/mutexgear/completion.h` | operators, used by `Completion`, `RWLock`, `TrdlRWLock` |
| `LinkedList` | `include/mutexgear/_llisttmpl.h`: an operation is the sequence of its stores | operators, used by `DrainableQueue` |
| `DrainSpec` | what a queue and its drain promise to one who reads them without the lock | abstract specification |
| `DrainableQueue` | the work list and the drain of a queue, store by store | detailed specification, implements `DrainSpec` |
| `DrainableQueueProofs` | | theorems about `DrainableQueue` and the lists of `LinkedList` |
| `LockAttr` | attributes of mutexes, `src/utility.h` and the `setmutexattr` functions | operators, used by `Lifecycle` |
| `Lifecycle` | init, destroy and attributes of all kinds of object | specification |
| `MC...` | | instances for TLC |

**State.** A mutex is a variable that names its owner or `Nobody`; the array
`muteces` is the function `owner`. A mutex that one step both acquires and
releases needs no variable: the step has the guard that it is free. A list is
a sequence. The field wow holds a worker, a waiter or `None`.

**Steps.** An action is the stretch of a call from one operation on a mutex or
a shared word to the next. The position inside a call is `pc`; actions whose name ends in `Call`
start one. A critical section that no other thread can look into is one
action (`Unlink`, `TryRdLockEnqueue`). Reads without a lock are actions of
their own (`AskCanceled` and `RecheckCanceled`, `RdUnlockCall` and
`UnlinkAcquired`, `CheckEmpty` and `Relock`).

**Wheel.** `Engage`, `Disengage` are the calls of that name. `advanced` is
`AdvanceCall`, then `AdvanceSkip` on `EBUSY` or `AdvanceTryAcquire` and
`AdvanceRelease`. `gripon` is `GripOnCall` and a backwards search, `GripOnBusy`
until `GripOnAcquire`. `turn` is `TurnCall`, `TurnAcquire` (blocks),
`TurnRelease`. `pushon` likewise.

**Completion.** The worker side is `safefinish` (`FinishCall`, `Unlink`,
`ReadWaiter`, then `Reinit`, or the steps of `commcompletiontowaiter`), the
waiter side `unlockandwait` and `unlockandcancel` (`LockQueue` to
`PublishWaiter`) and `wait_item_completion_and_detach` (`CheckCompleted` to
`ConfirmDetached`). The wheel of a worker is three fields with the effect of
the actions of `WheelEvent` but without its guards; `WheelsUsedRightly` checks
that each change of a wheel is a step `WheelEvent` allows, so the queue
fulfils the duties of a user of the wheel. Since `Wheel` implements
`WheelEvent` (theorem `WheelProofs!Refinement`), the composition is sound for
the mutex-level wheel.

**MaintLock.** The item of a reader is the reader itself. A completion is three steps seen
from outside (`FinishSignal`, `WaitCompleted`, `FinishMeet`): their inner steps
are what `Completion` checks.

**RWLock.** The item of a thread is the thread. Waiting for an item has the steps of
the promise `Handling`: `StartWait` publishes the waiter, the owner finishes
the item (`FinishRead`, `FinishWrite`, `FinishWait`), `EndWait` returns, and then the owner goes
on (`NoWaiter`). `Completion` checks that the queue keeps that promise;
`WaitsAreLegal` checks that the rwlock fulfils the duties that come with it.

* `wrlock`: `WrLockCall`, the optimistic `WrLockEmpty`, else `Enlist` and
  the push of readers: `PushFirst`, then rounds of `WaitLastRead`,
  `ReadWaited` (and `EnlistLate` when the countdown ends), or `FindAllBusy`, `LookAtCommits`,
  `PushNext`, until `AcquireEmptied`; `Unpush`, `Unlist` or `ReinitUnlisted`, `FinishWrite`,
  `WrLockReturn`. The one-channel and the many-channel function are the same
  actions: with `Channels = 1` no writer finds all items busy. The first push lock, an
  address modulo the number of channels in the code, is any one. Instead of the
  counter of commits the model keeps the set of writers that have not seen
  its last change (`outdated`), which has no bound to name.
* `rdlock`: `RdLockCall` reads `waiting_writes`; the express way is `PushExpress` and
  `CheckReads`. A failed compare-and-swap is `PushFailed`; the code gives up after
  eight, the model may after any. Otherwise the reader locks `acquired_reads` and commits: `CommitLinked`
  and `SwapLinked` when its own item is among the express reads, `CommitOwn`
  and `SwapOwn` when it is not. With writers waiting it goes to `await`: the first one leads (`LeadReads`,
  `WaitLastWrite`, `FindNoWrites`, `DrainReads`), each other one follows (`FollowReads`, `LeaveReads`), then `Relock`.
  The drain index of `waiting_reads` is left out, for it decides only when the leader is
  not the head of the queue, and `LeaderIsFirst` shows that it is.
* `rdunlock`: `UnlinkOwn`, `ExtractExpress`, `LinkExtracted`, `FinishRead`,
  `RdUnlockReturn`; or `UnlockQueued` for an item that is still an express read.

**TrdlRWLock.** The separator is an item of `acquired` that is always there and always
tagged; `RWLock` has a constant for it, `EndItem`, which is `Nobody` in the basic lock.
A writer counts itself (`TrdlWrLockCall`), passes the barrier if nobody has since the count
was zero (`WrLockBarrier`), glances at the list and goes on as in `RWLock`; `wrunlock` is two steps, the
count first (`WrUnlockCall`, `ReleaseAccess`). `trywrlock` is `TryFirstGlance` to `GiveUp`. `tryrdlock` is
`TryRdLockCall`, `TryRdLockCheck` (the count again, under the lock) and
`TryRdLockLink`. An ordinary reader may enter by a try-read before it
(`CheckTryReads`); a try-read leaves under both locks (`LockForUnlink`, `UnlinkTried`) and
takes the express reads out like any other. `contended` is a history variable for
`TryWriteFailsOnBusy`. The barrier bit is a load and an atomic addition in the code; it is one step
here, for the thread that sets it is counted and holds the lock, so that nobody else changes
the bit in between.

**DrainableQueue.** A list operation is computed by `LinkedList` as a sequence of
stores, and `Store` makes them one at a time while the thread holds `access_lock`;
between them anybody may read previous pointers. The refinement mapping reads the
lists as such a reader does: backward from the end item. `DrainFrom` is the drain with the
check of the drain index, `SafeDrain` and `FinishDraining` are the two ways into it,
`SpliceAll` is the drain of everything by one who waits for it.

**Lifecycle.** A call is the sequence `todo` of its steps; `undo` are the steps that take
back what was done, as the flags of the code (`..._was_allocated`, `..._prepared`) tell. `kind` is
chosen at the start: nested objects are nested sequences (`RWLockInit` contains `QueueInit`,
`QueueInit` is made of `LockInit`). Users take and give back the mutexes of the object and put items
in its lists until the destruction begins; then they only finish.

`ahead` is a history variable: the writers that had claimed priority when the reader
called. It is the part of the promise that orders readers after writers.

**Duties of callers** are guards, as the headers ask for them: clients of a wheel
are serialised and come between engagement and disengagement; an item has one
waiter at a time, which names an item it sees in the queue under the queue's lock; a
worker handles one item at a time; a toggle is not flipped twice without a push-on
in between (`toggle.h:43-47`); no call to an object begins while it is destroyed, and
none while it is initialised.

**Abstracted.** Memory is sequentially consistent: acquire and release
orderings, and the relaxed reads the code allows itself, are not told apart.
`_mg_atomic_unsafeor` and `unsafeand` (`include/mutexgear/utility.h`) are a load and an atomic add
of the missing bit and are one step here; nobody else changes the same bit in between (a wait
that comes then sees the flag set and leaves it alone, `maintlock.c:684-689`). What an update of the *other* flag does between the two is not modelled. Errors of mutex operations other than
`EBUSY` of a try-acquire occur in `Lifecycle` only. A call that returns `EBUSY` without
any change is a disabled action.

## 3. The runs

| Run | Instance | States | Shows |
|---|---|---|---|
| `wheel` | 3 clients, grip-on and push-on, 4 changes | 7,678 | mutex ownership, no needed advance is skipped, refinement of `WheelEvent`, each client that waits for the last change sees it |
| `toggle` | 9 clients | 103 | positions stay in step, a push-on awaits its flip |
| `toggle_reengage` | 1 client | *violated* | section 6 |
| `completion` | 2 workers, 2 waiters, 2 items | 242,672 | life of items, workers and waiters, cancels, wake-ups, refinement of `Handling` |
| `completion_live` | 2 workers, 2 waiters, 1 item | 12,972 | waits, cancels and finishes return |
| `completion_not_started` | 1 worker, 1 waiter, 1 item | *violated* | section 6 |
| `maintlock` | 2 readers, 2 waiting threads, 2 drain indices | 15,038 | readers leave the queue they are in, waits outlast earlier readers and return, maintenance isolates |
| `maintlock_leak` | 2 readers, 2 waiting threads | *violated* | section 6 |
| `rwlock` | 2 readers, 2 writers, 2 push locks, priority never, at once, after one reader | 1,492,665 | refinement of `ReadWriteLock`, duties towards the queues, tags, express reads, push locks without deadlock |
| `trdl` | 2 readers that lock and try; a writer that locks, with priority at once or after one reader; a writer that tries; 3 of the 4 inside at a time; 1 push lock | 322,437 | count and barrier, try-reads against writers, refinement of `ReadWriteLock`, a wrlock that claims priority returns, early or late, and so does an rdlock in the line of waiting readers |
| `lifecycle` | 10 kinds of object, 2 users, 1 or 2 push locks | 171,916 | init and destroy |
| `lists` | 3 items, plain or drainable, 4 drain indices | 76,853 | lists between any two stores, refinement of `DrainSpec` |

The type invariant of a module is a part of one of the invariants of its run (`OneOwner`,
`OneWaitAtATime`, `LeaderIsFirst`, `WaitsCounted`, `NotLeftBehind`, `AllOrNothing`,
`ListsConsistent`), or proved (`Wheel`, `Toggle`). All runs check for deadlock but `toggle`, which is engaged once only
and may stop after the disengagement, and `lifecycle`, where a wheel or toggle that was
destroyed while one of its mutexes is held stays in parts.

**Bounds and why they are enough.** There are no bounds on the length of a
behaviour, with two exceptions, and one on the number of threads inside at a time. `LastChange = 4` is one change more than the wheel has
mutexes, so the position of the host comes around once; the proofs of the wheel
have no such bound. `IndexIsFresh` in `DrainableQueue` keeps the drain index from coming
back to a value while an item enqueued at that value is about: there are 2^w - 1 values, and an item would have
to stay for as many drains. With `LastDrainIdx = 4` the index wraps around all the same.
`MaintLock` has no such bound, as its index protects readers over any number of drains: `LastDrainIdx = 2`
is the least value at which a new index differs from the old one.

Every object is reused for ever, but the toggle of `toggle`. The wheel serves one client at a time, so a third client
adds only identity. Clients of the toggle are interchangeable: nine of them show nothing that two do not. In the completion queue two workers and two waiters meet at one
`worker_detach_lock`, and a second item lets an item be enqueued while another
is waited for; the run of liveness keeps what contends (the workers, the waiters)
and drops what does not (the second item). Two readers of the maintenance lock are one of the past and one that
comes under the wait; with three (the readers of the past, of this wait and of the next one) the properties
hold too, in 277,684 states. The rwlock needs two
readers for the express queue (one before and one after the previewed item), for the chain of waiting
readers and for the last reader that leaves as another one enters; two writers for push locks and for an item
that two writers want. In `trdl` both readers have both ways in, and there is a writer for each: two rdlocks meet
(one leads the line of waiting readers, the other follows and is in the drain), two try-reads, an rdlock and a try-read, and each of them and each
of the two calls for write. Two wrlocks do not meet there, nor two trywrlocks; they do in an instance with one reader and two
writers that have both ways in, which is not among the runs and in which all properties of `trdl` hold, in 168,582 states. Two wrlocks
of the basic lock meet in `rwlock`. The number zero claims priority at once, the number one by the countdown, in `EnlistLate`. There is one push lock, as `rwlock` has looked
at several. `MaxInside = 3`: at most three of the four threads are in a call or have the lock at a time, and any three may be.
It holds back the start of a call and nothing else, so it takes no progress from anyone. Without it the
safety properties of `trdl` hold in 1,265,744 states; for liveness that is too many. Three items
in `lists` make a splice with an item left before it, a first and a last one; with four the properties hold in
976,350 states. Two users in `lifecycle` let one hold a mutex while the other has an item.
`rwlock`, `lifecycle` and `lists` use the symmetry of threads, as no property of theirs is about liveness or names one; `trdl` and the others do not.

## 4. Fairness

A thread that is inside a call goes on (weak fairness of the steps of each
thread). The application must start no call: no fairness for
`Start`, `LockQueue`, `WaitCall`, `TryRdLockCall`, `EnterLoop`, the requests
to set or clear maintenance, the calls of readers and writers. Two assumptions go further:

* a mutex is handed over to each thread that keeps waiting for it (strong
  fairness of the steps that acquire a contended one). The library is for priority-inheriting
  mutexes of real-time systems, where waiters queue up. Without it, a stream of threads that pass
  through `worker_detach_lock` could hold back one other thread for ever;
* the application lets go: a reader releases its lock (`RdUnlockCall`), a
  worker that asks again and again whether it is canceled finishes at last
  (`FinishCall`), the host of `WheelWait` goes on to make its changes. What
  waits for the application cannot end otherwise.

For `RWLock` and `TrdlRWLock`, a thread within a call has strong fairness as a whole, for all but the first steps
of its calls: nobody has to ask for the lock. A writer releases the lock,
and so does a reader. In `TrdlFairness` a writer that only tries has weak fairness: it blocks on `tryread_queue_lock` alone,
while it is counted, and a try-reader that sees the count does not hold that lock. The fairness is about what the code has; the history
variable has no part in it. The liveness of the two sides differs by design. A
writer that claims priority gets the lock whatever readers come
(`WriteLockReturns`), try-readers included; one that claims it after a number of readers counts only
those it waited for itself, and with several push locks other writers may do all the
waiting, which is why the property asks for one push lock in that case. (With two push locks,
two writers and a number of one, an instance that is not among the runs, TLC finds a behaviour in which one writer never
counts a reader. `rwlock.h` warns that the number "can't be interpreted as an exact number of readers"
and asks for readers that the writer "witnesses".) A reader is
kept out as long as writers claim priority again and again, so `ReadLockReturns` holds
unless they do so for ever. It is about the leader of the waiting readers and about
those that follow, each of which waits for the one before it. Both properties say that a thread is not in the places of
such a wait for ever (`[]<>~...`), which is no weaker than that a wait that begins ends; both are checked in `trdl`, whose calls include those of the
basic lock, for writers that claim at once and after one reader (the mutant of `WriteLockReturns` miscounts that reader), and
for readers that lead and that follow (the mutant of `ReadLockReturns` does not tell the follower); in `rwlock` that two writers do not block each other for ever is
the state property `SomePusherRuns`.

In `WheelWait` the host makes its changes (strong fairness: a client that searches may be in the way again and again), and every
thread inside a call goes on (weak fairness). The search of `gripon` is a spin loop that ends because
the host advances a finite number of times: a host that advanced for
ever could in principle keep a searching client busy.

## 5. The proofs

`WheelProofs` proves for any set of clients that the wheel keeps its type
(`TypeCorrect`), that mutexes are where the indices say (`Ownership`), that a
blocked client is always one advance away from going on (`NoLostSignal`), and
that the wheel implements `WheelEvent` (`Refinement`). The assumption is
`WheelAssumption` alone: the host, the clients and `Nobody` are different. The
inductive invariant is the conjunction of `TypeOK`, `HeldExactly` and
`IndicesMatchUse`. None of the parts is inductive by itself: that
`TurnRelease` leaves each mutex with its owner needs the client to be the only
one inside, which is `IndicesMatchUse`; that a second client cannot get in needs
the index to tell a gripped wheel, and the type of the index to tell what it
encodes. `NoLostSignal` is not a conjunct; it follows from the invariant: with
three mutexes, of which a client in `turn` holds one and the host the one that
blocks it, the third is free or taken by the host. With two
mutexes this fails, and the mutant of that property shows it. The refinement maps
*engaged*, *gripped* and *pending* to the indices (`wheelSide #
Following(clientSide)`: the host is not the next one, a turn is
available); each action is a step of the event or a stutter.

For the usage pattern, `PatternKeepsRules` proves that `WheelWait` uses the wheel as it
demands, and `NobodyLeftBehind` proves `NotLeftBehind` for any clients and number of changes.
The invariant `WaitInv` adds to that of the wheel that a test tells about the position from which the
client turns (`TestsAreFresh`), and that after the announcement of the last change
the host is past every client that tested before it (`SignalKept`). `NotLeftBehind`
is about clients that block already; it is not inductive, because it says nothing of a
client between its test and its turn.

`ToggleProofs` proves that mutexes are where the positions say for a toggle
that may be engaged again (`Ownership`), and, for one that is engaged once, that the
positions are in step (`StaysInStep`) and that push-ons await flips
(`PushonsAwait`). The run `toggle_reengage` shows that the last two do not
hold after a re-engagement.

`MaintLockProofs` needs that readers, waiting threads and `Nobody` are
different and that there are at least two drain indices
(`MaintLockAssumption`). Its invariant says that a reader inside is in exactly one of
the two queues, and that the index which it remembers is the current one just for
those of the first queue (`QueuesHoldReaders`); that the flag admits one wait at a
time, and outside of a wait the second queue is empty (`WaitsAlone`); that the
readers a wait owes are all in the second queue (`OwedAreAwaited`). The index
wraps around, so this is about more than freshness: a wait returns only when the
second queue is empty, hence a splice, which changes the index, never
meets a reader with an older one. From the invariant follow
`UnlocksFindTheirQueue`, `WaitsExcludeEachOther`, `MaintenanceKeepsReadersOut`
and the action property `WaitsOutlastReads`.

`CompletionProofs` needs that workers, waiters and `None` are different. Its
invariant has one part for each party of the handshake: what a worker owns and
what is in the wow of its item at each place of its call (`WorkersOwnItems`), what
nobody owns (`OthersUntouched`), who is in wow (`WowNamesWaiter`), what an attached
waiter holds and where its worker is (`WaitersAttach`), that a worker which gives back an
item meets its waiter or finds it on its way out (`WorkersMeet`), what the wheels
have signalled (`WheelsFollow`) and what the tags tell (`TagsFollow`). No part is
inductive without the others: that the waiter still lives when the worker turns to
it rests on the waiter's lock, which rests on wow, which rests on the worker's place. The
theorems are the five invariants of the run `completion`, the action property
`WheelsUsedRightly`, and the refinement of `Handling` (`QueueKeepsPromise`): the moves
of items and waiters are `Start`, `Prestart`, `Enqueue`, `Unlink` or the return of an item,
`PublishWaiter` and the end of a wait; all other steps stutter.

`RWLockProofs` needs `RWLockAssumption`: readers, writers, `Nobody` and the end item are
different, and there are one, two or four push locks (`rwlock.h:56`: "1, 2 or 4 channels are supported"). The numbers of readers and writers are any, and
so are the priorities. The invariant `LockInv` has ten parts:

* each list is typed and has an item once (`Types`, `ListsInjective`);
* where the item of a reader is for each place in its call (`ReadsPlaced`): of the three
  lists it can be in two only while it is linked first to let others through;
* who has the access lock, and that a writer with it has no readers (`LockHeld`);
* that an express read is covered (`ReadsCovered`): `ExpressReadsCovered` is not inductive, for
  it does not say who moves the item on; `LockHeld` and `ReadsPlaced` do;
* the claims of the writers and the readers behind them (`ClaimsKept`);
* who waits for whom (`WaitsMatch`, `TagsMatch`), for which all three queues have to
  be looked at together: a reader may be waited for by a writer or by a reader, and
  only its place tells which;
* the line of waiting readers (`ReadersQueue`), each one waiting for the one before it;
  those in the drain wait for each other or for a reader that has left;
* that a writer which has a push lock and is not after another one exists
  when all are taken (`PushersRun`): the readers it found busy have waiters, and one
  of those has a push lock.

There is one lemma `...Keeps` per action of a reader. Of the writers, those that have
nothing yet and go from one such place to the next share `FreeMoveKeeps`; the others have a
lemma each. `LockInv` itself was checked by TLC on the
instance of `rwlock`, on one with three readers and one writer, and on one of `TrdlRWLock`, before it was
proved. From it follow the five invariants of the run (`LeaderIsFirst`, which includes that a writer has claimed priority just when its number is zero, for the lock
without a separator, as module `TrdlRWLock` adds places to those of `RWLock`) and the
refinement of `ReadWriteLock` (`RWLockKeepsPromise`). There a writer begins to write when it takes
the access lock of the empty list, which has no readers by `ReadsPlaced` and `ReadsCovered`; a reader begins to read
when it finds others or has linked itself, when no writer has the lock by `LockHeld`
and none is ahead of it by `ClaimsKept`. The lemmas about the mapping (`WrLockStepMapped`,
`ReaderStepMapped` and those before them) say for each step which step of `ReadWriteLock` it is, or
that it stutters. `SomePusherRuns` ends with an argument about the
ring of push locks: if one is taken and one is free, some taken one is followed by a
free one.

`TrdlRWLockProofs` needs in addition that the writers are finitely many
(`TrdlAssumption`), as their count is a number. It has two invariants, one for what the lock adds and one
for what it shares with the basic one:

* `CountInv` says that the counter is twice the number of
  the writers between their increment and decrement, plus the barrier bit; that the bit is set
  while somebody is past the barrier; that a try-read about to be linked has its
  lock and finds the bit clear. The steps that are those of `RWLock` move a writer among places that
  count alike, and are dealt with by one lemma.
* `TrdlInv` is `LockInv` with `TriedPlaced`: a reader that came by tryrdlock goes to places of its own
  and is in neither of the queues that lead to `acquired_reads`. The steps of the basic lock keep `LockInv` by the lemmas of
  `RWLockProofs`, which is why these assume the invariant and the step and not `Spec`; `TriedPlaced` is needed for
  the unlinking of a tried read, whose item would otherwise leave one list and stay in another.

The two meet where a try-read links its item without the access lock (`TryRdLockLinkKeeps`, `TryReadBegins`). That no
writer has the lock at that moment follows from `CountInv`: a writer that had it would be past
the barrier, and the bit is clear. So the lock keeps `LockInv` (`TrdlLockInvariant`), covers its express
reads (`TrdlReadersAreCovered`) and implements `ReadWriteLock` (`TrdlRWLockKeepsPromise`), by the
mapping lemmas of the basic lock and one for each step that is new.

`DrainableQueueProofs` proves, for any number of items, `ListsConsistent` (`ListsStayConsistent`) and the
refinement of `DrainSpec` (`DrainableQueueKeepsPromise`), from
`DrainableQueueAssumption`: the items are finitely many, the end items and the splicer are none of them, and there
are two drain indices at least. The argument for the lists has three layers.

* *Lists and stores.* `Ring` says that the pointers around an end item agree with a
  sequence of items, in both directions; `Settled` says to which pointers the stores lead that are still to be made. `LinkSettles`,
  `UnlinkSettles` and `SpliceSettles` show that the stores of `linkat`, `unlink` and
  `splice` do not overwrite each other, and which sequence results. In a splice this holds because
  the node before the place and the node before the part that is cut differ, and for that reason the function
  returns early when the place is the end of the part.
* *The invariant.* `ListInv` says that the stores under way lead to two lists that have
  exactly the items that are in (`Picture`), that the lock tells who is inside which call (`LockGuards`), and
  that the index tells what is in the drain (`FreshIn`): no item of the drain has the index of
  the queue. This is what makes `unsafedrain__locked` right, which takes the items from its argument
  to the end of the work list, whichever list the argument is in. While a drain stores, its
  items still have that index; then the next index must be nobody's, and this is what `IndexIsFresh` assumes.
* *Walks.* `ForwardIs` and `BackIs` show that following the pointers gives the
  sequence, by induction over the number of nodes (`SetInduction`, from the well-founded order of
  the naturals), since each step of the walk is an unfolding of a recursive function.

The first theorem speaks of the times when the lock is free, the second of what a reader without
the lock sees while an operation is between its stores. There the two directions of a list
do not agree, so a second invariant is needed, on top of `ListInv`:

* *What is seen.* `Back` is the half of `Ring` that previous pointers tell; `Shows` says that they
  show a work list and a drain that have no item in common and, during a splice,
  the items on the move (the `View`). The mapping of `AbstractSpec` walks along pointers, and
  `ShownIsRead` tells that the walks give this view.
* *The course of a call.* `CourseInv` says that the stores that are left lead from the view of now, one view per
  store, to the end of the call, and that each of them makes a change `DrainSpec` knows (`Moves`) or none (`Course`). It must look
  ahead: what a store shows depends on what the stores before it left behind, and only the start of the call tells all of
  that. `LinkCourse`, `UnlinkCourse` and `SpliceCourse` give the course of each operation; in each the store of *one*
  previous pointer makes the change (`BackInsert`, `BackCut`), and the others, next pointers and the pointers of items that
  nobody reaches, show nothing. A splice makes two, the cut and the join, and between them its items are in
  neither list. This is where the order of the stores in `_llisttmpl.h` is needed: the items get their
  own pointers before they can be reached.
* *The steps.* `StepAdvances` has one lemma per action: a call begins with a course and changes nothing that is seen, a
  store goes one view on. `AddsMapped`, `TakesMapped`, `CutsMapped` and `JoinsMapped` turn the changes into
  the actions of `DrainSpec`. That a drain takes the end of the *work list*, and nothing that is in the
  drain already, is `DrainedIsQueued`: an item with the index of the queue is in the work list, by `ListInv`.

`ListFacts` holds what these proofs need to know of lists: `Append`,
concatenation, `RemoveFirst`, head and tail, each with the set of items, the type and
that no item is there twice.

The proofs speak of all values of the constants, so the bounds of the runs
limit nothing that they state. Only model-checked are: liveness
(`EveryWaitEnds`, `EveryCallReturns`, `WaitReturns`, `WriteLockReturns`,
`ReadLockReturns`), which is out of the reach of the prover, and the four invariants of `Lifecycle`. They are about the tables of
steps, sequences put together with folds (`Each`) whose elements the prover would have to compute one by one; and only the users and the
arguments of `rwlockattr_setwritechannels` vary there: the objects and their steps are fixed,
and the run covers every row.

## 6. What the checks found

* `maintlock_leak` (a defect): a reader that releases its lock while a maintenance wait drains the
  queue, between the preview of the drain index and the lock, goes on to the second queue
  and never releases the lock of the first. The lock is unusable from then on. The
  other runs of the maintenance lock keep the leak as it is: a thread that
  leaked goes on, all others block, and the safety properties hold.
* `toggle_reengage`: engaging a toggle again leaves the push position where it was.
* `completion_not_started`: a wait for an item that nobody started returns
  `ESRCH`, where the header promises to block.

## 7. Not modelled, and why

* The late wait: a wait for an item that already left the queue; callers
  must not make one.
* Failing mutexes in the calls between init and destroy: the code returns the
  error in the middle of the call, and what the object is worth then is not documented.
* Destruction of an rwlock while a waiting reader is about to splice the waiting
  reads into the drain: the drain is looked at before the queue they come from. The caller who destroys a lock with readers in a call of theirs breaks the contract;
  `Lifecycle` has users in their last steps only.
* `setmutexattr` leaves the flag for pshared in `mode_flags` as it is and copies no
  ceiling of zero; `LockAttr` does the same, and nothing in the library reads the flag.
* The static initializers (`MUTEXGEAR_TOGGLE_INITIALIZER` leaves the push position at an index that
  no push-on accepts).
* Lists, store by store: the link of a try-read behind the separator, which is made under
  `tryread_queue_lock` and not under the access lock of the list. It writes the pointers between the separator, the item and the end, an ordinary
  link those before the separator; `TrdlRWLock` has it as one step.
* Lists: swap and detach of whole lists, which the library does not use on a list others read; the C++ list `dlps_list.hpp`, which nothing in the library uses.
* The C++ wrappers forward. `test_maintenance` reads one word.
* bmpgen and the tests are programs that use the library.

## 8. The plan

Order: the most basic and most shared component first, then what is built on it.

1. `WheelEvent`, `Wheel`, `WheelProofs`, `WheelWait`: done.
2. `Handling`, `Completion`: done. `MaintLock`: done. `Toggle`: done.
   `ReadWriteLock`, `RWLock`: done.
3. `TrdlRWLock`: done. `LinkedList`, `DrainSpec`, `DrainableQueue`: done. `LockAttr`,
   `Lifecycle`: done.
4. Proofs of `MaintLock`, `Completion`, `RWLock` and `TrdlRWLock`: done.
   `NotLeftBehind` of `WheelWait`: done.
   `ListsConsistent` of `DrainableQueue`: done.
   The refinement of `DrainSpec` by `DrainableQueue`: done.
   The invariants of `Lifecycle` stay with TLC (section 5 says why).
5. Late waits: what a wait for an item that has left the queue can do.
6. The C++ layer: ownership of the mutex wrappers in `shared_mutex.hpp`, `maint_mutex.hpp`.
