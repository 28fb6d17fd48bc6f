------------------------------- MODULE RWLock -------------------------------
(***************************************************************************)
(* The basic rwlock of src/rwlock.c.  A reader has the lock while its item *)
(* is in acquired_reads, or in express_reads with acquired_reads not empty;*)
(* a writer has it while it holds the access lock of the empty             *)
(* acquired_reads.  Writers wait for the items of readers, one by one, and *)
(* readers for the items of the writers in waiting_writes.                 *)
(*                                                                         *)
(* The item of a thread is the thread.  Waiting for an item is the         *)
(* handshake that module Completion verifies, in the steps of its promise, *)
(* module Handling: an item is finished, then waiters leave, then its      *)
(* owner goes on.  A mutex that is released in the step that acquired it   *)
(* has no variable.                                                        *)
(***************************************************************************)
EXTENDS CompletionItem

CONSTANTS Readers, Writers,
          Nobody,
          EndItem,        \* the item of acquired_reads that reads are linked
                          \* before: Nobody, or the separator of module TrdlRWLock
          Channels,       \* the number of reader push locks in use
          TillPriority    \* values of __readers_till_wp that wrlock is given

ASSUME RWLockAssumption ==
  /\ Readers \cap Writers = {}
  /\ {Nobody, EndItem} \cap (Readers \cup Writers) = {}
  /\ Channels \in {1, 2, 4}
  /\ TillPriority \subseteq Int

VARIABLES acquired,     \* acquired_reads
          express,      \* express_reads, the last one pushed at the end
          writes,       \* waiting_writes
          waitReads,    \* waiting_reads
          waitDrain,    \* read_wait_drain
          extracted,    \* express reads taken out but not linked yet
          accessLock,   \* access_lock of acquired_reads: the write lock
          pushLock,     \* reader_push_locks
          outdated,     \* writers whose known_express_commits are not current
          till,         \* readers_till_wp of each writer
          wow,          \* of each item: "none", "worker" or "waiter"
          beingWaited,  \* items with rdlock_itemtag_beingwaited
          target,       \* the item each thread waits for
          seen,         \* the tail of express_reads each reader last read
          pc,
          ahead         \* history: the writers that claimed before each rdlock

listVars == <<acquired, express, writes, waitReads, waitDrain, extracted>>
writerVars == <<pushLock, outdated, till>>
vars == <<listVars, accessLock, writerVars, wow, beingWaited, target, seen, pc, ahead>>

Threads == Readers \cup Writers
Channel == 0 .. Channels - 1

WriterPC == {"idle", "tryLock", "tryWrite", "enlist", "push", "lockReads",
             "waitRead", "enlistLate", "allBusy", "pushNext", "unpush",
             "unlist", "finish", "meet", "writing"}
ReaderPC == {"idle", "express", "check", "lockLinked", "lockPlain",
             "commitLinked", "swapLinked", "commitOwn", "swapOwn",
             "await", "lead", "waitWrite", "drain", "follow", "leave",
             "finishWait", "meetFollower", "relock",
             "reading", "unlock", "extract", "link", "finish", "meet"}

\* The separator, when there is one, is always linked and always tagged.
EndList == IF EndItem = Nobody THEN << >> ELSE << EndItem >>

TypeOK == /\ {express, waitReads, waitDrain, extracted} \subseteq Seq(Readers)
          /\ acquired \in Seq(Readers \cup ToSet(EndList))
          /\ writes \in Seq(Writers)
          /\ accessLock \in Threads \cup {Nobody}
          /\ pushLock \in [Channel -> Writers \cup {Nobody}]
          /\ outdated \subseteq Writers
          /\ \A w \in Writers : till[w] \in TillPriority \/ till[w] >= 0
          /\ wow \in [Threads -> {"none", "worker", "waiter"}]
          /\ beingWaited \subseteq Readers \cup ToSet(EndList)
          /\ target \in [Threads -> Threads \cup {Nobody}]
          /\ seen \in [Readers -> Readers \cup {Nobody}]
          /\ pc \in [Threads -> ReaderPC \cup WriterPC]
          /\ \A r \in Readers : pc[r] \in ReaderPC
          /\ \A w \in Writers : pc[w] \in WriterPC
          /\ ahead \in [Readers -> SUBSET Writers]

Init == /\ acquired = EndList /\ express = << >> /\ writes = << >>
        /\ waitReads = << >> /\ waitDrain = << >> /\ extracted = << >>
        /\ accessLock = Nobody
        /\ pushLock = [c \in Channel |-> Nobody]
        /\ outdated = {}
        /\ till = [w \in Writers |-> 0]
        /\ wow = [t \in Threads |-> "none"]
        /\ beingWaited = ToSet(EndList)
        /\ target = [t \in Threads |-> Nobody]
        /\ seen = [r \in Readers |-> Nobody]
        /\ pc = [t \in Threads |-> "idle"]
        /\ ahead = [r \in Readers |-> {}]

-----------------------------------------------------------------------------
Goto(t, from, to) == pc[t] = from /\ pc' = [pc EXCEPT ![t] = to]

AccessFree == accessLock = Nobody

\* The list is as good as empty.
NoReads == acquired = EndList

\* The reads before the end item, the rest, and linking some more between.
Before(list) == LET end == SelectInSeq(list, LAMBDA x : x = EndItem)
                IN SubSeq(list, 1, IF end = 0 THEN Len(list) ELSE end - 1)

Behind(list) == SubSeq(list, Len(Before(list)) + 1, Len(list))

BeforeEnd == Before(acquired)

Linked(items) == BeforeEnd \o items \o Behind(acquired)

\* unlockandwait publishes the waiter under the lock of the queue (it returns
\* ESRCH for an item that nobody started; see WaitsAreLegal), ...
StartWait(t, x) == /\ wow[x] # "none"
                   /\ wow' = [wow EXCEPT ![x] = "waiter"]
                   /\ target' = [target EXCEPT ![t] = x]

\* Mutant: a wait returns whether or not the item is finished.
EndWaitEarly(t) == target' = [target EXCEPT ![t] = Nobody]

\* ... and returns when the item is finished.
EndWait(t) == /\ wow[target[t]] = "none"
              /\ target' = [target EXCEPT ![t] = Nobody]

NoWaiter(x) == \A t \in Threads : target[t] # x

LastExpress == IF express = << >> THEN Nobody ELSE Last(express)

\* express_commits changes when reads are committed.
CountCommit == outdated' = Writers

-----------------------------------------------------------------------------
(* Writers: wrlock, trywrlock, wrunlock.                                   *)

WrLockCall(w) ==
  /\ pc[w] = "idle"
  /\ \E n \in TillPriority : till' = [till EXCEPT ![w] = n]
  /\ pc' = [pc EXCEPT ![w] = IF NoReads THEN "tryLock" ELSE "enlist"]
  /\ UNCHANGED <<listVars, accessLock, pushLock, outdated, wow, beingWaited, target, seen, ahead>>

\* The history: w is served, no reader has to come after it any more.
Served(w) == ahead' = [r \in Readers |-> ahead[r] \ {w}]

\* No readers after the lock is taken either: access acquired.
WrLockEmpty(w) ==
  /\ Goto(w, "tryLock", "writing")
  /\ AccessFree /\ NoReads
  /\ accessLock' = w
  /\ Served(w)
  /\ UNCHANGED <<listVars, writerVars, wow, beingWaited, target, seen>>

WrLockNotEmpty(w) ==
  /\ Goto(w, "tryLock", "enlist")
  /\ AccessFree /\ ~NoReads
  /\ UNCHANGED <<listVars, accessLock, writerVars, wow, beingWaited, target, seen, ahead>>

Enlist(w) ==
  /\ Goto(w, "enlist", "push")
  /\ wow' = IF till[w] >= 0 THEN [wow EXCEPT ![w] = "worker"] ELSE wow
  /\ writes' = IF till[w] = 0 THEN Append(writes, w) ELSE writes
  /\ UNCHANGED <<acquired, express, waitReads, waitDrain, extracted, accessLock,
                 writerVars, beingWaited, target, seen, ahead>>

\* The first push lock depends on the address of the waiter.
PushFirst(w) ==
  /\ Goto(w, "push", "lockReads")
  /\ \E c \in Channel : /\ pushLock[c] = Nobody
                        /\ pushLock' = [pushLock EXCEPT ![c] = w]
  /\ outdated' = outdated \ {w}
  /\ UNCHANGED <<listVars, accessLock, till, wow, beingWaited, target, seen, ahead>>

AcquireEmptied(w) ==
  /\ Goto(w, "lockReads", "unpush")
  /\ AccessFree /\ NoReads
  /\ accessLock' = w
  /\ Served(w)
  /\ UNCHANGED <<listVars, writerVars, wow, beingWaited, target, seen>>

\* Mutant: the last reader, whether or not another writer waits for it.
WaitableLast(k) == k = Len(acquired)

\* The last reader that no other writer waits for.
Waitable(k) ==
  /\ ModifiesTag(beingWaited, acquired[k], TRUE)
  /\ \A j \in k + 1 .. Len(acquired) : ~ModifiesTag(beingWaited, acquired[j], TRUE)

WaitLastRead(w) ==
  /\ Goto(w, "lockReads", "waitRead")
  /\ AccessFree
  /\ \E k \in DOMAIN acquired :
       /\ Waitable(k)
       /\ beingWaited' = WithTag(beingWaited, acquired[k], TRUE)
       /\ StartWait(w, acquired[k])
  /\ UNCHANGED <<listVars, accessLock, writerVars, seen, ahead>>

FindAllBusy(w) ==
  /\ Goto(w, "lockReads", "allBusy")
  /\ AccessFree
  /\ ~NoReads /\ ToSet(acquired) \subseteq beingWaited
  /\ UNCHANGED <<listVars, accessLock, writerVars, wow, beingWaited, target, seen, ahead>>

\* Mutant: off by one, the last reader before the claim is not counted.
ReadWaitedShort(w) ==
  /\ pc[w] = "waitRead"
  /\ EndWait(w)
  /\ till' = [till EXCEPT ![w] = IF @ > 1 THEN @ - 1 ELSE @]
  /\ pc' = [pc EXCEPT ![w] = "lockReads"]
  /\ UNCHANGED <<listVars, accessLock, pushLock, outdated, wow, beingWaited, seen, ahead>>

\* Each reader waited for brings the claim of priority nearer.
ReadWaited(w) ==
  /\ pc[w] = "waitRead"
  /\ EndWait(w)
  /\ till' = [till EXCEPT ![w] = IF @ > 0 THEN @ - 1 ELSE @]
  /\ pc' = [pc EXCEPT ![w] = IF till[w] = 1 THEN "enlistLate" ELSE "lockReads"]
  /\ UNCHANGED <<listVars, accessLock, pushLock, outdated, wow, beingWaited, seen, ahead>>

EnlistLate(w) ==
  /\ Goto(w, "enlistLate", "lockReads")
  /\ writes' = Append(writes, w)
  /\ UNCHANGED <<acquired, express, waitReads, waitDrain, extracted, accessLock,
                 writerVars, wow, beingWaited, target, seen, ahead>>

\* New reads were committed: one more pass.  Otherwise one more push lock.
LookAtCommits(w) ==
  /\ pc[w] = "allBusy"
  /\ outdated' = outdated \ {w}
  /\ pc' = [pc EXCEPT ![w] = IF w \in outdated THEN "lockReads" ELSE "pushNext"]
  /\ UNCHANGED <<listVars, accessLock, pushLock, till, wow, beingWaited, target, seen, ahead>>

\* The push locks of a writer are successive ones.
PushNext(w) ==
  /\ Goto(w, "pushNext", "lockReads")
  /\ \E c \in Channel :
       LET next == (c + 1) % Channels IN
       /\ pushLock[c] = w /\ pushLock[next] = Nobody
       /\ pushLock' = [pushLock EXCEPT ![next] = w]
  /\ UNCHANGED <<listVars, accessLock, outdated, till, wow, beingWaited, target, seen, ahead>>

Unpush(w) ==
  /\ Goto(w, "unpush", "unlist")
  /\ pushLock' = [c \in Channel |-> IF pushLock[c] = w THEN Nobody ELSE pushLock[c]]
  /\ UNCHANGED <<listVars, accessLock, outdated, till, wow, beingWaited, target, seen, ahead>>

\* The own item leaves waiting_writes, where readers may wait for it.
Unlist(w) ==
  /\ Goto(w, "unlist", "finish")
  /\ till[w] = 0
  /\ writes' = RemoveFirst(writes, w)
  /\ UNCHANGED <<acquired, express, waitReads, waitDrain, extracted, accessLock,
                 writerVars, wow, beingWaited, target, seen, ahead>>

ReinitUnlisted(w) ==
  /\ Goto(w, "unlist", "writing")
  /\ till[w] # 0
  /\ wow' = [wow EXCEPT ![w] = "none"]
  /\ UNCHANGED <<listVars, accessLock, writerVars, beingWaited, target, seen, ahead>>

FinishWrite(w) ==
  /\ Goto(w, "finish", "meet")
  /\ wow' = [wow EXCEPT ![w] = "none"]
  /\ UNCHANGED <<listVars, accessLock, writerVars, beingWaited, target, seen, ahead>>

WrLockReturn(w) ==
  /\ Goto(w, "meet", "writing")
  /\ NoWaiter(w)
  /\ UNCHANGED <<listVars, accessLock, writerVars, wow, beingWaited, target, seen, ahead>>

WrUnlock(w) ==
  /\ Goto(w, "writing", "idle")
  /\ accessLock' = Nobody
  /\ UNCHANGED <<listVars, writerVars, wow, beingWaited, target, seen, ahead>>

\* EBUSY at once when there are readers.
TryWrLockCall(w) ==
  /\ Goto(w, "idle", "tryWrite")
  /\ NoReads
  /\ UNCHANGED <<listVars, accessLock, writerVars, wow, beingWaited, target, seen, ahead>>

TryWrLock(w) ==
  /\ Goto(w, "tryWrite", "writing")
  /\ AccessFree /\ NoReads
  /\ accessLock' = w
  /\ Served(w)
  /\ UNCHANGED <<listVars, writerVars, wow, beingWaited, target, seen>>

TryWrLockBusy(w) ==
  /\ Goto(w, "tryWrite", "idle")
  /\ ~AccessFree \/ ~NoReads
  /\ UNCHANGED <<listVars, accessLock, writerVars, wow, beingWaited, target, seen, ahead>>

WrLockStep(w) ==
  \/ WrLockEmpty(w) \/ WrLockNotEmpty(w) \/ Enlist(w) \/ PushFirst(w)
  \/ AcquireEmptied(w) \/ WaitLastRead(w) \/ FindAllBusy(w) \/ ReadWaited(w)
  \/ EnlistLate(w) \/ LookAtCommits(w) \/ PushNext(w) \/ Unpush(w)
  \/ Unlist(w) \/ ReinitUnlisted(w) \/ FinishWrite(w) \/ WrLockReturn(w)

WriterStep(w) == WrLockStep(w) \/ WrUnlock(w) \/ TryWrLock(w) \/ TryWrLockBusy(w)

-----------------------------------------------------------------------------
(* Readers: rdlock.                                                        *)

\* The item is prestarted, then waiting_writes is looked at.
RdLockCall(r) ==
  /\ pc[r] = "idle"
  /\ ~HasAnyTag({beingWaited}, r)
  /\ wow' = [wow EXCEPT ![r] = "worker"]
  /\ ahead' = [ahead EXCEPT ![r] = ToSet(writes) \ {accessLock}]
  /\ pc' = [pc EXCEPT ![r] = IF writes = << >> THEN "express" ELSE "await"]
  /\ seen' = [seen EXCEPT ![r] = LastExpress]
  /\ UNCHANGED <<listVars, accessLock, writerVars, beingWaited, target>>

PushExpress(r) ==
  /\ Goto(r, "express", "check")
  /\ seen[r] = LastExpress
  /\ express' = Append(express, r)
  /\ seen' = [seen EXCEPT ![r] = Nobody]
  /\ UNCHANGED <<acquired, writes, waitReads, waitDrain, extracted, accessLock,
                 writerVars, wow, beingWaited, target, ahead>>

\* The swap of the tail failed: try again, or give up after the last attempt.
PushFailed(r) ==
  /\ pc[r] = "express"
  /\ seen[r] # LastExpress
  /\ \/ /\ seen' = [seen EXCEPT ![r] = LastExpress]
        /\ UNCHANGED pc
     \/ /\ seen' = [seen EXCEPT ![r] = Nobody]
        /\ pc' = [pc EXCEPT ![r] = "lockPlain"]
  /\ UNCHANGED <<listVars, accessLock, writerVars, wow, beingWaited, target, ahead>>

\* Others have the lock for read: so has this one.  (Those that came by a
\* try-read are looked at next.)
CheckReads(r) ==
  /\ pc[r] = "check"
  /\ pc' = [pc EXCEPT ![r] = IF BeforeEnd # << >> THEN "reading"
                              ELSE IF EndItem = Nobody THEN "lockLinked"
                              ELSE "checkTail"]
  /\ UNCHANGED <<listVars, accessLock, writerVars, wow, beingWaited, target, seen, ahead>>

LockLinked(r) ==
  /\ Goto(r, "lockLinked", "commitLinked")
  /\ AccessFree
  /\ accessLock' = r
  /\ UNCHANGED <<listVars, writerVars, wow, beingWaited, target, seen, ahead>>

LockPlain(r) ==
  /\ pc[r] = "lockPlain"
  /\ AccessFree
  /\ IF writes = << >>
       THEN accessLock' = r /\ pc' = [pc EXCEPT ![r] = "commitOwn"]
       ELSE UNCHANGED accessLock /\ pc' = [pc EXCEPT ![r] = "await"]
  /\ UNCHANGED <<listVars, writerVars, wow, beingWaited, target, seen, ahead>>

\* The own item is in express_reads, or was committed by another thread.
CommittedByOther(r) ==
  /\ Goto(r, "commitLinked", "reading")
  /\ express = << >>
  /\ accessLock' = Nobody
  /\ UNCHANGED <<listVars, writerVars, wow, beingWaited, target, seen, ahead>>

\* One item is linked at once, to let other readers through; then the rest.
CommitLinked(r) ==
  /\ Goto(r, "commitLinked", "swapLinked")
  /\ express # << >>
  /\ acquired' = Linked(<< LastExpress >>)
  /\ CountCommit
  /\ UNCHANGED <<express, writes, waitReads, waitDrain, extracted, accessLock,
                 pushLock, till, wow, beingWaited, target, seen, ahead>>

SwapLinked(r) ==
  /\ Goto(r, "swapLinked", "reading")
  /\ acquired' = Linked(RemoveFirst(express, Last(BeforeEnd)))
  /\ express' = << >>
  /\ accessLock' = Nobody
  /\ UNCHANGED <<writes, waitReads, waitDrain, extracted, writerVars, wow,
                 beingWaited, target, seen, ahead>>

CommitOwn(r) ==
  /\ Goto(r, "commitOwn", "swapOwn")
  /\ acquired' = Linked(<< r >>)
  /\ CountCommit
  /\ UNCHANGED <<express, writes, waitReads, waitDrain, extracted, accessLock,
                 pushLock, till, wow, beingWaited, target, seen, ahead>>

SwapOwn(r) ==
  /\ Goto(r, "swapOwn", "reading")
  /\ acquired' = Linked(express)
  /\ express' = << >>
  /\ accessLock' = Nobody
  /\ UNCHANGED <<writes, waitReads, waitDrain, extracted, writerVars, wow,
                 beingWaited, target, seen, ahead>>

\* The first of the waiting readers waits for the writers, ...
LeadReads(r) ==
  /\ Goto(r, "await", "lead")
  /\ waitReads = << >>
  /\ waitReads' = << r >>
  /\ UNCHANGED <<acquired, express, writes, waitDrain, extracted, accessLock,
                 writerVars, wow, beingWaited, target, seen, ahead>>

\* ... each other one for the reader before it.
FollowReads(r) ==
  /\ Goto(r, "await", "follow")
  /\ waitReads # << >>
  /\ waitReads' = Append(waitReads, r)
  /\ StartWait(r, Last(waitReads))
  /\ UNCHANGED <<acquired, express, writes, waitDrain, extracted, accessLock,
                 writerVars, beingWaited, seen, ahead>>

WaitLastWrite(r) ==
  /\ Goto(r, "lead", "waitWrite")
  /\ writes # << >>
  /\ StartWait(r, Last(writes))
  /\ UNCHANGED <<listVars, accessLock, writerVars, beingWaited, seen, ahead>>

WriteWaited(r) ==
  /\ Goto(r, "waitWrite", "lead")
  /\ EndWait(r)
  /\ UNCHANGED <<listVars, accessLock, writerVars, wow, beingWaited, seen, ahead>>

FindNoWrites(r) ==
  /\ Goto(r, "lead", "drain")
  /\ writes = << >>
  /\ UNCHANGED <<listVars, accessLock, writerVars, wow, beingWaited, target, seen, ahead>>

\* Mutant: only the own item leaves.
DrainNothing(r) ==
  /\ Goto(r, "drain", "finishWait")
  /\ waitReads' = RemoveFirst(waitReads, r)
  /\ UNCHANGED <<acquired, express, writes, waitDrain, extracted, accessLock, writerVars,
                 wow, beingWaited, target, seen, ahead>>

\* safefinish with a drain: all from the own item on go to the drain, if the
\* own item is the first, and the own item is removed.
DrainReads(r) ==
  /\ Goto(r, "drain", "finishWait")
  /\ IF Head(waitReads) = r
       THEN waitDrain' = waitDrain \o Tail(waitReads) /\ waitReads' = << >>
       ELSE waitReads' = RemoveFirst(waitReads, r) /\ UNCHANGED waitDrain
  /\ UNCHANGED <<acquired, express, writes, extracted, accessLock, writerVars,
                 wow, beingWaited, target, seen, ahead>>

ReadWaitEnded(r) ==
  /\ Goto(r, "follow", "leave")
  /\ EndWait(r)
  /\ UNCHANGED <<listVars, accessLock, writerVars, wow, beingWaited, seen, ahead>>

LeaveReads(r) ==
  /\ Goto(r, "leave", "finishWait")
  /\ waitReads' = RemoveFirst(waitReads, r)
  /\ waitDrain' = RemoveFirst(waitDrain, r)
  /\ UNCHANGED <<acquired, express, writes, extracted, accessLock, writerVars,
                 wow, beingWaited, target, seen, ahead>>

\* Mutant: the reader that follows is not told.
FinishWaitUntold(r) ==
  /\ Goto(r, "finishWait", "meetFollower")
  /\ UNCHANGED <<listVars, accessLock, writerVars, wow, beingWaited, target, seen, ahead>>

FinishWait(r) ==
  /\ Goto(r, "finishWait", "meetFollower")
  /\ wow' = [wow EXCEPT ![r] = "none"]
  /\ UNCHANGED <<listVars, accessLock, writerVars, beingWaited, target, seen, ahead>>

\* The follower left; the item is prestarted again.
PrestartAgain(r) ==
  /\ Goto(r, "meetFollower", "relock")
  /\ NoWaiter(r)
  /\ wow' = [wow EXCEPT ![r] = "worker"]
  /\ UNCHANGED <<listVars, accessLock, writerVars, beingWaited, target, seen, ahead>>

\* Mutant: the writers are not looked at again under the lock.
RelockUnchecked(r) ==
  /\ Goto(r, "relock", "commitOwn")
  /\ AccessFree
  /\ accessLock' = r
  /\ UNCHANGED <<listVars, writerVars, wow, beingWaited, target, seen, ahead>>

Relock(r) ==
  /\ pc[r] = "relock"
  /\ AccessFree
  /\ IF writes = << >>
       THEN accessLock' = r /\ pc' = [pc EXCEPT ![r] = "commitOwn"]
       ELSE UNCHANGED accessLock /\ pc' = [pc EXCEPT ![r] = "await"]
  /\ UNCHANGED <<listVars, writerVars, wow, beingWaited, target, seen, ahead>>

-----------------------------------------------------------------------------
(* Readers: rdunlock.                                                      *)

RdUnlockCall(r) ==
  /\ Goto(r, "reading", "unlock")
  /\ UNCHANGED <<listVars, accessLock, writerVars, wow, beingWaited, target, seen, ahead>>

\* The own item leaves before the express reads are taken out, ...
UnlinkOwn(r) ==
  /\ Goto(r, "unlock", "extract")
  /\ AccessFree
  /\ r \in ToSet(acquired)
  /\ acquired' = RemoveFirst(acquired, r)
  /\ accessLock' = r
  /\ UNCHANGED <<express, writes, waitReads, waitDrain, extracted, writerVars,
                 wow, beingWaited, target, seen, ahead>>

\* Mutant: a preview from before the unlinking told that there are none.
ExtractNothing(r) ==
  /\ Goto(r, "extract", "link")
  /\ UNCHANGED <<listVars, accessLock, writerVars, wow, beingWaited, target, seen, ahead>>

ExtractExpress(r) ==
  /\ Goto(r, "extract", "link")
  /\ extracted' = express
  /\ express' = << >>
  /\ IF express # << >> THEN CountCommit ELSE UNCHANGED outdated
  /\ UNCHANGED <<acquired, writes, waitReads, waitDrain, accessLock, pushLock,
                 till, wow, beingWaited, target, seen, ahead>>

\* ... and linked.
LinkExtracted(r) ==
  /\ Goto(r, "link", "finish")
  /\ acquired' = Linked(extracted)
  /\ extracted' = << >>
  /\ accessLock' = Nobody
  /\ UNCHANGED <<express, writes, waitReads, waitDrain, writerVars, wow,
                 beingWaited, target, seen, ahead>>

FinishRead(r) ==
  /\ Goto(r, "finish", "meet")
  /\ wow' = [wow EXCEPT ![r] = "none"]
  /\ UNCHANGED <<listVars, accessLock, writerVars, beingWaited, target, seen, ahead>>

\* Mutant: the tag stays.
RdUnlockKeepTag(r) ==
  /\ Goto(r, "meet", "idle")
  /\ NoWaiter(r)
  /\ UNCHANGED <<listVars, accessLock, writerVars, wow, beingWaited, target, seen, ahead>>

\* The writer left; the tag is cleared.
RdUnlockReturn(r) ==
  /\ Goto(r, "meet", "idle")
  /\ NoWaiter(r)
  /\ beingWaited' = WithoutTags(beingWaited, r)
  /\ UNCHANGED <<listVars, accessLock, writerVars, wow, target, seen, ahead>>

\* The own item is in express_reads yet: all others of them are committed.
UnlockQueued(r) ==
  /\ Goto(r, "unlock", "idle")
  /\ AccessFree
  /\ r \notin ToSet(acquired)
  /\ acquired' = Linked(RemoveFirst(express, r))
  /\ express' = << >>
  /\ IF express # << r >> THEN CountCommit ELSE UNCHANGED outdated
  /\ wow' = [wow EXCEPT ![r] = "none"]
  /\ UNCHANGED <<writes, waitReads, waitDrain, extracted, accessLock, pushLock,
                 till, beingWaited, target, seen, ahead>>

RdLockStep(r) ==
  \/ PushExpress(r) \/ PushFailed(r) \/ CheckReads(r)
  \/ LockLinked(r) \/ LockPlain(r) \/ CommittedByOther(r)
  \/ CommitLinked(r) \/ SwapLinked(r) \/ CommitOwn(r) \/ SwapOwn(r)
  \/ LeadReads(r) \/ FollowReads(r) \/ WaitLastWrite(r) \/ WriteWaited(r)
  \/ FindNoWrites(r) \/ DrainReads(r) \/ ReadWaitEnded(r) \/ LeaveReads(r)
  \/ FinishWait(r) \/ PrestartAgain(r) \/ Relock(r)

RdUnlockStep(r) ==
  \/ RdUnlockCall(r) \/ UnlinkOwn(r) \/ ExtractExpress(r) \/ LinkExtracted(r)
  \/ FinishRead(r) \/ RdUnlockReturn(r) \/ UnlockQueued(r)

ReaderStep(r) == RdLockStep(r) \/ RdUnlockStep(r)

Next == \/ \E r \in Readers : RdLockCall(r) \/ ReaderStep(r)
        \/ \E w \in Writers : WrLockCall(w) \/ TryWrLockCall(w) \/ WriterStep(w)

Spec == Init /\ [][Next]_vars

-----------------------------------------------------------------------------
(***************************************************************************)
(* Properties.                                                             *)
(***************************************************************************)

(* A reader that got the lock without a mutex has its item in express_reads  *)
(* (or in the hands of the thread that commits it), and while it is not      *)
(* linked some other item keeps acquired_reads from being empty or the       *)
(* access lock is taken by the reader that is about to commit it             *)
(* (rwlock.c, the notes in rdunlock on the order of unlinking and            *)
(* extracting).                                                              *)
ExpressReadsCovered ==
  \A r \in Readers :
    pc[r] \in {"reading", "unlock"} /\ r \notin ToSet(acquired) =>
      /\ r \in ToSet(express) \cup ToSet(extracted)
      /\ ~NoReads \/ \E u \in Readers : accessLock = u /\ pc[u] \in {"extract", "link"}

(* The duties of the users of a completion queue, for all three queues: what *)
(* is in a queue has been started, so that no wait fails with ESRCH; an item *)
(* has one waiter, whom its owner can see in it until the item is finished.  *)
WaitsAreLegal ==
  /\ \A x \in (ToSet(acquired \o waitReads) \ {EndItem}) \cup ToSet(writes) : wow[x] # "none"
  /\ \A t \in Threads : target[t] # Nobody =>
       /\ wow[target[t]] \in {"waiter", "none"}
       /\ \A u \in Threads \ {t} : target[u] # target[t]

(* The tag of a reader that holds the lock tells that a writer waits for it: *)
(* were it left from an earlier use, no writer would ever wait for this      *)
(* reader; and an item that no queue has yet is not tagged (rwlock.c, the    *)
(* assertion in rdunlock).                                                   *)
TagsAreCurrent ==
  \A r \in Readers :
    /\ r \in ToSet(acquired) =>
         (r \in beingWaited <=> \E w \in Writers : target[w] = r)
    /\ r \in ToSet(express) \/ pc[r] \in {"idle", "express", "relock", "await"} =>
         r \notin beingWaited \ ToSet(acquired)

\* Where a writer pushes the readers until it has the lock to itself.
ClaimPC == {"push", "lockReads", "waitRead", "allBusy", "pushNext", "unpush", "unlist"}

(* Every item is in one place at most and is there once.  The reader that    *)
(* waits for the writers is the first of the waiting ones, so that its       *)
(* finish always drains the queue, and the next reader to come finds it      *)
(* empty and waits for the writers itself (rwlock.c, rdlock).  And a writer  *)
(* that pushes readers is among those they wait for when its number has come *)
(* down to zero, neither earlier nor later: this is why it takes its item    *)
(* out of waiting_writes at the end if the number is zero, and leaves it     *)
(* alone otherwise (rwlock.c, readers_till_wp).                              *)
LeaderIsFirst ==
  /\ TypeOK
  /\ IsInjective(acquired \o waitReads \o waitDrain \o extracted)
  /\ \A r \in Readers : pc[r] \in {"lead", "waitWrite", "drain"} <=>
                          waitReads # << >> /\ Head(waitReads) = r
  /\ \A w \in Writers : w \in ToSet(writes) <=> till[w] = 0 /\ pc[w] \in ClaimPC

\* Writer w cannot get the push lock it wants next.
PushBlocked(w) ==
  /\ pc[w] = "pushNext"
  /\ ~\E c \in Channel : pushLock[c] = w /\ pushLock[(c + 1) % Channels] = Nobody

(* Writers that take several push locks, each beginning at its own one, do   *)
(* not deadlock on them: one of those that hold any is not waiting for more, *)
(* because the readers it found busy have writers that wait for them         *)
(* (rwlock.c, push_readers_waiting_to_acquire_access__multiple_channels).    *)
SomePusherRuns ==
  (\E c \in Channel : pushLock[c] # Nobody) =>
    \E c \in Channel : pushLock[c] # Nobody /\ ~PushBlocked(pushLock[c])

\* (In module TrdlRWLock a writer releases the lock some time after it began to.)
Writes(w) == accessLock = w /\ pc[w] # "release"

Lock == INSTANCE ReadWriteLock WITH
          readers <- {r \in Readers : pc[r] = "reading"},
          writer <- IF \E w \in Writers : Writes(w) THEN accessLock ELSE Nobody,
          claims <- ToSet(writes) \ {accessLock}

(* The rwlock keeps readers and writers apart, and serves a writer that      *)
(* claimed priority before every reader that asked later (rwlock.h,          *)
(* mutexgear_rwlock_wrlock).                                                 *)
LockSpec == Lock!Spec
=============================================================================
