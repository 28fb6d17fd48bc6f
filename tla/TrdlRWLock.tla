----------------------------- MODULE TrdlRWLock -----------------------------
(***************************************************************************)
(* The rwlock with try-reads of src/rwlock.c, over the basic one of module *)
(* RWLock.  acquired_reads holds a separator: ordinary reads are linked    *)
(* before it under the access lock, try-reads behind it under              *)
(* tryread_queue_lock alone.  A writer counts itself in wrlock_waits, in   *)
(* steps of two, before it looks at the list; the low bit tells that       *)
(* tryread_queue_lock was passed since the count was zero, so that every   *)
(* try-read to come sees the count.                                        *)
(***************************************************************************)
EXTENDS RWLock, FiniteSetsExt

CONSTANTS TryReaders,     \* readers that use tryrdlock, ...
          LockReaders,    \* ... and rdlock
          TryWriters,     \* writers that use trywrlock, ...
          LockWriters     \* ... and wrlock

ASSUME TrdlAssumption ==
  /\ EndItem # Nobody
  /\ TryReaders \cup LockReaders = Readers
  /\ TryWriters \cup LockWriters = Writers
  /\ IsFiniteSet(Writers)

VARIABLES waits,          \* wrlock_waits
          tryreadLock,    \* tryread_queue_lock
          tryLocked,      \* readers with rdlock_itemtag_trylocked
          contended       \* history: the trywrlock calls that met somebody

trdlVars == <<waits, tryreadLock, tryLocked>>
allVars == <<vars, trdlVars, contended>>

TryWritePC == {"tryCount", "tryBarrier", "tryTail", "tryHead", "tryWrite", "giveUp"}

TrdlTypeOK ==
  /\ waits \in Nat
  /\ tryreadLock \in Readers \cup {Nobody}
  /\ tryLocked \subseteq TryReaders
  /\ contended \subseteq TryWriters
  /\ acquired \in Seq(Readers \cup {EndItem})
  /\ accessLock \in Threads \cup {Nobody}
  /\ \A r \in Readers :
       pc[r] \in ReaderPC \cup {"checkTail", "tryRead", "tryLink", "tryFail", "unlinkTried"}
  /\ \A w \in Writers :
       pc[w] \in WriterPC \cup TryWritePC \cup
                 {"barrier", "glance", "glanceHead", "release", "tryGlance"}

TrdlInit == /\ Init
            /\ waits = 0
            /\ tryreadLock = Nobody
            /\ tryLocked = {}
            /\ contended = {}

-----------------------------------------------------------------------------
(* The count of the writers.                                               *)

BarrierPassed == waits % 2 = 1

Increment == waits' = waits + 2

\* Mutant: the bit outlives the last writer.
DecrementPlain == waits' = waits - 2

Decrement == waits' = IF waits <= 3 THEN 0 ELSE waits - 2

\* The counted writer goes on to the barrier, unless that was passed already.
Count(w, from, barrier, to) ==
  /\ pc[w] = from
  /\ Increment
  /\ pc' = [pc EXCEPT ![w] = IF BarrierPassed THEN to ELSE barrier]
  /\ UNCHANGED <<listVars, accessLock, pushLock, outdated, wow, beingWaited, target, seen,
                 ahead, tryreadLock, tryLocked>>

\* Mutant: the lock is not waited for.
PassBarrierUnlocked(w, from, to) ==
  /\ Goto(w, from, to)
  /\ waits' = IF BarrierPassed THEN waits ELSE waits + 1
  /\ UNCHANGED <<listVars, accessLock, writerVars, wow, beingWaited, target, seen, ahead,
                 tryreadLock, tryLocked>>

\* Whoever had tryread_queue_lock before has linked its try-read by now.
PassBarrier(w, from, to) ==
  /\ Goto(w, from, to)
  /\ tryreadLock = Nobody
  /\ waits' = IF BarrierPassed THEN waits ELSE waits + 1
  /\ UNCHANGED <<listVars, accessLock, writerVars, wow, beingWaited, target, seen, ahead,
                 tryreadLock, tryLocked>>

\* The list is looked at without a lock, first at its end, then at its head.
Glance(w, from, item, to, otherwise) ==
  /\ pc[w] = from
  /\ pc' = [pc EXCEPT ![w] = IF item = EndItem THEN to ELSE otherwise]
  /\ UNCHANGED <<listVars, accessLock, writerVars, wow, beingWaited, target, seen, ahead,
                 trdlVars>>

-----------------------------------------------------------------------------
(* Writers: wrlock, wrunlock.                                              *)

TrdlWrLockCall(w) ==
  /\ Count(w, "idle", "barrier", "glance")
  /\ \E n \in TillPriority : till' = [till EXCEPT ![w] = n]

WrLockBarrier(w) == PassBarrier(w, "barrier", "glance")

WrLockGlanceTail(w) == Glance(w, "glance", Last(acquired), "glanceHead", "enlist")

WrLockGlanceHead(w) == Glance(w, "glanceHead", Head(acquired), "tryLock", "enlist")

\* The rest is that of the basic lock.
TrdlWrLockRest(w) == WrLockStep(w) /\ UNCHANGED trdlVars

\* The count goes down before the release.
WrUnlockCall(w) ==
  /\ Goto(w, "writing", "release")
  /\ Decrement
  /\ UNCHANGED <<listVars, accessLock, writerVars, wow, beingWaited, target, seen, ahead,
                 tryreadLock, tryLocked>>

ReleaseAccess(w) ==
  /\ Goto(w, "release", "idle")
  /\ accessLock' = Nobody
  /\ UNCHANGED <<listVars, writerVars, wow, beingWaited, target, seen, ahead, trdlVars>>

TrdlWrLockStep(w) ==
  \/ WrLockBarrier(w) \/ WrLockGlanceTail(w) \/ WrLockGlanceHead(w)
  \/ TrdlWrLockRest(w) \/ WrUnlockCall(w) \/ ReleaseAccess(w)

-----------------------------------------------------------------------------
(* Writers: trywrlock.                                                     *)

TrdlTryWrLockCall(w) ==
  /\ Last(acquired) = EndItem
  /\ Glance(w, "idle", EndItem, "tryGlance", "idle")

TryFirstGlance(w) == Glance(w, "tryGlance", Head(acquired), "tryCount", "idle")

TryCount(w) == Count(w, "tryCount", "tryBarrier", "tryTail") /\ UNCHANGED till

\* Mutant: the barrier is tried and the call gives up when it is locked.
TryBarrierBusy(w) ==
  IF tryreadLock = Nobody THEN PassBarrier(w, "tryBarrier", "tryTail")
                          ELSE Glance(w, "tryBarrier", EndItem, "giveUp", "giveUp")

\* The barrier is waited for in trywrlock, too.
TryBarrier(w) == PassBarrier(w, "tryBarrier", "tryTail")

TryGlanceTail(w) == Glance(w, "tryTail", Last(acquired), "tryHead", "giveUp")

TryGlanceHead(w) == Glance(w, "tryHead", Head(acquired), "tryWrite", "giveUp")

TrdlTryWrLock(w) == TryWrLock(w) /\ UNCHANGED trdlVars

TrdlTryWrLockBusy(w) ==
  /\ Goto(w, "tryWrite", "giveUp")
  /\ ~AccessFree \/ ~NoReads
  /\ UNCHANGED <<listVars, accessLock, writerVars, wow, beingWaited, target, seen, ahead, trdlVars>>

GiveUp(w) ==
  /\ Goto(w, "giveUp", "idle")
  /\ Decrement
  /\ UNCHANGED <<listVars, accessLock, writerVars, wow, beingWaited, target, seen, ahead,
                 tryreadLock, tryLocked>>

TryWrLockStep(w) ==
  \/ TryFirstGlance(w) \/ TryCount(w) \/ TryBarrier(w) \/ TryGlanceTail(w)
  \/ TryGlanceHead(w) \/ TrdlTryWrLock(w) \/ TrdlTryWrLockBusy(w) \/ GiveUp(w)

-----------------------------------------------------------------------------
(* Readers: tryrdlock, the additions to rdlock and rdunlock.               *)

\* EBUSY at once when writers are counted.
TryRdLockCall(r) ==
  /\ Goto(r, "idle", "tryRead")
  /\ ~HasAnyTag({beingWaited, tryLocked}, r)
  /\ waits = 0
  /\ tryLocked' = WithTag(tryLocked, r, TRUE)
  /\ wow' = [wow EXCEPT ![r] = "worker"]
  /\ UNCHANGED <<listVars, accessLock, writerVars, beingWaited, target, seen, ahead,
                 waits, tryreadLock>>

\* Mutant: the count is not looked at again.
TryRdLockAnyway(r) ==
  /\ Goto(r, "tryRead", "tryLink")
  /\ tryreadLock = Nobody
  /\ tryreadLock' = r
  /\ UNCHANGED <<listVars, accessLock, writerVars, wow, beingWaited, target, seen, ahead,
                 waits, tryLocked>>

\* The lock is kept for the linking when there are no writers, and released
\* at once otherwise.
TryRdLockCheck(r) ==
  /\ pc[r] = "tryRead"
  /\ tryreadLock = Nobody
  /\ IF waits = 0
       THEN tryreadLock' = r /\ pc' = [pc EXCEPT ![r] = "tryLink"]
       ELSE UNCHANGED tryreadLock /\ pc' = [pc EXCEPT ![r] = "tryFail"]
  /\ UNCHANGED <<listVars, accessLock, writerVars, wow, beingWaited, target, seen, ahead,
                 waits, tryLocked>>

TryRdLockLink(r) ==
  /\ Goto(r, "tryLink", "reading")
  /\ acquired' = Append(acquired, r)
  /\ tryreadLock' = Nobody
  /\ UNCHANGED <<express, writes, waitReads, waitDrain, extracted, accessLock, writerVars,
                 wow, beingWaited, target, seen, ahead, waits, tryLocked>>

TryRdLockFail(r) ==
  /\ Goto(r, "tryFail", "idle")
  /\ wow' = [wow EXCEPT ![r] = "none"]
  /\ tryLocked' = WithTag(tryLocked, r, FALSE)
  /\ UNCHANGED <<listVars, accessLock, writerVars, beingWaited, target, seen, ahead,
                 waits, tryreadLock>>

\* The check of rdlock goes on to the try-reads.
CheckTryReads(r) ==
  /\ pc[r] = "checkTail"
  /\ pc' = [pc EXCEPT ![r] = IF Last(acquired) # EndItem THEN "reading" ELSE "lockLinked"]
  /\ UNCHANGED <<listVars, accessLock, writerVars, wow, beingWaited, target, seen, ahead, trdlVars>>

\* A try-read leaves the list under both locks.
LockForUnlink(r) ==
  /\ Goto(r, "unlock", "unlinkTried")
  /\ HasTag(tryLocked, r)
  /\ AccessFree
  /\ accessLock' = r
  /\ UNCHANGED <<listVars, writerVars, wow, beingWaited, target, seen, ahead, trdlVars>>

\* Mutant: the express reads are left to the readers that came by them.
UnlinkTriedAlone(r) ==
  /\ Goto(r, "unlinkTried", "finish")
  /\ tryreadLock = Nobody
  /\ acquired' = RemoveFirst(acquired, r)
  /\ accessLock' = Nobody
  /\ UNCHANGED <<express, writes, waitReads, waitDrain, extracted, writerVars, wow,
                 beingWaited, target, seen, ahead, trdlVars>>

UnlinkTried(r) ==
  /\ Goto(r, "unlinkTried", "extract")
  /\ tryreadLock = Nobody
  /\ acquired' = RemoveFirst(acquired, r)
  /\ UNCHANGED <<express, writes, waitReads, waitDrain, extracted, accessLock, writerVars,
                 wow, beingWaited, target, seen, ahead, trdlVars>>

\* The tags are cleared together; the rest is that of the basic lock.
TrdlRdUnlockRest(r) ==
  /\ ~(pc[r] = "unlock" /\ HasTag(tryLocked, r))
  /\ RdUnlockStep(r)
  /\ tryLocked' = IF pc[r] = "meet" THEN WithoutTags(tryLocked, r) ELSE tryLocked
  /\ UNCHANGED <<waits, tryreadLock>>

TrdlReaderStep(r) ==
  \/ RdLockStep(r) /\ UNCHANGED trdlVars
  \/ TryRdLockCheck(r) \/ TryRdLockLink(r) \/ TryRdLockFail(r) \/ CheckTryReads(r)
  \/ LockForUnlink(r) \/ UnlinkTried(r) \/ TrdlRdUnlockRest(r)

TrdlCall == \/ \E w \in LockWriters : TrdlWrLockCall(w)
            \/ \E w \in TryWriters : TrdlTryWrLockCall(w)
            \/ \E r \in TryReaders : TryRdLockCall(r)
            \/ \E r \in LockReaders : ~HasTag(tryLocked, r) /\ RdLockCall(r) /\ UNCHANGED trdlVars

TrdlWriterStep(w) == TrdlWrLockStep(w) \/ TryWrLockStep(w)

\* The history: during the call somebody else had the lock, or a part of it.
Meets == contended' = {w \in Writers :
  /\ pc'[w] \in TryWritePC
  /\ w \in contended \/ accessLock' \notin {w, Nobody} \/ acquired' # EndList}

TrdlNext == \/ TrdlCall /\ Meets
            \/ \E r \in Readers : TrdlReaderStep(r) /\ Meets
            \/ \E w \in Writers : TrdlWriterStep(w) /\ Meets

TrdlSpec == TrdlInit /\ [][TrdlNext]_allVars

\* What the code has, without the history.
codeVars == <<vars, trdlVars>>

(* Every call runs to its end and those that have the lock release it.  A    *)
(* mutex is handed to each thread that keeps waiting for it: this is why the *)
(* fairness is strong.  For a writer that only tries it need not be: such a  *)
(* call waits for tryread_queue_lock alone, and when it does its count keeps *)
(* the try-reads to come from holding that (rwlock.c, trywrlock).            *)
TrdlFairness ==
  /\ \A r \in Readers : SF_codeVars(TrdlReaderStep(r))
  /\ \A w \in LockWriters : SF_codeVars(TrdlWriterStep(w))
  /\ \A w \in Writers \ LockWriters : WF_codeVars(TrdlWriterStep(w))

-----------------------------------------------------------------------------
(***************************************************************************)
(* Properties.                                                             *)
(***************************************************************************)
Counted == {w \in Writers : pc[w] \notin {"idle", "tryGlance", "tryCount", "release"}}
Past == {w \in Counted : pc[w] \notin {"barrier", "tryBarrier"}}

(* wrlock_waits is twice the number of the writers that count, and its low   *)
(* bit is set if one of them is past the barrier: a decrement that raced     *)
(* with another or left the bit would turn try-readers away for ever, or let *)
(* them in (rwlock.c, rwlock_wrlock_decrement_wrlock_waits).                 *)
WaitsCounted ==
  /\ TrdlTypeOK
  /\ waits \div 2 = Cardinality(Counted)
  /\ BarrierPassed => Counted # {}
  /\ Past # {} => BarrierPassed

(* A try-read that is about to be linked, without the access lock, is linked *)
(* before any writer looks at the list (rwlock.c, the barrier in wrlock and  *)
(* trywrlock).                                                               *)
BarrierHolds == \A r \in Readers : pc[r] = "tryLink" => Past = {}

(* A trywrlock that gives up met somebody who had the lock or a part of it:  *)
(* a tryrdlock that gives up because of a writer and this writer's trywrlock *)
(* do not make each other fail on a free object (rwlock.c, the note in       *)
(* trywrlock).                                                               *)
TryWriteFailsOnBusy == \A w \in Writers : pc[w] = "giveUp" => w \in contended

\* A writer found readers: it has claimed priority, or counts those it waits for.
WaitsForReads(w) ==
  /\ pc[w] \in ClaimPC \cup {"enlist", "enlistLate", "finish", "meet"}
  /\ till[w] = 0 \/ (till[w] > 0 /\ Channels = 1)

(* A writer that claims priority, at once or after a number of readers, does *)
(* not wait for ever, whatever readers and try-readers come and go.  With    *)
(* more than one push lock other writers may be those that wait for the      *)
(* readers, and the number is never counted down: a writer that claims late  *)
(* is sure of the lock if there is one (rwlock.h, mutexgear_rwlock_wrlock).  *)
WriteLockReturns == \A w \in LockWriters : []<>~WaitsForReads(w)

\* A reader found writers: it leads those that wait or follows another one.
WaitsForWrites(r) ==
  pc[r] \in {"await", "lead", "waitWrite", "drain", "follow", "leave", "finishWait",
             "meetFollower", "relock", "commitOwn", "swapOwn"}

(* A reader that waits for writers, or for the reader before it in the line  *)
(* of those that do, gets the lock, unless writers come in its way again and *)
(* again: the line is drained with readers in it, and each one tells the     *)
(* next (rwlock.c, rdlock).                                                  *)
ReadLockReturns ==
  \A r \in LockReaders :
    []<>(~WaitsForWrites(r) \/ \E w \in Writers : pc[w] = "enlist")
=============================================================================
