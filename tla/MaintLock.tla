------------------------------ MODULE MaintLock ------------------------------
(***************************************************************************)
(* The maintenance lock of src/maintlock.c: readers enter a drainable      *)
(* queue and remember its drain index; a thread that waits for them moves  *)
(* the whole queue to a second one, which changes the index, and waits for *)
(* the items of the second queue one by one.  On unlock the remembered     *)
(* index tells a reader which of the two queues it is in.                  *)
(*                                                                         *)
(* The item of a reader is the reader.  Its completion is the handshake    *)
(* that module Completion verifies, in the few steps seen from outside.    *)
(***************************************************************************)
EXTENDS SequencesExt

CONSTANTS Readers, Waiters,
          Nobody,
          LastDrainIdx     \* the largest drain index: the next one is the first

ASSUME MaintLockAssumption ==
  /\ Readers \cap Waiters = {}
  /\ Nobody \notin Readers \cup Waiters
  /\ LastDrainIdx \in Nat \ {0, 1}

VARIABLES update,        \* flag LOCKED_FOR_UPDATE
          waitFlag,      \* flag LOCKED_FOR_WAIT
          acquired,      \* list of acquired_reads
          awaited,       \* list of awaited_reads
          acquiredLock,  \* access_lock of acquired_reads, held across steps
          awaitedLock,   \* access_lock of awaited_reads, held across steps
          drainIdx,      \* drain_index of acquired_reads
          token,         \* __out_lock_token of each reader
          wow,           \* of each reader's item: "none", "worker" or "waiter"
          target,        \* the item each waiter waits for
          pc,
          owed,          \* history: readers a wait has to outlast
          undisturbed,   \* history: waits under maintenance from their start
          isolated       \* history: a wait returned under maintenance

codeVars == <<update, waitFlag, acquired, awaited, acquiredLock, awaitedLock,
              drainIdx, token, wow, target, pc>>
vars == <<codeVars, owed, undisturbed, isolated>>

Threads == Readers \cup Waiters
DrainIdx == 1 .. LastDrainIdx

ReaderPC == {"out", "prestarted", "reading", "lockAcquired", "lockAwaited",
             "finish", "meet"}
WaiterPC == {"idle", "splice", "process", "unlock", "waiting", "confirm",
             "check", "relock", "clear"}

TypeOK == /\ update \in BOOLEAN /\ waitFlag \in BOOLEAN /\ isolated \in BOOLEAN
          /\ acquired \in Seq(Readers) /\ awaited \in Seq(Readers)
          /\ acquiredLock \in Readers \cup {Nobody}
          /\ awaitedLock \in Waiters \cup {Nobody}
          /\ drainIdx \in DrainIdx
          /\ token \in [Readers -> DrainIdx]
          /\ wow \in [Readers -> {"none", "worker", "waiter"}]
          /\ target \in [Waiters -> Readers \cup {Nobody}]
          /\ pc \in [Threads -> ReaderPC \cup WaiterPC]
          /\ \A r \in Readers : pc[r] \in ReaderPC
          /\ \A t \in Waiters : pc[t] \in WaiterPC
          /\ owed \in [Waiters -> SUBSET Readers]
          /\ undisturbed \subseteq Waiters

Init == /\ update = FALSE /\ waitFlag = FALSE /\ isolated = FALSE
        /\ acquired = << >> /\ awaited = << >>
        /\ acquiredLock = Nobody /\ awaitedLock = Nobody
        /\ drainIdx = 1
        /\ token = [r \in Readers |-> 1]
        /\ wow = [r \in Readers |-> "none"]
        /\ target = [t \in Waiters |-> Nobody]
        /\ pc = [t \in Threads |-> IF t \in Readers THEN "out" ELSE "idle"]
        /\ owed = [t \in Waiters |-> {}]
        /\ undisturbed = {}

Goto(t, from, to) == pc[t] = from /\ pc' = [pc EXCEPT ![t] = to]

\* Mutant: the index stays.
IncrementKept(i) == i

\* _mutexgear_completion_drainidx_increment: past the largest, 0 is skipped.
Increment(i) == IF i = LastDrainIdx THEN 1 ELSE i + 1

-----------------------------------------------------------------------------
(* Maintenance.                                                            *)

\* EBUSY when the flag is set already.
SetMaintenance ==
  /\ ~update
  /\ update' = TRUE
  /\ UNCHANGED <<waitFlag, acquired, awaited, acquiredLock, awaitedLock,
                 drainIdx, token, wow, target, pc, owed, undisturbed, isolated>>

ClearMaintenance ==
  /\ update
  /\ update' = FALSE
  /\ undisturbed' = {} /\ isolated' = FALSE
  /\ UNCHANGED <<waitFlag, acquired, awaited, acquiredLock, awaitedLock,
                 drainIdx, token, wow, target, pc, owed>>

-----------------------------------------------------------------------------
(* Readers.                                                                *)

readerUnchanged == <<update, waitFlag, awaitedLock, drainIdx, target,
                     undisturbed, isolated>>

TryRdLockCall(r) ==
  /\ ~update
  /\ Goto(r, "out", "prestarted")
  /\ wow' = [wow EXCEPT ![r] = "worker"]
  /\ UNCHANGED <<readerUnchanged, acquired, awaited, acquiredLock, token, owed>>

\* Mutant: the flag is not looked at again under the lock.
TryRdLockEnqueueUnchecked(r) ==
  /\ Goto(r, "prestarted", "reading")
  /\ acquiredLock = Nobody
  /\ acquired' = Append(acquired, r)
  /\ token' = [token EXCEPT ![r] = drainIdx]
  /\ UNCHANGED <<readerUnchanged, awaited, acquiredLock, wow, owed>>

TryRdLockEnqueue(r) ==
  /\ Goto(r, "prestarted", "reading")
  /\ acquiredLock = Nobody
  /\ ~update
  /\ acquired' = Append(acquired, r)
  /\ token' = [token EXCEPT ![r] = drainIdx]
  /\ UNCHANGED <<readerUnchanged, awaited, acquiredLock, wow, owed>>

\* The flag got set before the queue was locked: EBUSY, the item is reinitialised.
TryRdLockBusy(r) ==
  /\ Goto(r, "prestarted", "out")
  /\ acquiredLock = Nobody
  /\ update
  /\ wow' = [wow EXCEPT ![r] = "none"]
  /\ UNCHANGED <<readerUnchanged, acquired, awaited, acquiredLock, token, owed>>

\* rdunlock previews the index without a lock.
RdUnlockCall(r) ==
  /\ pc[r] = "reading"
  /\ pc' = [pc EXCEPT ![r] = IF drainIdx = token[r] THEN "lockAcquired" ELSE "lockAwaited"]
  /\ owed' = [t \in Waiters |-> owed[t] \ {r}]
  /\ UNCHANGED <<readerUnchanged, acquired, awaited, acquiredLock, token, wow>>

\* Mutant: the index is not looked at again under the lock.
UnlinkPreviewed(r) ==
  /\ Goto(r, "lockAcquired", "finish")
  /\ acquiredLock = Nobody
  /\ acquired' = RemoveFirst(acquired, r)
  /\ UNCHANGED <<readerUnchanged, awaited, acquiredLock, token, wow, owed>>

UnlinkAcquired(r) ==
  /\ Goto(r, "lockAcquired", "finish")
  /\ acquiredLock = Nobody
  /\ drainIdx = token[r]
  /\ acquired' = RemoveFirst(acquired, r)
  /\ UNCHANGED <<readerUnchanged, awaited, acquiredLock, token, wow, owed>>

\* The index changed between the preview and the lock.  The code goes on to
\* the second queue and has no statement that releases this lock.
AcquiredDrained(r) ==
  /\ Goto(r, "lockAcquired", "lockAwaited")
  /\ acquiredLock = Nobody
  /\ drainIdx # token[r]
  /\ acquiredLock' = r
  /\ UNCHANGED <<readerUnchanged, acquired, awaited, token, wow, owed>>

UnlinkAwaited(r) ==
  /\ Goto(r, "lockAwaited", "finish")
  /\ awaitedLock = Nobody
  /\ awaited' = RemoveFirst(awaited, r)
  /\ UNCHANGED <<readerUnchanged, acquired, acquiredLock, token, wow, owed>>

\* unsafefinish__unlocked: nobody waits, or the waiter is told first.
FinishUnwaited(r) ==
  /\ Goto(r, "finish", "out")
  /\ wow[r] = "worker"
  /\ wow' = [wow EXCEPT ![r] = "none"]
  /\ UNCHANGED <<readerUnchanged, acquired, awaited, acquiredLock, token, owed>>

FinishSignal(r) ==
  /\ Goto(r, "finish", "meet")
  /\ wow[r] = "waiter"
  /\ wow' = [wow EXCEPT ![r] = "none"]
  /\ UNCHANGED <<readerUnchanged, acquired, awaited, acquiredLock, token, owed>>

FinishMeet(r) ==
  /\ Goto(r, "meet", "out")
  /\ \A t \in Waiters : ~(pc[t] = "waiting" /\ target[t] = r)
  /\ UNCHANGED <<readerUnchanged, acquired, awaited, acquiredLock, token, wow, owed>>

ReaderStep(r) == \/ TryRdLockEnqueue(r) \/ TryRdLockBusy(r)
                 \/ RdUnlockCall(r) \/ UnlinkAcquired(r) \/ AcquiredDrained(r)
                 \/ UnlinkAwaited(r)
                 \/ FinishUnwaited(r) \/ FinishSignal(r) \/ FinishMeet(r)

-----------------------------------------------------------------------------
(* wait_rdunlock.                                                          *)

waiterUnchanged == <<update, acquiredLock, token>>

\* Mutant: a wait does not mind another one.
WaitCallUnchecked(t) ==
  /\ Goto(t, "idle", "splice")
  /\ awaitedLock = Nobody
  /\ awaitedLock' = t
  /\ waitFlag' = TRUE
  /\ owed' = [owed EXCEPT ![t] = {r \in Readers : pc[r] = "reading"}]
  /\ undisturbed' = IF update THEN undisturbed \cup {t} ELSE undisturbed
  /\ UNCHANGED <<waiterUnchanged, acquired, awaited, drainIdx, wow, target, isolated>>

\* The second queue is locked, then the flag is set.
WaitCall(t) ==
  /\ Goto(t, "idle", "splice")
  /\ awaitedLock = Nobody
  /\ ~waitFlag
  /\ awaitedLock' = t
  /\ waitFlag' = TRUE
  /\ owed' = [owed EXCEPT ![t] = {r \in Readers : pc[r] = "reading"}]
  /\ undisturbed' = IF update THEN undisturbed \cup {t} ELSE undisturbed
  /\ UNCHANGED <<waiterUnchanged, acquired, awaited, drainIdx, wow, target, isolated>>

SpliceReads(t) ==
  /\ pc[t] = "splice"
  /\ acquiredLock = Nobody
  /\ awaited' = awaited \o acquired
  /\ acquired' = << >>
  /\ drainIdx' = IF acquired = << >> THEN drainIdx ELSE Increment(drainIdx)
  /\ pc' = [pc EXCEPT ![t] = IF acquired = << >> THEN "unlock" ELSE "process"]
  /\ UNCHANGED <<waiterUnchanged, waitFlag, awaitedLock, wow, target, owed, undisturbed, isolated>>

UnlockAwaited(t) ==
  /\ Goto(t, "unlock", "clear")
  /\ awaitedLock' = Nobody
  /\ UNCHANGED <<waiterUnchanged, waitFlag, acquired, awaited, drainIdx, wow, target, owed, undisturbed, isolated>>

\* unlockandwait for the head of the second queue.
WaitForHead(t) ==
  /\ Goto(t, "process", "waiting")
  /\ awaited # << >>
  /\ target' = [target EXCEPT ![t] = Head(awaited)]
  /\ wow' = [wow EXCEPT ![Head(awaited)] = "waiter"]
  /\ awaitedLock' = Nobody
  /\ UNCHANGED <<waiterUnchanged, waitFlag, acquired, awaited, drainIdx, owed, undisturbed, isolated>>

WaitCompleted(t) ==
  /\ Goto(t, "waiting", "confirm")
  /\ wow[target[t]] = "none"
  /\ UNCHANGED <<waiterUnchanged, waitFlag, acquired, awaited, awaitedLock, drainIdx, wow, target, owed, undisturbed, isolated>>

\* worker_detach_lock of the second queue is held by a reader at "meet".
WaitConfirmed(t) ==
  /\ Goto(t, "confirm", "check")
  /\ \A r \in Readers : pc[r] # "meet"
  /\ target' = [target EXCEPT ![t] = Nobody]
  /\ UNCHANGED <<waiterUnchanged, waitFlag, acquired, awaited, awaitedLock, drainIdx, wow, owed, undisturbed, isolated>>

\* Mutant: one item is waited for, not all of the queue.
CheckNothing(t) ==
  /\ Goto(t, "check", "clear")
  /\ UNCHANGED <<waiterUnchanged, waitFlag, acquired, awaited, awaitedLock, drainIdx, wow, target, owed, undisturbed, isolated>>

\* lodisempty, without the lock.
CheckEmpty(t) ==
  /\ pc[t] = "check"
  /\ pc' = [pc EXCEPT ![t] = IF awaited = << >> THEN "clear" ELSE "relock"]
  /\ UNCHANGED <<waiterUnchanged, waitFlag, acquired, awaited, awaitedLock, drainIdx, wow, target, owed, undisturbed, isolated>>

Relock(t) ==
  /\ pc[t] = "relock"
  /\ awaitedLock = Nobody
  /\ IF awaited = << >>
       THEN /\ pc' = [pc EXCEPT ![t] = "clear"]
            /\ UNCHANGED awaitedLock
       ELSE /\ pc' = [pc EXCEPT ![t] = "process"]
            /\ awaitedLock' = t
  /\ UNCHANGED <<waiterUnchanged, waitFlag, acquired, awaited, drainIdx, wow, target, owed, undisturbed, isolated>>

WaitReturn(t) ==
  /\ Goto(t, "clear", "idle")
  /\ waitFlag' = FALSE
  /\ isolated' = (isolated \/ t \in undisturbed)
  /\ undisturbed' = undisturbed \ {t}
  /\ UNCHANGED <<waiterUnchanged, acquired, awaited, awaitedLock, drainIdx, wow, target, owed>>

WaiterStep(t) == \/ SpliceReads(t) \/ UnlockAwaited(t) \/ WaitForHead(t)
                 \/ WaitCompleted(t) \/ WaitConfirmed(t) \/ CheckEmpty(t)
                 \/ Relock(t) \/ WaitReturn(t)

Next == \/ SetMaintenance \/ ClearMaintenance
        \/ \E r \in Readers : TryRdLockCall(r) \/ ReaderStep(r)
        \/ \E t \in Waiters : WaitCall(t) \/ WaiterStep(t)

(* Every thread inside a call goes on, readers release their locks, and a    *)
(* mutex is handed to each thread that keeps waiting for it.                 *)
Fairness == /\ \A r \in Readers : SF_vars(ReaderStep(r))
            /\ \A t \in Waiters : SF_vars(WaiterStep(t))

Spec == Init /\ [][Next]_vars /\ Fairness

-----------------------------------------------------------------------------
(***************************************************************************)
(* Properties.                                                             *)
(***************************************************************************)

(* A reader is in the queue that its next unlock is going to lock: the       *)
(* remembered index is compared rightly even when indices wrap around after  *)
(* LastDrainIdx drains (maintlock.c, rdunlock).                              *)
UnlinksRightQueue ==
  \A r \in Readers :
    /\ pc[r] = "reading" => r \in ToSet(IF token[r] = drainIdx THEN acquired ELSE awaited)
    /\ pc[r] = "lockAwaited" => r \in ToSet(awaited) /\ r \notin ToSet(acquired)
    /\ pc[r] = "lockAcquired" => r \in ToSet(IF token[r] = drainIdx THEN acquired ELSE awaited)

(* Two waits never run at once, though the flag is cleared out of the lock,  *)
(* and the second queue has readers only during a wait, so that its          *)
(* emptiness, tested without a lock, ends that wait and no other             *)
(* (maintlock.c, the notes on the unsafe and).                               *)
OneWaitAtATime ==
  /\ TypeOK
  /\ \A t, u \in Waiters : t # u /\ pc[t] # "idle" => pc[u] = "idle"
  /\ waitFlag <=> \E t \in Waiters : pc[t] # "idle"
  /\ awaited # << >> => \E t \in Waiters : pc[t] \notin {"idle", "unlock", "clear"}

(* A wait returns only after every read lock acquired before the call was    *)
(* released (maintlock.h, wait_rdunlock).                                    *)
WaitOutlastsEarlierReads ==
  [][\A t \in Waiters : pc[t] = "clear" /\ pc'[t] = "idle" => owed[t] = {}]_vars

(* After a wait under maintenance, nobody reads until maintenance is cleared *)
(* (maintlock.h: "on the call exit all read locks are released").            *)
MaintenanceIsolates == isolated => update /\ \A r \in Readers : pc[r] # "reading"

\* A reader went on without releasing the lock of the first queue.
LockLeaked == acquiredLock # Nobody

(* A wait that has found its readers returns, and so makes way for the next  *)
(* wait, whatever new readers come, as long as no reader leaked the lock.    *)
WaitReturns ==
  (\E t \in Waiters : pc[t] = "splice") ~> (\A t \in Waiters : pc[t] = "idle") \/ LockLeaked

(* tryrdlock "does not block other than for serialization on internal        *)
(* operations" (maintlock.h): every call returns.                            *)
TryRdLockReturns == \A r \in Readers : pc[r] = "prestarted" ~> pc[r] # "prestarted"
=============================================================================
