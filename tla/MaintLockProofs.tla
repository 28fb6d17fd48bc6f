--------------------------- MODULE MaintLockProofs ---------------------------
(***************************************************************************)
(* The maintenance lock: readers leave the queue they are in, waits are    *)
(* one at a time and outlast the readers they found, and maintenance keeps *)
(* readers out, for any number of readers, of waiting threads and of drain *)
(* indices.                                                                *)
(***************************************************************************)
EXTENDS MaintLock, ListFacts

\* Readers that have an item in one of the two queues.
InQueue == {"reading", "lockAcquired", "lockAwaited"}

(* Each reader inside is in one queue, once, and the index that it           *)
(* remembers is the current one just for those of the first queue.           *)
QueuesHoldReaders ==
  /\ IsInjective(acquired) /\ IsInjective(awaited)
  /\ \A r \in Readers :
       /\ r \in ToSet(acquired) <=> pc[r] \in InQueue /\ token[r] = drainIdx
       /\ r \in ToSet(awaited) <=> pc[r] \in InQueue /\ token[r] # drainIdx
       /\ pc[r] = "lockAwaited" => token[r] # drainIdx

(* One wait runs at a time, and only the one that spliced the readers leaves *)
(* any in the second queue.                                                  *)
WaitsAlone ==
  /\ \A t, u \in Waiters : pc[t] # "idle" /\ pc[u] # "idle" => t = u
  /\ waitFlag <=> \E t \in Waiters : pc[t] # "idle"
  /\ awaited # << >> =>
       \E t \in Waiters : pc[t] \in {"process", "waiting", "confirm", "check", "relock"}

(* The readers that a wait owes are those it found and that still read; once *)
(* it has spliced them they are in the second queue.                         *)
OwedAreAwaited ==
  \A t \in Waiters :
    /\ pc[t] = "idle" => owed[t] = {}
    /\ \A r \in owed[t] : pc[r] = "reading"
    /\ pc[t] \notin {"idle", "splice"} => owed[t] \subseteq ToSet(awaited)

(* Under maintenance the first queue stays empty after a splice.             *)
MaintenanceEmpties ==
  /\ undisturbed # {} \/ isolated => update
  /\ \A t \in undisturbed :
       /\ pc[t] # "idle"
       /\ pc[t] # "splice" => acquired = << >>
  /\ isolated => acquired = << >> /\ awaited = << >>

IInv == /\ TypeOK /\ QueuesHoldReaders /\ WaitsAlone
        /\ OwedAreAwaited /\ MaintenanceEmpties

-----------------------------------------------------------------------------
LEMMA NextIndexDiffers == \A i \in DrainIdx : Increment(i) \in DrainIdx /\ Increment(i) # i
BY MaintLockAssumption DEF DrainIdx, Increment

LEMMA InitIInv == Init => IInv
<1> SUFFICES ASSUME Init PROVE IInv
  OBVIOUS
<1> USE MaintLockAssumption, EmptyList DEF Init
<1>0. 1 \in DrainIdx /\ pc \in [Threads -> {"out", "idle"}]
  BY DEF DrainIdx, Threads
<1>1. TypeOK
  BY <1>0 DEF TypeOK, Threads, ReaderPC, WaiterPC
<1>2. QueuesHoldReaders
  BY DEF QueuesHoldReaders, InQueue, Threads
<1>3. WaitsAlone /\ OwedAreAwaited /\ MaintenanceEmpties
  BY DEF WaitsAlone, OwedAreAwaited, MaintenanceEmpties, Threads
<1>. QED BY <1>1, <1>2, <1>3 DEF IInv

-----------------------------------------------------------------------------
(* The steps of readers.                                                     *)
LEMMA ReaderKeepsIInv ==
  ASSUME IInv, NEW r \in Readers, TryRdLockCall(r) \/ ReaderStep(r)
  PROVE  IInv'
<1> USE MaintLockAssumption DEF IInv, TypeOK, QueuesHoldReaders, WaitsAlone, OwedAreAwaited,
        MaintenanceEmpties, InQueue, Threads, ReaderPC, WaiterPC, Goto, readerUnchanged
<1>1. CASE TryRdLockCall(r)
  BY <1>1 DEF TryRdLockCall
<1>2. CASE TryRdLockEnqueue(r)
  <2>1. r \notin ToSet(acquired)
    BY <1>2 DEF TryRdLockEnqueue
  <2>2. /\ acquired' \in Seq(Readers) /\ IsInjective(acquired')
        /\ ToSet(acquired') = ToSet(acquired) \cup {r}
    BY <1>2, <2>1, AppendToList DEF TryRdLockEnqueue
  <2>. QED BY <1>2, <2>2 DEF TryRdLockEnqueue
<1>3. CASE TryRdLockBusy(r)
  BY <1>3 DEF TryRdLockBusy
<1>4. CASE RdUnlockCall(r)
  BY <1>4 DEF RdUnlockCall
<1>5. CASE UnlinkAcquired(r)
  <2>1. /\ acquired' \in Seq(Readers) /\ IsInjective(acquired')
        /\ ToSet(acquired') = ToSet(acquired) \ {r}
    BY <1>5, RemoveFromList DEF UnlinkAcquired
  <2>11. TypeOK'
    BY <1>5, <2>1 DEF UnlinkAcquired
  <2>12. QueuesHoldReaders'
    BY <1>5, <2>1 DEF UnlinkAcquired
  <2>13. WaitsAlone'
    BY <1>5, <2>1 DEF UnlinkAcquired
  <2>14. OwedAreAwaited'
    BY <1>5, <2>1 DEF UnlinkAcquired
  <2>2. acquired' # << >> => acquired # << >>
    BY <2>1, EmptyList
  <2>15. MaintenanceEmpties'
    BY <1>5, <2>1, <2>2 DEF UnlinkAcquired
  <2>. QED BY <2>11, <2>12, <2>13, <2>14, <2>15
<1>6. CASE AcquiredDrained(r)
  BY <1>6 DEF AcquiredDrained
<1>7. CASE UnlinkAwaited(r)
  <2>1. /\ awaited' \in Seq(Readers) /\ IsInjective(awaited')
        /\ ToSet(awaited') = ToSet(awaited) \ {r}
    BY <1>7, RemoveFromList DEF UnlinkAwaited
  <2>11. TypeOK'
    BY <1>7, <2>1 DEF UnlinkAwaited
  <2>12. QueuesHoldReaders'
    BY <1>7, <2>1 DEF UnlinkAwaited
  <2>2. awaited' # << >> => awaited # << >>
    BY <2>1, EmptyList
  <2>13. WaitsAlone'
    BY <1>7, <2>1, <2>2 DEF UnlinkAwaited
  <2>14. OwedAreAwaited'
    BY <1>7, <2>1 DEF UnlinkAwaited
  <2>15. MaintenanceEmpties'
    BY <1>7, <2>1 DEF UnlinkAwaited
  <2>. QED BY <2>11, <2>12, <2>13, <2>14, <2>15
<1>8. CASE FinishUnwaited(r) \/ FinishSignal(r) \/ FinishMeet(r)
  <2>11. TypeOK'
    <3>1. CASE FinishUnwaited(r)
      BY <3>1 DEF FinishUnwaited
    <3>2. CASE FinishSignal(r)
      BY <3>2 DEF FinishSignal
    <3>3. CASE FinishMeet(r)
      BY <3>3 DEF FinishMeet
    <3>. QED BY <1>8, <3>1, <3>2, <3>3
  <2>12. QueuesHoldReaders'
    BY <1>8 DEF FinishUnwaited, FinishSignal, FinishMeet
  <2>13. WaitsAlone'
    BY <1>8 DEF FinishUnwaited, FinishSignal, FinishMeet
  <2>14. OwedAreAwaited'
    BY <1>8 DEF FinishUnwaited, FinishSignal, FinishMeet
  <2>15. MaintenanceEmpties'
    BY <1>8 DEF FinishUnwaited, FinishSignal, FinishMeet
  <2>. QED BY <2>11, <2>12, <2>13, <2>14, <2>15
<1>. QED BY <1>1, <1>2, <1>3, <1>4, <1>5, <1>6, <1>7, <1>8 DEF ReaderStep

(* The steps of a wait.                                                      *)
LEMMA WaiterKeepsIInv ==
  ASSUME IInv, NEW t \in Waiters, WaitCall(t) \/ WaiterStep(t)
  PROVE  IInv'
<1> USE MaintLockAssumption DEF IInv, TypeOK, QueuesHoldReaders, WaitsAlone, OwedAreAwaited,
        MaintenanceEmpties, InQueue, Threads, ReaderPC, WaiterPC, Goto, waiterUnchanged
<1>1. CASE WaitCall(t)
  BY <1>1 DEF WaitCall
<1>2. CASE SpliceReads(t)
  <2>1. awaited = << >>
    BY <1>2 DEF SpliceReads
  <2>2. awaited' = acquired /\ acquired' = << >>
    BY <1>2, <2>1, ConcatEmptySeq DEF SpliceReads
  <2>3. drainIdx' \in DrainIdx /\ (acquired # << >> => drainIdx' # drainIdx)
    BY <1>2, NextIndexDiffers DEF SpliceReads
  <2>. QED BY <1>2, <2>1, <2>2, <2>3, EmptyList DEF SpliceReads
<1>3. CASE UnlockAwaited(t)
  BY <1>3 DEF UnlockAwaited
<1>4. CASE WaitForHead(t)
  BY <1>4, EmptyList DEF WaitForHead
<1>5. CASE WaitCompleted(t)
  BY <1>5 DEF WaitCompleted
<1>6. CASE WaitConfirmed(t)
  BY <1>6 DEF WaitConfirmed
<1>7. CASE CheckEmpty(t)
  BY <1>7, EmptyList DEF CheckEmpty
<1>8. CASE Relock(t)
  <2>11. TypeOK'
    <3>1. CASE awaited = << >>
      BY <1>8, <3>1 DEF Relock
    <3>2. CASE awaited # << >>
      <4>1. pc' = [pc EXCEPT ![t] = "process"] /\ awaitedLock' = t
        BY <1>8, <3>2 DEF Relock
      <4>. QED BY <1>8, <4>1 DEF Relock
    <3>. QED BY <3>1, <3>2
  <2>12. QueuesHoldReaders'
    BY <1>8, EmptyList DEF Relock
  <2>13. WaitsAlone'
    BY <1>8, EmptyList DEF Relock
  <2>14. OwedAreAwaited'
    BY <1>8, EmptyList DEF Relock
  <2>15. MaintenanceEmpties'
    BY <1>8, EmptyList DEF Relock
  <2>. QED BY <2>11, <2>12, <2>13, <2>14, <2>15
<1>9. CASE WaitReturn(t)
  <2>11. TypeOK'
    BY <1>9, EmptyList DEF WaitReturn
  <2>12. QueuesHoldReaders'
    BY <1>9, EmptyList DEF WaitReturn
  <2>13. WaitsAlone'
    BY <1>9, EmptyList DEF WaitReturn
  <2>14. OwedAreAwaited'
    BY <1>9, EmptyList DEF WaitReturn
  <2>15. MaintenanceEmpties'
    BY <1>9, EmptyList DEF WaitReturn
  <2>. QED BY <2>11, <2>12, <2>13, <2>14, <2>15
<1>. QED BY <1>1, <1>2, <1>3, <1>4, <1>5, <1>6, <1>7, <1>8, <1>9 DEF WaiterStep

LEMMA StepIInv == IInv /\ [Next]_vars => IInv'
<1> SUFFICES ASSUME IInv, [Next]_vars PROVE IInv'
  OBVIOUS
<1>1. CASE SetMaintenance \/ ClearMaintenance
  <2> USE DEF IInv, TypeOK, QueuesHoldReaders, WaitsAlone, OwedAreAwaited, MaintenanceEmpties
  <2>11. TypeOK'
    BY <1>1 DEF SetMaintenance, ClearMaintenance
  <2>12. QueuesHoldReaders'
    BY <1>1 DEF SetMaintenance, ClearMaintenance
  <2>13. WaitsAlone'
    BY <1>1 DEF SetMaintenance, ClearMaintenance
  <2>14. OwedAreAwaited'
    BY <1>1 DEF SetMaintenance, ClearMaintenance
  <2>15. MaintenanceEmpties'
    BY <1>1 DEF SetMaintenance, ClearMaintenance
  <2>. QED BY <2>11, <2>12, <2>13, <2>14, <2>15
<1>2. CASE UNCHANGED vars
  BY <1>2 DEF vars, codeVars, IInv, TypeOK, QueuesHoldReaders, WaitsAlone,
              OwedAreAwaited, MaintenanceEmpties
<1>. QED BY <1>1, <1>2, ReaderKeepsIInv, WaiterKeepsIInv DEF Next

LEMMA InvariantHolds == Spec => []IInv
BY InitIInv, StepIInv, PTL DEF Spec

-----------------------------------------------------------------------------
(* Whatever the number of drains since a reader entered, its unlock looks    *)
(* for it in the queue that it is in: comparing one remembered index with    *)
(* the current one is enough, though indices come back (maintlock.c).        *)
THEOREM UnlocksFindTheirQueue == Spec => []UnlinksRightQueue
<1>1. IInv => UnlinksRightQueue
  BY DEF IInv, QueuesHoldReaders, InQueue, UnlinksRightQueue
<1>. QED BY <1>1, InvariantHolds, PTL

(* Waits exclude each other by the flag alone, and the second queue is empty *)
(* when none of them waits for readers (maintlock.c).                        *)
THEOREM WaitsExcludeEachOther == Spec => []OneWaitAtATime
<1>1. IInv => OneWaitAtATime
  <2> SUFFICES ASSUME IInv PROVE OneWaitAtATime
    OBVIOUS
  <2>1. \A t, u \in Waiters : t # u /\ pc[t] # "idle" => pc[u] = "idle"
    BY DEF IInv, WaitsAlone
  <2>2. awaited # << >> => \E t \in Waiters : pc[t] \notin {"idle", "unlock", "clear"}
    BY DEF IInv, WaitsAlone
  <2>. QED BY <2>1, <2>2 DEF IInv, WaitsAlone, OneWaitAtATime
<1>. QED BY <1>1, InvariantHolds, PTL

(* When a wait under maintenance has returned, no reader holds the lock      *)
(* until maintenance is cleared (maintlock.h).                               *)
THEOREM MaintenanceKeepsReadersOut == Spec => []MaintenanceIsolates
<1>1. IInv => MaintenanceIsolates
  BY EmptyList DEF IInv, TypeOK, QueuesHoldReaders, InQueue, MaintenanceEmpties, MaintenanceIsolates
<1>. QED BY <1>1, InvariantHolds, PTL

(* A wait never returns before the readers that it found have released their *)
(* locks (maintlock.h, wait_rdunlock).                                       *)
THEOREM WaitsOutlastReads == Spec => WaitOutlastsEarlierReads
<1>1. IInv => (\A t \in Waiters : pc[t] = "clear" => owed[t] = {})
  <2> SUFFICES ASSUME IInv, NEW t \in Waiters, pc[t] = "clear" PROVE owed[t] = {}
    OBVIOUS
  <2>1. awaited = << >>
    BY DEF IInv, WaitsAlone
  <2>. QED BY <2>1, EmptyList DEF IInv, TypeOK, OwedAreAwaited
<1>2. IInv => (\A t \in Waiters : pc[t] = "clear" /\ pc'[t] = "idle" => owed[t] = {})
  BY <1>1
<1>. QED BY <1>2, InvariantHolds, PTL DEF WaitOutlastsEarlierReads
=============================================================================
