-------------------------- MODULE TrdlRWLockProofs --------------------------
(***************************************************************************)
(* The rwlock with try-read, for any readers and any finite set of         *)
(* writers: its counter of writers and its barrier, and that it keeps the  *)
(* invariant and the promise of the basic one.                             *)
(***************************************************************************)
EXTENDS TrdlRWLock, RWLockProofs, FiniteSetTheorems

\* The places of a writer that does not count itself, and of one that does in wrlock.
UncountedPC == {"idle", "tryGlance", "tryCount", "release"}
WrLockPC == WriterPC \ {"idle", "tryWrite"}

(* The lists that reads come to acquired_reads from, the place of each       *)
(* thread, and that only those that call trywrlock are in it.                *)
PlacesTyped ==
  /\ TrdlTypeOK
  /\ express \in Seq(Readers) /\ extracted \in Seq(Readers)
  /\ pc = [t \in Threads |-> pc[t]]
  /\ \A w \in Writers : pc[w] \in TryWritePC \cup {"tryGlance"} => w \in TryWriters

CountRight == /\ waits \div 2 = Cardinality(Counted)
              /\ BarrierPassed => Counted # {}
              /\ Past # {} => BarrierPassed

(* A try-read is about to be linked only under tryread_queue_lock, and while *)
(* it has that no writer passes the barrier.                                 *)
LinkGuarded == \A r \in Readers : pc[r] = "tryLink" => tryreadLock = r /\ ~BarrierPassed

HolderPlaced == \A w \in Writers : accessLock = w => pc[w] \in WriterHoldPC

CountInv == PlacesTyped /\ CountRight /\ LinkGuarded /\ HolderPlaced /\ TryWriteFailsOnBusy

-----------------------------------------------------------------------------
(* Linking reads leaves acquired_reads a list of reads and the separator.    *)
LEMMA LinkedTyped ==
  ASSUME EndItem # Nobody, acquired \in Seq(Readers \cup {EndItem}), NEW items \in Seq(Readers)
  PROVE  Linked(items) \in Seq(Readers \cup {EndItem})
<1> DEFINE R == Readers \cup {EndItem}
           I == { i \in 1 .. Len(acquired) : acquired[i] = EndItem }
           k == SelectInSeq(acquired, LAMBDA x : x = EndItem)
<1>1. I # {} => Min(I) \in I
  <2>1. I \subseteq Nat
    OBVIOUS
  <2>. QED BY <2>1, LeastIndex
<1>2. k = IF I # {} THEN Min(I) ELSE 0
  BY DEF SelectInSeq
<1>3. k \in 0 .. Len(acquired)
  BY <1>1, <1>2
<1>4. BeforeEnd = SubSeq(acquired, 1, IF k = 0 THEN Len(acquired) ELSE k - 1)
  BY DEF BeforeEnd, Before
<1>. HIDE DEF k, I
<1>5. BeforeEnd \in Seq(R) /\ Len(BeforeEnd) \in 0 .. Len(acquired)
  BY <1>3, <1>4, SubSeqProperties
<1>6. Behind(acquired) \in Seq(R)
  BY <1>5, SubSeqProperties DEF Behind, BeforeEnd
<1>7. items \in Seq(R)
  OBVIOUS
<1>. QED BY <1>5, <1>6, <1>7, ConcatProperties DEF Linked

LEMMA LastExpressTyped ==
  ASSUME express \in Seq(Readers), express # << >>
  PROVE  << LastExpress >> \in Seq(Readers)
<1>1. Len(express) \in 1 .. Len(express)
  OBVIOUS
<1>. QED BY <1>1 DEF LastExpress, Last

(* What the steps of the basic lock do to the state of the counter.          *)
LEMMA WriterMoves ==
  ASSUME PlacesTyped, HolderPlaced, NEW w \in Writers, WrLockStep(w)
  PROVE  /\ pc[w] \in WrLockPC
         /\ \E q \in WrLockPC : pc' = [pc EXCEPT ![w] = q]
         /\ accessLock' \in {accessLock, w}
         /\ accessLock' = w => pc'[w] \in WriterHoldPC
         /\ UNCHANGED <<acquired, express, extracted>>
<1> USE DEF PlacesTyped, HolderPlaced, WrLockPC, WriterPC, WriterHoldPC, Threads, Goto, listVars
<1>1. CASE WrLockEmpty(w)
  BY <1>1 DEF WrLockEmpty
<1>2. CASE WrLockNotEmpty(w)
  BY <1>2 DEF WrLockNotEmpty
<1>3. CASE Enlist(w)
  BY <1>3 DEF Enlist
<1>4. CASE PushFirst(w)
  BY <1>4 DEF PushFirst
<1>5. CASE AcquireEmptied(w)
  BY <1>5 DEF AcquireEmptied
<1>6. CASE WaitLastRead(w)
  BY <1>6 DEF WaitLastRead
<1>7. CASE FindAllBusy(w)
  BY <1>7 DEF FindAllBusy
<1>8. CASE ReadWaited(w)
  BY <1>8 DEF ReadWaited
<1>9. CASE EnlistLate(w)
  BY <1>9 DEF EnlistLate
<1>10. CASE LookAtCommits(w)
  BY <1>10 DEF LookAtCommits
<1>11. CASE PushNext(w)
  BY <1>11 DEF PushNext
<1>12. CASE Unpush(w)
  BY <1>12 DEF Unpush
<1>13. CASE Unlist(w)
  BY <1>13 DEF Unlist
<1>14. CASE ReinitUnlisted(w)
  BY <1>14 DEF ReinitUnlisted
<1>15. CASE FinishWrite(w)
  BY <1>15 DEF FinishWrite
<1>16. CASE WrLockReturn(w)
  BY <1>16 DEF WrLockReturn
<1>. QED BY <1>1, <1>2, <1>3, <1>4, <1>5, <1>6, <1>7, <1>8, <1>9, <1>10, <1>11, <1>12,
            <1>13, <1>14, <1>15, <1>16 DEF WrLockStep

LEMMA ReaderMoves ==
  ASSUME PlacesTyped, NEW r \in Readers, RdLockCall(r) \/ ReaderStep(r)
  PROVE  /\ pc[r] \in ReaderPC
         /\ \E q \in ReaderPC \cup {"checkTail"} : pc' = [pc EXCEPT ![r] = q]
         /\ accessLock' \in {accessLock, r, Nobody}
         /\ acquired' \in Seq(Readers \cup {EndItem})
         /\ express' \in Seq(Readers) /\ extracted' \in Seq(Readers)
<1> USE TrdlAssumption DEF PlacesTyped, TrdlTypeOK, ReaderPC, Threads, Goto, listVars
<1>0. << >> \in Seq(Readers)
  OBVIOUS
<1>1. CASE RdLockCall(r)
  BY <1>1 DEF RdLockCall
<1>2. CASE PushExpress(r)
  BY <1>2, AppendToList DEF PushExpress
<1>3. CASE PushFailed(r)
  <2>1. pc = [pc EXCEPT ![r] = pc[r]]
    BY DEF PlacesTyped
  <2>. QED BY <1>3, <2>1 DEF PushFailed
<1>4. CASE CheckReads(r)
  BY <1>4 DEF CheckReads
<1>5. CASE LockLinked(r)
  BY <1>5 DEF LockLinked
<1>6. CASE LockPlain(r)
  BY <1>6 DEF LockPlain
<1>7. CASE CommittedByOther(r)
  BY <1>7 DEF CommittedByOther
<1>8. CASE CommitLinked(r)
  BY <1>8, LastExpressTyped, LinkedTyped DEF CommitLinked
<1>9. CASE SwapLinked(r)
  BY <1>9, <1>0, RemoveTyped, LinkedTyped DEF SwapLinked
<1>10. CASE CommitOwn(r)
  <2>1. << r >> \in Seq(Readers)
    OBVIOUS
  <2>. QED BY <1>10, <2>1, LinkedTyped DEF CommitOwn
<1>11. CASE SwapOwn(r)
  BY <1>11, <1>0, LinkedTyped DEF SwapOwn
<1>12. CASE LeadReads(r)
  BY <1>12 DEF LeadReads
<1>13. CASE FollowReads(r)
  BY <1>13 DEF FollowReads
<1>14. CASE WaitLastWrite(r)
  BY <1>14 DEF WaitLastWrite
<1>15. CASE WriteWaited(r)
  BY <1>15 DEF WriteWaited
<1>16. CASE FindNoWrites(r)
  BY <1>16 DEF FindNoWrites
<1>17. CASE DrainReads(r)
  BY <1>17 DEF DrainReads
<1>18. CASE ReadWaitEnded(r)
  BY <1>18 DEF ReadWaitEnded
<1>19. CASE LeaveReads(r)
  BY <1>19 DEF LeaveReads
<1>20. CASE FinishWait(r)
  BY <1>20 DEF FinishWait
<1>21. CASE PrestartAgain(r)
  BY <1>21 DEF PrestartAgain
<1>22. CASE Relock(r)
  BY <1>22 DEF Relock
<1>23. CASE RdUnlockCall(r)
  BY <1>23 DEF RdUnlockCall
<1>24. CASE UnlinkOwn(r)
  BY <1>24, RemoveTyped DEF UnlinkOwn
<1>25. CASE ExtractExpress(r)
  BY <1>25, <1>0 DEF ExtractExpress
<1>26. CASE LinkExtracted(r)
  BY <1>26, <1>0, LinkedTyped DEF LinkExtracted
<1>27. CASE FinishRead(r)
  BY <1>27 DEF FinishRead
<1>28. CASE RdUnlockReturn(r)
  BY <1>28 DEF RdUnlockReturn
<1>29. CASE UnlockQueued(r)
  BY <1>29, <1>0, RemoveTyped, LinkedTyped DEF UnlockQueued
<1>. QED BY <1>1, <1>2, <1>3, <1>4, <1>5, <1>6, <1>7, <1>8, <1>9, <1>10, <1>11, <1>12,
            <1>13, <1>14, <1>15, <1>16, <1>17, <1>18, <1>19, <1>20, <1>21, <1>22, <1>23,
            <1>24, <1>25, <1>26, <1>27, <1>28, <1>29 DEF ReaderStep, RdLockStep, RdUnlockStep

-----------------------------------------------------------------------------
(* The counter after a writer moved.                                         *)
LEMMA CountedMoves ==
  ASSUME DOMAIN pc = Threads, NEW w \in Writers, NEW q, pc' = [pc EXCEPT ![w] = q]
  PROVE  /\ Counted' = IF q \in UncountedPC THEN Counted \ {w} ELSE Counted \cup {w}
         /\ Past' = IF q \in UncountedPC \cup {"barrier", "tryBarrier"} THEN Past \ {w}
                                                                       ELSE Past \cup {w}
<1>1. \A u \in Writers : pc'[u] = IF u = w THEN q ELSE pc[u]
  BY DEF Threads
<1>2. Counted' = {u \in Writers : pc'[u] \notin UncountedPC}
  BY DEF Counted, UncountedPC
<1>3. Past' = {u \in Writers : pc'[u] \notin UncountedPC \cup {"barrier", "tryBarrier"}}
  BY DEF Past, Counted, UncountedPC
<1>4. /\ Counted = {u \in Writers : pc[u] \notin UncountedPC}
      /\ Past = {u \in Writers : pc[u] \notin UncountedPC \cup {"barrier", "tryBarrier"}}
  BY DEF Past, Counted, UncountedPC
<1>5. Counted' = IF q \in UncountedPC THEN Counted \ {w} ELSE Counted \cup {w}
  BY <1>1, <1>2, <1>4
<1>6. Past' = IF q \in UncountedPC \cup {"barrier", "tryBarrier"} THEN Past \ {w}
                                                                  ELSE Past \cup {w}
  BY <1>1, <1>3, <1>4
<1>. QED BY <1>5, <1>6

LEMMA CountedFinite == IsFiniteSet(Counted) /\ Cardinality(Counted) \in Nat
<1>1. IsFiniteSet(Counted)
  BY TrdlAssumption, FS_Subset DEF Counted
<1>. QED BY <1>1, FS_CardinalityType

(* A writer begins to count itself, ...                                      *)
LEMMA CountUp ==
  ASSUME PlacesTyped, CountRight, NEW w \in Writers, NEW q, pc' = [pc EXCEPT ![w] = q],
         pc[w] \in UncountedPC, q \notin UncountedPC,
         q \in {"barrier", "tryBarrier"} \/ BarrierPassed, Increment
  PROVE  CountRight' /\ waits' \in Nat /\ BarrierPassed' = BarrierPassed
<1>1. Counted' = Counted \cup {w} /\ w \notin Counted
  BY CountedMoves DEF PlacesTyped, Counted, UncountedPC
<1>2. Cardinality(Counted') = Cardinality(Counted) + 1
  BY <1>1, CountedFinite, FS_AddElement
<1>3. waits \in Nat /\ waits' = waits + 2
  BY DEF PlacesTyped, TrdlTypeOK, Increment
<1>4. waits' \in Nat /\ waits' \div 2 = waits \div 2 + 1 /\ waits' % 2 = waits % 2
  BY <1>3
<1>5. waits' \div 2 = Cardinality(Counted')
  BY <1>2, <1>4 DEF CountRight
<1>6. BarrierPassed' = BarrierPassed
  BY <1>4 DEF BarrierPassed
<1>7. Past' # {} => BarrierPassed'
  <2>1. CASE q \in {"barrier", "tryBarrier"}
    <3>1. Past' = Past \ {w}
      BY <2>1, CountedMoves DEF PlacesTyped
    <3>. QED BY <3>1, <1>6 DEF CountRight
  <2>2. CASE BarrierPassed
    BY <2>2, <1>6
  <2>. QED BY <2>1, <2>2
<1>. QED BY <1>1, <1>4, <1>5, <1>6, <1>7 DEF CountRight

(* ... and ends to.                                                          *)
LEMMA CountDown ==
  ASSUME PlacesTyped, CountRight, NEW w \in Writers, NEW q, pc' = [pc EXCEPT ![w] = q],
         pc[w] \notin UncountedPC, q \in UncountedPC, Decrement
  PROVE  CountRight' /\ waits' \in Nat /\ (BarrierPassed' => BarrierPassed)
<1>1. Counted' = Counted \ {w} /\ w \in Counted /\ Past' = Past \ {w}
  BY CountedMoves DEF PlacesTyped, Counted, UncountedPC
<1>2. Cardinality(Counted') = Cardinality(Counted) - 1
  BY <1>1, CountedFinite, FS_RemoveElement
<1>3. waits \in Nat /\ waits' = IF waits <= 3 THEN 0 ELSE waits - 2
  BY DEF PlacesTyped, TrdlTypeOK, Decrement
<1>4. Cardinality(Counted) >= 1
  <2>1. Cardinality(Counted) # 0
    BY <1>1, CountedFinite, FS_EmptySet
  <2>. QED BY <2>1, CountedFinite
<1>5. waits >= 2
  BY <1>3, <1>4, CountedFinite DEF CountRight
<1>6. IsFiniteSet(Counted') /\ (Cardinality(Counted') = 0 <=> Counted' = {})
  BY <1>1, CountedFinite, FS_RemoveElement, FS_EmptySet
<1>7. CASE waits <= 3
  <2>1. waits \div 2 = 1 /\ waits' = 0 /\ waits' \div 2 = 0 /\ waits' % 2 = 0
    BY <1>3, <1>5, <1>7
  <2>2. Counted' = {} /\ Past' = {}
    <3>1. Cardinality(Counted') = 0
      BY <1>2, <2>1 DEF CountRight
    <3>. QED BY <1>1, <1>6, <3>1 DEF Past
  <2>3. ~BarrierPassed'
    BY <2>1 DEF BarrierPassed
  <2>4. Cardinality(Counted') = 0
    BY <1>6, <2>2
  <2>. QED BY <2>1, <2>2, <2>3, <2>4 DEF CountRight
<1>8. CASE ~(waits <= 3)
  <2>1. waits' \in Nat /\ waits' \div 2 = waits \div 2 - 1 /\ waits' % 2 = waits % 2 /\ waits' \div 2 # 0
    BY <1>3, <1>8
  <2>2. BarrierPassed' = BarrierPassed
    BY <2>1 DEF BarrierPassed
  <2>3. waits' \div 2 = Cardinality(Counted')
    BY <1>2, <2>1 DEF CountRight
  <2>4. Counted' # {}
    BY <1>6, <2>1, <2>3
  <2>. QED BY <1>1, <2>1, <2>2, <2>3, <2>4 DEF CountRight
<1>. QED BY <1>7, <1>8

(* A writer passes the barrier.                                              *)
LEMMA CountPast ==
  ASSUME PlacesTyped, CountRight, NEW w \in Writers, NEW q, pc' = [pc EXCEPT ![w] = q],
         pc[w] \notin UncountedPC, q \notin UncountedPC,
         waits' = IF BarrierPassed THEN waits ELSE waits + 1
  PROVE  CountRight' /\ waits' \in Nat
<1>1. Counted' = Counted \cup {w} /\ w \in Counted
  BY CountedMoves DEF PlacesTyped, Counted, UncountedPC
<1>2. Counted' = Counted
  BY <1>1
<1>3. waits \in Nat
  BY DEF PlacesTyped, TrdlTypeOK
<1>4. waits' \in Nat /\ waits' \div 2 = waits \div 2 /\ waits' % 2 = 1
  <2>1. CASE BarrierPassed
    BY <1>3, <2>1 DEF BarrierPassed
  <2>2. CASE ~BarrierPassed
    BY <1>3, <2>2 DEF BarrierPassed
  <2>. QED BY <2>1, <2>2
<1>. QED BY <1>1, <1>2, <1>4 DEF CountRight, BarrierPassed

(* Nobody's count changes.                                                   *)
LEMMA CountStays ==
  ASSUME PlacesTyped, CountRight, NEW w \in Writers, NEW q, pc' = [pc EXCEPT ![w] = q],
         pc[w] \in UncountedPC <=> q \in UncountedPC,
         q \in UncountedPC \/ pc[w] \notin {"barrier", "tryBarrier"}, UNCHANGED waits
  PROVE  CountRight'
<1>1. Counted' = Counted
  BY CountedMoves DEF PlacesTyped, Counted, UncountedPC
<1>2. Past' \subseteq Past
  BY CountedMoves DEF PlacesTyped, Past, Counted, UncountedPC
<1>. QED BY <1>1, <1>2 DEF CountRight, BarrierPassed

LEMMA CountUntouched ==
  ASSUME CountRight, \A u \in Writers : pc'[u] = pc[u], UNCHANGED waits
  PROVE  CountRight'
<1>1. Counted' = Counted /\ Past' = Past
  BY DEF Counted, Past
<1>. QED BY <1>1 DEF CountRight, BarrierPassed

(* The history of a call that gives up.                                      *)
LEMMA MeetsSomebody ==
  ASSUME TryWriteFailsOnBusy, Meets,
         \A u \in Writers : pc'[u] = "giveUp" =>
           pc[u] = "giveUp" \/ accessLock' \notin {u, Nobody} \/ acquired' # EndList
  PROVE  TryWriteFailsOnBusy'
BY DEF TryWriteFailsOnBusy, Meets, TryWritePC

-----------------------------------------------------------------------------
ReaderPlaces == ReaderPC \cup {"checkTail", "tryRead", "tryLink", "tryFail", "unlinkTried"}
WriterPlaces == WriterPC \cup TryWritePC \cup {"barrier", "glance", "glanceHead", "release", "tryGlance"}

(* What it takes that a step of a writer keeps the invariant, ...            *)
LEMMA WriterKeeps ==
  ASSUME CountInv, Meets, NEW w \in Writers, NEW q \in WriterPlaces, pc' = [pc EXCEPT ![w] = q],
         q \in TryWritePC \cup {"tryGlance"} => w \in TryWriters,
         UNCHANGED <<acquired, express, extracted, tryreadLock, tryLocked>>,
         waits' \in Nat, CountRight',
         tryreadLock # Nobody /\ BarrierPassed' => BarrierPassed,
         accessLock' \in {accessLock, w, Nobody},
         accessLock' = w => q \in WriterHoldPC,
         q = "giveUp" => accessLock' \notin {w, Nobody} \/ acquired # EndList
  PROVE  CountInv'
<1> USE RWLockAssumption DEF CountInv, Threads
<1>0. pc = [t \in Threads |-> pc[t]]
  BY DEF PlacesTyped
<1>1. pc' = [t \in Threads |-> pc'[t]]
  BY <1>0
<1>2. \A t \in Threads : pc'[t] = IF t = w THEN q ELSE pc[t]
  BY <1>0
<1>3. \A r \in Readers : pc'[r] = pc[r]
  BY <1>2
<1>4. \A u \in Writers : pc'[u] \in TryWritePC \cup {"tryGlance"} => u \in TryWriters
  BY <1>2 DEF PlacesTyped
<1>5. contended' \subseteq TryWriters
  BY <1>4 DEF Meets
<1>6. TrdlTypeOK'
  BY <1>2, <1>5 DEF PlacesTyped, TrdlTypeOK, WriterPlaces
<1>7. PlacesTyped'
  BY <1>1, <1>4, <1>6 DEF PlacesTyped
<1>8. LinkGuarded'
  BY <1>3 DEF LinkGuarded
<1>9. HolderPlaced'
  BY <1>2 DEF HolderPlaced
<1>10. TryWriteFailsOnBusy'
  BY <1>2, MeetsSomebody
<1>. QED BY <1>7, <1>8, <1>9, <1>10

(* ... and a step of a reader.                                               *)
LEMMA ReaderKeeps ==
  ASSUME CountInv, Meets, NEW r \in Readers, NEW q \in ReaderPlaces, pc' = [pc EXCEPT ![r] = q],
         acquired' \in Seq(Readers \cup {EndItem}),
         express' \in Seq(Readers), extracted' \in Seq(Readers),
         tryLocked' \subseteq TryReaders, UNCHANGED waits,
         \/ UNCHANGED tryreadLock /\ q # "tryLink"
         \/ tryreadLock = Nobody /\ tryreadLock' = r /\ waits = 0
         \/ tryreadLock = r /\ tryreadLock' = Nobody /\ q # "tryLink",
         accessLock' \in {accessLock, r, Nobody}
  PROVE  CountInv'
<1> USE RWLockAssumption DEF CountInv, Threads
<1>0. pc = [t \in Threads |-> pc[t]]
  BY DEF PlacesTyped
<1>1. pc' = [t \in Threads |-> pc'[t]]
  BY <1>0
<1>2. \A t \in Threads : pc'[t] = IF t = r THEN q ELSE pc[t]
  BY <1>0
<1>3. \A u \in Writers : pc'[u] = pc[u]
  BY <1>2
<1>4. contended' \subseteq TryWriters
  BY <1>3 DEF Meets, PlacesTyped
<1>5. TrdlTypeOK'
  BY <1>2, <1>4 DEF PlacesTyped, TrdlTypeOK, ReaderPlaces
<1>6. PlacesTyped'
  BY <1>1, <1>3, <1>5 DEF PlacesTyped
<1>7. CountRight'
  BY <1>3, CountUntouched
<1>8. LinkGuarded'
  <2>1. BarrierPassed' = BarrierPassed /\ (waits = 0 => ~BarrierPassed)
    BY DEF BarrierPassed
  <2>. QED BY <1>2, <2>1 DEF LinkGuarded, PlacesTyped, TrdlTypeOK
<1>9. HolderPlaced'
  BY <1>3 DEF HolderPlaced
<1>10. TryWriteFailsOnBusy'
  BY <1>3, MeetsSomebody
<1>. QED BY <1>6, <1>7, <1>8, <1>9, <1>10

LEMMA BasicReaderKeeps ==
  ASSUME CountInv, Meets, NEW r \in Readers, RdLockCall(r) \/ ReaderStep(r),
         tryLocked' \subseteq TryReaders, UNCHANGED <<waits, tryreadLock>>
  PROVE  CountInv'
<1>1. /\ acquired' \in Seq(Readers \cup {EndItem})
      /\ express' \in Seq(Readers) /\ extracted' \in Seq(Readers)
      /\ accessLock' \in {accessLock, r, Nobody}
  BY ReaderMoves DEF CountInv
<1>2. PICK q \in ReaderPC \cup {"checkTail"} : pc' = [pc EXCEPT ![r] = q]
  BY ReaderMoves DEF CountInv
<1>3. q \in ReaderPlaces /\ q # "tryLink"
  BY DEF ReaderPlaces, ReaderPC
<1>. QED BY <1>1, <1>2, <1>3, ReaderKeeps

LEMMA CountReaderStepKeeps ==
  ASSUME CountInv, Meets, NEW r \in Readers,
         \/ r \in TryReaders /\ TryRdLockCall(r)
         \/ RdLockCall(r) /\ UNCHANGED trdlVars
         \/ TrdlReaderStep(r)
  PROVE  CountInv'
<1> DEFINE R == Readers \cup {EndItem}
<1>0. /\ acquired \in Seq(R) /\ express \in Seq(Readers) /\ extracted \in Seq(Readers)
      /\ tryLocked \subseteq TryReaders
  BY DEF CountInv, PlacesTyped, TrdlTypeOK
<1> USE DEF trdlVars, listVars, Goto, ReaderPlaces, ReaderPC
<1>1. CASE r \in TryReaders /\ TryRdLockCall(r)
  <2>1. tryLocked' \subseteq TryReaders
    BY <1>0, <1>1 DEF TryRdLockCall, WithTag
  <2>. QED BY <1>0, <1>1, <2>1, ReaderKeeps DEF TryRdLockCall
<1>2. CASE RdLockCall(r) /\ UNCHANGED trdlVars
  BY <1>0, <1>2, BasicReaderKeeps
<1>3. CASE RdLockStep(r) /\ UNCHANGED trdlVars
  BY <1>0, <1>3, BasicReaderKeeps DEF ReaderStep
<1>4. CASE TryRdLockCheck(r)
  <2>1. CASE waits = 0
    BY <1>0, <1>4, <2>1, ReaderKeeps DEF TryRdLockCheck
  <2>2. CASE waits # 0
    BY <1>0, <1>4, <2>2, ReaderKeeps DEF TryRdLockCheck
  <2>. QED BY <2>1, <2>2
<1>5. CASE TryRdLockLink(r)
  <2>1. tryreadLock = r
    BY <1>5 DEF TryRdLockLink, CountInv, LinkGuarded
  <2>2. acquired' \in Seq(R)
    BY <1>0, <1>5, AppendToList DEF TryRdLockLink
  <2>. QED BY <1>0, <1>5, <2>1, <2>2, ReaderKeeps DEF TryRdLockLink
<1>6. CASE TryRdLockFail(r)
  <2>1. tryLocked' \subseteq TryReaders
    BY <1>0, <1>6 DEF TryRdLockFail, WithTag
  <2>. QED BY <1>0, <1>6, <2>1, ReaderKeeps DEF TryRdLockFail
<1>7. CASE CheckTryReads(r)
  BY <1>0, <1>7, ReaderKeeps DEF CheckTryReads
<1>8. CASE LockForUnlink(r)
  BY <1>0, <1>8, ReaderKeeps DEF LockForUnlink
<1>9. CASE UnlinkTried(r)
  <2>1. acquired' \in Seq(R)
    BY <1>0, <1>9, RemoveTyped DEF UnlinkTried
  <2>. QED BY <1>0, <1>9, <2>1, ReaderKeeps DEF UnlinkTried
<1>10. CASE TrdlRdUnlockRest(r)
  <2>1. tryLocked' \subseteq TryReaders
    BY <1>0, <1>10 DEF TrdlRdUnlockRest, WithoutTags, WithTag
  <2>. QED BY <1>10, <2>1, BasicReaderKeeps DEF TrdlRdUnlockRest, ReaderStep
<1>. QED BY <1>1, <1>2, <1>3, <1>4, <1>5, <1>6, <1>7, <1>8, <1>9, <1>10 DEF TrdlReaderStep

-----------------------------------------------------------------------------
(* The steps of writers, by their kinds.                                     *)
LEMMA CountKeeps ==
  ASSUME CountInv, Meets, NEW w \in Writers, NEW from, NEW barrier, NEW to,
         Count(w, from, barrier, to),
         from \in {"idle", "tryCount"}, barrier \in {"barrier", "tryBarrier"},
         to \in {"glance", "tryTail"},
         {barrier, to} \cap TryWritePC # {} => w \in TryWriters
  PROVE  CountInv'
<1> DEFINE q == IF BarrierPassed THEN to ELSE barrier
<1>1. /\ pc' = [pc EXCEPT ![w] = q] /\ pc[w] = from
      /\ UNCHANGED <<acquired, express, extracted, tryreadLock, tryLocked, accessLock>>
  BY DEF Count, listVars
<1>2. q \in {barrier, to} /\ (q \in {"barrier", "tryBarrier"} \/ BarrierPassed)
  OBVIOUS
<1>. HIDE DEF q
<1>3. q \in WriterPlaces /\ q \notin UncountedPC /\ from \in UncountedPC /\ q # "giveUp"
  BY <1>2 DEF WriterPlaces, TryWritePC, UncountedPC
<1>4. q \in TryWritePC \cup {"tryGlance"} => w \in TryWriters
  BY <1>2 DEF TryWritePC
<1>5. CountRight' /\ waits' \in Nat /\ BarrierPassed' = BarrierPassed
  BY <1>1, <1>2, <1>3, CountUp DEF CountInv, Count
<1>6. accessLock # w
  BY <1>1 DEF CountInv, HolderPlaced, WriterHoldPC
<1>. QED BY <1>1, <1>3, <1>4, <1>5, <1>6, WriterKeeps

LEMMA PassBarrierKeeps ==
  ASSUME CountInv, Meets, NEW w \in Writers, NEW from, NEW to, PassBarrier(w, from, to),
         from \in {"barrier", "tryBarrier"}, to \in {"glance", "tryTail"},
         to = "tryTail" => from = "tryBarrier"
  PROVE  CountInv'
<1>1. /\ pc' = [pc EXCEPT ![w] = to] /\ pc[w] = from /\ tryreadLock = Nobody
      /\ waits' = IF BarrierPassed THEN waits ELSE waits + 1
      /\ UNCHANGED <<acquired, express, extracted, tryreadLock, tryLocked, accessLock>>
  BY DEF PassBarrier, Goto, listVars
<1>2. to \in WriterPlaces /\ to \notin UncountedPC /\ from \notin UncountedPC /\ to # "giveUp"
  BY DEF WriterPlaces, TryWritePC, UncountedPC
<1>3. to \in TryWritePC \cup {"tryGlance"} => w \in TryWriters
  BY <1>1 DEF TryWritePC, CountInv, PlacesTyped
<1>4. CountRight' /\ waits' \in Nat
  BY <1>1, <1>2, CountPast DEF CountInv
<1>5. accessLock # w
  BY <1>1 DEF CountInv, HolderPlaced, WriterHoldPC
<1>. QED BY <1>1, <1>2, <1>3, <1>4, <1>5, WriterKeeps

LEMMA DecrementKeeps ==
  ASSUME CountInv, Meets, NEW w \in Writers, NEW from, NEW to, Goto(w, from, to), Decrement,
         from \notin UncountedPC, to \in {"release", "idle"},
         to = "idle" => from \notin WriterHoldPC,
         UNCHANGED <<acquired, express, extracted, tryreadLock, tryLocked, accessLock>>
  PROVE  CountInv'
<1>1. pc' = [pc EXCEPT ![w] = to] /\ pc[w] = from
  BY DEF Goto
<1>2. to \in WriterPlaces /\ to \in UncountedPC /\ to \notin TryWritePC \cup {"tryGlance"} /\ to # "giveUp"
  BY DEF WriterPlaces, WriterPC, TryWritePC, UncountedPC
<1>3. CountRight' /\ waits' \in Nat /\ (BarrierPassed' => BarrierPassed)
  BY <1>1, <1>2, CountDown DEF CountInv
<1>4. accessLock = w => to \in WriterHoldPC
  BY <1>1 DEF CountInv, HolderPlaced, WriterHoldPC
<1>. QED BY <1>1, <1>2, <1>3, <1>4, WriterKeeps

LEMMA MoveKeeps ==
  ASSUME CountInv, Meets, NEW w \in Writers, NEW q \in WriterPlaces, pc' = [pc EXCEPT ![w] = q],
         pc[w] \in UncountedPC <=> q \in UncountedPC,
         q \in UncountedPC \/ pc[w] \notin {"barrier", "tryBarrier"},
         q \in TryWritePC \cup {"tryGlance"} => w \in TryWriters,
         UNCHANGED <<acquired, express, extracted, waits, tryreadLock, tryLocked>>,
         accessLock' \in {accessLock, w, Nobody},
         accessLock' = w => q \in WriterHoldPC,
         q = "giveUp" => accessLock' \notin {w, Nobody} \/ acquired # EndList
  PROVE  CountInv'
<1>1. CountRight'
  BY CountStays DEF CountInv
<1>2. waits' \in Nat /\ BarrierPassed' = BarrierPassed
  BY DEF CountInv, PlacesTyped, TrdlTypeOK, BarrierPassed
<1>. QED BY <1>1, <1>2, WriterKeeps

LEMMA GlanceKeeps ==
  ASSUME CountInv, Meets, NEW w \in Writers, NEW from, NEW item, NEW to, NEW otherwise,
         Glance(w, from, item, to, otherwise),
         from \notin WriterHoldPC \cup {"barrier", "tryBarrier"},
         \A q \in {to, otherwise} :
           /\ q \in WriterPlaces /\ q \notin WriterHoldPC
           /\ from \in UncountedPC <=> q \in UncountedPC
           /\ q \in TryWritePC \cup {"tryGlance"} => w \in TryWriters,
         to # "giveUp",
         item # EndItem => acquired # EndList
  PROVE  CountInv'
<1> DEFINE q == IF item = EndItem THEN to ELSE otherwise
<1>1. /\ pc' = [pc EXCEPT ![w] = q] /\ pc[w] = from
      /\ UNCHANGED <<acquired, express, extracted, waits, tryreadLock, tryLocked, accessLock>>
  BY DEF Glance, listVars, trdlVars
<1>2. q \in {to, otherwise} /\ (q = "giveUp" => acquired # EndList)
  OBVIOUS
<1>. HIDE DEF q
<1>3. accessLock # w
  BY <1>1 DEF CountInv, HolderPlaced
<1>. QED BY <1>1, <1>2, <1>3, MoveKeeps

LEMMA CountWriterStepKeeps ==
  ASSUME CountInv, Meets, NEW w \in Writers,
         \/ TrdlWrLockCall(w)
         \/ w \in TryWriters /\ TrdlTryWrLockCall(w)
         \/ TrdlWriterStep(w)
  PROVE  CountInv'
<1>0. pc[w] \in TryWritePC \cup {"tryGlance"} => w \in TryWriters
  BY DEF CountInv, PlacesTyped
<1>a. acquired = EndList => Last(acquired) = EndItem /\ Head(acquired) = EndItem
  BY TrdlAssumption DEF EndList, Last
<1> USE DEF UncountedPC, WriterHoldPC, WriterPlaces, WriterPC, TryWritePC
<1>1. CASE TrdlWrLockCall(w)
  BY <1>1, CountKeeps DEF TrdlWrLockCall
<1>2. CASE w \in TryWriters /\ TrdlTryWrLockCall(w)
  BY <1>2, <1>a, GlanceKeeps DEF TrdlTryWrLockCall
<1>3. CASE WrLockBarrier(w)
  BY <1>3, PassBarrierKeeps DEF WrLockBarrier
<1>4. CASE WrLockGlanceTail(w)
  BY <1>4, <1>a, GlanceKeeps DEF WrLockGlanceTail
<1>5. CASE WrLockGlanceHead(w)
  BY <1>5, <1>a, GlanceKeeps DEF WrLockGlanceHead
<1>6. CASE TrdlWrLockRest(w)
  <2>1. /\ pc[w] \in WrLockPC
        /\ accessLock' \in {accessLock, w}
        /\ accessLock' = w => pc'[w] \in WriterHoldPC
        /\ UNCHANGED <<acquired, express, extracted>>
    BY <1>6, WriterMoves DEF CountInv, TrdlWrLockRest
  <2>2. PICK q \in WrLockPC : pc' = [pc EXCEPT ![w] = q]
    BY <1>6, WriterMoves DEF CountInv, TrdlWrLockRest
  <2>3. pc'[w] = q
    BY <2>2 DEF CountInv, PlacesTyped, Threads
  <2>. QED BY <1>6, <2>1, <2>2, <2>3, MoveKeeps DEF WrLockPC, TrdlWrLockRest, trdlVars
<1>7. CASE WrUnlockCall(w)
  BY <1>7, DecrementKeeps DEF WrUnlockCall, listVars
<1>8. CASE ReleaseAccess(w)
  BY <1>8, RWLockAssumption, MoveKeeps DEF ReleaseAccess, Goto, listVars, trdlVars
<1>9. CASE TryFirstGlance(w)
  <2>1. w \in TryWriters
    BY <1>0, <1>9 DEF TryFirstGlance, Glance
  <2>. QED BY <1>9, <1>a, <2>1, GlanceKeeps DEF TryFirstGlance
<1>10. CASE TryCount(w)
  <2>1. w \in TryWriters
    BY <1>0, <1>10 DEF TryCount, Count
  <2>. QED BY <1>10, <2>1, CountKeeps DEF TryCount
<1>11. CASE TryBarrier(w)
  BY <1>11, PassBarrierKeeps DEF TryBarrier
<1>12. CASE TryGlanceTail(w)
  <2>1. w \in TryWriters
    BY <1>0, <1>12 DEF TryGlanceTail, Glance
  <2>. QED BY <1>12, <1>a, <2>1, GlanceKeeps DEF TryGlanceTail
<1>13. CASE TryGlanceHead(w)
  <2>1. w \in TryWriters
    BY <1>0, <1>13 DEF TryGlanceHead, Glance
  <2>. QED BY <1>13, <1>a, <2>1, GlanceKeeps DEF TryGlanceHead
<1>14. CASE TrdlTryWrLock(w)
  BY <1>14, RWLockAssumption, MoveKeeps DEF TrdlTryWrLock, TryWrLock, Goto, listVars, trdlVars
<1>15. CASE TrdlTryWrLockBusy(w)
  <2>1. w \in TryWriters /\ accessLock # w
    BY <1>0, <1>15 DEF TrdlTryWrLockBusy, Goto, CountInv, HolderPlaced
  <2>2. accessLock \notin {w, Nobody} \/ acquired # EndList
    BY <1>15, <2>1 DEF TrdlTryWrLockBusy, AccessFree, NoReads
  <2>. QED BY <1>15, <2>1, <2>2, MoveKeeps DEF TrdlTryWrLockBusy, Goto, listVars, trdlVars
<1>16. CASE GiveUp(w)
  BY <1>16, DecrementKeeps DEF GiveUp, listVars
<1>. QED BY <1>1, <1>2, <1>3, <1>4, <1>5, <1>6, <1>7, <1>8, <1>9, <1>10, <1>11, <1>12,
            <1>13, <1>14, <1>15, <1>16 DEF TrdlWriterStep, TrdlWrLockStep, TryWrLockStep

-----------------------------------------------------------------------------
LEMMA InitCountInv == TrdlInit => CountInv
<1> SUFFICES ASSUME TrdlInit PROVE CountInv
  OBVIOUS
<1> USE RWLockAssumption, TrdlAssumption DEF TrdlInit, Init
<1>1. PlacesTyped
  <2>1. << EndItem >> \in Seq(Readers \cup {EndItem}) /\ << >> \in Seq(Readers)
    OBVIOUS
  <2>2. \A t \in Threads : pc[t] = "idle"
    OBVIOUS
  <2>. QED BY <2>1, <2>2 DEF PlacesTyped, TrdlTypeOK, EndList, Threads, ReaderPC, WriterPC, TryWritePC
<1>2. CountRight
  <2>1. Counted = {} /\ Past = {}
    BY DEF Counted, Past, Threads
  <2>2. 0 \div 2 = 0 /\ 0 % 2 = 0
    OBVIOUS
  <2>. QED BY <2>1, <2>2, FS_EmptySet DEF CountRight, BarrierPassed
<1>3. LinkGuarded /\ HolderPlaced /\ TryWriteFailsOnBusy
  BY DEF LinkGuarded, HolderPlaced, TryWriteFailsOnBusy, Threads
<1>. QED BY <1>1, <1>2, <1>3 DEF CountInv

LEMMA StutterKeepsCountInv == ASSUME CountInv, UNCHANGED allVars PROVE CountInv'
<1> USE DEF allVars, vars, listVars, writerVars, trdlVars, CountInv
<1>1. PlacesTyped'
  BY DEF PlacesTyped, TrdlTypeOK
<1>2. CountRight'
  BY CountUntouched
<1>3. LinkGuarded' /\ HolderPlaced' /\ TryWriteFailsOnBusy'
  BY DEF LinkGuarded, HolderPlaced, TryWriteFailsOnBusy, BarrierPassed
<1>. QED BY <1>1, <1>2, <1>3

THEOREM CountInvariant == TrdlSpec => []CountInv
<1>1. CountInv /\ [TrdlNext]_allVars => CountInv'
  <2> SUFFICES ASSUME CountInv, [TrdlNext]_allVars PROVE CountInv'
    OBVIOUS
  <2>1. CASE TrdlCall /\ Meets
    BY <2>1, TrdlAssumption, CountReaderStepKeeps, CountWriterStepKeeps DEF TrdlCall
  <2>2. CASE \E r \in Readers : TrdlReaderStep(r) /\ Meets
    BY <2>2, CountReaderStepKeeps
  <2>3. CASE \E w \in Writers : TrdlWriterStep(w) /\ Meets
    BY <2>3, CountWriterStepKeeps
  <2>4. CASE UNCHANGED allVars
    BY <2>4, StutterKeepsCountInv
  <2>. QED BY <2>1, <2>2, <2>3, <2>4 DEF TrdlNext
<1>. QED BY <1>1, InitCountInv, PTL DEF TrdlSpec

(* wrlock_waits is twice the number of the writers that count, and its low   *)
(* bit is set when one is past the barrier (rwlock.c,                        *)
(* rwlock_wrlock_decrement_wrlock_waits).                                    *)
THEOREM WritersCounted == TrdlSpec => []WaitsCounted
<1>1. CountInv => WaitsCounted
  BY DEF CountInv, CountRight, PlacesTyped, WaitsCounted
<1>. QED BY <1>1, CountInvariant, PTL

(* A try-read that is about to be linked is linked before any writer looks   *)
(* at the list (rwlock.c, the barrier in wrlock and trywrlock).              *)
THEOREM BarrierKept == TrdlSpec => []BarrierHolds
<1>1. CountInv => BarrierHolds
  BY DEF CountInv, CountRight, LinkGuarded, BarrierHolds
<1>. QED BY <1>1, CountInvariant, PTL

(* A trywrlock that gives up met somebody (rwlock.c, the note in trywrlock). *)
THEOREM TryWritesMeetSomebody == TrdlSpec => []TryWriteFailsOnBusy
<1>1. CountInv => TryWriteFailsOnBusy
  BY DEF CountInv
<1>. QED BY <1>1, CountInvariant, PTL

-----------------------------------------------------------------------------
(***************************************************************************)
(* The invariant of the basic lock holds here, too, and with it that this  *)
(* lock implements ReadWriteLock.  A reader that came by tryrdlock is      *)
(* nowhere but in acquired_reads.                                          *)
(***************************************************************************)
TriedPC == {"tryRead", "tryLink", "tryFail", "reading", "unlock", "unlinkTried", "extract",
            "link", "finish", "meet"}

TriedPlaced ==
  \A r \in Readers : r \in tryLocked =>
    pc[r] \in TriedPC /\ r \notin ToSet(express) \cup ToSet(extracted)

TrdlInv == LockInv /\ TriedPlaced

(* What the steps of the writers that are not those of the basic lock do: on *)
(* the way to the access lock nothing but to look at it, ...                 *)
LEMMA TrdlWriterLooks ==
  ASSUME NEW w \in Writers,
         \/ TrdlWrLockCall(w) \/ WrLockBarrier(w) \/ WrLockGlanceTail(w) \/ WrLockGlanceHead(w)
         \/ TrdlTryWrLockCall(w) \/ TryFirstGlance(w) \/ TryCount(w) \/ TryBarrier(w)
         \/ TryGlanceTail(w) \/ TryGlanceHead(w) \/ TrdlTryWrLockBusy(w) \/ GiveUp(w)
  PROVE  /\ pc[w] \in FreePC /\ \E place \in FreePC : pc' = [pc EXCEPT ![w] = place]
         /\ till' = till \/ \E n \in TillPriority : till' = [till EXCEPT ![w] = n]
         /\ UNCHANGED <<listVars, accessLock, pushLock, outdated, wow, beingWaited, target,
                        seen, ahead, tryLocked>>
<1> USE DEF Goto, FreePC, writerVars, trdlVars
<1>1. CASE \/ WrLockBarrier(w) \/ WrLockGlanceTail(w) \/ WrLockGlanceHead(w) \/ TryFirstGlance(w)
           \/ TryBarrier(w) \/ TryGlanceTail(w) \/ TryGlanceHead(w)
  BY <1>1 DEF WrLockBarrier, WrLockGlanceTail, WrLockGlanceHead, TryFirstGlance, TryBarrier,
              TryGlanceTail, TryGlanceHead, PassBarrier, Glance
<1>2. CASE TrdlWrLockCall(w) \/ TryCount(w)
  BY <1>2 DEF TrdlWrLockCall, TryCount, Count
<1>3. CASE TrdlTryWrLockCall(w) \/ TrdlTryWrLockBusy(w) \/ GiveUp(w)
  BY <1>3 DEF TrdlTryWrLockCall, TrdlTryWrLockBusy, GiveUp, Glance
<1>. QED BY <1>1, <1>2, <1>3

(* ... and when it unlocks, in two steps, the release.                       *)
LEMMA WriterReleaseKeeps ==
  ASSUME LockInv, NEW w \in Writers, WrUnlockCall(w) \/ ReleaseAccess(w)
  PROVE  LockInv'
<1> USE RWLockAssumption DEF LockInv, HolderAt
<1>1. PICK place :
        /\ pc' = [pc EXCEPT ![w] = place]
        /\ \/ pc[w] = "writing" /\ place = "release" /\ accessLock' = accessLock
           \/ pc[w] = "release" /\ place = "idle" /\ accessLock' = Nobody
  BY DEF WrUnlockCall, ReleaseAccess, Goto
<1>2. /\ UNCHANGED <<express, acquired, writes, waitReads, waitDrain, extracted, pushLock, till,
                     outdated, wow, beingWaited, target, seen, ahead>>
  BY DEF WrUnlockCall, ReleaseAccess, listVars, writerVars
<1>3. /\ \A r \in Readers : pc'[r] = pc[r]
      /\ \A u \in Writers : pc'[u] = IF u = w THEN place ELSE pc[u]
  <2>1. pc' = [pc EXCEPT ![w] = place] /\ DOMAIN pc = Threads
    BY <1>1 DEF Types
  <2>. HIDE DEF LockInv
  <2>. QED BY <2>1 DEF Threads
<1>4. accessLock = w /\ accessLock \notin Readers /\ accessLock' \in {w, Nobody} /\ accessLock' \notin Readers
  BY <1>1 DEF LockHeld, WriterHoldPC
<1>5. \A p \in {pc[w], pc'[w]} : p \notin ClaimPC \cup PushPC \cup {"enlistLate", "finish", "meet", "waitRead"}
  BY <1>1, <1>3 DEF ClaimPC, PushPC
<1>6. Types'
  BY <1>1, <1>2, <1>4 DEF Types, Threads
<1>7. ListsInjective'
  BY <1>2 DEF ListsInjective
<1>8. ReadsPlaced'
  BY <1>2, <1>3, <1>4 DEF ReadsPlaced, BeforeEnd
<1>9. LockHeld'
  BY <1>1, <1>2, <1>3, <1>4 DEF LockHeld, WriterHoldPC, Writes, NoReads
<1>10. ReadsCovered'
  BY <1>2, <1>3, <1>4 DEF ReadsCovered, NoReads
<1>11. ClaimsKept'
  <2>1. w \notin ToSet(writes)
    BY <1>5 DEF ClaimsKept
  <2>2. \A u \in Writers : u \in ToSet(writes) <=> till[u] = 0 /\ pc'[u] \in ClaimPC
    BY <1>3, <1>5 DEF ClaimsKept
  <2>. QED BY <1>2, <1>3, <1>4, <1>5, <2>1, <2>2 DEF ClaimsKept, Types
<1>12. WaitsMatch'
  <2>1. WowMatch'
    BY <1>2, <1>3, <1>5 DEF WaitsMatch, WowMatch
  <2>2. OneWaiter'
    BY <1>2 DEF WaitsMatch, OneWaiter
  <2>3. \A t \in Threads : target[t] # w
    BY <1>5, NobodyWaitsForWriter
  <2>4. ReadersWait'
    BY <1>2, <1>3, <2>3 DEF WaitsMatch, ReadersWait, Threads
  <2>5. WritersWait'
    BY <1>2, <1>3, <1>5 DEF WaitsMatch, WritersWait
  <2>. QED BY <2>1, <2>2, <2>4, <2>5 DEF WaitsMatch
<1>13. TagsMatch'
  BY <1>2, <1>3 DEF TagsMatch
<1>14. ReadersQueue'
  BY <1>2, <1>3, QueueStays
<1>15. PushersRun'
  <2>1. pc[w] \notin PushPC /\ place \notin PushPC /\ place \notin {"allBusy", "pushNext"}
    BY <1>1 DEF PushPC
  <2>. QED BY <1>2, <1>3, <2>1, PusherMoves
<1>. QED BY <1>6, <1>7, <1>8, <1>9, <1>10, <1>11, <1>12, <1>13, <1>14, <1>15

\* Where a reader has asked for a try-read and not got it yet.
TryingPC == {"tryRead", "tryLink", "tryFail"}

(* A reader that tries has its item started, and it is in no list.           *)
LEMMA TryMoveKeeps ==
  ASSUME LockInv, NEW r \in Readers, NEW place \in TryingPC \cup {"idle"},
         pc[r] \in TryingPC \cup {"idle"}, pc' = [pc EXCEPT ![r] = place],
         \/ wow' = [wow EXCEPT ![r] = IF place = "idle" THEN "none" ELSE "worker"]
         \/ wow' = wow /\ pc[r] # "idle" /\ place # "idle",
         UNCHANGED <<listVars, accessLock, writerVars, beingWaited, target, seen, ahead>>
  PROVE  LockInv'
<1> USE RWLockAssumption DEF LockInv, HolderAt, TryingPC, listVars, writerVars
<1>1. /\ \A u \in Readers : pc'[u] = IF u = r THEN place ELSE pc[u]
      /\ \A w \in Writers : pc'[w] = pc[w]
  <2>. HIDE DEF LockInv
  <2>. QED BY OneReaderMoves
<1>2. /\ wow' \in [Threads -> {"none", "worker", "waiter"}]
      /\ \A t \in Threads : t # r => wow'[t] = wow[t]
      /\ wow'[r] = "none" <=> place = "idle"
  <2>1. wow \in [Threads -> {"none", "worker", "waiter"}] /\ r \in Threads
    BY DEF Types, Threads
  <2>2. pc[r] # "idle" => wow[r] # "none"
    BY DEF WaitsMatch, WowMatch
  <2>. QED BY <2>1, <2>2
<1>3. \A p \in {pc[r], place} :
        p \notin LinkedPC \cup ReaderHoldPC \cup AwaitPC \cup QueuePC \cup {"meet"}
  BY DEF LinkedPC, ReaderHoldPC, AwaitPC, QueuePC, LeadPC
<1>4. r \notin ToSet(acquired) \cup ToSet(express) \cup ToSet(extracted) /\ r \notin beingWaited
  BY <1>3 DEF ReadsPlaced, TagsMatch, LinkedPC
<1>5. accessLock # r
  BY <1>3 DEF LockHeld
<1>6. Types'
  BY <1>2 DEF Types, Threads
<1>7. ListsInjective'
  BY DEF ListsInjective
<1>8. ReadsPlaced'
  BY <1>1, <1>3, <1>4, <1>5 DEF ReadsPlaced, BeforeEnd
<1>9. LockHeld'
  BY <1>1, <1>3 DEF LockHeld, Writes, NoReads
<1>10. ReadsCovered'
  BY <1>1, <1>4, <1>5 DEF ReadsCovered, NoReads
<1>11. ClaimsKept'
  BY <1>1, <1>3 DEF ClaimsKept
<1>12. WaitsMatch'
  <2>1. \A t \in Threads : target[t] # r
    BY <1>3, <1>4, NobodyWaitsForReader
  <2>2. WowMatch'
    BY <1>1, <1>2, <1>3 DEF WaitsMatch, WowMatch, Threads
  <2>3. OneWaiter'
    BY <1>2, <2>1 DEF WaitsMatch, OneWaiter
  <2>4. ReadersWait'
    BY <1>1, <1>3, <2>1 DEF WaitsMatch, ReadersWait, Threads
  <2>5. WritersWait'
    BY <1>1 DEF WaitsMatch, WritersWait
  <2>. QED BY <2>2, <2>3, <2>4, <2>5 DEF WaitsMatch
<1>13. TagsMatch'
  BY <1>1, <1>4 DEF TagsMatch
<1>14. ReadersQueue'
  BY <1>1, <1>3, QueueStays
<1>15. PushersRun'
  BY <1>1, PushersStay
<1>. QED BY <1>6, <1>7, <1>8, <1>9, <1>10, <1>11, <1>12, <1>13, <1>14, <1>15

LEMMA TryRdLockKeeps ==
  ASSUME LockInv, NEW r \in Readers, TryRdLockCall(r) \/ TryRdLockCheck(r) \/ TryRdLockFail(r)
  PROVE  LockInv'
<1>1. PICK place \in TryingPC \cup {"idle"} :
        /\ pc[r] \in TryingPC \cup {"idle"} /\ pc' = [pc EXCEPT ![r] = place]
        /\ \/ wow' = [wow EXCEPT ![r] = IF place = "idle" THEN "none" ELSE "worker"]
           \/ wow' = wow /\ pc[r] # "idle" /\ place # "idle"
  <2>1. CASE TryRdLockCall(r)
    BY <2>1 DEF TryRdLockCall, Goto, TryingPC
  <2>2. CASE TryRdLockCheck(r)
    BY <2>2 DEF TryRdLockCheck, TryingPC
  <2>3. CASE TryRdLockFail(r)
    BY <2>3 DEF TryRdLockFail, Goto, TryingPC
  <2>. QED BY <2>1, <2>2, <2>3
<1>2. UNCHANGED <<listVars, accessLock, writerVars, beingWaited, target, seen, ahead>>
  BY DEF TryRdLockCall, TryRdLockCheck, TryRdLockFail
<1>. QED BY <1>1, <1>2, TryMoveKeeps

(* A try-read is linked behind the separator while no writer looks.          *)
LEMMA TryRdLockLinkKeeps ==
  ASSUME LockInv, BarrierHolds, NEW r \in Readers, TryRdLockLink(r)
  PROVE  LockInv'
<1> USE RWLockAssumption, TrdlAssumption DEF LockInv, HolderAt
<1>1. pc[r] = "tryLink" /\ pc' = [pc EXCEPT ![r] = "reading"] /\ acquired' = Append(acquired, r)
  BY DEF TryRdLockLink, Goto
<1>2. UNCHANGED <<express, writes, waitReads, waitDrain, extracted, accessLock, pushLock, till,
                  outdated, wow, beingWaited, target, seen, ahead>>
  BY DEF TryRdLockLink, writerVars
<1>3. /\ \A u \in Readers : pc'[u] = IF u = r THEN "reading" ELSE pc[u]
      /\ \A w \in Writers : pc'[w] = pc[w]
  <2>. HIDE DEF LockInv
  <2>. QED BY <1>1, OneReaderMoves
<1>4. r \notin ToSet(acquired) \cup ToSet(express) \cup ToSet(extracted) /\ r \notin beingWaited
  BY <1>1 DEF ReadsPlaced, TagsMatch, LinkedPC
<1>5. /\ EndsIn(acquired') /\ ToSet(acquired') = ToSet(acquired) \cup {r}
      /\ BeforeEnd' = BeforeEnd
  <2>1. EndsIn(acquired)
    BY DEF EndsIn, Types, ListsInjective
  <2>2. ToSet(acquired') = ToSet(acquired) \cup {r}
    BY <1>1, <2>1, AppendToList DEF EndsIn
  <2>. QED BY <1>1, <1>4, <2>1, <2>2, AppendBehind DEF BeforeEnd
<1>6. ~NoReads'
  BY <1>5, ReadsThereThen
<1>7. \A w \in Writers : ~Writes(w)
  <2>1. \A w \in Writers : accessLock = w => pc[w] \in WriterHoldPC
    BY DEF LockHeld
  <2>2. \A w \in Writers : w \notin Past
    BY <1>1 DEF BarrierHolds
  <2>. QED BY <2>1, <2>2 DEF Writes, Past, Counted, WriterHoldPC
<1>8. accessLock # r
  BY <1>1 DEF LockHeld, ReaderHoldPC
<1>9. Types'
  BY <1>1, <1>2, <1>5 DEF Types, EndsIn, Threads
<1>10. ListsInjective'
  BY <1>2, <1>5 DEF ListsInjective, EndsIn
<1>11. ReadsPlaced'
  BY <1>1, <1>2, <1>3, <1>4, <1>5, <1>8 DEF ReadsPlaced, LinkedPC
<1>12. LockHeld'
  BY <1>1, <1>2, <1>3, <1>7 DEF LockHeld, ReaderHoldPC, Writes
<1>13. ReadsCovered'
  BY <1>6 DEF ReadsCovered
<1>14. ClaimsKept'
  BY <1>1, <1>2, <1>3 DEF ClaimsKept, AwaitPC
<1>15. WaitsMatch'
  BY <1>1, <1>2, <1>3, WaitsStay DEF QueuePC, LeadPC
<1>16. TagsMatch'
  BY <1>1, <1>2, <1>3, <1>4, <1>5 DEF TagsMatch
<1>17. ReadersQueue'
  BY <1>1, <1>2, <1>3, QueueStays DEF QueuePC, LeadPC
<1>18. PushersRun'
  BY <1>2, <1>3, PushersStay
<1>. QED BY <1>9, <1>10, <1>11, <1>12, <1>13, <1>14, <1>15, <1>16, <1>17, <1>18

(* The check of rdlock finds a try-read, or goes on to the access lock.      *)
LEMMA CheckTryReadsKeeps ==
  ASSUME LockInv, NEW r \in Readers, CheckTryReads(r)
  PROVE  LockInv'
<1> USE RWLockAssumption, TrdlAssumption DEF LockInv, HolderAt
<1>1. PICK place \in {"reading", "lockLinked"} :
        /\ pc[r] = "checkTail" /\ pc' = [pc EXCEPT ![r] = place]
        /\ place = "reading" => ~NoReads
  <2>1. Last(EndList) = EndItem
    BY DEF EndList, Last
  <2>. QED BY <2>1 DEF CheckTryReads, NoReads
<1>2. UNCHANGED <<acquired, express, writes, waitReads, waitDrain, extracted, accessLock,
                  pushLock,
                  till, outdated, wow, beingWaited, target, seen, ahead>>
  BY DEF CheckTryReads, listVars, writerVars
<1>3. /\ \A u \in Readers : pc'[u] = IF u = r THEN place ELSE pc[u]
      /\ \A w \in Writers : pc'[w] = pc[w]
  <2>. HIDE DEF LockInv
  <2>. QED BY <1>1, OneReaderMoves
<1>4. accessLock # r
  BY <1>1 DEF LockHeld, ReaderHoldPC
<1>5. Types'
  BY <1>1, <1>2 DEF Types, Threads
<1>6. ListsInjective'
  BY <1>2 DEF ListsInjective
<1>7. ReadsPlaced'
  BY <1>1, <1>2, <1>3, <1>4 DEF ReadsPlaced, LinkedPC, BeforeEnd
<1>8. LockHeld'
  BY <1>1, <1>2, <1>3 DEF LockHeld, ReaderHoldPC, Writes, NoReads
<1>9. ReadsCovered'
  BY <1>1, <1>2, <1>3, <1>4 DEF ReadsCovered, NoReads
<1>10. ClaimsKept'
  BY <1>1, <1>2, <1>3 DEF ClaimsKept, AwaitPC
<1>11. WaitsMatch'
  BY <1>1, <1>2, <1>3, WaitsStay DEF QueuePC, LeadPC
<1>12. TagsMatch'
  BY <1>1, <1>2, <1>3 DEF TagsMatch
<1>13. ReadersQueue'
  BY <1>1, <1>2, <1>3, QueueStays DEF QueuePC, LeadPC
<1>14. PushersRun'
  BY <1>2, <1>3, PushersStay
<1>. QED BY <1>5, <1>6, <1>7, <1>8, <1>9, <1>10, <1>11, <1>12, <1>13, <1>14

(* A try-read leaves the list under both locks.                              *)
LEMMA LockForUnlinkKeeps ==
  ASSUME TrdlInv, NEW r \in Readers, LockForUnlink(r)
  PROVE  LockInv'
<1> USE RWLockAssumption DEF TrdlInv, LockInv, HolderAt
<1>1. pc[r] = "unlock" /\ pc' = [pc EXCEPT ![r] = "unlinkTried"] /\ accessLock = Nobody /\ accessLock' = r
  BY DEF LockForUnlink, Goto, AccessFree
<1>2. UNCHANGED <<acquired, express, writes, waitReads, waitDrain, extracted, pushLock, till,
                  outdated, wow, beingWaited, target, seen, ahead>>
  BY DEF LockForUnlink, listVars, writerVars
<1>3. /\ \A u \in Readers : pc'[u] = IF u = r THEN "unlinkTried" ELSE pc[u]
      /\ \A w \in Writers : pc'[w] = pc[w]
  <2>. HIDE DEF LockInv
  <2>. QED BY <1>1, OneReaderMoves
<1>4. r \in ToSet(acquired) /\ r \notin ToSet(express) \cup ToSet(extracted)
  BY <1>1 DEF LockForUnlink, HasTag, TriedPlaced, ReadsPlaced, LinkedPC
<1>5. ToSet(express) \cap ToSet(acquired) = {} /\ extracted = << >>
  BY <1>1, ListIndices DEF ReadsPlaced, Types
<1>6. ToSet(extracted) = {}
  BY <1>5, EmptyList
<1>7. Types'
  BY <1>1, <1>2 DEF Types, Threads
<1>8. ListsInjective'
  BY <1>2 DEF ListsInjective
<1>9. ReadsPlaced'
  BY <1>1, <1>2, <1>3, <1>4, <1>5, <1>6 DEF ReadsPlaced, LinkedPC, BeforeEnd
<1>10. LockHeld'
  BY <1>1, <1>2, <1>3 DEF LockHeld, ReaderHoldPC, Writes, NoReads
<1>11. ReadsCovered'
  BY <1>1, <1>2, <1>3 DEF ReadsCovered, NoReads
<1>12. ClaimsKept'
  BY <1>1, <1>2, <1>3, ListIndices DEF ClaimsKept, AwaitPC, Types
<1>13. WaitsMatch'
  BY <1>1, <1>2, <1>3, WaitsStay DEF QueuePC, LeadPC
<1>14. TagsMatch'
  BY <1>1, <1>2, <1>3, <1>4 DEF TagsMatch
<1>15. ReadersQueue'
  BY <1>1, <1>2, <1>3, QueueStays DEF QueuePC, LeadPC
<1>16. PushersRun'
  BY <1>2, <1>3, PushersStay
<1>. QED BY <1>7, <1>8, <1>9, <1>10, <1>11, <1>12, <1>13, <1>14, <1>15, <1>16

LEMMA UnlinkTriedKeeps ==
  ASSUME LockInv, NEW r \in Readers, UnlinkTried(r)
  PROVE  LockInv'
<1> USE RWLockAssumption DEF LockInv, HolderAt
<1>1. /\ pc[r] = "unlinkTried" /\ pc' = [pc EXCEPT ![r] = "extract"]
      /\ acquired' = RemoveFirst(acquired, r)
  BY DEF UnlinkTried, Goto
<1>2. UNCHANGED <<express, writes, waitReads, waitDrain, extracted, accessLock, pushLock, till,
                  outdated, wow, beingWaited, target, seen, ahead>>
  BY DEF UnlinkTried, writerVars
<1>3. /\ \A u \in Readers : pc'[u] = IF u = r THEN "extract" ELSE pc[u]
      /\ \A w \in Writers : pc'[w] = pc[w]
  <2>. HIDE DEF LockInv
  <2>. QED BY <1>1, OneReaderMoves
<1>4. accessLock = r /\ accessLock \notin Writers
  BY <1>1 DEF LockHeld, ReaderHoldPC
<1>5. /\ EndsIn(acquired') /\ ToSet(acquired') = ToSet(acquired) \ {r}
  <2>1. /\ acquired' \in Seq(Readers \cup ToSet(EndList)) /\ IsInjective(acquired')
        /\ ToSet(acquired') = ToSet(acquired) \ {r}
    BY <1>1, RemoveFromList DEF Types, ListsInjective
  <2>2. r \notin ToSet(EndList)
    BY EndItemSet
  <2>. QED BY <2>1, <2>2 DEF EndsIn, ListsInjective
<1>6. ToSet(express) \cap ToSet(acquired) = {} /\ extracted = << >>
  BY <1>1, <1>4, ListIndices DEF ReadsPlaced, Types
<1>7. ToSet(extracted) = {}
  BY <1>6, EmptyList
<1>8. Types'
  BY <1>1, <1>2, <1>5 DEF Types, EndsIn, Threads
<1>9. ListsInjective'
  BY <1>2, <1>5 DEF ListsInjective, EndsIn
<1>10. ReadsPlaced'
  BY <1>1, <1>2, <1>3, <1>4, <1>5, <1>6, <1>7 DEF ReadsPlaced, LinkedPC
<1>11. LockHeld'
  BY <1>1, <1>2, <1>3, <1>4 DEF LockHeld, ReaderHoldPC, Writes
<1>12. ReadsCovered'
  BY <1>2, <1>3, <1>4 DEF ReadsCovered
<1>13. ClaimsKept'
  BY <1>1, <1>2, <1>3 DEF ClaimsKept, AwaitPC
<1>14. WaitsMatch'
  BY <1>1, <1>2, <1>3, WaitsStay DEF QueuePC, LeadPC
<1>15. TagsMatch'
  BY <1>1, <1>2, <1>3, <1>5 DEF TagsMatch
<1>16. ReadersQueue'
  BY <1>1, <1>2, <1>3, QueueStays DEF QueuePC, LeadPC
<1>17. PushersRun'
  BY <1>2, <1>3, PushersStay
<1>. QED BY <1>8, <1>9, <1>10, <1>11, <1>12, <1>13, <1>14, <1>15, <1>16, <1>17

LEMMA TrdlWriterKeeps ==
  ASSUME TrdlInv, NEW w \in Writers, TrdlWrLockCall(w) \/ TrdlTryWrLockCall(w) \/ TrdlWriterStep(w)
  PROVE  LockInv'
<1> USE DEF TrdlInv
<1>1. CASE WrLockStep(w) \/ TryWrLock(w)
  BY <1>1, WrLockStepKeeps, TryWrLockKeeps
<1>2. CASE WrUnlockCall(w) \/ ReleaseAccess(w)
  BY <1>2, WriterReleaseKeeps
<1>3. CASE ~(WrLockStep(w) \/ TryWrLock(w) \/ WrUnlockCall(w) \/ ReleaseAccess(w))
  <2>1. /\ pc[w] \in FreePC /\ \E place \in FreePC : pc' = [pc EXCEPT ![w] = place]
        /\ till' = till \/ \E n \in TillPriority : till' = [till EXCEPT ![w] = n]
        /\ UNCHANGED <<listVars, accessLock, pushLock, outdated, wow, beingWaited, target,
                       seen, ahead, tryLocked>>
    BY <1>3, TrdlWriterLooks DEF TrdlWriterStep, TrdlWrLockStep, TrdlWrLockRest, TryWrLockStep,
       TrdlTryWrLock
  <2>. QED BY <2>1, FreeMoveKeeps
<1>. QED BY <1>1, <1>2, <1>3

LEMMA TrdlReaderKeeps ==
  ASSUME TrdlInv, BarrierHolds, NEW r \in Readers,
         RdLockCall(r) \/ TryRdLockCall(r) \/ TrdlReaderStep(r)
  PROVE  LockInv'
<1>1. CASE RdLockCall(r) \/ RdLockStep(r) \/ RdUnlockStep(r)
  BY <1>1, RdLockCallKeeps, RdLockStepKeeps, RdUnlockStepKeeps DEF TrdlInv
<1>2. CASE TryRdLockCall(r) \/ TryRdLockCheck(r) \/ TryRdLockFail(r)
  BY <1>2, TryRdLockKeeps DEF TrdlInv
<1>. QED BY <1>1, <1>2, TryRdLockLinkKeeps, CheckTryReadsKeeps, LockForUnlinkKeeps, UnlinkTriedKeeps
        DEF TrdlReaderStep, TrdlRdUnlockRest, TrdlInv

(* Where a reader that is let in by rdlock goes, no try-reader goes; and     *)
(* nobody puts the item of another reader into express_reads.                *)
LEMMA RdLockStepMoves ==
  ASSUME Types, NEW r \in Readers, RdLockCall(r) \/ RdLockStep(r)
  PROVE  /\ pc[r] \notin TriedPC
         /\ UNCHANGED pc \/ \E place : pc' = [pc EXCEPT ![r] = place]
         /\ extracted' = extracted /\ ToSet(express') \subseteq ToSet(express) \cup {r}
<1> USE DEF Goto, TriedPC
<1>1. CASE PushExpress(r)
  <2>1. ToSet(express') = ToSet(express) \cup {r}
    BY <1>1, AppendToList DEF PushExpress, Types
  <2>. QED BY <1>1, <2>1 DEF PushExpress
<1>2. CASE SwapLinked(r) \/ SwapOwn(r)
  BY <1>2, EmptyList DEF SwapLinked, SwapOwn
<1>3. CASE \/ CommitLinked(r) \/ CommitOwn(r) \/ LeadReads(r) \/ FollowReads(r) \/ DrainReads(r)
           \/ LeaveReads(r)
  BY <1>3 DEF CommitLinked, CommitOwn, LeadReads, FollowReads, DrainReads, LeaveReads
<1>4. CASE \/ RdLockCall(r) \/ PushFailed(r) \/ CheckReads(r) \/ LockLinked(r) \/ LockPlain(r)
           \/ CommittedByOther(r) \/ WaitLastWrite(r) \/ WriteWaited(r) \/ FindNoWrites(r)
           \/ ReadWaitEnded(r) \/ FinishWait(r) \/ PrestartAgain(r) \/ Relock(r)
  BY <1>4 DEF RdLockCall, PushFailed, CheckReads, LockLinked, LockPlain, CommittedByOther,
     WaitLastWrite, WriteWaited, FindNoWrites, ReadWaitEnded, FinishWait, PrestartAgain, Relock,
     listVars
<1>. QED BY <1>1, <1>2, <1>3, <1>4 DEF RdLockStep

LEMMA RdUnlockStepMoves ==
  ASSUME Types, NEW r \in Readers, RdUnlockStep(r)
  PROVE  /\ \E place : /\ pc' = [pc EXCEPT ![r] = place]
                       /\ pc[r] # "unlock" => place \in TriedPC \/ pc[r] = "meet"
         /\ ToSet(express') \cup ToSet(extracted') \subseteq ToSet(express) \cup ToSet(extracted)
<1> USE EmptyList DEF Goto, TriedPC
<1>1. CASE RdUnlockCall(r) \/ FinishRead(r) \/ RdUnlockReturn(r)
  BY <1>1 DEF RdUnlockCall, FinishRead, RdUnlockReturn, listVars
<1>2. CASE UnlinkOwn(r) \/ UnlockQueued(r)
  BY <1>2 DEF UnlinkOwn, UnlockQueued
<1>3. CASE ExtractExpress(r) \/ LinkExtracted(r)
  BY <1>3 DEF ExtractExpress, LinkExtracted
<1>. QED BY <1>1, <1>2, <1>3 DEF RdUnlockStep

LEMMA TriedWriterKeeps ==
  ASSUME TrdlInv, CountInv, NEW w \in Writers,
         TrdlWrLockCall(w) \/ TrdlTryWrLockCall(w) \/ TrdlWriterStep(w)
  PROVE  TriedPlaced'
<1>1. UNCHANGED <<tryLocked, express, extracted>> /\ \E place : pc' = [pc EXCEPT ![w] = place]
  <2>1. CASE TrdlWrLockRest(w)
    BY <2>1, WriterMoves DEF TrdlWrLockRest, CountInv, trdlVars
  <2>2. CASE TrdlTryWrLock(w) \/ WrUnlockCall(w) \/ ReleaseAccess(w)
    BY <2>2 DEF TrdlTryWrLock, TryWrLock, WrUnlockCall, ReleaseAccess, Goto, listVars, trdlVars
  <2>3. CASE ~(TrdlWrLockRest(w) \/ TrdlTryWrLock(w) \/ WrUnlockCall(w) \/ ReleaseAccess(w))
    BY <2>3, TrdlWriterLooks DEF TrdlWriterStep, TrdlWrLockStep, TryWrLockStep, listVars
  <2>. QED BY <2>1, <2>2, <2>3
<1>2. \A r \in Readers : pc'[r] = pc[r]
  BY <1>1, OneWriterMoves DEF TrdlInv
<1>. QED BY <1>1, <1>2 DEF TrdlInv, TriedPlaced

LEMMA TriedStays ==
  ASSUME TrdlInv, NEW r \in Readers, NEW place,
         pc' = [pc EXCEPT ![r] = place] \/ (UNCHANGED pc /\ place = pc[r]),
         tryLocked' \ {r} \subseteq tryLocked,
         ToSet(express') \cup ToSet(extracted') \subseteq ToSet(express) \cup ToSet(extracted) \cup {r},
         r \in tryLocked' => place \in TriedPC /\ r \notin ToSet(express') \cup ToSet(extracted')
  PROVE  TriedPlaced'
<1>1. \A u \in Readers : pc'[u] = IF u = r THEN place ELSE pc[u]
  BY OneReaderMoves DEF TrdlInv
<1>. QED BY <1>1 DEF TrdlInv, TriedPlaced

LEMMA TriedReaderKeeps ==
  ASSUME TrdlInv, NEW r \in Readers,
         \/ ~HasTag(tryLocked, r) /\ RdLockCall(r) /\ UNCHANGED trdlVars
         \/ TryRdLockCall(r) \/ TrdlReaderStep(r)
  PROVE  TriedPlaced'
<1> USE DEF HasTag, WithTag, WithoutTags, trdlVars
<1>2. CASE ~HasTag(tryLocked, r) /\ RdLockCall(r) /\ UNCHANGED trdlVars
  <2>1. Types /\ r \notin tryLocked'
    BY <1>2 DEF TrdlInv, LockInv
  <2>. QED BY <1>2, <2>1, RdLockStepMoves, TriedStays
<1>3. CASE RdLockStep(r) /\ UNCHANGED trdlVars
  <2>1. Types /\ RdLockStep(r)
    BY <1>3 DEF TrdlInv, LockInv
  <2>2. pc[r] \notin TriedPC
    BY <2>1, RdLockStepMoves
  <2>3. r \notin tryLocked /\ UNCHANGED tryLocked
    BY <1>3, <2>2 DEF TrdlInv, TriedPlaced
  <2>. QED BY <1>3, <2>1, <2>3, RdLockStepMoves, TriedStays
<1>4. CASE TrdlRdUnlockRest(r)
  <2>1. RdUnlockStep(r) /\ (r \in tryLocked => pc[r] # "unlock" /\ r \notin ToSet(express) \cup ToSet(extracted))
    BY <1>4 DEF TrdlRdUnlockRest, TrdlInv, TriedPlaced
  <2>2. tryLocked' = IF pc[r] = "meet" THEN tryLocked \ {r} ELSE tryLocked
    BY <1>4 DEF TrdlRdUnlockRest
  <2>. QED BY <2>1, <2>2, RdUnlockStepMoves, TriedStays DEF TrdlInv, LockInv
<1>5. CASE TryRdLockCall(r)
  <2>1. r \notin ToSet(express) \cup ToSet(extracted)
    BY <1>5 DEF TryRdLockCall, Goto, TrdlInv, LockInv, ReadsPlaced, LinkedPC
  <2>2. /\ pc' = [pc EXCEPT ![r] = "tryRead"] /\ tryLocked' = tryLocked \cup {r}
        /\ UNCHANGED <<express, extracted>>
    BY <1>5 DEF TryRdLockCall, Goto, listVars
  <2>. QED BY <2>1, <2>2, TriedStays DEF TriedPC
<1>6. CASE TryRdLockCheck(r) \/ TryRdLockLink(r) \/ TryRdLockFail(r) \/ CheckTryReads(r) \/ LockForUnlink(r) \/ UnlinkTried(r)
  <2>1. PICK place : /\ pc' = [pc EXCEPT ![r] = place]
                     /\ place \in TriedPC \/ r \notin tryLocked'
                     /\ tryLocked' \in {tryLocked, tryLocked \ {r}}
    <3>1. CASE CheckTryReads(r)
      BY <1>6, <3>1 DEF CheckTryReads, TrdlInv, TriedPlaced, TriedPC
    <3>2. CASE ~CheckTryReads(r)
      BY <1>6, <3>2 DEF TryRdLockCheck, TryRdLockLink, TryRdLockFail, LockForUnlink,
         UnlinkTried, Goto, TriedPC
    <3>. QED BY <3>1, <3>2
  <2>2. UNCHANGED <<express, extracted>>
    BY <1>6 DEF TryRdLockCheck, TryRdLockLink, TryRdLockFail, CheckTryReads, LockForUnlink,
       UnlinkTried, listVars
  <2>3. r \in tryLocked => r \notin ToSet(express) \cup ToSet(extracted)
    BY DEF TrdlInv, TriedPlaced
  <2>. QED BY <2>1, <2>2, <2>3, TriedStays
<1>. QED BY <1>2, <1>3, <1>4, <1>5, <1>6 DEF TrdlReaderStep

LEMMA InitTrdlInv == TrdlInit => TrdlInv
BY InitLockInv DEF TrdlInit, TrdlInv, TriedPlaced

(* Waits, tags and lists are those of the basic lock, with the readers and   *)
(* writers that try among them (rwlock.c, mutexgear_trdl_rwlock_wrlock).    *)
THEOREM TrdlLockInvariant == TrdlSpec => []TrdlInv
<1>1. CountInv => BarrierHolds
  BY DEF CountInv, CountRight, LinkGuarded, BarrierHolds
<1>2. TrdlInv /\ CountInv /\ [TrdlNext]_allVars => TrdlInv'
  <2> SUFFICES ASSUME TrdlInv, CountInv, [TrdlNext]_allVars PROVE TrdlInv'
    OBVIOUS
  <2>1. CASE TrdlCall
    <3>1. LockInv'
      BY <1>1, <2>1, TrdlAssumption, TrdlWriterKeeps, TrdlReaderKeeps DEF TrdlCall
    <3>2. TriedPlaced'
      BY <2>1, TrdlAssumption, TriedWriterKeeps, TriedReaderKeeps DEF TrdlCall
    <3>. QED BY <3>1, <3>2 DEF TrdlInv
  <2>2. CASE \E r \in Readers : TrdlReaderStep(r)
    BY <1>1, <2>2, TrdlReaderKeeps, TriedReaderKeeps DEF TrdlInv
  <2>3. CASE \E w \in Writers : TrdlWriterStep(w)
    BY <2>3, TrdlWriterKeeps, TriedWriterKeeps DEF TrdlInv
  <2>4. CASE UNCHANGED allVars
    <3>1. LockInv'
      BY <2>4, StutterKeepsLockInv DEF TrdlInv, allVars
    <3>. QED BY <2>4, <3>1 DEF TrdlInv, TriedPlaced, allVars, vars, listVars, trdlVars
  <2>. QED BY <2>1, <2>2, <2>3, <2>4 DEF TrdlNext
<1>. QED BY <1>2, InitTrdlInv, CountInvariant, PTL DEF TrdlSpec

(* Readers let through without a mutex are covered with try-reads, too       *)
(* (rwlock.c, the notes in rdunlock).                                        *)
THEOREM TrdlReadersAreCovered == TrdlSpec => []ExpressReadsCovered
<1>1. TrdlInv => ExpressReadsCovered
  BY ReadsAreCovered DEF TrdlInv
<1>. QED BY <1>1, TrdlLockInvariant, PTL

(* The steps of the abstract lock.                                           *)
LEMMA WriterReleaseMapped ==
  ASSUME LockInv, NEW w \in Writers, WrUnlockCall(w) \/ ReleaseAccess(w)
  PROVE  Lock!Next \/ UNCHANGED Lock!vars
<1>1. PICK place :
        /\ pc' = [pc EXCEPT ![w] = place]
        /\ \/ pc[w] = "writing" /\ place = "release" /\ accessLock' = accessLock
           \/ pc[w] = "release" /\ place = "idle" /\ accessLock' = Nobody
  BY DEF WrUnlockCall, ReleaseAccess, Goto
<1>2. UNCHANGED <<writes, ahead>>
  BY DEF WrUnlockCall, ReleaseAccess, listVars
<1>3. accessLock = w /\ accessLock # Nobody /\ w \notin ToSet(writes)
  BY <1>1, RWLockAssumption DEF LockInv, LockHeld, WriterHoldPC, ClaimsKept, ClaimPC
<1>4. /\ \A r \in Readers : pc'[r] = pc[r]
      /\ pc'[w] = place
  BY <1>1, RWLockAssumption DEF LockInv, Types, Threads
<1>5. reading' = reading
  BY <1>4 DEF reading
<1>6. claimed' = claimed
  <2>1. ToSet(writes) \subseteq Writers
    BY ListIndices DEF LockInv, Types
  <2>. QED BY <1>1, <1>2, <1>3, <2>1, RWLockAssumption DEF claimed
<1>7. CASE pc[w] = "writing"
  <2>1. holder = w /\ holder' = Nobody
    BY <1>1, <1>3, <1>4, <1>7 DEF holder, Writes
  <2>2. Lock!EndWrite(w)
    BY <1>2, <1>5, <1>6, <2>1 DEF Lock!EndWrite, reading, holder, claimed
  <2>. QED BY <2>2 DEF Lock!Next
<1>8. CASE pc[w] = "release"
  <2>1. holder = Nobody /\ holder' = Nobody
    BY <1>1, <1>3, <1>8, RWLockAssumption DEF holder, Writes
  <2>. QED BY <1>2, <1>5, <1>6, <2>1 DEF Lock!vars, reading, holder, claimed
<1>. QED BY <1>1, <1>7, <1>8

LEMMA TrdlWriterMapped ==
  ASSUME LockInv, NEW w \in Writers,
         TrdlWrLockCall(w) \/ TrdlTryWrLockCall(w) \/ TrdlWriterStep(w)
  PROVE  Lock!Next \/ UNCHANGED Lock!vars
<1>1. CASE WrLockStep(w)
  BY <1>1, WrLockStepMapped
<1>2. CASE TryWrLock(w)
  BY <1>2, BeginWriteMapped DEF Lock!Next
<1>3. CASE WrUnlockCall(w) \/ ReleaseAccess(w)
  BY <1>3, WriterReleaseMapped
<1>4. CASE ~(WrLockStep(w) \/ TryWrLock(w) \/ WrUnlockCall(w) \/ ReleaseAccess(w))
  <2>1. /\ pc[w] \in FreePC /\ \E place \in FreePC : pc' = [pc EXCEPT ![w] = place]
        /\ UNCHANGED <<writes, accessLock, ahead>>
    BY <1>4, TrdlWriterLooks DEF TrdlWriterStep, TrdlWrLockStep, TrdlWrLockRest, TryWrLockStep,
       TrdlTryWrLock, listVars
  <2>2. /\ \A r \in Readers : pc'[r] = pc[r]
        /\ \A u \in Writers : pc'[u] = "release" <=> pc[u] = "release"
    BY <2>1, OneWriterMoves DEF FreePC
  <2>3. claimed' = claimed
    BY <2>1 DEF claimed
  <2>. QED BY <2>1, <2>2, <2>3, SameHolder, NothingMoves
<1>. QED BY <1>1, <1>2, <1>3, <1>4

LEMMA TryReadBegins ==
  ASSUME LockInv, BarrierHolds, NEW r \in Readers,
         TryRdLockLink(r) \/ (CheckTryReads(r) /\ Last(acquired) # EndItem)
  PROVE  Lock!BeginRead(r)
<1>1. /\ pc[r] \in {"tryLink", "checkTail"} /\ pc' = [pc EXCEPT ![r] = "reading"]
      /\ UNCHANGED <<writes, accessLock, ahead>>
  BY DEF TryRdLockLink, CheckTryReads, Goto, listVars
<1>2. \A w \in Writers : ~Writes(w)
  <2>1. CASE TryRdLockLink(r)
    <3>1. \A w \in Writers : accessLock = w => pc[w] \in WriterHoldPC
      BY DEF LockInv, LockHeld
    <3>2. \A w \in Writers : w \notin Past
      BY <2>1 DEF BarrierHolds, TryRdLockLink, Goto
    <3>. QED BY <3>1, <3>2 DEF Writes, Past, Counted, WriterHoldPC
  <2>2. CASE CheckTryReads(r) /\ Last(acquired) # EndItem
    <3>1. ~NoReads
      BY <2>2, TrdlAssumption DEF NoReads, EndList, Last
    <3>. QED BY <3>1 DEF LockInv, LockHeld
  <2>. QED BY <2>1, <2>2
<1>3. holder = Nobody
  BY <1>2 DEF holder
<1>4. ahead[r] = {}
  BY <1>1 DEF LockInv, ClaimsKept, AwaitPC
<1>. QED BY <1>1, <1>3, <1>4, ReadBegins

LEMMA TrdlReaderMapped ==
  ASSUME LockInv, BarrierHolds, NEW r \in Readers,
         RdLockCall(r) \/ TryRdLockCall(r) \/ TrdlReaderStep(r)
  PROVE  Lock!Next \/ UNCHANGED Lock!vars
<1>1. CASE RdLockCall(r) \/ RdLockStep(r) \/ RdUnlockStep(r)
  BY <1>1, ReaderStepMapped DEF ReaderStep
<1>2. CASE TryRdLockLink(r) \/ (CheckTryReads(r) /\ Last(acquired) # EndItem)
  BY <1>2, TryReadBegins DEF Lock!Next
<1>3. CASE \/ TryRdLockCall(r) \/ TryRdLockCheck(r) \/ TryRdLockFail(r) \/ LockForUnlink(r)
           \/ UnlinkTried(r) \/ (CheckTryReads(r) /\ Last(acquired) = EndItem)
  <2>1. /\ UNCHANGED <<writes, ahead>> /\ pc[r] # "reading"
        /\ \E place : place # "reading" /\ pc' = [pc EXCEPT ![r] = place]
    BY <1>3 DEF TryRdLockCall, TryRdLockCheck, TryRdLockFail, LockForUnlink, UnlinkTried,
       CheckTryReads, Goto, listVars
  <2>2. accessLock' = accessLock \/ (accessLock = Nobody /\ accessLock' = r)
    BY <1>3 DEF TryRdLockCall, TryRdLockCheck, TryRdLockFail, LockForUnlink, UnlinkTried,
       CheckTryReads, AccessFree
  <2>3. \/ accessLock' = accessLock
        \/ accessLock \notin Writers /\ accessLock' \notin Writers
    BY <2>2, RWLockAssumption
  <2>. QED BY <2>1, <2>3, ReaderElsewhere
<1>. QED BY <1>1, <1>2, <1>3 DEF TrdlReaderStep, TrdlRdUnlockRest

(* The rwlock with try-reads keeps the promise of the basic one: readers and *)
(* writers are kept apart, those that try and those that wait, and a writer  *)
(* that claimed priority is served before every reader that asked later      *)
(* (rwlock.h, mutexgear_trdl_rwlock_wrlock).                                 *)
THEOREM TrdlRWLockKeepsPromise == TrdlSpec => LockSpec
<1>1. TrdlInit => Lock!Init
  BY LockInitMapped DEF TrdlInit
<1>2. CountInv => BarrierHolds
  BY DEF CountInv, CountRight, LinkGuarded, BarrierHolds
<1>3. TrdlInv /\ CountInv /\ [TrdlNext]_allVars => [Lock!Next]_(Lock!vars)
  <2> SUFFICES ASSUME TrdlInv, CountInv, [TrdlNext]_allVars
               PROVE  Lock!Next \/ UNCHANGED Lock!vars
    OBVIOUS
  <2>1. CASE TrdlCall
    BY <1>2, <2>1, TrdlAssumption, TrdlWriterMapped, TrdlReaderMapped DEF TrdlCall, TrdlInv
  <2>2. CASE \E r \in Readers : TrdlReaderStep(r)
    BY <1>2, <2>2, TrdlReaderMapped DEF TrdlInv
  <2>3. CASE \E w \in Writers : TrdlWriterStep(w)
    BY <2>3, TrdlWriterMapped DEF TrdlInv
  <2>4. CASE UNCHANGED allVars
    BY <2>4 DEF allVars, vars, listVars, Lock!vars, Writes
  <2>. QED BY <2>1, <2>2, <2>3, <2>4 DEF TrdlNext
<1>. QED BY <1>1, <1>3, TrdlLockInvariant, CountInvariant, PTL DEF TrdlSpec, LockSpec, Lock!Spec

=============================================================================
