---------------------------- MODULE RWLockProofs ----------------------------
(***************************************************************************)
(* The rwlock for any number of readers, writers and any list end.  The    *)
(* invariant speaks of the steps of module TrdlRWLock, too, so that its    *)
(* proofs can cite those of the steps the two locks share.                 *)
(***************************************************************************)
EXTENDS RWLock, ListFacts

\* Where a reader is while its item is in express_reads or acquired_reads.
LinkedPC == {"check", "checkTail", "lockLinked", "commitLinked", "swapLinked",
             "reading", "unlock"}

\* Where a thread has the access lock.
ReaderHoldPC == {"commitLinked", "swapLinked", "commitOwn", "swapOwn",
                 "extract", "link", "unlinkTried"}
WriterHoldPC == {"unpush", "unlist", "finish", "meet", "writing", "release"}

\* Where a reader is on its way around the writers that claimed before it.
AwaitPC == {"await", "lead", "waitWrite", "drain", "follow", "leave",
            "finishWait", "meetFollower", "relock"}

\* Where a writer has a push lock.
PushPC == {"lockReads", "waitRead", "enlistLate", "allBusy", "pushNext", "unpush"}

\* What the thread with the access lock is doing.
HolderAt(place) == accessLock \in Readers /\ pc[accessLock] = place

Types ==
  /\ {express, waitReads, waitDrain, extracted} \subseteq Seq(Readers)
  /\ acquired \in Seq(Readers \cup ToSet(EndList))
  /\ writes \in Seq(Writers)
  /\ accessLock \in Threads \cup {Nobody}
  /\ pushLock \in [Channel -> Writers \cup {Nobody}]
  /\ outdated \subseteq Writers
  /\ till \in [Writers -> Int] /\ \A w \in Writers : till[w] \in TillPriority \/ till[w] >= 0
  /\ wow \in [Threads -> {"none", "worker", "waiter"}]
  /\ beingWaited \subseteq Readers \cup ToSet(EndList)
  /\ target \in [Threads -> Threads \cup {Nobody}]
  /\ seen \in [Readers -> Readers \cup {Nobody}]
  /\ DOMAIN pc = Threads
  /\ ahead \in [Readers -> SUBSET Writers]

(* An item is in a list once, the end item in acquired_reads always.         *)
ListsInjective ==
  /\ IsInjective(acquired) /\ IsInjective(express) /\ IsInjective(extracted)
  /\ IsInjective(writes) /\ IsInjective(waitReads) /\ IsInjective(waitDrain)
  /\ ToSet(EndList) \subseteq ToSet(acquired) /\ ToSet(EndList) \subseteq beingWaited
  /\ ToSet(waitReads) \cap ToSet(waitDrain) = {}

(* The item of a reader that has the lock or is about to is in one of three  *)
(* lists; only the item that is linked first, to let other readers through,  *)
(* is in two for a while.                                                    *)
ReadsPlaced ==
  /\ \A r \in Readers :
       /\ r \in ToSet(acquired) => pc[r] \in LinkedPC \cup {"swapOwn", "unlinkTried"}
       /\ r \in ToSet(express) \cup ToSet(extracted) => pc[r] \in LinkedPC
       /\ pc[r] \in LinkedPC => r \in ToSet(acquired) \cup ToSet(express) \cup ToSet(extracted)
       /\ pc[r] \in {"swapOwn", "unlinkTried"} => r \in ToSet(acquired)
       /\ r \in ToSet(acquired) \cap ToSet(express) => HolderAt("swapLinked") /\ r = Last(BeforeEnd)
  /\ ToSet(extracted) \cap (ToSet(acquired) \cup ToSet(express)) = {}
  /\ extracted # << >> => HolderAt("link")
  /\ HolderAt("swapLinked") => BeforeEnd # << >> /\ Last(BeforeEnd) \in ToSet(express)

(* Who has the access lock; a writer that has it has no readers.             *)
LockHeld ==
  /\ \A r \in Readers : accessLock = r <=> pc[r] \in ReaderHoldPC
  /\ \A w \in Writers : accessLock = w <=> pc[w] \in WriterHoldPC
  /\ \A w \in Writers : Writes(w) => NoReads

(* An express read that was let through is covered by another one until its  *)
(* item is taken out by the reader that unlocked last.                       *)
ReadsCovered ==
  \A r \in Readers : pc[r] \in {"reading", "unlock"} /\ r \in ToSet(express) =>
    ~NoReads \/ HolderAt("extract")

(* The claims of the writers, and the readers that come after them.          *)
ClaimsKept ==
  /\ \A w \in Writers : /\ w \in ToSet(writes) <=> till[w] = 0 /\ pc[w] \in ClaimPC
                        /\ pc[w] = "enlistLate" => till[w] = 0
  /\ \A r \in Readers : /\ ahead[r] \subseteq ToSet(writes) \ {accessLock}
                        /\ ahead[r] # {} => pc[r] \in AwaitPC

(* Who waits for whom: whether the item of a thread is started, that it has  *)
(* one waiter, whom its owner sees in it, and where the two of them are.     *)
WowMatch ==
  /\ \A r \in Readers : wow[r] = "none" <=> pc[r] \in {"idle", "meetFollower", "meet"}
  /\ \A w \in Writers :
       wow[w] # "none" <=> till[w] >= 0 /\ pc[w] \in ClaimPC \cup {"enlistLate", "finish"}

OneWaiter ==
  \A t, x \in Threads : target[t] = x =>
    wow[x] # "worker" /\ \A u \in Threads : target[u] = x => u = t

ReadersWait ==
  \A r \in Readers :
    /\ target[r] # Nobody <=> pc[r] \in {"waitWrite", "follow"}
    /\ \A w \in Writers : target[r] = w =>
         pc[r] = "waitWrite" /\ till[w] = 0 /\ pc[w] \in ClaimPC \cup {"finish", "meet"}
    /\ \A u \in Readers : target[r] = u =>
         /\ pc[r] = "follow"
         /\ pc[u] \in {"lead", "waitWrite", "drain", "follow", "leave", "finishWait", "meetFollower"}

WritersWait ==
  \A w \in Writers :
    /\ target[w] # Nobody <=> pc[w] = "waitRead"
    /\ target[w] \notin Writers
    /\ \A r \in Readers : target[w] = r => r \in beingWaited

WaitsMatch == WowMatch /\ OneWaiter /\ ReadersWait /\ WritersWait

(* A tagged reader has the lock, or is leaving it; and in acquired_reads it  *)
(* has a writer that waits for it.                                           *)
TagsMatch ==
  \A r \in Readers : r \in beingWaited =>
    /\ r \in ToSet(acquired) \/ pc[r] \in {"extract", "link", "finish", "meet"}
    /\ r \in ToSet(acquired) => \E w \in Writers : target[w] = r

(* The waiting readers: the first one leads, each other one waits for the    *)
(* one before it; those in the drain wait for each other or for a reader     *)
(* that has left.                                                            *)
WaitingLine ==
  \A k \in 1 .. Len(waitReads) :
    /\ k = 1 => pc[waitReads[k]] \in {"lead", "waitWrite", "drain"}
    /\ k > 1 => pc[waitReads[k]] = "follow" /\ target[waitReads[k]] = waitReads[k - 1]

WaitingReaders ==
  \A r \in Readers :
    /\ pc[r] \in {"lead", "waitWrite", "drain"} => waitReads # << >> /\ waitReads[1] = r
    /\ r \in ToSet(waitDrain) => pc[r] \in {"follow", "leave"}
    /\ pc[r] = "leave" => r \in ToSet(waitDrain)
    /\ pc[r] = "follow" =>
         \/ r \in ToSet(waitReads)
         \/ /\ r \in ToSet(waitDrain)
            /\ target[r] \in ToSet(waitDrain) \/ pc[target[r]] \in {"finishWait", "meetFollower"}

ReadersQueue == WaitingLine /\ WaitingReaders

(* The push locks, and that somebody who has one is not out for more of them.*)
PushersRun ==
  /\ \A w \in Writers : pc[w] \in PushPC <=> \E c \in Channel : pushLock[c] = w
  /\ \/ \E c \in Channel : pushLock[c] = Nobody
     \/ \E c \in Channel : pc[pushLock[c]] \notin {"allBusy", "pushNext"}

LockInv == /\ Types /\ ListsInjective /\ ReadsPlaced /\ LockHeld /\ ReadsCovered
           /\ ClaimsKept /\ WaitsMatch /\ TagsMatch /\ ReadersQueue /\ PushersRun

-----------------------------------------------------------------------------
(* A list with its end item, and the reads before it.                        *)
EndsIn(s) == /\ s \in Seq(Readers \cup ToSet(EndList)) /\ IsInjective(s)
             /\ ToSet(EndList) \subseteq ToSet(s)

LEMMA EndItemSet == ToSet(EndList) = (IF EndItem = Nobody THEN {} ELSE {EndItem})
<1>1. ToSet(<< >>) = {}
  BY EmptyList
<1>2. ASSUME EndItem # Nobody PROVE ToSet(<< EndItem >>) = {EndItem}
  BY DEF ToSet
<1>. QED BY <1>1, <1>2 DEF EndList

(* There are no reads if no reader is in the list.                           *)
LEMMA NoReadsLeft ==
  ASSUME NEW s, EndsIn(s)
  PROVE  s = EndList <=> ToSet(s) \cap Readers = {}
<1> USE RWLockAssumption, EndItemSet DEF EndsIn
<1>1. s = EndList => ToSet(s) \cap Readers = {}
  BY DEF EndList
<1>2. ASSUME ToSet(s) \cap Readers = {} PROVE s = EndList
  <2>1. ToSet(s) = ToSet(EndList)
    BY <1>2, ListIndices
  <2>2. CASE EndItem = Nobody
    <3>1. \A i \in 1 .. Len(s) : FALSE
      BY <2>1, <2>2, ListIndices
    <3>2. Len(s) = 0
      BY <3>1
    <3>. QED BY <2>2, <3>2 DEF EndList
  <2>3. CASE EndItem # Nobody
    <3>1. \A i \in 1 .. Len(s) : s[i] = EndItem
      BY <2>1, <2>3, ListIndices
    <3>2. \A i \in 1 .. Len(s) : i = 1
      <4>1. \A i \in 1 .. Len(s) : 1 \in 1 .. Len(s)
        OBVIOUS
      <4>. QED BY <3>1, <4>1, ListIndices
    <3>3. Len(s) # 0
      <4>1. PICK i \in 1 .. Len(s) : s[i] = EndItem
        BY <2>1, <2>3, ListIndices
      <4>. QED BY <4>1
    <3>4. Len(s) = 1
      <4>1. Len(s) \in Nat /\ Len(s) # 0
        BY <3>3
      <4>2. Len(s) \in 1 .. Len(s)
        BY <4>1
      <4>. QED BY <3>2, <4>2
    <3>5. s = << EndItem >>
      BY <3>1, <3>4
    <3>. QED BY <2>3, <3>5 DEF EndList
  <2>. QED BY <2>2, <2>3
<1>. QED BY <1>1, <1>2

LEMMA FirstMatch ==
  ASSUME NEW S, NEW s \in Seq(S), NEW k \in 1 .. Len(s), s[k] = EndItem,
         \A i \in 1 .. k - 1 : s[i] # EndItem
  PROVE  Before(s) = SubSeq(s, 1, k - 1)
<1> DEFINE I == { i \in 1 .. Len(s) : s[i] = EndItem }
<1>1. k \in I /\ \A i \in I : k <= i
  BY Len(s) \in Nat
<1>2. Min(I) = k
  <2>1. I \subseteq Int
    OBVIOUS
  <2>2. \A x \in I : (\A y \in I : x <= y) <=> x = k
    BY <1>1, <2>1
  <2>3. Min(I) = CHOOSE x \in I : \A y \in I : x <= y
    BY DEF Min
  <2>. HIDE DEF I
  <2>. QED BY <1>1, <2>2, <2>3
<1>3. SelectInSeq(s, LAMBDA x : x = EndItem) = k
  BY <1>1, <1>2 DEF SelectInSeq
<1>4. k # 0
  OBVIOUS
<1>. QED BY <1>3, <1>4 DEF Before

LEMMA NoMatch ==
  ASSUME NEW S, NEW s \in Seq(S), \A i \in 1 .. Len(s) : s[i] # EndItem
  PROVE  Before(s) = s
<1>1. { i \in 1 .. Len(s) : s[i] = EndItem } = {}
  OBVIOUS
<1>2. SelectInSeq(s, LAMBDA x : x = EndItem) = 0
  BY <1>1 DEF SelectInSeq
<1>3. SubSeq(s, 1, Len(s)) = s
  OBVIOUS
<1>. QED BY <1>2, <1>3 DEF Before

(* A list of reads, and behind it nothing or a list with the end item first. *)
LEMMA SplitAtEnd ==
  ASSUME NEW a \in Seq(Readers), NEW b \in Seq(Readers \cup ToSet(EndList)),
         IF EndItem = Nobody THEN b = << >> ELSE b # << >> /\ b[1] = EndItem
  PROVE  Before(a \o b) = a /\ Behind(a \o b) = b
<1> DEFINE s == a \o b
           R == Readers \cup ToSet(EndList)
<1>1. a \in Seq(R)
  OBVIOUS
<1>2. /\ s \in Seq(R) /\ Len(s) = Len(a) + Len(b)
      /\ \A i \in 1 .. Len(a) + Len(b) : s[i] = IF i <= Len(a) THEN a[i] ELSE b[i - Len(a)]
  BY <1>1, ConcatProperties
<1>3. Len(a) \in Nat /\ Len(b) \in Nat /\ \A i \in 1 .. Len(a) : a[i] \in Readers
  OBVIOUS
<1>. HIDE DEF s
<1>4. Before(s) = a
  <2>1. CASE EndItem = Nobody
    <3>1. s = a
      BY <2>1 DEF s
    <3>. QED BY <3>1, <1>1, <1>3, <2>1, NoMatch, RWLockAssumption
  <2>2. CASE EndItem # Nobody
    <3>1. Len(b) # 0 /\ b[1] = EndItem
      BY <2>2
    <3> DEFINE k == Len(a) + 1
    <3>2. k \in 1 .. Len(s) /\ k \in 1 .. Len(a) + Len(b) /\ ~(k <= Len(a)) /\ k - Len(a) = 1
      BY <1>2, <1>3, <3>1
    <3>3. s[k] = EndItem
      BY <1>2, <3>1, <3>2
    <3>4. \A i \in 1 .. k - 1 : s[i] = a[i] /\ s[i] # EndItem
      BY <1>2, <1>3, RWLockAssumption
    <3>5. Before(s) = SubSeq(s, 1, k - 1)
      BY <1>2, <3>2, <3>3, <3>4, FirstMatch
    <3>6. k - 1 = Len(a) /\ 1 \in 1 .. Len(s) + 1 /\ Len(a) \in 0 .. Len(s)
      BY <1>2, <1>3
    <3>7. SubSeq(s, 1, Len(a)) = a
      <4>1. /\ SubSeq(s, 1, Len(a)) \in Seq(R) /\ Len(SubSeq(s, 1, Len(a))) = Len(a)
            /\ \A i \in 1 .. Len(a) : SubSeq(s, 1, Len(a))[i] = s[i]
        BY <1>2, <1>3, <3>6, SubSeqProperties
      <4>. HIDE DEF k
      <4>2. \A i \in 1 .. Len(a) : SubSeq(s, 1, Len(a))[i] = a[i]
        BY <4>1, <1>2, <1>3
      <4>. QED BY <1>1, <4>1, <4>2, SeqEqual
    <3>. QED BY <3>5, <3>6, <3>7
  <2>. QED BY <2>1, <2>2
<1>5. Behind(s) = b
  <2>1. Behind(s) = SubSeq(s, Len(a) + 1, Len(s))
    BY <1>4 DEF Behind
  <2>2. /\ SubSeq(s, Len(a) + 1, Len(s)) \in Seq(R)
        /\ Len(SubSeq(s, Len(a) + 1, Len(s))) = Len(b)
        /\ \A i \in 1 .. Len(b) : SubSeq(s, Len(a) + 1, Len(s))[i] = s[Len(a) + i]
    <3>1. Len(s) - (Len(a) + 1) + 1 = Len(b) /\ \A i \in 1 .. Len(b) : (Len(a) + 1) + i - 1 = Len(a) + i
      BY <1>2, <1>3
    <3>. QED BY <1>2, <1>3, <3>1, SubSeqProperties
  <2>3. ASSUME NEW i \in 1 .. Len(b) PROVE s[Len(a) + i] = b[i]
    <3>1. /\ Len(a) + i \in 1 .. Len(a) + Len(b)
          /\ ~(Len(a) + i <= Len(a)) /\ (Len(a) + i) - Len(a) = i
      BY <1>3
    <3>. QED BY <1>2, <3>1
  <2>. QED BY <2>1, <2>2, <2>3, SeqEqual
<1>. QED BY <1>4, <1>5 DEF s

LEMMA EndSplits ==
  ASSUME NEW s, EndsIn(s)
  PROVE  /\ Before(s) \in Seq(Readers) /\ Behind(s) \in Seq(Readers \cup ToSet(EndList))
         /\ IF EndItem = Nobody THEN Behind(s) = << >> ELSE Behind(s) # << >> /\ Behind(s)[1] = EndItem
         /\ s = Before(s) \o Behind(s)
<1> DEFINE R == Readers \cup ToSet(EndList)
<1>1. s \in Seq(R) /\ Len(s) \in Nat
  BY DEF EndsIn
<1>2. CASE EndItem = Nobody
  <2>1. R = Readers
    BY <1>2, EndItemSet
  <2>2. Before(s) = s
    BY <1>1, <1>2, <2>1, NoMatch, RWLockAssumption
  <2>3. Behind(s) = << >>
    <3>1. SubSeq(s, Len(s) + 1, Len(s)) \in Seq(R) /\ Len(SubSeq(s, Len(s) + 1, Len(s))) = 0
      BY <1>1, SubSeqProperties
    <3>. QED BY <2>2, <3>1 DEF Behind
  <2>. QED BY <1>1, <1>2, <2>1, <2>2, <2>3
<1>3. CASE EndItem # Nobody
  <2>1. EndItem \in ToSet(s)
    BY <1>3, EndItemSet DEF EndsIn
  <2>2. PICK k \in 1 .. Len(s) : s[k] = EndItem
    BY <1>1, <2>1, ListIndices
  <2>3. \A i \in 1 .. Len(s) : s[i] = EndItem => i = k
    BY <1>1, <2>2, ListIndices DEF EndsIn
  <2>4. Before(s) = SubSeq(s, 1, k - 1)
    BY <1>1, <2>2, <2>3, FirstMatch
  <2>5. /\ k - 1 \in 0 .. Len(s) /\ 1 \in 1 .. Len(s) + 1 /\ k \in 1 .. Len(s) + 1
        /\ Len(s) \in k - 1 .. Len(s)
    BY <1>1, <2>2
  <2>6. /\ Before(s) \in Seq(R) /\ Len(Before(s)) = k - 1
        /\ \A i \in 1 .. k - 1 : Before(s)[i] = s[i]
    BY <1>1, <2>4, <2>5, SubSeqProperties
  <2>7. /\ Behind(s) \in Seq(R) /\ Len(Behind(s)) = Len(s) - k + 1
        /\ \A i \in 1 .. Len(s) - k + 1 : Behind(s)[i] = s[k + i - 1]
    <3>1. Behind(s) = SubSeq(s, k, Len(s))
      BY <2>5, <2>6 DEF Behind
    <3>. QED BY <1>1, <2>5, <3>1, SubSeqProperties
  <2>8. Before(s) \in Seq(Readers)
    <3>1. \A i \in 1 .. Len(Before(s)) : Before(s)[i] \in Readers
      <4>1. \A i \in 1 .. k - 1 : i \in 1 .. Len(s) /\ i # k
        BY <1>1, <2>2
      <4>. QED BY <1>1, <1>3, <2>3, <2>6, <4>1, EndItemSet
    <3>. QED BY <2>6, <3>1
  <2>9. Behind(s) # << >> /\ Behind(s)[1] = EndItem
    BY <1>1, <2>2, <2>7
  <2>10. s = Before(s) \o Behind(s)
    <3>1. /\ Before(s) \o Behind(s) \in Seq(R)
          /\ Len(Before(s) \o Behind(s)) = Len(s)
          /\ \A i \in 1 .. Len(s) : (Before(s) \o Behind(s))[i] = IF i <= k - 1 THEN Before(s)[i] ELSE Behind(s)[i - (k - 1)]
      BY <1>1, <2>2, <2>6, <2>7, ConcatProperties
    <3>2. ASSUME NEW i \in 1 .. Len(s) PROVE (Before(s) \o Behind(s))[i] = s[i]
      <4>1. CASE i <= k - 1
        BY <1>1, <2>2, <2>6, <3>1, <4>1
      <4>2. CASE ~(i <= k - 1)
        <5>1. i - (k - 1) \in 1 .. Len(s) - k + 1 /\ k + (i - (k - 1)) - 1 = i
          BY <1>1, <2>2, <4>2
        <5>2. Behind(s)[i - (k - 1)] = s[i]
          BY <2>7, <5>1
        <5>. QED BY <3>1, <4>2, <5>2
      <4>. QED BY <4>1, <4>2
    <3>. QED BY <1>1, <3>1, <3>2, SeqEqual
  <2>. QED BY <1>3, <2>7, <2>8, <2>9, <2>10
<1>. QED BY <1>2, <1>3

(* Linking reads before the end item.                                        *)
LEMMA LinkReads ==
  ASSUME NEW s, EndsIn(s), NEW items \in Seq(Readers), IsInjective(items),
         ToSet(items) \cap ToSet(s) = {},
         NEW t, t = Before(s) \o items \o Behind(s)
  PROVE  /\ EndsIn(t) /\ ToSet(t) = ToSet(s) \cup ToSet(items)
         /\ Before(t) = Before(s) \o items
<1> DEFINE R == Readers \cup ToSet(EndList)
           a == Before(s)
           b == Behind(s)
           c == a \o items
<1>1. /\ a \in Seq(Readers) /\ b \in Seq(R) /\ s = a \o b
      /\ IF EndItem = Nobody THEN b = << >> ELSE b # << >> /\ b[1] = EndItem
  BY EndSplits
<1>. HIDE DEF a, b, c
<1>2. a \in Seq(R) /\ items \in Seq(R) /\ b \in Seq(R)
  BY <1>1
<1>3. IsInjective(a) /\ IsInjective(b) /\ ToSet(a) \cap ToSet(b) = {}
  BY <1>1, <1>2, SplitInjective DEF EndsIn
<1>4. ToSet(s) = ToSet(a) \cup ToSet(b)
  BY <1>1, <1>2, ConcatLists
<1>5. c \in Seq(Readers) /\ ToSet(c) = ToSet(a) \cup ToSet(items) /\ IsInjective(c)
  BY <1>1, <1>3, <1>4, ConcatLists DEF c
<1>6. c \in Seq(R) /\ t = c \o b
  BY <1>5 DEF a, b, c
<1>7. t \in Seq(R) /\ ToSet(t) = ToSet(c) \cup ToSet(b) /\ IsInjective(t)
  BY <1>2, <1>3, <1>4, <1>5, <1>6, ConcatLists
<1>8. Before(t) = c
  BY <1>1, <1>5, <1>6, SplitAtEnd
<1>. QED BY <1>4, <1>5, <1>7, <1>8 DEF EndsIn, a, c

(* A read behind the end item is not before it.                              *)
LEMMA AppendBehind ==
  ASSUME NEW s, EndsIn(s), NEW r \in Readers, r \notin ToSet(s), EndItem # Nobody
  PROVE  EndsIn(Append(s, r)) /\ Before(Append(s, r)) = Before(s)
<1> DEFINE R == Readers \cup ToSet(EndList)
           a == Before(s)
           b == Behind(s)
<1>1. a \in Seq(Readers) /\ a \in Seq(R) /\ b \in Seq(R) /\ b # << >> /\ b[1] = EndItem /\ s = a \o b
  BY EndSplits
<1>2. EndsIn(Append(s, r))
  BY AppendToList DEF EndsIn
<1>. HIDE DEF a, b
<1>3. Append(b, r) \in Seq(R) /\ Append(b, r) # << >> /\ Append(b, r)[1] = EndItem
  <2>1. Len(b) \in Nat /\ Len(b) # 0
    BY <1>1
  <2>. QED BY <1>1, <2>1, AppendProperties
<1>4. Append(s, r) = a \o Append(b, r)
  <2>1. r \in R /\ << r >> \in Seq(R) /\ s \in Seq(R)
    BY DEF EndsIn
  <2>2. Append(s, r) = (a \o b) \o << r >> /\ Append(b, r) = b \o << r >>
    BY <1>1, <2>1, AppendIsConcat
  <2>3. (a \o b) \o << r >> = a \o (b \o << r >>)
    BY <1>1, <2>1, ConcatAssociative
  <2>. QED BY <2>2, <2>3
<1>5. Before(Append(s, r)) = a
  BY <1>1, <1>3, <1>4, SplitAtEnd
<1>. QED BY <1>2, <1>5 DEF a

-----------------------------------------------------------------------------
(* What a step leaves alone that is not about it.                            *)
LeadPC == {"lead", "waitWrite", "drain"}
QueuePC == LeadPC \cup {"follow", "leave", "finishWait", "meetFollower"}

LEMMA QueueStays ==
  ASSUME Types, WaitsMatch, ReadersQueue, UNCHANGED <<waitReads, waitDrain>>,
         \A u \in Readers : \/ pc'[u] = pc[u]
                            \/ pc[u] \notin QueuePC /\ pc'[u] \notin QueuePC
                            \/ pc[u] \in LeadPC /\ pc'[u] \in LeadPC
                            \/ pc[u] = "finishWait" /\ pc'[u] = "meetFollower",
         \A u \in Readers : pc[u] = "follow" => target'[u] = target[u]
  PROVE  ReadersQueue'
<1> USE DEF QueuePC, LeadPC
<1>1. ASSUME NEW k \in 1 .. Len(waitReads)'
      PROVE  /\ k = 1 => pc'[waitReads'[k]] \in {"lead", "waitWrite", "drain"}
             /\ k > 1 => pc'[waitReads'[k]] = "follow" /\ target'[waitReads'[k]] = waitReads'[k - 1]
  <2>1. waitReads[k] \in Readers
    BY <1>1 DEF Types
  <2>. QED BY <1>1, <2>1 DEF ReadersQueue, WaitingLine, WaitingReaders
<1>2. ASSUME NEW r \in Readers, pc'[r] \in {"lead", "waitWrite", "drain"}
      PROVE  waitReads' # << >> /\ waitReads'[1] = r
  BY <1>2 DEF ReadersQueue, WaitingLine, WaitingReaders
<1>3. ASSUME NEW r \in Readers
      PROVE  /\ r \in ToSet(waitDrain') => pc'[r] \in {"follow", "leave"}
             /\ pc'[r] = "leave" => r \in ToSet(waitDrain')
  BY <1>3 DEF ReadersQueue, WaitingLine, WaitingReaders
<1>4. ASSUME NEW r \in Readers, pc'[r] = "follow"
      PROVE  \/ r \in ToSet(waitReads')
             \/ /\ r \in ToSet(waitDrain')
                /\ target'[r] \in ToSet(waitDrain') \/ pc'[target'[r]] \in {"finishWait", "meetFollower"}
  <2>1. pc[r] = "follow" /\ target'[r] = target[r]
    BY <1>4
  <2>2. target[r] \in Readers
    BY <2>1 DEF WaitsMatch, ReadersWait, WritersWait, Types, Threads
  <2>. QED BY <2>1, <2>2 DEF ReadersQueue, WaitingLine, WaitingReaders
<1>. QED BY <1>1, <1>2, <1>3, <1>4 DEF ReadersQueue, WaitingLine, WaitingReaders

LEMMA TagsStay ==
  ASSUME TagsMatch, UNCHANGED <<acquired, beingWaited>>,
         \A u \in Readers : \/ pc'[u] = pc[u] \/ u \notin beingWaited
                            \/ pc'[u] \in {"extract", "link", "finish", "meet"},
         \A w \in Writers : target'[w] = target[w]
  PROVE  TagsMatch'
BY DEF TagsMatch

LEMMA PushersStay ==
  ASSUME PushersRun, Types, UNCHANGED pushLock, \A w \in Writers : pc'[w] = pc[w]
  PROVE  PushersRun'
<1>1. \A c \in Channel : pushLock[c] # Nobody => pushLock[c] \in Writers
  BY DEF Types
<1>. QED BY <1>1 DEF PushersRun

LEMMA PusherMoves ==
  ASSUME PushersRun, Types, UNCHANGED pushLock, NEW w \in Writers, NEW q,
         \A u \in Writers : pc'[u] = IF u = w THEN q ELSE pc[u],
         pc[w] \in PushPC <=> q \in PushPC,
         q \notin {"allBusy", "pushNext"} \/ pc[w] \in {"allBusy", "pushNext"}
  PROVE  PushersRun'
<1>1. \A c \in Channel : pushLock[c] # Nobody => pushLock[c] \in Writers
  BY DEF Types
<1>2. \A u \in Writers : pc'[u] \in PushPC <=> \E c \in Channel : pushLock'[c] = u
  BY DEF PushersRun
<1>. QED BY <1>1, <1>2 DEF PushersRun

LEMMA NobodyWaitsForWriter ==
  ASSUME WaitsMatch, NEW w \in Writers, pc[w] \notin ClaimPC \cup {"finish", "meet"}
  PROVE  \A t \in Threads : target[t] # w
<1>1. ASSUME NEW t \in Readers PROVE target[t] # w
  BY DEF WaitsMatch, ReadersWait, WritersWait
<1>2. ASSUME NEW t \in Writers PROVE target[t] # w
  BY DEF WaitsMatch, ReadersWait, WritersWait
<1>. QED BY <1>1, <1>2 DEF Threads

LEMMA NobodyWaitsForReader ==
  ASSUME WaitsMatch, TagsMatch, NEW r \in Readers, r \notin beingWaited,
         pc[r] \notin QueuePC
  PROVE  \A t \in Threads : target[t] # r
<1>1. ASSUME NEW t \in Readers PROVE target[t] # r
  BY DEF WaitsMatch, ReadersWait, WritersWait, QueuePC, LeadPC
<1>2. ASSUME NEW t \in Writers PROVE target[t] # r
  BY DEF WaitsMatch, ReadersWait, WritersWait
<1>. QED BY <1>1, <1>2 DEF Threads

LEMMA TargetSet ==
  ASSUME target \in [Threads -> Threads \cup {Nobody}], NEW t \in Threads,
         NEW x \in Threads \cup {Nobody}, target' = [target EXCEPT ![t] = x]
  PROVE  /\ target' \in [Threads -> Threads \cup {Nobody}]
         /\ \A u \in Threads : target'[u] = IF u = t THEN x ELSE target[u]
OBVIOUS

LEMMA WowSet ==
  ASSUME wow \in [Threads -> {"none", "worker", "waiter"}], NEW t \in Threads,
         NEW x \in {"none", "worker", "waiter"}, wow' = [wow EXCEPT ![t] = x]
  PROVE  /\ wow' \in [Threads -> {"none", "worker", "waiter"}]
         /\ \A u \in Threads : wow'[u] = IF u = t THEN x ELSE wow[u]
OBVIOUS

LEMMA TillSet ==
  ASSUME till \in [Writers -> Int], NEW w \in Writers, NEW n \in Int, till' = [till EXCEPT ![w] = n]
  PROVE  /\ till' \in [Writers -> Int]
         /\ \A u \in Writers : till'[u] = IF u = w THEN n ELSE till[u]
OBVIOUS

LEMMA ServedTyped ==
  ASSUME ahead \in [Readers -> SUBSET Writers], NEW w, Served(w)
  PROVE  ahead' \in [Readers -> SUBSET Writers] /\ \A r \in Readers : ahead'[r] = ahead[r] \ {w}
<1>1. \A r \in Readers : ahead[r] \ {w} \in SUBSET Writers
  OBVIOUS
<1>. QED BY <1>1 DEF Served

LEMMA LastItem ==
  ASSUME NEW S, NEW s \in Seq(S), s # << >>
  PROVE  Last(s) \in S /\ Last(s) \in ToSet(s) /\ Last(s) = s[Len(s)]
<1>1. Len(s) \in 1 .. Len(s)
  OBVIOUS
<1>. QED BY <1>1, ListIndices DEF Last

(* A thread begins to wait for an item that nobody waits for.                *)
LEMMA WaitStarts ==
  ASSUME OneWaiter, NEW t \in Threads, NEW x \in Threads,
         \A u \in Threads : target'[u] = IF u = t THEN x ELSE target[u],
         \A u \in Threads : wow'[u] = IF u = x THEN "waiter" ELSE wow[u],
         \A u \in Threads : target[u] # x
  PROVE  OneWaiter'
BY DEF OneWaiter

(* The readers' waits in a step of a writer.                                 *)
LEMMA ReadersWaitStay ==
  ASSUME ReadersWait, \A r \in Readers : target'[r] = target[r] /\ pc'[r] = pc[r],
         \A w \in Writers : till[w] = 0 /\ pc[w] \in ClaimPC \cup {"finish", "meet"}
           => till'[w] = 0 /\ pc'[w] \in ClaimPC \cup {"finish", "meet"}
  PROVE  ReadersWait'
BY DEF ReadersWait

LEMMA BeforeEndReads ==
  ASSUME EndsIn(acquired), BeforeEnd # << >>
  PROVE  ~NoReads /\ Last(BeforeEnd) \in Readers /\ Last(BeforeEnd) \in ToSet(acquired)
<1>1. /\ Before(acquired) \in Seq(Readers) /\ Behind(acquired) \in Seq(Readers \cup ToSet(EndList))
      /\ acquired = Before(acquired) \o Behind(acquired)
  BY EndSplits
<1>2. Last(BeforeEnd) \in Readers /\ Last(BeforeEnd) \in ToSet(BeforeEnd)
  BY <1>1, LastItem DEF BeforeEnd
<1>3. ToSet(BeforeEnd) \subseteq ToSet(acquired)
  <2> DEFINE b == Behind(acquired)
  <2>1. BeforeEnd \in Seq(Readers \cup ToSet(EndList)) /\ b \in Seq(Readers \cup ToSet(EndList))
    BY <1>1 DEF BeforeEnd
  <2>2. acquired = BeforeEnd \o b
    BY <1>1 DEF BeforeEnd
  <2>. HIDE DEF b
  <2>3. ToSet(BeforeEnd \o b) = ToSet(BeforeEnd) \cup ToSet(b)
    BY <2>1, ConcatLists
  <2>. QED BY <2>2, <2>3
<1>. QED BY <1>2, <1>3, NoReadsLeft DEF NoReads

LEMMA LastExpressIs ==
  ASSUME express \in Seq(Readers)
  PROVE  LastExpress \in Readers \cup {Nobody}
BY LastItem DEF LastExpress

LEMMA WaitsStay ==
  ASSUME WaitsMatch, UNCHANGED <<wow, target, till, beingWaited>>,
         \A w \in Writers : pc'[w] = pc[w],
         \A u \in Readers : \/ pc'[u] = pc[u]
                            \/ /\ pc[u] \notin QueuePC \cup {"idle", "meet"}
                               /\ pc'[u] \notin QueuePC \cup {"idle", "meet"}
  PROVE  WaitsMatch'
<1> USE DEF WaitsMatch, QueuePC, LeadPC
<1>1. WowMatch'
  BY DEF WowMatch
<1>2. OneWaiter'
  BY DEF OneWaiter
<1>3. ReadersWait'
  BY DEF ReadersWait
<1>4. WritersWait'
  BY DEF WritersWait
<1>. QED BY <1>1, <1>2, <1>3, <1>4

(* Linking reads in acquired_reads.                                          *)
LEMMA LinkStep ==
  ASSUME RWLockAssumption, EndsIn(acquired), NEW items \in Seq(Readers), IsInjective(items),
         ToSet(items) \cap ToSet(acquired) = {}, acquired' = Linked(items)
  PROVE  /\ EndsIn(acquired') /\ ToSet(acquired') = ToSet(acquired) \cup ToSet(items)
         /\ BeforeEnd' = BeforeEnd \o items
<1>1. acquired' = Before(acquired) \o items \o Behind(acquired)
  BY DEF Linked, BeforeEnd
<1>2. BeforeEnd' = Before(acquired')
  BY DEF BeforeEnd
<1>. QED BY <1>1, <1>2, LinkReads DEF BeforeEnd

LEMMA LinkOne ==
  ASSUME RWLockAssumption, EndsIn(acquired), NEW r \in Readers, r \notin ToSet(acquired),
         acquired' = Linked(<< r >>)
  PROVE  /\ EndsIn(acquired') /\ ToSet(acquired') = ToSet(acquired) \cup {r}
         /\ BeforeEnd' # << >> /\ Last(BeforeEnd') = r
<1>1. << r >> \in Seq(Readers) /\ ToSet(<< r >>) = {r} /\ IsInjective(<< r >>)
  BY DEF ToSet, IsInjective
<1>2. /\ EndsIn(acquired') /\ ToSet(acquired') = ToSet(acquired) \cup {r}
      /\ BeforeEnd' = BeforeEnd \o << r >>
  BY <1>1, LinkStep
<1>3. BeforeEnd \in Seq(Readers)
  BY EndSplits DEF BeforeEnd
<1>4. BeforeEnd' # << >> /\ Last(BeforeEnd') = r
  <2> DEFINE b == BeforeEnd
  <2>1. b \in Seq(Readers)
    BY <1>3
  <2>. HIDE DEF b
  <2>2. Len(b \o << r >>) = Len(b) + 1 /\ (b \o << r >>)[Len(b) + 1] = r
    BY <2>1
  <2>3. b \o << r >> # << >> /\ Last(b \o << r >>) = r
    BY <2>1, <2>2 DEF Last
  <2>. QED BY <1>2, <2>3 DEF b
<1>. QED BY <1>2, <1>4

LEMMA ReadsThere ==
  ASSUME RWLockAssumption, EndsIn(acquired)
  PROVE  NoReads <=> ToSet(acquired) \cap Readers = {}
BY NoReadsLeft DEF NoReads

LEMMA ReadsThereThen ==
  ASSUME RWLockAssumption, EndsIn(acquired')
  PROVE  NoReads' <=> ToSet(acquired') \cap Readers = {}
BY NoReadsLeft DEF NoReads

(* The queue of waiting readers: the leader waits, ...                       *)
LEMMA OneLeader ==
  ASSUME ReadersQueue, NEW r \in Readers, NEW u \in Readers, pc[r] \in LeadPC, pc[u] \in LeadPC
  PROVE  u = r
BY DEF ReadersQueue, WaitingReaders, LeadPC

LEMMA NotQueued ==
  ASSUME Types, ReadersQueue, NEW r \in Readers, pc[r] \notin QueuePC
  PROVE  r \notin ToSet(waitReads) /\ r \notin ToSet(waitDrain)
<1>1. waitReads \in Seq(Readers)
  BY DEF Types
<1>2. \A k \in 1 .. Len(waitReads) : waitReads[k] # r
  BY <1>1 DEF ReadersQueue, WaitingLine, QueuePC, LeadPC
<1>3. r \notin ToSet(waitReads)
  BY <1>1, <1>2, ListIndices
<1>. QED BY <1>3 DEF ReadersQueue, WaitingReaders, QueuePC, LeadPC

LEMMA LeaderComes ==
  ASSUME Types, ReadersWait, ReadersQueue, NEW r \in Readers, LeadReads(r)
  PROVE  ReadersQueue'
<1>1. /\ waitReads = << >> /\ waitReads' = << r >> /\ UNCHANGED <<waitDrain, target>>
      /\ pc[r] = "await" /\ \A t \in Threads : pc'[t] = IF t = r THEN "lead" ELSE pc[t]
  BY DEF LeadReads, Goto, Types
<1>2. ToSet(waitReads) = {}
  BY <1>1, EmptyList
<1>3. WaitingLine'
  <2>1. Len(waitReads') = 1 /\ waitReads'[1] = r
    BY <1>1
  <2>. QED BY <1>1, <2>1 DEF WaitingLine, Threads
<1>4. ASSUME NEW u \in Readers
      PROVE  /\ pc'[u] \in {"lead", "waitWrite", "drain"} => waitReads' # << >> /\ waitReads'[1] = u
             /\ u \in ToSet(waitDrain) => pc'[u] \in {"follow", "leave"}
             /\ pc'[u] = "leave" => u \in ToSet(waitDrain)
  BY <1>1 DEF ReadersQueue, WaitingReaders, Threads
<1>5. ASSUME NEW u \in Readers, pc'[u] = "follow"
      PROVE  /\ u \in ToSet(waitDrain)
             /\ target[u] \in ToSet(waitDrain) \/ pc'[target[u]] \in {"finishWait", "meetFollower"}
  <2>1. pc[u] = "follow"
    BY <1>1, <1>5 DEF Threads
  <2>2. target[u] \in Threads
    BY <2>1 DEF ReadersWait, Types, Threads
  <2>. QED BY <1>1, <1>2, <2>1, <2>2 DEF ReadersQueue, WaitingReaders
<1>. QED BY <1>1, <1>3, <1>4, <1>5 DEF ReadersQueue, WaitingReaders

(* ... others come behind it, ...                                            *)
LEMMA FollowerComes ==
  ASSUME Types, ReadersWait, ReadersQueue, NEW r \in Readers, FollowReads(r)
  PROVE  ReadersQueue'
<1> DEFINE n == Len(waitReads)
<1>1. /\ waitReads # << >> /\ waitReads' = Append(waitReads, r) /\ UNCHANGED waitDrain
      /\ pc[r] = "await" /\ \A t \in Threads : pc'[t] = IF t = r THEN "follow" ELSE pc[t]
      /\ \A t \in Threads : target'[t] = IF t = r THEN waitReads[n] ELSE target[t]
  BY DEF FollowReads, Goto, Types, StartWait, Last
<1>2. waitReads \in Seq(Readers) /\ n \in Nat /\ n # 0 /\ Readers \subseteq Threads
  BY <1>1 DEF Types, Threads
<1>3. /\ Len(waitReads') = n + 1 /\ waitReads'[n + 1] = r
      /\ \A k \in 1 .. n : waitReads'[k] = waitReads[k] /\ waitReads[k] \in Readers
  BY <1>1, <1>2, AppendProperties
<1>4. ToSet(waitReads') = ToSet(waitReads) \cup {r}
  BY <1>1, <1>2, AppendToList
<1>5. \A k \in 1 .. n : waitReads[k] # r
  BY <1>1 DEF ReadersQueue, WaitingLine
<1>6. ASSUME NEW k \in 1 .. n + 1
      PROVE  /\ k = 1 => pc'[waitReads'[k]] \in {"lead", "waitWrite", "drain"}
             /\ k > 1 => pc'[waitReads'[k]] = "follow" /\ target'[waitReads'[k]] = waitReads'[k - 1]
  <2>1. CASE k = n + 1
    <3>1. k > 1 /\ k - 1 = n /\ n \in 1 .. n
      BY <1>2, <2>1
    <3>. QED BY <1>1, <1>2, <1>3, <2>1, <3>1
  <2>2. CASE k # n + 1
    <3>1. k \in 1 .. n /\ (k > 1 => k - 1 \in 1 .. n)
      BY <1>2, <2>2
    <3>. QED BY <1>1, <1>2, <1>3, <1>5, <3>1 DEF ReadersQueue, WaitingLine
  <2>. QED BY <2>1, <2>2
<1>7. ASSUME NEW u \in Readers
      PROVE  /\ pc'[u] \in {"lead", "waitWrite", "drain"} => waitReads' # << >> /\ waitReads'[1] = u
             /\ u \in ToSet(waitDrain) => pc'[u] \in {"follow", "leave"}
             /\ pc'[u] = "leave" => u \in ToSet(waitDrain)
  <2>1. waitReads' # << >> /\ waitReads'[1] = waitReads[1]
    BY <1>2, <1>3
  <2>. QED BY <1>1, <1>2, <2>1 DEF ReadersQueue, WaitingReaders
<1>8. ASSUME NEW u \in Readers, pc'[u] = "follow", u # r, u \notin ToSet(waitReads)
      PROVE  /\ u \in ToSet(waitDrain)
             /\ target'[u] \in ToSet(waitDrain) \/ pc'[target'[u]] \in {"finishWait", "meetFollower"}
  <2>1. pc[u] = "follow" /\ target'[u] = target[u]
    BY <1>1, <1>2, <1>8
  <2>2. target[u] \in Threads
    BY <2>1 DEF ReadersWait, Types, Threads
  <2>. QED BY <1>1, <1>8, <2>1, <2>2 DEF ReadersQueue, WaitingReaders
<1>. QED BY <1>1, <1>3, <1>4, <1>6, <1>7, <1>8 DEF ReadersQueue, WaitingLine, WaitingReaders

LEMMA NobodyWaitsForLast ==
  ASSUME RWLockAssumption, Types, ListsInjective, ReadsPlaced, WaitsMatch, TagsMatch, ReadersQueue,
         waitReads # << >>, NEW x, x = Last(waitReads)
  PROVE  /\ x \in Readers /\ x \in ToSet(waitReads) /\ pc[x] \in LeadPC \cup {"follow"}
         /\ \A t \in Threads : target[t] # x
<1> DEFINE n == Len(waitReads)
<1>1. waitReads \in Seq(Readers) /\ n \in Nat /\ n # 0 /\ x = waitReads[n]
  BY LastItem DEF Types
<1>2. n \in 1 .. n /\ x \in Readers /\ x \in ToSet(waitReads)
  BY <1>1, ListIndices
<1>3. pc[x] \in LeadPC \cup {"follow"}
  BY <1>1, <1>2 DEF ReadersQueue, WaitingLine, LeadPC
<1>4. ASSUME NEW t \in Readers, target[t] = x PROVE FALSE
  <2>1. pc[t] = "follow"
    BY <1>2, <1>4 DEF WaitsMatch, ReadersWait
  <2>2. t \in ToSet(waitReads)
    BY <1>2, <1>3, <1>4, <2>1 DEF ReadersQueue, WaitingReaders, ListsInjective, LeadPC
  <2>3. PICK k \in 1 .. n : waitReads[k] = t
    BY <1>1, <2>2, ListIndices
  <2>4. k > 1
    BY <1>1, <2>1, <2>3 DEF ReadersQueue, WaitingLine
  <2>5. k - 1 \in 1 .. n /\ k - 1 # n /\ waitReads[k - 1] = x
    BY <1>1, <1>4, <2>3, <2>4 DEF ReadersQueue, WaitingLine
  <2>. QED BY <1>1, <1>2, <2>5, ListIndices DEF ListsInjective
<1>5. ASSUME NEW t \in Writers, target[t] = x PROVE FALSE
  <2>1. x \in beingWaited
    BY <1>2, <1>5 DEF WaitsMatch, WritersWait
  <2>2. pc[x] \in LinkedPC \cup {"swapOwn", "unlinkTried", "extract", "link", "finish", "meet"}
    BY <1>2, <2>1 DEF TagsMatch, ReadsPlaced
  <2>. QED BY <1>3, <2>2 DEF LeadPC, LinkedPC
<1>. QED BY <1>2, <1>3, <1>4, <1>5 DEF Threads

(* ... all go to the drain when it leaves, ...                               *)
LEMMA LeaderDrains ==
  ASSUME Types, ListsInjective, ReadersWait, ReadersQueue, NEW r \in Readers, DrainReads(r)
  PROVE  /\ ReadersQueue' /\ waitReads' = << >> /\ waitDrain' \in Seq(Readers) /\ IsInjective(waitDrain')
<1> DEFINE rest == Tail(waitReads)
<1>1. /\ pc[r] = "drain" /\ \A t \in Threads : pc'[t] = IF t = r THEN "finishWait" ELSE pc[t]
      /\ UNCHANGED target
  BY DEF DrainReads, Goto, Types
<1>2. waitReads # << >> /\ waitReads[1] = r
  BY <1>1 DEF ReadersQueue, WaitingReaders
<1>3. waitReads' = << >> /\ waitDrain' = waitDrain \o rest
  BY <1>2 DEF DrainReads
<1>4. waitReads \in Seq(Readers) /\ waitDrain \in Seq(Readers) /\ Readers \subseteq Threads
  BY DEF Types, Threads
<1>5. /\ rest \in Seq(Readers) /\ IsInjective(rest) /\ ToSet(waitReads) = {r} \cup ToSet(rest)
      /\ r \notin ToSet(rest)
  BY <1>2, <1>4, HeadAndTail DEF ListsInjective
<1>. HIDE DEF rest
<1>6. waitDrain' \in Seq(Readers) /\ ToSet(waitDrain') = ToSet(waitDrain) \cup ToSet(rest)
  BY <1>3, <1>4, <1>5, ConcatLists
<1>7. IsInjective(waitDrain')
  <2>1. ToSet(waitDrain) \cap ToSet(rest) = {}
    BY <1>5 DEF ListsInjective
  <2>. QED BY <1>3, <1>4, <1>5, <2>1, ConcatLists DEF ListsInjective
<1>8. WaitingLine'
  BY <1>3 DEF WaitingLine
<1>9. ASSUME NEW u \in ToSet(rest) PROVE pc[u] = "follow" /\ target[u] \in ToSet(waitReads)
  <2>1. u \in ToSet(waitReads) /\ u # r
    BY <1>5
  <2>2. PICK k \in 1 .. Len(waitReads) : waitReads[k] = u
    BY <1>4, <2>1, ListIndices
  <2>3. k > 1 /\ k - 1 \in 1 .. Len(waitReads)
    BY <1>2, <1>4, <2>1, <2>2
  <2>. QED BY <1>4, <2>2, <2>3, ListIndices DEF ReadersQueue, WaitingLine
<1>10. ASSUME NEW u \in Readers
      PROVE  /\ pc'[u] \in {"lead", "waitWrite", "drain"} => FALSE
             /\ u \in ToSet(waitDrain') => pc'[u] \in {"follow", "leave"}
             /\ pc'[u] = "leave" => u \in ToSet(waitDrain')
  <2>1. pc'[u] \notin {"lead", "waitWrite", "drain"}
    BY <1>1, <1>2, <1>4 DEF ReadersQueue, WaitingReaders
  <2>2. u \in ToSet(waitDrain) => u # r
    BY <1>1 DEF ReadersQueue, WaitingReaders
  <2>3. u \in ToSet(waitDrain') => pc'[u] \in {"follow", "leave"}
    BY <1>1, <1>4, <1>5, <1>6, <1>9, <2>2 DEF ReadersQueue, WaitingReaders
  <2>4. pc'[u] = "leave" => u \in ToSet(waitDrain')
    BY <1>1, <1>4, <1>6 DEF ReadersQueue, WaitingReaders
  <2>. QED BY <2>1, <2>3, <2>4
<1>11. ASSUME NEW u \in Readers, pc'[u] = "follow"
      PROVE  /\ u \in ToSet(waitDrain')
             /\ target'[u] \in ToSet(waitDrain') \/ pc'[target'[u]] \in {"finishWait", "meetFollower"}
  <2>1. u # r /\ pc[u] = "follow" /\ target'[u] = target[u]
    BY <1>1, <1>4, <1>11
  <2>2. target[u] \in Threads
    BY <2>1 DEF ReadersWait, Types, Threads
  <2>3. CASE u \in ToSet(rest)
    BY <1>1, <1>4, <1>5, <1>6, <1>9, <2>1, <2>2, <2>3
  <2>4. CASE u \notin ToSet(rest)
    BY <1>1, <1>5, <1>6, <2>1, <2>2, <2>4 DEF ReadersQueue, WaitingReaders
  <2>. QED BY <2>3, <2>4
<1>. QED BY <1>3, <1>6, <1>7, <1>8, <1>10, <1>11 DEF ReadersQueue, WaitingReaders

(* ... each of them waits for the one before it to leave, ...                *)
LEMMA FollowerWaited ==
  ASSUME RWLockAssumption, Types, WowMatch, ReadersWait, ReadersQueue, NEW r \in Readers, ReadWaitEnded(r)
  PROVE  ReadersQueue'
<1>1. /\ pc[r] = "follow" /\ \A t \in Threads : pc'[t] = IF t = r THEN "leave" ELSE pc[t]
      /\ wow[target[r]] = "none" /\ \A t \in Threads : target'[t] = IF t = r THEN Nobody ELSE target[t]
      /\ UNCHANGED <<waitReads, waitDrain>>
  BY DEF ReadWaitEnded, Goto, Types, EndWait, listVars
<1>2. waitReads \in Seq(Readers) /\ Readers \subseteq Threads
  BY DEF Types, Threads
<1>3. PICK x \in Readers : target[r] = x /\ pc[x] = "meetFollower"
  <2>1. target[r] \in Threads
    BY <1>1 DEF ReadersWait, Types, Threads
  <2>2. target[r] \in Readers
    BY <1>1, <2>1 DEF ReadersWait, Threads
  <2>. QED BY <1>1, <2>2 DEF ReadersWait, WowMatch
<1>4. r \notin ToSet(waitReads)
  <2> SUFFICES ASSUME r \in ToSet(waitReads) PROVE FALSE
    OBVIOUS
  <2>1. PICK k \in 1 .. Len(waitReads) : waitReads[k] = r
    BY <1>2, ListIndices
  <2>2. k > 1 /\ x = waitReads[k - 1] /\ k - 1 \in 1 .. Len(waitReads)
    BY <1>1, <1>3, <2>1 DEF ReadersQueue, WaitingLine
  <2>3. pc[waitReads[k - 1]] # "meetFollower"
    BY <2>2 DEF ReadersQueue, WaitingLine
  <2>. QED BY <1>3, <2>2, <2>3
<1>5. r \in ToSet(waitDrain)
  BY <1>1, <1>4 DEF ReadersQueue, WaitingReaders
<1>6. WaitingLine'
  <2> SUFFICES ASSUME NEW k \in 1 .. Len(waitReads)
               PROVE  /\ k = 1 => pc'[waitReads[k]] \in {"lead", "waitWrite", "drain"}
                      /\ k > 1 => pc'[waitReads[k]] = "follow" /\ target'[waitReads[k]] = waitReads[k - 1]
    BY <1>1 DEF WaitingLine
  <2>1. waitReads[k] # r /\ waitReads[k] \in Threads
    BY <1>2, <1>4, ListIndices
  <2>. QED BY <1>1, <2>1 DEF ReadersQueue, WaitingLine
<1>7. ASSUME NEW u \in Readers
      PROVE  /\ pc'[u] \in {"lead", "waitWrite", "drain"} => waitReads # << >> /\ waitReads[1] = u
             /\ u \in ToSet(waitDrain) => pc'[u] \in {"follow", "leave"}
             /\ pc'[u] = "leave" => u \in ToSet(waitDrain)
  BY <1>1, <1>2, <1>5 DEF ReadersQueue, WaitingReaders
<1>8. ASSUME NEW u \in Readers, pc'[u] = "follow", u \notin ToSet(waitReads)
      PROVE  /\ u \in ToSet(waitDrain)
             /\ target'[u] \in ToSet(waitDrain) \/ pc'[target'[u]] \in {"finishWait", "meetFollower"}
  <2>1. pc[u] = "follow" /\ target'[u] = target[u]
    BY <1>1, <1>2, <1>8
  <2>2. target[u] \in Threads
    BY <2>1 DEF ReadersWait, Types, Threads
  <2>. QED BY <1>1, <1>5, <1>8, <2>1, <2>2 DEF ReadersQueue, WaitingReaders
<1>. QED BY <1>1, <1>6, <1>7, <1>8 DEF ReadersQueue, WaitingReaders

(* ... and leaves itself.                                                    *)
LEMMA FollowerLeaves ==
  ASSUME Types, ListsInjective, ReadersWait, ReadersQueue, NEW r \in Readers, LeaveReads(r)
  PROVE  /\ ReadersQueue' /\ waitReads' = waitReads
         /\ waitDrain' \in Seq(Readers) /\ IsInjective(waitDrain') /\ ToSet(waitDrain') = ToSet(waitDrain) \ {r}
<1>1. /\ pc[r] = "leave" /\ \A t \in Threads : pc'[t] = IF t = r THEN "finishWait" ELSE pc[t]
      /\ UNCHANGED target
  BY DEF LeaveReads, Goto, Types
<1>2. waitReads \in Seq(Readers) /\ waitDrain \in Seq(Readers) /\ Readers \subseteq Threads
  BY DEF Types, Threads
<1>3. r \notin ToSet(waitReads)
  BY <1>1 DEF ReadersQueue, WaitingReaders, ListsInjective
<1>4. waitReads' = waitReads
  <2>1. ~\E i \in 1 .. Len(waitReads) : waitReads[i] = r
    BY <1>2, <1>3, ListIndices
  <2>. QED BY <2>1 DEF LeaveReads, RemoveFirst
<1>5. /\ waitDrain' \in Seq(Readers) /\ IsInjective(waitDrain')
      /\ ToSet(waitDrain') = ToSet(waitDrain) \ {r}
  BY <1>2, RemoveFromList DEF LeaveReads, ListsInjective
<1>6. WaitingLine'
  <2> SUFFICES ASSUME NEW k \in 1 .. Len(waitReads)
               PROVE  /\ k = 1 => pc'[waitReads[k]] \in {"lead", "waitWrite", "drain"}
                      /\ k > 1 => pc'[waitReads[k]] = "follow" /\ target'[waitReads[k]] = waitReads[k - 1]
    BY <1>4 DEF WaitingLine
  <2>1. waitReads[k] # r /\ waitReads[k] \in Threads
    BY <1>2, <1>3, ListIndices
  <2>. QED BY <1>1, <2>1 DEF ReadersQueue, WaitingLine
<1>7. ASSUME NEW u \in Readers
      PROVE  /\ pc'[u] \in {"lead", "waitWrite", "drain"} => waitReads # << >> /\ waitReads[1] = u
             /\ u \in ToSet(waitDrain) \ {r} => pc'[u] \in {"follow", "leave"}
             /\ pc'[u] = "leave" => u \in ToSet(waitDrain) \ {r}
  BY <1>1, <1>2 DEF ReadersQueue, WaitingReaders
<1>8. ASSUME NEW u \in Readers, pc'[u] = "follow", u \notin ToSet(waitReads)
      PROVE  /\ u \in ToSet(waitDrain) \ {r}
             /\ target[u] \in ToSet(waitDrain) \ {r} \/ pc'[target[u]] \in {"finishWait", "meetFollower"}
  <2>1. pc[u] = "follow" /\ u # r
    BY <1>1, <1>2, <1>8
  <2>2. target[u] \in Threads
    BY <2>1 DEF ReadersWait, Types, Threads
  <2>. QED BY <1>1, <1>8, <2>1, <2>2 DEF ReadersQueue, WaitingReaders
<1>. QED BY <1>1, <1>4, <1>5, <1>6, <1>7, <1>8 DEF ReadersQueue, WaitingReaders

(* Who releases the access lock is no writer: the claims stay.               *)
LEMMA ClaimsStay ==
  ASSUME RWLockAssumption, Types, ClaimsKept, accessLock' \notin Writers,
         UNCHANGED <<writes, till, ahead>>, \A w \in Writers : pc'[w] = pc[w],
         \A r \in Readers : pc[r] \in AwaitPC => pc'[r] = pc[r]
  PROVE  ClaimsKept'
<1>1. ToSet(writes) \subseteq Writers
  BY ListIndices DEF Types
<1>. QED BY <1>1 DEF ClaimsKept

-----------------------------------------------------------------------------
(* The steps of the writers.                                                 *)
\* Where a writer has nothing and is nowhere.
FreePC == {"idle", "tryLock", "enlist", "tryWrite", "barrier", "glance", "glanceHead",
           "tryGlance", "tryCount", "tryBarrier", "tryTail", "tryHead", "giveUp"}

(* A writer that has nothing yet goes on and has nothing still.              *)
LEMMA FreeMoveKeeps ==
  ASSUME LockInv, NEW w \in Writers, NEW place \in FreePC,
         pc[w] \in FreePC, pc' = [pc EXCEPT ![w] = place],
         till' = till \/ \E n \in TillPriority : till' = [till EXCEPT ![w] = n],
         UNCHANGED <<listVars, accessLock, pushLock, outdated, wow, beingWaited, target, seen,
                     ahead>>
  PROVE  LockInv'
<1> USE RWLockAssumption DEF LockInv, Types, Threads, listVars, writerVars, HolderAt
<1>1. \A t \in Threads : pc'[t] = IF t = w THEN place ELSE pc[t]
  OBVIOUS
<1>2. \A p \in {pc[w], place} :
        p \notin WriterHoldPC \cup ClaimPC \cup PushPC \cup {"enlistLate", "finish", "meet", "waitRead"}
  BY DEF FreePC, WriterHoldPC, ClaimPC, PushPC
<1>3. till' \in [Writers -> Int] /\ \A u \in Writers : till'[u] \in TillPriority \/ till'[u] >= 0
  OBVIOUS
<1>4. \A u \in Writers : u # w => till'[u] = till[u]
  OBVIOUS
<1>5. Types'
  BY <1>1, <1>3 DEF Types
<1>6. ListsInjective'
  BY DEF ListsInjective
<1>7. ReadsPlaced'
  BY <1>1 DEF ReadsPlaced, BeforeEnd
<1>8. LockHeld'
  BY <1>1, <1>2 DEF LockHeld, Writes, NoReads
<1>9. ReadsCovered'
  BY <1>1 DEF ReadsCovered, NoReads
<1>10. ClaimsKept'
  <2>1. \A u \in Writers : u # w => pc'[u] = pc[u] /\ till'[u] = till[u]
    BY <1>1, <1>4
  <2>2. pc'[w] = place /\ \A r \in Readers : pc'[r] = pc[r]
    BY <1>1
  <2>. QED BY <1>2, <2>1, <2>2 DEF ClaimsKept
<1>11. WaitsMatch'
  <2>1. WowMatch'
    <3>1. wow' = wow /\ \A r \in Readers : pc'[r] = pc[r]
      BY <1>1
    <3>2. \A u \in Writers : u # w => pc'[u] = pc[u] /\ till'[u] = till[u]
      BY <1>1, <1>4
    <3>3. pc'[w] = place
      BY <1>1
    <3>. QED BY <1>2, <3>1, <3>2, <3>3 DEF WaitsMatch, WowMatch
  <2>2. OneWaiter'
    BY DEF WaitsMatch, OneWaiter
  <2>3. \A t \in Threads : target[t] # w
    BY <1>2, NobodyWaitsForWriter
  <2>4. ReadersWait'
    BY <1>1, <1>4, <2>3 DEF WaitsMatch, ReadersWait
  <2>5. WritersWait'
    BY <1>1, <1>2 DEF WaitsMatch, WritersWait
  <2>. QED BY <2>1, <2>2, <2>4, <2>5 DEF WaitsMatch
<1>12. TagsMatch'
  BY <1>1 DEF TagsMatch
<1>13. ReadersQueue'
  BY <1>1, QueueStays
<1>14. PushersRun'
  BY <1>1, <1>2, PusherMoves DEF PushersRun
<1>. QED BY <1>5, <1>6, <1>7, <1>8, <1>9, <1>10, <1>11, <1>12, <1>13, <1>14

LEMMA WrLockCallKeeps == ASSUME LockInv, NEW w \in Writers, WrLockCall(w) PROVE LockInv'
<1>1. pc[w] \in FreePC /\ \E place \in FreePC : pc' = [pc EXCEPT ![w] = place]
  BY DEF WrLockCall, FreePC
<1>. QED BY <1>1, FreeMoveKeeps DEF WrLockCall

LEMMA NothingTakenKeeps ==
  ASSUME LockInv, NEW w \in Writers, WrLockNotEmpty(w) \/ TryWrLockCall(w) \/ TryWrLockBusy(w)
  PROVE  LockInv'
<1>1. pc[w] \in FreePC /\ \E place \in FreePC : pc' = [pc EXCEPT ![w] = place]
  BY DEF WrLockNotEmpty, TryWrLockCall, TryWrLockBusy, Goto, FreePC
<1>2. UNCHANGED <<listVars, accessLock, till, pushLock, outdated, wow, beingWaited, target,
                  seen, ahead>>
  BY DEF WrLockNotEmpty, TryWrLockCall, TryWrLockBusy, writerVars
<1>. QED BY <1>1, <1>2, FreeMoveKeeps

LEMMA WrLockEmptyKeeps == ASSUME LockInv, NEW w \in Writers, WrLockEmpty(w) PROVE LockInv'
<1> USE RWLockAssumption DEF LockInv, Types, Threads, listVars, writerVars, Goto, AccessFree,
        LinkedPC, ReaderHoldPC, WriterHoldPC, AwaitPC, ClaimPC, PushPC, HolderAt
<1>1. pc[w] = "tryLock" /\ \A t \in Threads : pc'[t] = IF t = w THEN "writing" ELSE pc[t]
  BY DEF WrLockEmpty
<1>2. ahead' \in [Readers -> SUBSET Writers] /\ \A u \in Readers : ahead'[u] = ahead[u] \ {w}
  BY ServedTyped DEF WrLockEmpty, LockInv, Types
<1>4. Types'
  BY <1>1, <1>2 DEF WrLockEmpty, Types
<1>5. ListsInjective'
  BY <1>1, <1>2 DEF WrLockEmpty, ListsInjective
<1>6. ReadsPlaced'
  BY DEF WrLockEmpty, ReadsPlaced
<1>7. LockHeld'
  BY DEF WrLockEmpty, LockHeld, Writes, NoReads
<1>8. ReadsCovered'
  BY DEF WrLockEmpty, ReadsCovered, NoReads, ReadsPlaced
<1>9. ClaimsKept'
  BY DEF WrLockEmpty, ClaimsKept, LockHeld, Served
<1>10. WaitsMatch'
  BY <1>1, <1>2 DEF WrLockEmpty, WaitsMatch, WowMatch, OneWaiter, ReadersWait, WritersWait,
     StartWait
<1>11. TagsMatch'
  BY <1>1, <1>2 DEF WrLockEmpty, TagsMatch
<1>12. ReadersQueue'
  BY <1>2, QueueStays DEF WrLockEmpty
<1>13. PushersRun'
  BY DEF WrLockEmpty, PushersRun, TagsMatch, LockHeld
<1>. QED BY <1>4, <1>5, <1>6, <1>7, <1>8, <1>9, <1>10, <1>11, <1>12, <1>13

LEMMA EnlistKeeps == ASSUME LockInv, NEW w \in Writers, Enlist(w) PROVE LockInv'
<1> USE RWLockAssumption DEF LockInv, Types, Threads, listVars, writerVars, Goto, AccessFree,
        LinkedPC, ReaderHoldPC, WriterHoldPC, AwaitPC, ClaimPC, PushPC, HolderAt
<1>1. pc[w] = "enlist" /\ \A t \in Threads : pc'[t] = IF t = w THEN "push" ELSE pc[t]
  BY DEF Enlist
<1>2. w \notin ToSet(writes) /\ \A t \in Threads : target[t] # w
  BY <1>1, NobodyWaitsForWriter DEF ClaimsKept
<1>3. /\ writes' \in Seq(Writers) /\ IsInjective(writes')
      /\ ToSet(writes') = IF till[w] = 0 THEN ToSet(writes) \cup {w} ELSE ToSet(writes)
  <2>1. CASE till[w] = 0
    BY <1>2, <2>1, AppendToList DEF Enlist, ListsInjective
  <2>2. CASE till[w] # 0
    BY <1>2, <2>2 DEF Enlist, ListsInjective
  <2>. QED BY <2>1, <2>2
<1>4. BeforeEnd' = BeforeEnd
  BY DEF BeforeEnd, Enlist
<1>5. Types'
  BY DEF Enlist
<1>6. ListsInjective'
  BY <1>3 DEF Enlist, ListsInjective
<1>7. ReadsPlaced'
  BY <1>4 DEF Enlist, ReadsPlaced
<1>8. LockHeld'
  BY <1>3 DEF Enlist, LockHeld, Writes, NoReads
<1>9. ReadsCovered'
  BY <1>3 DEF Enlist, ReadsCovered, NoReads, ReadsPlaced
<1>10. ClaimsKept'
  BY <1>3 DEF Enlist, ClaimsKept, LockHeld, Served
<1>11. WaitsMatch'
  BY DEF Enlist, WaitsMatch, WowMatch, OneWaiter, ReadersWait, WritersWait
<1>12. TagsMatch'
  BY <1>1, <1>2, <1>3 DEF Enlist, TagsMatch
<1>13. ReadersQueue'
  BY <1>3, QueueStays DEF Enlist
<1>14. PushersRun'
  BY <1>3 DEF Enlist, PushersRun, TagsMatch, LockHeld
<1>. QED BY <1>5, <1>6, <1>7, <1>8, <1>9, <1>10, <1>11, <1>12, <1>13, <1>14

LEMMA PushFirstKeeps == ASSUME LockInv, NEW w \in Writers, PushFirst(w) PROVE LockInv'
<1> USE RWLockAssumption DEF LockInv, Types, Threads, listVars, writerVars, Goto, AccessFree,
        LinkedPC, ReaderHoldPC, WriterHoldPC, AwaitPC, ClaimPC, PushPC, HolderAt
<1>1. pc[w] = "push" /\ \A t \in Threads : pc'[t] = IF t = w THEN "lockReads" ELSE pc[t]
  BY DEF PushFirst
<1>2. BeforeEnd' = BeforeEnd
  BY DEF BeforeEnd, PushFirst
<1>3. Types'
  BY <1>1 DEF PushFirst, Types
<1>4. ListsInjective'
  BY <1>1 DEF PushFirst, ListsInjective
<1>5. ReadsPlaced'
  BY <1>1, <1>2 DEF PushFirst, ReadsPlaced
<1>6. LockHeld'
  BY <1>1 DEF PushFirst, LockHeld, Writes, NoReads
<1>7. ReadsCovered'
  BY <1>1 DEF PushFirst, ReadsCovered, NoReads, ReadsPlaced
<1>8. ClaimsKept'
  BY DEF PushFirst, ClaimsKept
<1>9. WaitsMatch'
  BY <1>1 DEF PushFirst, WaitsMatch, WowMatch, OneWaiter, ReadersWait, WritersWait, StartWait
<1>10. TagsMatch'
  BY <1>1 DEF PushFirst, TagsMatch, ReadsPlaced
<1>11. ReadersQueue'
  BY QueueStays DEF PushFirst, StartWait
<1>12. PushersRun'
  BY DEF PushFirst, PushersRun
<1>. QED BY <1>3, <1>4, <1>5, <1>6, <1>7, <1>8, <1>9, <1>10, <1>11, <1>12

LEMMA AcquireEmptiedKeeps == ASSUME LockInv, NEW w \in Writers, AcquireEmptied(w) PROVE LockInv'
<1> USE RWLockAssumption DEF LockInv, Types, Threads, listVars, writerVars, Goto, AccessFree,
        LinkedPC, ReaderHoldPC, WriterHoldPC, AwaitPC, ClaimPC, PushPC, HolderAt
<1>1. pc[w] = "lockReads" /\ \A t \in Threads : pc'[t] = IF t = w THEN "unpush" ELSE pc[t]
  BY DEF AcquireEmptied
<1>2. ahead' \in [Readers -> SUBSET Writers] /\ \A u \in Readers : ahead'[u] = ahead[u] \ {w}
  BY ServedTyped DEF AcquireEmptied, LockInv, Types
<1>4. Types'
  BY <1>1, <1>2 DEF AcquireEmptied, Types
<1>5. ListsInjective'
  BY <1>1, <1>2 DEF AcquireEmptied, ListsInjective
<1>6. ReadsPlaced'
  BY DEF AcquireEmptied, ReadsPlaced
<1>7. LockHeld'
  BY DEF AcquireEmptied, LockHeld, Writes, NoReads
<1>8. ReadsCovered'
  BY DEF AcquireEmptied, ReadsCovered, NoReads, ReadsPlaced
<1>9. ClaimsKept'
  BY DEF AcquireEmptied, ClaimsKept, LockHeld, Served
<1>10. WaitsMatch'
  BY <1>1, <1>2 DEF AcquireEmptied, WaitsMatch, WowMatch, OneWaiter, ReadersWait, WritersWait,
     StartWait
<1>11. TagsMatch'
  BY <1>1, <1>2 DEF AcquireEmptied, TagsMatch
<1>12. ReadersQueue'
  BY <1>2, QueueStays DEF AcquireEmptied
<1>13. PushersRun'
  BY DEF AcquireEmptied, PushersRun, TagsMatch, LockHeld
<1>. QED BY <1>4, <1>5, <1>6, <1>7, <1>8, <1>9, <1>10, <1>11, <1>12, <1>13

LEMMA WaitLastReadKeeps == ASSUME LockInv, NEW w \in Writers, WaitLastRead(w) PROVE LockInv'
<1> USE RWLockAssumption DEF LockInv, Types, Threads, listVars, writerVars, Goto, AccessFree,
        LinkedPC, ReaderHoldPC, WriterHoldPC, AwaitPC, ClaimPC, PushPC, HolderAt
<1>1. pc[w] = "lockReads" /\ \A t \in Threads : pc'[t] = IF t = w THEN "waitRead" ELSE pc[t]
  BY DEF WaitLastRead
<1>2. PICK x \in Readers : x \in ToSet(acquired) \ beingWaited /\ StartWait(w, x) /\ beingWaited' = beingWaited \cup {x}
  <2>1. PICK k \in DOMAIN acquired : /\ Waitable(k) /\ StartWait(w, acquired[k])
                                     /\ beingWaited' = WithTag(beingWaited, acquired[k], TRUE)
    BY DEF WaitLastRead
  <2>2. acquired[k] \in ToSet(acquired) /\ acquired[k] \in Readers \cup ToSet(EndList)
    BY ListIndices
  <2>3. acquired[k] \notin beingWaited
    BY <2>1 DEF Waitable, ModifiesTag, HasTag
  <2>. QED BY <2>1, <2>2, <2>3 DEF WithTag, ListsInjective
<1>3. pc[x] \notin QueuePC /\ \A t \in Threads : target[t] # x
  <2>1. pc[x] \notin QueuePC
    BY <1>2 DEF ReadsPlaced, QueuePC, LeadPC
  <2>. QED BY <1>2, <2>1, NobodyWaitsForReader
<1>4. /\ target' \in [Threads -> Threads \cup {Nobody}]
      /\ \A t \in Threads : target'[t] = IF t = w THEN x ELSE target[t]
  BY <1>2, TargetSet DEF StartWait
<1>5. /\ wow' \in [Threads -> {"none", "worker", "waiter"}] /\ wow[x] # "none"
      /\ \A t \in Threads : wow'[t] = IF t = x THEN "waiter" ELSE wow[t]
  BY <1>2, WowSet DEF StartWait
<1>6. beingWaited' = beingWaited \cup {x} /\ UNCHANGED <<till, accessLock>>
  BY <1>2 DEF WaitLastRead
<1>8. Types'
  BY <1>1, <1>2, <1>3, <1>4, <1>5, <1>6 DEF WaitLastRead, Types
<1>9. ListsInjective'
  BY <1>1, <1>2, <1>3, <1>4, <1>5, <1>6 DEF WaitLastRead, ListsInjective
<1>10. ReadsPlaced'
  BY DEF WaitLastRead, ReadsPlaced
<1>11. LockHeld'
  BY <1>6 DEF WaitLastRead, LockHeld, Writes, NoReads
<1>12. ReadsCovered'
  BY <1>6 DEF WaitLastRead, ReadsCovered, NoReads, ReadsPlaced
<1>13. ClaimsKept'
  BY <1>6 DEF WaitLastRead, ClaimsKept
<1>14. WaitsMatch'
  <2>1. WowMatch'
    BY <1>1, <1>2, <1>3, <1>4, <1>5, <1>6 DEF WowMatch, WaitsMatch
  <2>2. OneWaiter'
    <3>1. OneWaiter /\ w \in Threads /\ x \in Threads
      BY DEF WaitsMatch
    <3>. HIDE DEF Threads, LockInv, Types
    <3>. QED BY <1>3, <1>4, <1>5, <3>1, WaitStarts
  <2>3. ReadersWait'
    BY <1>1, <1>2, <1>3, <1>4, <1>5, <1>6, ReadersWaitStay DEF WaitsMatch
  <2>4. WritersWait'
    BY <1>1, <1>2, <1>3, <1>4, <1>5, <1>6 DEF WritersWait, WaitsMatch
  <2>. QED BY <2>1, <2>2, <2>3, <2>4 DEF WaitsMatch
<1>15. TagsMatch'
  BY <1>1, <1>2, <1>3, <1>4, <1>5, <1>6 DEF WaitLastRead, TagsMatch, ReadsPlaced, WaitsMatch,
     WowMatch, OneWaiter, ReadersWait, WritersWait, StartWait, EndWait, HasTag, HasAnyTag,
     WithTag, WithoutTags
<1>16. ReadersQueue'
  BY QueueStays DEF WaitLastRead, StartWait
<1>17. PushersRun'
  BY <1>6 DEF WaitLastRead, PushersRun
<1>. QED BY <1>8, <1>9, <1>10, <1>11, <1>12, <1>13, <1>14, <1>15, <1>16, <1>17

LEMMA FindAllBusyKeeps == ASSUME LockInv, NEW w \in Writers, FindAllBusy(w) PROVE LockInv'
<1> USE RWLockAssumption DEF LockInv, Types, Threads, listVars, writerVars, Goto, AccessFree,
        LinkedPC, ReaderHoldPC, WriterHoldPC, AwaitPC, ClaimPC, PushPC, HolderAt
<1>1. pc[w] = "lockReads" /\ \A t \in Threads : pc'[t] = IF t = w THEN "allBusy" ELSE pc[t]
  BY DEF FindAllBusy
<1>2. BeforeEnd' = BeforeEnd
  BY DEF BeforeEnd, FindAllBusy
<1>3. Types'
  BY <1>1 DEF FindAllBusy, Types
<1>4. ListsInjective'
  BY <1>1 DEF FindAllBusy, ListsInjective
<1>5. ReadsPlaced'
  BY <1>1, <1>2 DEF FindAllBusy, ReadsPlaced
<1>6. LockHeld'
  BY <1>1 DEF FindAllBusy, LockHeld, Writes, NoReads
<1>7. ReadsCovered'
  BY <1>1 DEF FindAllBusy, ReadsCovered, NoReads, ReadsPlaced
<1>8. ClaimsKept'
  BY DEF FindAllBusy, ClaimsKept
<1>9. WaitsMatch'
  BY <1>1 DEF FindAllBusy, WaitsMatch, WowMatch, OneWaiter, ReadersWait, WritersWait, StartWait
<1>10. TagsMatch'
  BY <1>1 DEF FindAllBusy, TagsMatch, ReadsPlaced
<1>11. ReadersQueue'
  BY QueueStays DEF FindAllBusy, StartWait
<1>12. PushersRun'
  <2>a. EndsIn(acquired) /\ acquired # EndList
    BY DEF FindAllBusy, NoReads, EndsIn, ListsInjective
  <2>1. PICK u \in Readers : u \in ToSet(acquired)
    BY <2>a, NoReadsLeft
  <2>2. PICK x \in Writers : target[x] = u
    BY <2>1 DEF FindAllBusy, TagsMatch
  <2>3. pc[x] = "waitRead"
    BY <2>2 DEF WaitsMatch, ReadersWait, WritersWait
  <2>4. PICK c \in Channel : pushLock[c] = x
    BY <2>3 DEF PushersRun
  <2>5. \A y \in Writers : pc'[y] \in PushPC <=> pc[y] \in PushPC
    BY <1>1
  <2>6. pc'[pushLock'[c]] = "waitRead"
    BY <1>1, <2>3, <2>4 DEF FindAllBusy
  <2>7. \A y \in Writers : pc'[y] \in PushPC <=> \E d \in Channel : pushLock'[d] = y
    BY <2>5 DEF FindAllBusy, PushersRun
  <2>8. \E d \in Channel : pc'[pushLock'[d]] \notin {"allBusy", "pushNext"}
    BY <2>6
  <2>. QED BY <2>7, <2>8 DEF PushersRun
<1>. QED BY <1>3, <1>4, <1>5, <1>6, <1>7, <1>8, <1>9, <1>10, <1>11, <1>12

LEMMA ReadWaitedKeeps == ASSUME LockInv, NEW w \in Writers, ReadWaited(w) PROVE LockInv'
<1> USE RWLockAssumption DEF LockInv, Types, Threads, listVars, writerVars, Goto, AccessFree,
        LinkedPC, ReaderHoldPC, WriterHoldPC, AwaitPC, ClaimPC, PushPC, HolderAt
<1>1. /\ pc[w] = "waitRead" /\ pc'[w] = IF till[w] = 1 THEN "enlistLate" ELSE "lockReads"
      /\ \A t \in Threads : t # w => pc'[t] = pc[t]
  BY DEF ReadWaited
<1>2. /\ till' \in [Writers -> Int]
      /\ \A u \in Writers : till'[u] = IF u = w THEN (IF till[w] > 0 THEN till[w] - 1 ELSE till[w]) ELSE till[u]
  BY TillSet DEF ReadWaited
<1>3. /\ target' \in [Threads -> Threads \cup {Nobody}] /\ wow[target[w]] = "none"
      /\ \A t \in Threads : target'[t] = IF t = w THEN Nobody ELSE target[t]
  BY TargetSet DEF ReadWaited, EndWait
<1>4. UNCHANGED <<wow, beingWaited, acquired>>
  BY DEF ReadWaited
<1>5. BeforeEnd' = BeforeEnd
  BY DEF BeforeEnd, ReadWaited
<1>6. Types'
  BY <1>1, <1>2, <1>3, <1>4 DEF ReadWaited, Types
<1>7. ListsInjective'
  BY DEF ReadWaited, ListsInjective
<1>8. ReadsPlaced'
  BY <1>5 DEF ReadWaited, ReadsPlaced
<1>9. LockHeld'
  BY DEF ReadWaited, LockHeld, Writes, NoReads
<1>10. ReadsCovered'
  BY DEF ReadWaited, ReadsCovered, NoReads, ReadsPlaced
<1>11. ClaimsKept'
  BY DEF ReadWaited, ClaimsKept
<1>12. WaitsMatch'
  <2>1. WowMatch'
    <3>1. \A u \in Readers : wow'[u] = wow[u] /\ pc'[u] = pc[u]
      BY <1>1, <1>4
    <3>2. till'[w] >= 0 <=> till[w] >= 0
      BY <1>2
    <3>3. ASSUME NEW u \in Writers
          PROVE  wow'[u] # "none" <=> till'[u] >= 0 /\ pc'[u] \in ClaimPC \cup {"enlistLate", "finish"}
      <4>1. CASE u = w
        BY <1>1, <1>4, <3>2, <4>1 DEF WaitsMatch, WowMatch
      <4>2. CASE u # w
        BY <1>1, <1>2, <1>4, <4>2 DEF WaitsMatch, WowMatch
      <4>. QED BY <4>1, <4>2
    <3>. QED BY <3>1, <3>3 DEF WaitsMatch, WowMatch
  <2>2. OneWaiter'
    BY <1>3, <1>4 DEF OneWaiter, WaitsMatch
  <2>3. ReadersWait'
    <3>1. ReadersWait
      BY DEF WaitsMatch
    <3>2. \A r \in Readers : target'[r] = target[r] /\ pc'[r] = pc[r]
      BY <1>1, <1>3
    <3>3. ASSUME NEW u \in Writers, till[u] = 0, pc[u] \in ClaimPC \cup {"finish", "meet"}
          PROVE  till'[u] = 0 /\ pc'[u] \in ClaimPC \cup {"finish", "meet"}
      <4>1. CASE u = w
        BY <1>1, <1>2, <3>3, <4>1
      <4>2. CASE u # w
        BY <1>1, <1>2, <3>3, <4>2
      <4>. QED BY <4>1, <4>2
    <3>. QED BY <3>1, <3>2, <3>3, ReadersWaitStay
  <2>4. WritersWait'
    BY <1>1, <1>2, <1>3, <1>4 DEF WritersWait, WaitsMatch
  <2>. QED BY <2>1, <2>2, <2>3, <2>4 DEF WaitsMatch
<1>13. TagsMatch'
  <2> SUFFICES ASSUME NEW r \in Readers, r \in beingWaited PROVE
                 /\ r \in ToSet(acquired) \/ pc'[r] \in {"extract", "link", "finish", "meet"}
                 /\ r \in ToSet(acquired) => \E u \in Writers : target'[u] = r
    BY <1>4 DEF TagsMatch
  <2>1. ASSUME r \in ToSet(acquired) PROVE \E u \in Writers : target'[u] = r
    <3>1. PICK u \in Writers : target[u] = r
      BY <2>1 DEF TagsMatch
    <3>2. wow[r] # "none"
      BY <2>1 DEF ReadsPlaced, WaitsMatch, WowMatch, OneWaiter, ReadersWait, WritersWait
    <3>. QED BY <1>3, <3>1, <3>2
  <2>. QED BY <1>1, <2>1 DEF TagsMatch
<1>14. ReadersQueue'
  BY <1>4, QueueStays DEF ReadWaited, StartWait, EndWait, QueuePC, LeadPC
<1>15. PushersRun'
  BY DEF ReadWaited, PushersRun
<1>. QED BY <1>6, <1>7, <1>8, <1>9, <1>10, <1>11, <1>12, <1>13, <1>14, <1>15

LEMMA EnlistLateKeeps == ASSUME LockInv, NEW w \in Writers, EnlistLate(w) PROVE LockInv'
<1> USE RWLockAssumption DEF LockInv, Types, Threads, listVars, writerVars, Goto, AccessFree,
        LinkedPC, ReaderHoldPC, WriterHoldPC, AwaitPC, ClaimPC, PushPC, HolderAt
<1>1. pc[w] = "enlistLate" /\ \A t \in Threads : pc'[t] = IF t = w THEN "lockReads" ELSE pc[t]
  BY DEF EnlistLate
<1>2. w \notin ToSet(writes) /\ till[w] = 0
  BY <1>1 DEF ClaimsKept
<1>3. /\ writes' \in Seq(Writers) /\ IsInjective(writes')
      /\ ToSet(writes') = ToSet(writes) \cup {w}
  BY <1>2, AppendToList DEF EnlistLate, ListsInjective
<1>4. BeforeEnd' = BeforeEnd
  BY DEF BeforeEnd, EnlistLate
<1>5. Types'
  BY DEF EnlistLate
<1>6. ListsInjective'
  BY <1>3 DEF EnlistLate, ListsInjective
<1>7. ReadsPlaced'
  BY <1>4 DEF EnlistLate, ReadsPlaced
<1>8. LockHeld'
  BY <1>3 DEF EnlistLate, LockHeld, Writes, NoReads
<1>9. ReadsCovered'
  BY <1>3 DEF EnlistLate, ReadsCovered, NoReads, ReadsPlaced
<1>10. ClaimsKept'
  BY <1>3 DEF EnlistLate, ClaimsKept, LockHeld, Served
<1>11. WaitsMatch'
  BY DEF EnlistLate, WaitsMatch, WowMatch, OneWaiter, ReadersWait, WritersWait
<1>12. TagsMatch'
  BY <1>1, <1>2, <1>3 DEF EnlistLate, TagsMatch
<1>13. ReadersQueue'
  BY <1>3, QueueStays DEF EnlistLate
<1>14. PushersRun'
  BY <1>3 DEF EnlistLate, PushersRun, TagsMatch, LockHeld
<1>. QED BY <1>5, <1>6, <1>7, <1>8, <1>9, <1>10, <1>11, <1>12, <1>13, <1>14

LEMMA LookAtCommitsKeeps == ASSUME LockInv, NEW w \in Writers, LookAtCommits(w) PROVE LockInv'
<1> USE RWLockAssumption DEF LockInv, Types, Threads, listVars, writerVars, Goto, AccessFree,
        LinkedPC, ReaderHoldPC, WriterHoldPC, AwaitPC, ClaimPC, PushPC, HolderAt
<1>1. BeforeEnd' = BeforeEnd
  BY DEF BeforeEnd, LookAtCommits
<1>2. Types'
  BY DEF LookAtCommits, Types
<1>3. ListsInjective'
  BY DEF LookAtCommits, ListsInjective
<1>4. ReadsPlaced'
  BY <1>1 DEF LookAtCommits, ReadsPlaced
<1>5. LockHeld'
  BY DEF LookAtCommits, LockHeld, Writes, NoReads
<1>6. ReadsCovered'
  BY DEF LookAtCommits, ReadsCovered, NoReads, ReadsPlaced
<1>7. ClaimsKept'
  BY DEF LookAtCommits, ClaimsKept, LockHeld, Served
<1>8. WaitsMatch'
  BY DEF LookAtCommits, WaitsMatch, WowMatch, OneWaiter, ReadersWait, WritersWait, StartWait,
     EndWait
<1>9. TagsMatch'
  BY DEF LookAtCommits, TagsMatch
<1>10. ReadersQueue'
  BY QueueStays DEF LookAtCommits
<1>11. PushersRun'
  BY DEF LookAtCommits, PushersRun, TagsMatch, LockHeld
<1>. QED BY <1>2, <1>3, <1>4, <1>5, <1>6, <1>7, <1>8, <1>9, <1>10, <1>11

LEMMA PushNextKeeps == ASSUME LockInv, NEW w \in Writers, PushNext(w) PROVE LockInv'
<1> USE RWLockAssumption DEF LockInv, Types, Threads, listVars, writerVars, Goto, AccessFree,
        LinkedPC, ReaderHoldPC, WriterHoldPC, AwaitPC, ClaimPC, PushPC, HolderAt
<1>1. pc[w] = "pushNext" /\ \A t \in Threads : pc'[t] = IF t = w THEN "lockReads" ELSE pc[t]
  BY DEF PushNext
<1>2. BeforeEnd' = BeforeEnd
  BY DEF BeforeEnd, PushNext
<1>3. Types'
  BY <1>1 DEF PushNext, Types
<1>4. ListsInjective'
  BY <1>1 DEF PushNext, ListsInjective
<1>5. ReadsPlaced'
  BY <1>1, <1>2 DEF PushNext, ReadsPlaced
<1>6. LockHeld'
  BY <1>1 DEF PushNext, LockHeld, Writes, NoReads
<1>7. ReadsCovered'
  BY <1>1 DEF PushNext, ReadsCovered, NoReads, ReadsPlaced
<1>8. ClaimsKept'
  BY DEF PushNext, ClaimsKept
<1>9. WaitsMatch'
  BY <1>1 DEF PushNext, WaitsMatch, WowMatch, OneWaiter, ReadersWait, WritersWait, StartWait
<1>10. TagsMatch'
  BY <1>1 DEF PushNext, TagsMatch, ReadsPlaced
<1>11. ReadersQueue'
  BY QueueStays DEF PushNext, StartWait
<1>12. PushersRun'
  BY DEF PushNext, PushersRun
<1>. QED BY <1>3, <1>4, <1>5, <1>6, <1>7, <1>8, <1>9, <1>10, <1>11, <1>12

LEMMA UnpushKeeps == ASSUME LockInv, NEW w \in Writers, Unpush(w) PROVE LockInv'
<1> USE RWLockAssumption DEF LockInv, Types, Threads, listVars, writerVars, Goto, AccessFree,
        LinkedPC, ReaderHoldPC, WriterHoldPC, AwaitPC, ClaimPC, PushPC, HolderAt
<1>1. pc[w] = "unpush" /\ \A t \in Threads : pc'[t] = IF t = w THEN "unlist" ELSE pc[t]
  BY DEF Unpush
<1>2. BeforeEnd' = BeforeEnd
  BY DEF BeforeEnd, Unpush
<1>3. Types'
  BY <1>1 DEF Unpush, Types
<1>4. ListsInjective'
  BY <1>1 DEF Unpush, ListsInjective
<1>5. ReadsPlaced'
  BY <1>1, <1>2 DEF Unpush, ReadsPlaced
<1>6. LockHeld'
  BY <1>1 DEF Unpush, LockHeld, Writes, NoReads
<1>7. ReadsCovered'
  BY <1>1 DEF Unpush, ReadsCovered, NoReads, ReadsPlaced
<1>8. ClaimsKept'
  BY DEF Unpush, ClaimsKept
<1>9. WaitsMatch'
  BY <1>1 DEF Unpush, WaitsMatch, WowMatch, OneWaiter, ReadersWait, WritersWait, StartWait
<1>10. TagsMatch'
  BY <1>1 DEF Unpush, TagsMatch, ReadsPlaced
<1>11. ReadersQueue'
  BY QueueStays DEF Unpush, StartWait
<1>12. PushersRun'
  BY DEF Unpush, PushersRun
<1>. QED BY <1>3, <1>4, <1>5, <1>6, <1>7, <1>8, <1>9, <1>10, <1>11, <1>12

LEMMA UnlistKeeps == ASSUME LockInv, NEW w \in Writers, Unlist(w) PROVE LockInv'
<1> USE RWLockAssumption DEF LockInv, Types, Threads, listVars, writerVars, Goto, AccessFree,
        LinkedPC, ReaderHoldPC, WriterHoldPC, AwaitPC, ClaimPC, PushPC, HolderAt
<1>1. pc[w] = "unlist" /\ \A t \in Threads : pc'[t] = IF t = w THEN "finish" ELSE pc[t]
  BY DEF Unlist
<1>2. /\ writes' \in Seq(Writers) /\ IsInjective(writes')
      /\ ToSet(writes') = ToSet(writes) \ {w}
  BY RemoveFromList DEF Unlist, ListsInjective
<1>3. BeforeEnd' = BeforeEnd
  BY DEF BeforeEnd, Unlist
<1>4. Types'
  BY <1>1, <1>2 DEF Unlist, Types
<1>5. ListsInjective'
  BY <1>1, <1>2 DEF Unlist, ListsInjective
<1>6. ReadsPlaced'
  BY <1>3 DEF Unlist, ReadsPlaced
<1>7. LockHeld'
  BY DEF Unlist, LockHeld, Writes, NoReads
<1>8. ReadsCovered'
  BY DEF Unlist, ReadsCovered, NoReads, ReadsPlaced
<1>9. ClaimsKept'
  BY <1>1, <1>2 DEF Unlist, ClaimsKept, LockHeld, Served
<1>10. WaitsMatch'
  BY <1>1, <1>2 DEF Unlist, WaitsMatch, WowMatch, OneWaiter, ReadersWait, WritersWait, StartWait
<1>11. TagsMatch'
  BY <1>1, <1>2 DEF Unlist, TagsMatch
<1>12. ReadersQueue'
  BY <1>2, QueueStays DEF Unlist
<1>13. PushersRun'
  BY DEF Unlist, PushersRun, TagsMatch, LockHeld
<1>. QED BY <1>4, <1>5, <1>6, <1>7, <1>8, <1>9, <1>10, <1>11, <1>12, <1>13

LEMMA ReinitUnlistedKeeps == ASSUME LockInv, NEW w \in Writers, ReinitUnlisted(w) PROVE LockInv'
<1> USE RWLockAssumption DEF LockInv, Types, Threads, listVars, writerVars, Goto, AccessFree,
        LinkedPC, ReaderHoldPC, WriterHoldPC, AwaitPC, ClaimPC, PushPC, HolderAt
<1>1. pc[w] = "unlist" /\ \A t \in Threads : pc'[t] = IF t = w THEN "writing" ELSE pc[t]
  BY DEF ReinitUnlisted
<1>2. BeforeEnd' = BeforeEnd
  BY DEF BeforeEnd, ReinitUnlisted
<1>3. Types'
  BY <1>1 DEF ReinitUnlisted, Types
<1>4. ListsInjective'
  BY <1>1 DEF ReinitUnlisted, ListsInjective
<1>5. ReadsPlaced'
  BY <1>1, <1>2 DEF ReinitUnlisted, ReadsPlaced
<1>6. LockHeld'
  BY <1>1 DEF ReinitUnlisted, LockHeld, Writes, NoReads
<1>7. ReadsCovered'
  BY <1>1 DEF ReinitUnlisted, ReadsCovered, NoReads, ReadsPlaced
<1>8. ClaimsKept'
  BY DEF ReinitUnlisted, ClaimsKept
<1>9. WaitsMatch'
  BY <1>1 DEF ReinitUnlisted, WaitsMatch, WowMatch, OneWaiter, ReadersWait, WritersWait, StartWait
<1>10. TagsMatch'
  BY <1>1 DEF ReinitUnlisted, TagsMatch, ReadsPlaced
<1>11. ReadersQueue'
  BY QueueStays DEF ReinitUnlisted, StartWait
<1>12. PushersRun'
  BY DEF ReinitUnlisted, PushersRun
<1>. QED BY <1>3, <1>4, <1>5, <1>6, <1>7, <1>8, <1>9, <1>10, <1>11, <1>12

LEMMA FinishWriteKeeps == ASSUME LockInv, NEW w \in Writers, FinishWrite(w) PROVE LockInv'
<1> USE RWLockAssumption DEF LockInv, Types, Threads, listVars, writerVars, Goto, AccessFree,
        LinkedPC, ReaderHoldPC, WriterHoldPC, AwaitPC, ClaimPC, PushPC, HolderAt
<1>1. pc[w] = "finish" /\ \A t \in Threads : pc'[t] = IF t = w THEN "meet" ELSE pc[t]
  BY DEF FinishWrite
<1>2. BeforeEnd' = BeforeEnd
  BY DEF BeforeEnd, FinishWrite
<1>3. Types'
  BY <1>1 DEF FinishWrite, Types
<1>4. ListsInjective'
  BY <1>1 DEF FinishWrite, ListsInjective
<1>5. ReadsPlaced'
  BY <1>1, <1>2 DEF FinishWrite, ReadsPlaced
<1>6. LockHeld'
  BY <1>1 DEF FinishWrite, LockHeld, Writes, NoReads
<1>7. ReadsCovered'
  BY <1>1 DEF FinishWrite, ReadsCovered, NoReads, ReadsPlaced
<1>8. ClaimsKept'
  BY DEF FinishWrite, ClaimsKept
<1>9. WaitsMatch'
  BY <1>1 DEF FinishWrite, WaitsMatch, WowMatch, OneWaiter, ReadersWait, WritersWait, StartWait
<1>10. TagsMatch'
  BY <1>1 DEF FinishWrite, TagsMatch, ReadsPlaced
<1>11. ReadersQueue'
  BY QueueStays DEF FinishWrite, StartWait
<1>12. PushersRun'
  BY DEF FinishWrite, PushersRun
<1>. QED BY <1>3, <1>4, <1>5, <1>6, <1>7, <1>8, <1>9, <1>10, <1>11, <1>12

LEMMA WrLockReturnKeeps == ASSUME LockInv, NEW w \in Writers, WrLockReturn(w) PROVE LockInv'
<1> USE RWLockAssumption DEF LockInv, Types, Threads, listVars, writerVars, Goto, AccessFree,
        LinkedPC, ReaderHoldPC, WriterHoldPC, AwaitPC, ClaimPC, PushPC, HolderAt
<1>1. pc[w] = "meet" /\ \A t \in Threads : pc'[t] = IF t = w THEN "writing" ELSE pc[t]
  BY DEF WrLockReturn
<1>2. BeforeEnd' = BeforeEnd
  BY DEF BeforeEnd, WrLockReturn
<1>3. Types'
  BY <1>1 DEF WrLockReturn, Types
<1>4. ListsInjective'
  BY <1>1 DEF WrLockReturn, ListsInjective
<1>5. ReadsPlaced'
  BY <1>1, <1>2 DEF WrLockReturn, ReadsPlaced
<1>6. LockHeld'
  BY <1>1 DEF WrLockReturn, LockHeld, Writes, NoReads
<1>7. ReadsCovered'
  BY <1>1 DEF WrLockReturn, ReadsCovered, NoReads, ReadsPlaced
<1>8. ClaimsKept'
  BY DEF WrLockReturn, ClaimsKept
<1>9. WaitsMatch'
  BY <1>1 DEF WrLockReturn, WaitsMatch, WowMatch, OneWaiter, ReadersWait, WritersWait,
     StartWait, EndWait, NoWaiter, ClaimsKept, ReadersQueue, WaitingLine, WaitingReaders,
     ReadsPlaced, TagsMatch
<1>10. TagsMatch'
  BY <1>1 DEF WrLockReturn, TagsMatch, ReadsPlaced
<1>11. ReadersQueue'
  BY QueueStays DEF WrLockReturn, StartWait
<1>12. PushersRun'
  BY DEF WrLockReturn, PushersRun
<1>. QED BY <1>3, <1>4, <1>5, <1>6, <1>7, <1>8, <1>9, <1>10, <1>11, <1>12

LEMMA WrUnlockKeeps == ASSUME LockInv, NEW w \in Writers, WrUnlock(w) PROVE LockInv'
<1> USE RWLockAssumption DEF LockInv, Types, Threads, listVars, writerVars, Goto, AccessFree,
        LinkedPC, ReaderHoldPC, WriterHoldPC, AwaitPC, ClaimPC, PushPC, HolderAt
<1>1. pc[w] = "writing" /\ \A t \in Threads : pc'[t] = IF t = w THEN "idle" ELSE pc[t]
  BY DEF WrUnlock
<1>2. accessLock = w /\ accessLock \notin Readers /\ accessLock' = Nobody /\ NoReads
  BY DEF WrUnlock, LockHeld, Writes
<1>4. Types'
  BY <1>1, <1>2 DEF WrUnlock, Types
<1>5. ListsInjective'
  BY <1>1, <1>2 DEF WrUnlock, ListsInjective
<1>6. ReadsPlaced'
  BY DEF WrUnlock, ReadsPlaced, LockHeld
<1>7. LockHeld'
  BY DEF WrUnlock, LockHeld, Writes, NoReads
<1>8. ReadsCovered'
  BY <1>1, <1>2 DEF WrUnlock, ReadsCovered, NoReads, ReadsPlaced
<1>9. ClaimsKept'
  BY DEF WrUnlock, ClaimsKept, LockHeld, Served
<1>10. WaitsMatch'
  BY <1>1, <1>2 DEF WrUnlock, WaitsMatch, WowMatch, OneWaiter, ReadersWait, WritersWait, StartWait
<1>11. TagsMatch'
  BY <1>1, <1>2 DEF WrUnlock, TagsMatch
<1>12. ReadersQueue'
  BY <1>2, QueueStays DEF WrUnlock
<1>13. PushersRun'
  BY DEF WrUnlock, PushersRun, TagsMatch, LockHeld
<1>. QED BY <1>4, <1>5, <1>6, <1>7, <1>8, <1>9, <1>10, <1>11, <1>12, <1>13

LEMMA TryWrLockKeeps == ASSUME LockInv, NEW w \in Writers, TryWrLock(w) PROVE LockInv'
<1> USE RWLockAssumption DEF LockInv, Types, Threads, listVars, writerVars, Goto, AccessFree,
        LinkedPC, ReaderHoldPC, WriterHoldPC, AwaitPC, ClaimPC, PushPC, HolderAt
<1>1. pc[w] = "tryWrite" /\ \A t \in Threads : pc'[t] = IF t = w THEN "writing" ELSE pc[t]
  BY DEF TryWrLock
<1>2. ahead' \in [Readers -> SUBSET Writers] /\ \A u \in Readers : ahead'[u] = ahead[u] \ {w}
  BY ServedTyped DEF TryWrLock, LockInv, Types
<1>4. Types'
  BY <1>1, <1>2 DEF TryWrLock, Types
<1>5. ListsInjective'
  BY <1>1, <1>2 DEF TryWrLock, ListsInjective
<1>6. ReadsPlaced'
  BY DEF TryWrLock, ReadsPlaced
<1>7. LockHeld'
  BY DEF TryWrLock, LockHeld, Writes, NoReads
<1>8. ReadsCovered'
  BY DEF TryWrLock, ReadsCovered, NoReads, ReadsPlaced
<1>9. ClaimsKept'
  BY DEF TryWrLock, ClaimsKept, LockHeld, Served
<1>10. WaitsMatch'
  BY <1>1, <1>2 DEF TryWrLock, WaitsMatch, WowMatch, OneWaiter, ReadersWait, WritersWait,
     StartWait
<1>11. TagsMatch'
  BY <1>1, <1>2 DEF TryWrLock, TagsMatch
<1>12. ReadersQueue'
  BY <1>2, QueueStays DEF TryWrLock
<1>13. PushersRun'
  BY DEF TryWrLock, PushersRun, TagsMatch, LockHeld
<1>. QED BY <1>4, <1>5, <1>6, <1>7, <1>8, <1>9, <1>10, <1>11, <1>12, <1>13

-----------------------------------------------------------------------------
(* The steps of the readers.                                                 *)
LEMMA RdLockCallKeeps == ASSUME LockInv, NEW r \in Readers, RdLockCall(r) PROVE LockInv'
<1> USE RWLockAssumption DEF LockInv, Types, Threads, listVars, writerVars, Goto, AccessFree,
        LinkedPC, ReaderHoldPC, WriterHoldPC, AwaitPC, ClaimPC, PushPC, HolderAt
<1>1. /\ pc[r] = "idle" /\ pc'[r] = IF writes = << >> THEN "express" ELSE "await"
      /\ \A t \in Threads : t # r => pc'[t] = pc[t]
  BY DEF RdLockCall
<1>2. /\ wow' \in [Threads -> {"none", "worker", "waiter"}]
      /\ \A t \in Threads : wow'[t] = IF t = r THEN "worker" ELSE wow[t]
  BY WowSet DEF RdLockCall
<1>3. /\ ahead' \in [Readers -> SUBSET Writers]
      /\ \A u \in Readers : ahead'[u] = IF u = r THEN ToSet(writes) \ {accessLock} ELSE ahead[u]
  <2>1. ToSet(writes) \ {accessLock} \in SUBSET Writers
    BY ListIndices
  <2>. QED BY <2>1 DEF RdLockCall
<1>4. ToSet(writes) \ {accessLock} # {} => pc'[r] \in AwaitPC
  BY <1>1, EmptyList
<1>5. r \notin beingWaited /\ \A t \in Threads : target[t] # r
  <2>1. r \notin beingWaited
    BY DEF RdLockCall, HasAnyTag, HasTag
  <2>. QED BY <1>1, <2>1, NobodyWaitsForReader DEF QueuePC, LeadPC
<1>6. seen' \in [Readers -> Readers \cup {Nobody}]
  BY LastExpressIs DEF RdLockCall
<1>7. BeforeEnd' = BeforeEnd
  BY DEF BeforeEnd, RdLockCall
<1>8. Types'
  BY <1>3, <1>4, <1>5, <1>6 DEF RdLockCall, Types
<1>9. ListsInjective'
  BY DEF RdLockCall, ListsInjective
<1>10. ReadsPlaced'
  BY <1>7 DEF RdLockCall, ReadsPlaced
<1>11. LockHeld'
  BY <1>6 DEF RdLockCall, LockHeld, Writes, NoReads
<1>12. ReadsCovered'
  BY <1>6 DEF RdLockCall, ReadsCovered, NoReads, ReadsPlaced
<1>13. ClaimsKept'
  BY <1>4, <1>5, <1>6 DEF RdLockCall, ClaimsKept, LockHeld, Served
<1>14. WaitsMatch'
  BY <1>1, <1>2, <1>3, <1>4, <1>5, <1>6 DEF RdLockCall, WaitsMatch, WowMatch, OneWaiter,
     ReadersWait, WritersWait, StartWait, EndWait, NoWaiter, ClaimsKept, ReadersQueue,
     WaitingLine, WaitingReaders, ReadsPlaced, TagsMatch
<1>15. TagsMatch'
  BY <1>4, <1>5, <1>6 DEF RdLockCall, TagsMatch, ReadsPlaced, WaitsMatch
<1>16. ReadersQueue'
  BY QueueStays DEF RdLockCall, StartWait, EndWait, QueuePC, LeadPC
<1>17. PushersRun'
  BY PushersStay DEF RdLockCall
<1>. QED BY <1>8, <1>9, <1>10, <1>11, <1>12, <1>13, <1>14, <1>15, <1>16, <1>17

LEMMA PushExpressKeeps == ASSUME LockInv, NEW r \in Readers, PushExpress(r) PROVE LockInv'
<1> USE RWLockAssumption DEF LockInv, Types, Threads, listVars, writerVars, Goto, AccessFree,
        LinkedPC, ReaderHoldPC, WriterHoldPC, AwaitPC, ClaimPC, PushPC, HolderAt
<1>1. pc[r] = "express" /\ \A t \in Threads : pc'[t] = IF t = r THEN "check" ELSE pc[t]
  BY DEF PushExpress
<1>2. UNCHANGED <<acquired, writes, waitReads, waitDrain, extracted, accessLock, pushLock,
                  outdated, till, wow, beingWaited, target, ahead>>
  BY DEF PushExpress
<1>3. r \notin ToSet(acquired) \cup ToSet(express) \cup ToSet(extracted)
  BY <1>1 DEF ReadsPlaced
<1>4. /\ express' \in Seq(Readers) /\ IsInjective(express') /\ ToSet(express') = ToSet(express) \cup {r}
      /\ seen' \in [Readers -> Readers \cup {Nobody}]
  BY <1>3, AppendToList DEF PushExpress, ListsInjective
<1>5. DOMAIN pc' = Threads
  BY DEF PushExpress
<1>7. Types'
  BY <1>1, <1>2, <1>3, <1>4, <1>5 DEF Types, EndsIn
<1>8. ListsInjective'
  BY <1>1, <1>2, <1>3, <1>4, <1>5 DEF ListsInjective, EndsIn
<1>9. ReadsPlaced'
  <2>1. pc[r] = "express" /\ accessLock # r
    BY <1>1 DEF LockHeld
  <2>2. BeforeEnd' = BeforeEnd
    BY <1>2 DEF BeforeEnd
  <2>3. ASSUME NEW p \in {"swapLinked", "link"} PROVE HolderAt(p)' <=> HolderAt(p)
    BY <1>1, <1>2, <2>1
  <2>4. ASSUME NEW u \in Readers
        PROVE  /\ u \in ToSet(acquired) => pc'[u] \in LinkedPC \cup {"swapOwn", "unlinkTried"}
               /\ u \in ToSet(express') \cup ToSet(extracted) => pc'[u] \in LinkedPC
               /\ pc'[u] \in LinkedPC => u \in ToSet(acquired) \cup ToSet(express') \cup ToSet(extracted)
               /\ pc'[u] \in {"swapOwn", "unlinkTried"} => u \in ToSet(acquired)
               /\ u \in ToSet(acquired) \cap ToSet(express') => HolderAt("swapLinked") /\ u = Last(BeforeEnd)
    <3>1. CASE u = r
      BY <1>1, <1>3, <1>4, <3>1
    <3>2. CASE u # r
      <4>1. pc'[u] = pc[u]
        BY <1>1, <3>2
      <4>. QED BY <1>4, <3>2, <4>1 DEF ReadsPlaced
    <3>. QED BY <3>1, <3>2
  <2>5. ToSet(extracted) \cap (ToSet(acquired) \cup ToSet(express')) = {}
    BY <1>3, <1>4 DEF ReadsPlaced
  <2>6. UNCHANGED <<acquired, extracted>>
    BY <1>2
  <2>7. HolderAt("swapLinked")' => BeforeEnd' # << >> /\ Last(BeforeEnd') \in ToSet(express')
    BY <1>4, <2>2, <2>3 DEF ReadsPlaced
  <2>8. (extracted # << >> => HolderAt("link")')
    BY <2>3 DEF ReadsPlaced
  <2>. HIDE DEF HolderAt, LinkedPC
  <2>. QED BY <2>2, <2>3, <2>4, <2>5, <2>6, <2>7, <2>8 DEF ReadsPlaced
<1>10. LockHeld'
  BY <1>1, <1>2, <1>3, <1>4, <1>5 DEF LockHeld, Writes, NoReads
<1>11. ReadsCovered'
  BY <1>1, <1>2, <1>3, <1>4, <1>5 DEF ReadsCovered, NoReads, ReadsPlaced
<1>12. ClaimsKept'
  BY <1>1, <1>2, <1>3, <1>4, <1>5 DEF ClaimsKept, LockHeld, Served
<1>13. WaitsMatch'
  BY WaitsStay DEF PushExpress, QueuePC, LeadPC
<1>14. TagsMatch'
  BY <1>1, <1>2, <1>3, <1>4, <1>5 DEF TagsMatch, ReadsPlaced, WaitsMatch, WowMatch, OneWaiter,
     ReadersWait, WritersWait, StartWait, EndWait, HasTag, HasAnyTag, WithTag, WithoutTags
<1>15. ReadersQueue'
  BY <1>4, <1>5, QueueStays DEF PushExpress, StartWait, EndWait, QueuePC, LeadPC
<1>16. PushersRun'
  BY PushersStay DEF PushExpress
<1>. QED BY <1>7, <1>8, <1>9, <1>10, <1>11, <1>12, <1>13, <1>14, <1>15, <1>16

LEMMA PushFailedKeeps == ASSUME LockInv, NEW r \in Readers, PushFailed(r) PROVE LockInv'
<1> USE RWLockAssumption DEF LockInv, Types, Threads, listVars, writerVars, Goto, AccessFree,
        LinkedPC, ReaderHoldPC, WriterHoldPC, AwaitPC, ClaimPC, PushPC, HolderAt
<1>1. /\ pc[r] = "express" /\ pc'[r] \in {"express", "lockPlain"}
      /\ \A t \in Threads : t # r => pc'[t] = pc[t]
  BY DEF PushFailed
<1>2. seen' \in [Readers -> Readers \cup {Nobody}]
  BY LastExpressIs DEF PushFailed
<1>3. DOMAIN pc' = Threads
  BY DEF PushFailed
<1>4. BeforeEnd' = BeforeEnd
  BY DEF BeforeEnd, PushFailed
<1>5. Types'
  BY <1>1, <1>2, <1>3 DEF PushFailed, Types
<1>6. ListsInjective'
  BY DEF PushFailed, ListsInjective
<1>7. ReadsPlaced'
  BY <1>3, <1>4 DEF PushFailed, ReadsPlaced
<1>8. LockHeld'
  BY <1>3 DEF PushFailed, LockHeld, Writes, NoReads
<1>9. ReadsCovered'
  BY <1>3 DEF PushFailed, ReadsCovered, NoReads, ReadsPlaced
<1>10. ClaimsKept'
  BY <1>1, <1>2, <1>3 DEF PushFailed, ClaimsKept, LockHeld, Served
<1>11. WaitsMatch'
  BY <1>3, WaitsStay DEF PushFailed, QueuePC, LeadPC
<1>12. TagsMatch'
  BY <1>1, <1>2, <1>3 DEF PushFailed, TagsMatch, ReadsPlaced, WaitsMatch, WowMatch, OneWaiter,
     ReadersWait, WritersWait, StartWait, EndWait, HasTag, HasAnyTag, WithTag, WithoutTags
<1>13. ReadersQueue'
  BY QueueStays DEF PushFailed, StartWait, EndWait, QueuePC, LeadPC
<1>14. PushersRun'
  BY PushersStay DEF PushFailed
<1>. QED BY <1>5, <1>6, <1>7, <1>8, <1>9, <1>10, <1>11, <1>12, <1>13, <1>14

LEMMA CheckReadsKeeps == ASSUME LockInv, NEW r \in Readers, CheckReads(r) PROVE LockInv'
<1> USE RWLockAssumption DEF LockInv, Types, Threads, listVars, writerVars, Goto, AccessFree,
        LinkedPC, ReaderHoldPC, WriterHoldPC, AwaitPC, ClaimPC, PushPC, HolderAt
<1>1. /\ pc[r] = "check" /\ pc'[r] \in {"reading", "lockLinked", "checkTail"}
      /\ \A t \in Threads : t # r => pc'[t] = pc[t]
  BY DEF CheckReads
<1>2. EndsIn(acquired)
  BY DEF EndsIn, ListsInjective
<1>3. pc'[r] = "reading" => ~NoReads
  BY <1>2, BeforeEndReads DEF CheckReads
<1>4. BeforeEnd' = BeforeEnd
  BY DEF BeforeEnd, CheckReads
<1>5. Types'
  BY DEF CheckReads
<1>6. ListsInjective'
  BY DEF CheckReads, ListsInjective
<1>7. ReadsPlaced'
  BY <1>4 DEF CheckReads, ReadsPlaced
<1>8. LockHeld'
  BY <1>3 DEF CheckReads, LockHeld, Writes, NoReads
<1>9. ReadsCovered'
  BY <1>3 DEF CheckReads, ReadsCovered, NoReads, ReadsPlaced
<1>10. ClaimsKept'
  BY <1>3 DEF CheckReads, ClaimsKept, LockHeld, Served
<1>11. WaitsMatch'
  BY <1>3, WaitsStay DEF CheckReads, QueuePC, LeadPC
<1>12. TagsMatch'
  BY <1>1, <1>2, <1>3 DEF CheckReads, TagsMatch
<1>13. ReadersQueue'
  BY QueueStays DEF CheckReads, StartWait, EndWait, QueuePC, LeadPC
<1>14. PushersRun'
  BY PushersStay DEF CheckReads
<1>. QED BY <1>5, <1>6, <1>7, <1>8, <1>9, <1>10, <1>11, <1>12, <1>13, <1>14

LEMMA LockLinkedKeeps == ASSUME LockInv, NEW r \in Readers, LockLinked(r) PROVE LockInv'
<1> USE RWLockAssumption DEF LockInv, Types, Threads, listVars, writerVars, Goto, AccessFree,
        LinkedPC, ReaderHoldPC, WriterHoldPC, AwaitPC, ClaimPC, PushPC, HolderAt
<1>1. pc[r] = "lockLinked" /\ \A t \in Threads : pc'[t] = IF t = r THEN "commitLinked" ELSE pc[t]
  BY DEF LockLinked
<1>2. BeforeEnd' = BeforeEnd
  BY DEF BeforeEnd, LockLinked
<1>3. Types'
  BY <1>1 DEF LockLinked, Types
<1>4. ListsInjective'
  BY <1>1 DEF LockLinked, ListsInjective
<1>5. ReadsPlaced'
  BY <1>1, <1>2 DEF LockLinked, ReadsPlaced
<1>6. LockHeld'
  BY <1>1 DEF LockLinked, LockHeld, Writes, NoReads
<1>7. ReadsCovered'
  BY <1>1 DEF LockLinked, ReadsCovered, NoReads, ReadsPlaced
<1>8. ClaimsKept'
  BY DEF LockLinked, ClaimsKept
<1>9. WaitsMatch'
  BY <1>1, WaitsStay DEF LockLinked, QueuePC, LeadPC
<1>10. TagsMatch'
  BY <1>1 DEF LockLinked, TagsMatch, ReadsPlaced
<1>11. ReadersQueue'
  BY <1>1, QueueStays DEF LockLinked, StartWait, EndWait, QueuePC, LeadPC
<1>12. PushersRun'
  BY <1>1, PushersStay DEF LockLinked
<1>. QED BY <1>3, <1>4, <1>5, <1>6, <1>7, <1>8, <1>9, <1>10, <1>11, <1>12

LEMMA LockPlainKeeps == ASSUME LockInv, NEW r \in Readers, LockPlain(r) PROVE LockInv'
<1> USE RWLockAssumption DEF LockInv, Types, Threads, listVars, writerVars, Goto, AccessFree,
        LinkedPC, ReaderHoldPC, WriterHoldPC, AwaitPC, ClaimPC, PushPC, HolderAt
<1>1. /\ pc[r] = "lockPlain" /\ accessLock = Nobody /\ DOMAIN pc' = Threads
      /\ \A t \in Threads : t # r => pc'[t] = pc[t]
  BY DEF LockPlain
<1>2. \/ pc'[r] = "commitOwn" /\ accessLock' = r /\ writes = << >>
      \/ pc'[r] = "await" /\ accessLock' = Nobody
  BY DEF LockPlain
<1>3. BeforeEnd' = BeforeEnd
  BY DEF BeforeEnd, LockPlain
<1>4. Types'
  BY <1>1, <1>2 DEF LockPlain, Types
<1>5. ListsInjective'
  BY <1>1, <1>2 DEF LockPlain, ListsInjective
<1>6. ReadsPlaced'
  BY <1>1, <1>2, <1>3 DEF LockPlain, ReadsPlaced
<1>7. LockHeld'
  BY DEF LockPlain, LockHeld, Writes, NoReads
<1>8. ReadsCovered'
  BY DEF LockPlain, ReadsCovered, NoReads, ReadsPlaced
<1>9. ClaimsKept'
  <2>1. ToSet(writes) \subseteq Writers /\ accessLock' \notin Writers
    BY <1>1, <1>2, ListIndices
  <2>2. ASSUME NEW u \in Readers
        PROVE  ahead[u] \subseteq ToSet(writes) \ {accessLock'} /\ (ahead[u] # {} => pc'[u] \in AwaitPC)
    <3>1. ahead[u] \subseteq ToSet(writes) \ {accessLock'}
      BY <2>1 DEF ClaimsKept
    <3>2. CASE u = r
      BY <1>2, <3>1, <3>2, EmptyList
    <3>3. CASE u # r
      <4>1. pc'[u] = pc[u]
        BY <1>1, <3>3
      <4>. QED BY <3>1, <4>1 DEF ClaimsKept
    <3>. QED BY <3>1, <3>2, <3>3
  <2>3. \A w \in Writers : pc'[w] = pc[w]
    BY <1>1
  <2>. QED BY <2>2, <2>3 DEF LockPlain, ClaimsKept
<1>10. WaitsMatch'
  BY WaitsStay DEF LockPlain, QueuePC, LeadPC
<1>11. TagsMatch'
  BY <1>1, <1>2 DEF LockPlain, TagsMatch, ReadsPlaced, WaitsMatch, WowMatch, OneWaiter,
     ReadersWait, WritersWait, StartWait, EndWait, HasTag, HasAnyTag, WithTag, WithoutTags
<1>12. ReadersQueue'
  BY QueueStays DEF LockPlain, QueuePC, LeadPC
<1>13. PushersRun'
  BY <1>1, <1>2, PushersStay DEF LockPlain
<1>. QED BY <1>4, <1>5, <1>6, <1>7, <1>8, <1>9, <1>10, <1>11, <1>12, <1>13

LEMMA CommittedByOtherKeeps == ASSUME LockInv, NEW r \in Readers, CommittedByOther(r) PROVE LockInv'
<1> USE RWLockAssumption DEF LockInv, Types, Threads, listVars, writerVars, Goto, AccessFree,
        LinkedPC, ReaderHoldPC, WriterHoldPC, AwaitPC, ClaimPC, PushPC, HolderAt
<1>1. pc[r] = "commitLinked" /\ \A t \in Threads : pc'[t] = IF t = r THEN "reading" ELSE pc[t]
  BY DEF CommittedByOther
<1>2. accessLock = r /\ ToSet(express) = {} /\ ToSet(extracted) = {}
  BY DEF CommittedByOther, LockHeld, ReadsPlaced
<1>4. Types'
  BY <1>1, <1>2 DEF CommittedByOther, Types
<1>5. ListsInjective'
  BY <1>1, <1>2 DEF CommittedByOther, ListsInjective
<1>6. ReadsPlaced'
  BY DEF CommittedByOther, ReadsPlaced, LockHeld
<1>7. LockHeld'
  BY DEF CommittedByOther, LockHeld, Writes, NoReads
<1>8. ReadsCovered'
  BY <1>1, <1>2 DEF CommittedByOther, ReadsCovered, NoReads, ReadsPlaced
<1>9. ClaimsKept'
  BY DEF CommittedByOther, ClaimsKept, LockHeld, Served
<1>10. WaitsMatch'
  BY WaitsStay DEF CommittedByOther, QueuePC, LeadPC
<1>11. TagsMatch'
  BY <1>1, <1>2 DEF CommittedByOther, TagsMatch
<1>12. ReadersQueue'
  BY QueueStays DEF CommittedByOther, StartWait, EndWait, QueuePC, LeadPC
<1>13. PushersRun'
  BY <1>1, <1>2, PushersStay DEF CommittedByOther
<1>. QED BY <1>4, <1>5, <1>6, <1>7, <1>8, <1>9, <1>10, <1>11, <1>12, <1>13

LEMMA CommitLinkedKeeps == ASSUME LockInv, NEW r \in Readers, CommitLinked(r) PROVE LockInv'
<1> USE RWLockAssumption DEF LockInv, Types, Threads, listVars, writerVars, Goto, AccessFree,
        LinkedPC, ReaderHoldPC, WriterHoldPC, AwaitPC, ClaimPC, PushPC, HolderAt
<1>1. pc[r] = "commitLinked" /\ \A t \in Threads : pc'[t] = IF t = r THEN "swapLinked" ELSE pc[t]
  BY DEF CommitLinked
<1>2. UNCHANGED <<express, writes, waitReads, waitDrain, extracted, accessLock, pushLock, till,
                  wow, beingWaited, target, seen, ahead>>
  BY DEF CommitLinked
<1>3. accessLock = r /\ ToSet(extracted) = {}
  BY <1>1, EmptyList DEF CommitLinked, LockHeld, ReadsPlaced
<1>4. EndsIn(acquired)
  BY DEF EndsIn, ListsInjective
<1>5. PICK x \in Readers : x \in ToSet(express) \ ToSet(acquired) /\ x = LastExpress
  <2>1. LastExpress \in Readers /\ LastExpress \in ToSet(express)
    BY LastItem DEF CommitLinked, LastExpress
  <2>. QED BY <1>1, <1>3, <2>1 DEF ReadsPlaced
<1>6. /\ EndsIn(acquired') /\ ToSet(acquired') = ToSet(acquired) \cup {x}
      /\ BeforeEnd' # << >> /\ Last(BeforeEnd') = x
  BY <1>4, <1>5, LinkOne DEF CommitLinked
<1>7. ~NoReads'
  BY <1>5, <1>6, ReadsThereThen
<1>8. outdated' \subseteq Writers
  BY DEF CommitLinked, CountCommit
<1>9. DOMAIN pc' = Threads
  BY DEF CommitLinked
<1>10. Types'
  BY <1>1, <1>2, <1>3, <1>4, <1>5, <1>6, <1>7, <1>8, <1>9 DEF Types, EndsIn
<1>11. ListsInjective'
  BY <1>1, <1>2, <1>3, <1>4, <1>5, <1>6, <1>7, <1>8, <1>9 DEF ListsInjective, EndsIn
<1>12. ReadsPlaced'
  BY <1>1, <1>2, <1>3, <1>4, <1>5, <1>6, <1>7, <1>8, <1>9 DEF ReadsPlaced
<1>13. LockHeld'
  BY <1>1, <1>2, <1>3, <1>7, <1>8, <1>9 DEF LockHeld, Writes, NoReads
<1>14. ReadsCovered'
  BY <1>7, <1>8, <1>9 DEF ReadsCovered, NoReads, ReadsPlaced
<1>15. ClaimsKept'
  BY <1>1, <1>2, <1>3, <1>4, <1>5, <1>6, <1>7, <1>8, <1>9 DEF ClaimsKept, LockHeld, Served
<1>16. WaitsMatch'
  BY WaitsStay DEF CommitLinked, QueuePC, LeadPC
<1>17. TagsMatch'
  BY <1>1, <1>2, <1>3, <1>4, <1>5, <1>6, <1>7, <1>8, <1>9 DEF TagsMatch, ReadsPlaced,
     WaitsMatch, WowMatch, OneWaiter, ReadersWait, WritersWait, StartWait, EndWait, HasTag,
     HasAnyTag, WithTag, WithoutTags
<1>18. ReadersQueue'
  BY <1>9, QueueStays DEF CommitLinked, StartWait, EndWait, QueuePC, LeadPC
<1>19. PushersRun'
  BY PushersStay DEF CommitLinked
<1>. QED BY <1>10, <1>11, <1>12, <1>13, <1>14, <1>15, <1>16, <1>17, <1>18, <1>19

LEMMA SwapLinkedKeeps == ASSUME LockInv, NEW r \in Readers, SwapLinked(r) PROVE LockInv'
<1> USE RWLockAssumption DEF LockInv, Types, Threads, listVars, writerVars, Goto, AccessFree,
        LinkedPC, ReaderHoldPC, WriterHoldPC, AwaitPC, ClaimPC, PushPC, HolderAt
<1>1. pc[r] = "swapLinked" /\ \A t \in Threads : pc'[t] = IF t = r THEN "reading" ELSE pc[t]
  BY DEF SwapLinked
<1>2. UNCHANGED <<writes, waitReads, waitDrain, extracted, pushLock, outdated, till, wow,
                  beingWaited, target, seen, ahead>>
  BY DEF SwapLinked
<1>3. accessLock = r /\ accessLock' = Nobody /\ ToSet(extracted) = {}
  BY <1>1, EmptyList DEF SwapLinked, LockHeld, ReadsPlaced
<1>4. EndsIn(acquired)
  BY DEF EndsIn, ListsInjective
<1>5. PICK x : x = Last(BeforeEnd) /\ x \in ToSet(express) /\ x \in ToSet(acquired)
  BY <1>1, <1>3, <1>4, BeforeEndReads DEF ReadsPlaced
<1>6. PICK items \in Seq(Readers) : /\ acquired' = Linked(items) /\ IsInjective(items)
                                      /\ ToSet(items) = ToSet(express) \ {x}
  BY <1>5, RemoveFromList DEF SwapLinked, ListsInjective
<1>7. ToSet(items) \cap ToSet(acquired) = {}
  BY <1>5, <1>6, ListIndices DEF ReadsPlaced
<1>8. EndsIn(acquired') /\ ToSet(acquired') = ToSet(acquired) \cup ToSet(express)
  BY <1>4, <1>5, <1>6, <1>7, LinkStep
<1>9. express' = << >> /\ ToSet(express') = {} /\ IsInjective(express')
  BY EmptyList DEF SwapLinked
<1>10. DOMAIN pc' = Threads
  BY DEF SwapLinked
<1>11. Types'
  BY <1>1, <1>2, <1>3, <1>7, <1>8, <1>9, <1>10 DEF Types, EndsIn
<1>12. ListsInjective'
  BY <1>1, <1>2, <1>3, <1>7, <1>8, <1>9, <1>10 DEF ListsInjective, EndsIn
<1>13. ReadsPlaced'
  BY <1>1, <1>2, <1>3, <1>7, <1>8, <1>9, <1>10 DEF ReadsPlaced
<1>14. LockHeld'
  BY <1>1, <1>2, <1>3, <1>4, <1>5, <1>6, <1>7, <1>8, <1>9, <1>10 DEF LockHeld, Writes, NoReads
<1>15. ReadsCovered'
  BY <1>8, <1>9, <1>10 DEF ReadsCovered, NoReads, ReadsPlaced
<1>16. ClaimsKept'
  <2>1. accessLock' \notin Writers
    BY <1>1, <1>2, <1>3
  <2>2. \A w \in Writers : pc'[w] = pc[w]
    BY <1>1
  <2>3. \A u \in Readers : pc[u] \in AwaitPC => pc'[u] = pc[u]
    BY <1>1
  <2>4. UNCHANGED <<writes, till, ahead>>
    BY <1>2
  <2>. QED BY <2>1, <2>2, <2>3, <2>4, ClaimsStay
<1>17. WaitsMatch'
  BY <1>10, WaitsStay DEF SwapLinked, QueuePC, LeadPC
<1>18. TagsMatch'
  BY <1>1, <1>2, <1>3, <1>4, <1>5, <1>6, <1>7, <1>8, <1>9, <1>10 DEF TagsMatch, ReadsPlaced,
     WaitsMatch, WowMatch, OneWaiter, ReadersWait, WritersWait, StartWait, EndWait, HasTag,
     HasAnyTag, WithTag, WithoutTags
<1>19. ReadersQueue'
  BY QueueStays DEF SwapLinked, StartWait, EndWait, QueuePC, LeadPC
<1>20. PushersRun'
  BY <1>10, PushersStay DEF SwapLinked
<1>. QED BY <1>11, <1>12, <1>13, <1>14, <1>15, <1>16, <1>17, <1>18, <1>19, <1>20

LEMMA CommitOwnKeeps == ASSUME LockInv, NEW r \in Readers, CommitOwn(r) PROVE LockInv'
<1> USE RWLockAssumption DEF LockInv, Types, Threads, listVars, writerVars, Goto, AccessFree,
        LinkedPC, ReaderHoldPC, WriterHoldPC, AwaitPC, ClaimPC, PushPC, HolderAt
<1>1. pc[r] = "commitOwn" /\ \A t \in Threads : pc'[t] = IF t = r THEN "swapOwn" ELSE pc[t]
  BY DEF CommitOwn
<1>2. UNCHANGED <<express, writes, waitReads, waitDrain, extracted, accessLock, pushLock, till,
                  wow, beingWaited, target, seen, ahead>>
  BY DEF CommitOwn
<1>3. accessLock = r /\ ToSet(extracted) = {}
  BY <1>1, EmptyList DEF CommitOwn, LockHeld, ReadsPlaced
<1>4. EndsIn(acquired)
  BY DEF EndsIn, ListsInjective
<1>5. r \notin ToSet(acquired) /\ r \notin ToSet(express)
  BY <1>1 DEF ReadsPlaced
<1>6. EndsIn(acquired') /\ ToSet(acquired') = ToSet(acquired) \cup {r}
  BY <1>4, <1>5, LinkOne DEF CommitOwn
<1>7. ~NoReads'
  BY <1>6, ReadsThereThen
<1>8. outdated' \subseteq Writers
  BY DEF CommitOwn, CountCommit
<1>9. DOMAIN pc' = Threads
  BY DEF CommitOwn
<1>10. Types'
  BY <1>1, <1>2, <1>3, <1>4, <1>5, <1>6, <1>7, <1>8, <1>9 DEF Types, EndsIn
<1>11. ListsInjective'
  BY <1>1, <1>2, <1>3, <1>4, <1>5, <1>6, <1>7, <1>8, <1>9 DEF ListsInjective, EndsIn
<1>12. ReadsPlaced'
  BY <1>1, <1>2, <1>3, <1>4, <1>5, <1>6, <1>7, <1>8, <1>9 DEF ReadsPlaced
<1>13. LockHeld'
  BY <1>1, <1>2, <1>3, <1>7, <1>8, <1>9 DEF LockHeld, Writes, NoReads
<1>14. ReadsCovered'
  BY <1>7, <1>8, <1>9 DEF ReadsCovered, NoReads, ReadsPlaced
<1>15. ClaimsKept'
  BY <1>1, <1>2, <1>3, <1>4, <1>5, <1>6, <1>7, <1>8, <1>9 DEF ClaimsKept, LockHeld, Served
<1>16. WaitsMatch'
  BY WaitsStay DEF CommitOwn, QueuePC, LeadPC
<1>17. TagsMatch'
  BY <1>1, <1>2, <1>3, <1>4, <1>5, <1>6, <1>7, <1>8, <1>9 DEF TagsMatch, ReadsPlaced
<1>18. ReadersQueue'
  BY <1>9, QueueStays DEF CommitOwn, StartWait, EndWait, QueuePC, LeadPC
<1>19. PushersRun'
  BY PushersStay DEF CommitOwn
<1>. QED BY <1>10, <1>11, <1>12, <1>13, <1>14, <1>15, <1>16, <1>17, <1>18, <1>19

LEMMA SwapOwnKeeps == ASSUME LockInv, NEW r \in Readers, SwapOwn(r) PROVE LockInv'
<1> USE RWLockAssumption DEF LockInv, Types, Threads, listVars, writerVars, Goto, AccessFree,
        LinkedPC, ReaderHoldPC, WriterHoldPC, AwaitPC, ClaimPC, PushPC, HolderAt
<1>1. pc[r] = "swapOwn" /\ \A t \in Threads : pc'[t] = IF t = r THEN "reading" ELSE pc[t]
  BY DEF SwapOwn
<1>2. UNCHANGED <<writes, waitReads, waitDrain, extracted, pushLock, outdated, till, wow,
                  beingWaited, target, seen, ahead>>
  BY DEF SwapOwn
<1>3. accessLock = r /\ accessLock' = Nobody /\ ToSet(extracted) = {}
  BY <1>1, EmptyList DEF SwapOwn, LockHeld, ReadsPlaced
<1>4. EndsIn(acquired)
  BY DEF EndsIn, ListsInjective
<1>5. ToSet(express) \cap ToSet(acquired) = {}
  BY <1>1, <1>3, ListIndices DEF ReadsPlaced
<1>6. EndsIn(acquired') /\ ToSet(acquired') = ToSet(acquired) \cup ToSet(express)
  BY <1>4, <1>5, LinkStep DEF SwapOwn, ListsInjective
<1>7. express' = << >> /\ ToSet(express') = {} /\ IsInjective(express')
  BY EmptyList DEF SwapOwn
<1>8. DOMAIN pc' = Threads
  BY DEF SwapOwn
<1>9. Types'
  BY <1>1, <1>2, <1>3, <1>4, <1>5, <1>6, <1>7, <1>8 DEF Types, EndsIn
<1>10. ListsInjective'
  BY <1>1, <1>2, <1>3, <1>4, <1>5, <1>6, <1>7, <1>8 DEF ListsInjective, EndsIn
<1>11. ReadsPlaced'
  BY <1>1, <1>2, <1>3, <1>4, <1>5, <1>6, <1>7, <1>8 DEF ReadsPlaced
<1>12. LockHeld'
  BY <1>1, <1>2, <1>3, <1>4, <1>5, <1>6, <1>7, <1>8 DEF LockHeld, Writes, NoReads
<1>13. ReadsCovered'
  BY <1>7, <1>8 DEF ReadsCovered
<1>14. ClaimsKept'
  <2>1. accessLock' \notin Writers
    BY <1>2, <1>3, <1>4
  <2>2. \A w \in Writers : pc'[w] = pc[w]
    BY <1>1
  <2>3. \A u \in Readers : pc[u] \in AwaitPC => pc'[u] = pc[u]
    BY <1>1
  <2>4. UNCHANGED <<writes, till, ahead>>
    BY <1>2
  <2>. QED BY <2>1, <2>2, <2>3, <2>4, ClaimsStay
<1>15. WaitsMatch'
  BY WaitsStay DEF SwapOwn, QueuePC, LeadPC
<1>16. TagsMatch'
  BY <1>1, <1>2, <1>3, <1>4, <1>5, <1>6, <1>7, <1>8 DEF TagsMatch, ReadsPlaced, WaitsMatch,
     WowMatch, OneWaiter, ReadersWait, WritersWait, StartWait, EndWait, HasTag, HasAnyTag,
     WithTag, WithoutTags
<1>17. ReadersQueue'
  BY <1>8, QueueStays DEF SwapOwn, StartWait, EndWait, QueuePC, LeadPC
<1>18. PushersRun'
  BY PushersStay DEF SwapOwn
<1>. QED BY <1>9, <1>10, <1>11, <1>12, <1>13, <1>14, <1>15, <1>16, <1>17, <1>18

LEMMA LeadReadsKeeps == ASSUME LockInv, NEW r \in Readers, LeadReads(r) PROVE LockInv'
<1> USE RWLockAssumption DEF LockInv, Types, Threads, listVars, writerVars, Goto, AccessFree,
        LinkedPC, ReaderHoldPC, WriterHoldPC, AwaitPC, ClaimPC, PushPC, HolderAt
<1>1. pc[r] = "await" /\ \A t \in Threads : pc'[t] = IF t = r THEN "lead" ELSE pc[t]
  BY DEF LeadReads
<1>2. /\ waitReads' \in Seq(Readers) /\ IsInjective(waitReads') /\ ToSet(waitReads') = {r}
      /\ r \notin ToSet(waitDrain)
  <2>1. r \notin ToSet(waitDrain)
    BY <1>1, NotQueued DEF QueuePC, LeadPC
  <2>2. ToSet(<< r >>) = {r}
    BY DEF ToSet
  <2>. QED BY <2>1, <2>2 DEF LeadReads, IsInjective
<1>3. UNCHANGED <<wow, target, till, beingWaited>>
  BY DEF LeadReads
<1>4. BeforeEnd' = BeforeEnd
  BY DEF BeforeEnd, LeadReads
<1>5. Types'
  BY DEF LeadReads
<1>6. ListsInjective'
  <2>1. UNCHANGED <<acquired, express, extracted, writes, beingWaited>>
    BY DEF LeadReads
  <2>2. ToSet(waitReads') \cap ToSet(waitDrain') = {}
    <3>1. waitDrain' = waitDrain
      BY DEF LeadReads
    <3>. QED BY <1>2, <3>1
  <2>3. IsInjective(waitReads') /\ IsInjective(waitDrain')
    BY <1>1, <1>2 DEF LeadReads, ListsInjective
  <2>. QED BY <2>1, <2>2, <2>3 DEF ListsInjective
<1>7. ReadsPlaced'
  BY <1>4 DEF LeadReads, ReadsPlaced
<1>8. LockHeld'
  BY <1>3 DEF LeadReads, LockHeld, Writes, NoReads
<1>9. ReadsCovered'
  BY <1>3 DEF LeadReads, ReadsCovered, NoReads, ReadsPlaced
<1>10. ClaimsKept'
  BY <1>3 DEF LeadReads, ClaimsKept, LockHeld, Served
<1>11. WaitsMatch'
  <2>1. WowMatch'
    BY <1>1, <1>2, <1>3 DEF WowMatch, WaitsMatch
  <2>2. OneWaiter'
    BY <1>1, <1>2, <1>3 DEF OneWaiter, WaitsMatch
  <2>3. ReadersWait'
    <3>1. \A u \in Readers : target'[u] = target[u] /\ pc'[u] = IF u = r THEN "lead" ELSE pc[u]
      BY <1>1, <1>3
    <3>2. \A w \in Writers : pc'[w] = pc[w] /\ till'[w] = till[w]
      BY <1>1, <1>3
    <3>3. ReadersWait /\ pc[r] = "await"
      BY <1>1 DEF WaitsMatch
    <3>. HIDE DEF Types, LockInv
    <3>. QED BY <3>1, <3>2, <3>3 DEF ReadersWait
  <2>4. WritersWait'
    BY <1>1, <1>2, <1>3 DEF WritersWait, WaitsMatch
  <2>. QED BY <2>1, <2>2, <2>3, <2>4 DEF WaitsMatch
<1>12. TagsMatch'
  BY <1>1, <1>2, <1>3 DEF LeadReads, TagsMatch
<1>13. ReadersQueue'
  BY LeaderComes DEF WaitsMatch
<1>14. PushersRun'
  BY PushersStay DEF LeadReads
<1>. QED BY <1>5, <1>6, <1>7, <1>8, <1>9, <1>10, <1>11, <1>12, <1>13, <1>14

LEMMA FollowReadsKeeps == ASSUME LockInv, NEW r \in Readers, FollowReads(r) PROVE LockInv'
<1> USE RWLockAssumption DEF LockInv, Types, Threads, listVars, writerVars, Goto, AccessFree,
        LinkedPC, ReaderHoldPC, WriterHoldPC, AwaitPC, ClaimPC, PushPC, HolderAt
<1>1. pc[r] = "await" /\ \A t \in Threads : pc'[t] = IF t = r THEN "follow" ELSE pc[t]
  BY DEF FollowReads
<1>2. PICK x \in Readers : x \in ToSet(waitReads) /\ StartWait(r, x) /\ x = Last(waitReads)
  BY NobodyWaitsForLast DEF FollowReads
<1>3. r \notin ToSet(waitReads) /\ r \notin ToSet(waitDrain)
  BY <1>1, NotQueued DEF QueuePC, LeadPC
<1>4. /\ waitReads' \in Seq(Readers) /\ IsInjective(waitReads')
      /\ ToSet(waitReads') = ToSet(waitReads) \cup {r}
  BY <1>3, AppendToList DEF FollowReads, ListsInjective
<1>5. /\ target' \in [Threads -> Threads \cup {Nobody}]
      /\ \A t \in Threads : target'[t] = IF t = r THEN x ELSE target[t]
  BY <1>2, TargetSet DEF StartWait
<1>6. /\ wow' \in [Threads -> {"none", "worker", "waiter"}] /\ wow[x] # "none"
      /\ \A t \in Threads : wow'[t] = IF t = x THEN "waiter" ELSE wow[t]
  BY <1>2, WowSet DEF StartWait
<1>7. pc[x] \in LeadPC \cup {"follow"} /\ \A t \in Threads : target[t] # x
  BY <1>2, NobodyWaitsForLast DEF FollowReads
<1>8. UNCHANGED <<till, beingWaited>> /\ target[r] = Nobody
  BY <1>1 DEF FollowReads, WaitsMatch, ReadersWait
<1>9. BeforeEnd' = BeforeEnd
  BY DEF BeforeEnd, FollowReads
<1>10. Types'
  BY <1>4, <1>5, <1>6, <1>7, <1>8 DEF FollowReads, Types, LeadPC
<1>11. ListsInjective'
  BY <1>1, <1>2, <1>3, <1>4, <1>5, <1>6, <1>7, <1>8 DEF FollowReads, ListsInjective, LeadPC
<1>12. ReadsPlaced'
  BY <1>9 DEF FollowReads, ReadsPlaced, LeadPC
<1>13. LockHeld'
  BY <1>8 DEF FollowReads, LockHeld, Writes, NoReads, LeadPC
<1>14. ReadsCovered'
  BY <1>8 DEF FollowReads, ReadsCovered, NoReads, ReadsPlaced, LeadPC
<1>15. ClaimsKept'
  BY <1>8 DEF FollowReads, ClaimsKept
<1>16. WaitsMatch'
  <2>1. WowMatch'
    <3>1. \A t \in Threads : wow'[t] = "none" <=> wow[t] = "none"
      BY <1>6
    <3>2. /\ \A w \in Writers : pc'[w] = pc[w]
          /\ \A u \in Readers \ {r} : pc'[u] = pc[u]
          /\ pc'[r] = "follow" /\ wow[r] # "none"
      BY <1>1 DEF WowMatch, WaitsMatch
    <3>. QED BY <1>8, <3>1, <3>2 DEF WowMatch, WaitsMatch
  <2>2. OneWaiter'
    <3>1. OneWaiter /\ r \in Threads /\ x \in Threads
      BY DEF WaitsMatch
    <3>. HIDE DEF Threads, LockInv, Types
    <3>. QED BY <1>5, <1>6, <1>7, <3>1, WaitStarts
  <2>3. ReadersWait'
    <3>1. \A u \in Readers : target'[u] = IF u = r THEN x ELSE target[u]
      BY <1>5
    <3>2. \A u \in Readers : pc'[u] = IF u = r THEN "follow" ELSE pc[u]
      BY <1>1
    <3>3. \A w \in Writers : pc'[w] = pc[w] /\ till'[w] = till[w]
      BY <1>1, <1>8
    <3>4. ReadersWait /\ pc[r] = "await" /\ x # r
      BY <1>1, <1>7 DEF WaitsMatch, LeadPC
    <3>5. pc[x] \in LeadPC \cup {"follow"}
      BY <1>7
    <3>. HIDE DEF Types, LockInv
    <3>. QED BY <3>1, <3>2, <3>3, <3>4, <3>5 DEF ReadersWait, LeadPC
  <2>4. WritersWait'
    <3>1. \A w \in Writers : target'[w] = target[w] /\ pc'[w] = pc[w]
      BY <1>1, <1>5
    <3>. QED BY <1>8, <3>1 DEF WaitsMatch, WritersWait
  <2>. QED BY <2>1, <2>2, <2>3, <2>4 DEF WaitsMatch
<1>17. TagsMatch'
  BY <1>7, <1>8 DEF FollowReads, TagsMatch, ReadsPlaced, WaitsMatch, WowMatch, OneWaiter,
     ReadersWait, WritersWait, StartWait, EndWait, HasTag, HasAnyTag, WithTag, WithoutTags,
     LeadPC
<1>18. ReadersQueue'
  BY FollowerComes DEF WaitsMatch
<1>19. PushersRun'
  BY PushersStay DEF FollowReads
<1>. QED BY <1>10, <1>11, <1>12, <1>13, <1>14, <1>15, <1>16, <1>17, <1>18, <1>19

LEMMA WaitLastWriteKeeps == ASSUME LockInv, NEW r \in Readers, WaitLastWrite(r) PROVE LockInv'
<1> USE RWLockAssumption DEF LockInv, Types, Threads, listVars, writerVars, Goto, AccessFree,
        LinkedPC, ReaderHoldPC, WriterHoldPC, AwaitPC, ClaimPC, PushPC, HolderAt
<1>1. pc[r] = "lead" /\ \A t \in Threads : pc'[t] = IF t = r THEN "waitWrite" ELSE pc[t]
  BY DEF WaitLastWrite
<1>2. PICK x \in Writers : x \in ToSet(writes) /\ StartWait(r, x) /\ till[x] = 0 /\ pc[x] \in ClaimPC
  BY LastItem DEF WaitLastWrite, ClaimsKept
<1>3. target[r] = Nobody /\ \A t \in Threads : target[t] # x
  <2>1. target[r] = Nobody
    BY <1>1 DEF WaitsMatch, WowMatch, OneWaiter, ReadersWait, WritersWait
  <2>2. ASSUME NEW t \in Readers PROVE target[t] # x
    <3> SUFFICES ASSUME target[t] = x PROVE FALSE
      OBVIOUS
    <3>1. pc[t] = "waitWrite"
      BY DEF WaitsMatch, ReadersWait
    <3>2. t = r
      BY <1>1, <3>1, OneLeader DEF LeadPC
    <3>. QED BY <1>1, <3>1, <3>2
  <2>3. ASSUME NEW t \in Writers PROVE target[t] # x
    BY DEF WaitsMatch, WowMatch, WritersWait
  <2>. QED BY <2>1, <2>2, <2>3
<1>4. /\ target' \in [Threads -> Threads \cup {Nobody}]
      /\ \A t \in Threads : target'[t] = IF t = r THEN x ELSE target[t]
  BY <1>2, TargetSet DEF StartWait
<1>5. /\ wow' \in [Threads -> {"none", "worker", "waiter"}] /\ wow[x] # "none"
      /\ \A t \in Threads : wow'[t] = IF t = x THEN "waiter" ELSE wow[t]
  BY <1>2, WowSet DEF StartWait
<1>6. UNCHANGED <<till, beingWaited>>
  BY DEF WaitLastWrite
<1>7. BeforeEnd' = BeforeEnd
  BY DEF BeforeEnd, WaitLastWrite
<1>8. Types'
  BY <1>3, <1>4, <1>5, <1>6 DEF WaitLastWrite, Types
<1>9. ListsInjective'
  BY DEF WaitLastWrite, ListsInjective
<1>10. ReadsPlaced'
  BY <1>7 DEF WaitLastWrite, ReadsPlaced
<1>11. LockHeld'
  BY <1>6 DEF WaitLastWrite, LockHeld, Writes, NoReads
<1>12. ReadsCovered'
  BY <1>6 DEF WaitLastWrite, ReadsCovered, NoReads, ReadsPlaced
<1>13. ClaimsKept'
  BY <1>6 DEF WaitLastWrite, ClaimsKept
<1>14. WaitsMatch'
  <2>1. WowMatch'
    BY <1>1, <1>2, <1>3, <1>4, <1>5, <1>6 DEF WowMatch, WaitsMatch
  <2>2. OneWaiter'
    <3>1. OneWaiter /\ r \in Threads /\ x \in Threads
      BY DEF WaitsMatch
    <3>. HIDE DEF Threads, LockInv, Types
    <3>. QED BY <1>3, <1>4, <1>5, <3>1, WaitStarts
  <2>3. ReadersWait'
    <3>1. \A u \in Readers : target'[u] = IF u = r THEN x ELSE target[u]
      BY <1>4
    <3>2. \A u \in Readers : pc'[u] = IF u = r THEN "waitWrite" ELSE pc[u]
      BY <1>1
    <3>3. \A w \in Writers : pc'[w] = pc[w] /\ till'[w] = till[w]
      BY <1>1, <1>6
    <3>4. ReadersWait
      BY DEF WaitsMatch
    <3>. HIDE DEF Types, LockInv
    <3>. QED BY <1>1, <1>2, <1>3, <3>1, <3>2, <3>3, <3>4 DEF ReadersWait
  <2>4. WritersWait'
    BY <1>1, <1>2, <1>3, <1>4, <1>5, <1>6 DEF WritersWait, WaitsMatch
  <2>. QED BY <2>1, <2>2, <2>3, <2>4 DEF WaitsMatch
<1>15. TagsMatch'
  BY <1>6 DEF WaitLastWrite, TagsMatch, ReadsPlaced, WaitsMatch, WowMatch, OneWaiter,
     ReadersWait, WritersWait, StartWait, EndWait, HasTag, HasAnyTag, WithTag, WithoutTags
<1>16. ReadersQueue'
  BY QueueStays DEF WaitLastWrite, StartWait, EndWait, QueuePC, LeadPC
<1>17. PushersRun'
  BY PushersStay DEF WaitLastWrite
<1>. QED BY <1>8, <1>9, <1>10, <1>11, <1>12, <1>13, <1>14, <1>15, <1>16, <1>17

LEMMA WriteWaitedKeeps == ASSUME LockInv, NEW r \in Readers, WriteWaited(r) PROVE LockInv'
<1> USE RWLockAssumption DEF LockInv, Types, Threads, listVars, writerVars, Goto, AccessFree,
        LinkedPC, ReaderHoldPC, WriterHoldPC, AwaitPC, ClaimPC, PushPC, HolderAt
<1>1. pc[r] = "waitWrite" /\ \A t \in Threads : pc'[t] = IF t = r THEN "lead" ELSE pc[t]
  BY DEF WriteWaited
<1>2. /\ target' \in [Threads -> Threads \cup {Nobody}] /\ wow[target[r]] = "none"
      /\ \A t \in Threads : target'[t] = IF t = r THEN Nobody ELSE target[t]
  BY TargetSet DEF WriteWaited, EndWait
<1>3. UNCHANGED <<till, wow, beingWaited>>
  BY DEF WriteWaited
<1>4. BeforeEnd' = BeforeEnd
  BY DEF BeforeEnd, WriteWaited
<1>5. Types'
  BY <1>1, <1>2, <1>3 DEF WriteWaited, Types
<1>6. ListsInjective'
  BY DEF WriteWaited, ListsInjective
<1>7. ReadsPlaced'
  BY <1>4 DEF WriteWaited, ReadsPlaced
<1>8. LockHeld'
  BY <1>3 DEF WriteWaited, LockHeld, Writes, NoReads
<1>9. ReadsCovered'
  BY <1>3 DEF WriteWaited, ReadsCovered, NoReads, ReadsPlaced
<1>10. ClaimsKept'
  BY <1>3 DEF WriteWaited, ClaimsKept, LockHeld, Served
<1>11. WaitsMatch'
  <2>1. WowMatch'
    BY <1>1, <1>2, <1>3 DEF WowMatch, WaitsMatch
  <2>2. OneWaiter'
    BY <1>1, <1>2, <1>3 DEF OneWaiter, WaitsMatch
  <2>3. ReadersWait'
    BY <1>1, <1>2, <1>3 DEF ReadersWait, WaitsMatch
  <2>4. WritersWait'
    BY <1>1, <1>2, <1>3 DEF WritersWait, WaitsMatch
  <2>. QED BY <2>1, <2>2, <2>3, <2>4 DEF WaitsMatch
<1>12. TagsMatch'
  BY <1>1, <1>2, <1>3 DEF WriteWaited, TagsMatch, ReadsPlaced, WaitsMatch, WowMatch, OneWaiter
<1>13. ReadersQueue'
  BY QueueStays DEF WriteWaited, StartWait, EndWait, QueuePC, LeadPC
<1>14. PushersRun'
  BY PushersStay DEF WriteWaited
<1>. QED BY <1>5, <1>6, <1>7, <1>8, <1>9, <1>10, <1>11, <1>12, <1>13, <1>14

LEMMA FindNoWritesKeeps == ASSUME LockInv, NEW r \in Readers, FindNoWrites(r) PROVE LockInv'
<1> USE RWLockAssumption DEF LockInv, Types, Threads, listVars, writerVars, Goto, AccessFree,
        LinkedPC, ReaderHoldPC, WriterHoldPC, AwaitPC, ClaimPC, PushPC, HolderAt
<1>1. pc[r] = "lead" /\ \A t \in Threads : pc'[t] = IF t = r THEN "drain" ELSE pc[t]
  BY DEF FindNoWrites
<1>2. BeforeEnd' = BeforeEnd
  BY DEF BeforeEnd, FindNoWrites
<1>3. Types'
  BY <1>1 DEF FindNoWrites, Types
<1>4. ListsInjective'
  BY <1>1 DEF FindNoWrites, ListsInjective
<1>5. ReadsPlaced'
  BY <1>1, <1>2 DEF FindNoWrites, ReadsPlaced
<1>6. LockHeld'
  BY <1>1 DEF FindNoWrites, LockHeld, Writes, NoReads
<1>7. ReadsCovered'
  BY <1>1 DEF FindNoWrites, ReadsCovered, NoReads, ReadsPlaced
<1>8. ClaimsKept'
  BY DEF FindNoWrites, ClaimsKept
<1>9. WaitsMatch'
  BY <1>1 DEF FindNoWrites, WaitsMatch, WowMatch, OneWaiter, ReadersWait, WritersWait, StartWait
<1>10. TagsMatch'
  BY <1>1 DEF FindNoWrites, TagsMatch, ReadsPlaced
<1>11. ReadersQueue'
  BY <1>1, QueueStays DEF FindNoWrites, StartWait, EndWait, QueuePC, LeadPC
<1>12. PushersRun'
  BY <1>1, PushersStay DEF FindNoWrites
<1>. QED BY <1>3, <1>4, <1>5, <1>6, <1>7, <1>8, <1>9, <1>10, <1>11, <1>12

LEMMA DrainReadsKeeps == ASSUME LockInv, NEW r \in Readers, DrainReads(r) PROVE LockInv'
<1> USE RWLockAssumption DEF LockInv, Types, Threads, listVars, writerVars, Goto, AccessFree,
        LinkedPC, ReaderHoldPC, WriterHoldPC, AwaitPC, ClaimPC, PushPC, HolderAt
<1>1. pc[r] = "drain" /\ \A t \in Threads : pc'[t] = IF t = r THEN "finishWait" ELSE pc[t]
  BY DEF DrainReads
<1>2. waitReads' = << >> /\ waitDrain' \in Seq(Readers) /\ IsInjective(waitDrain')
  BY LeaderDrains DEF WaitsMatch
<1>3. BeforeEnd' = BeforeEnd
  BY DEF BeforeEnd, DrainReads
<1>4. Types'
  BY <1>1, <1>2 DEF DrainReads, Types
<1>5. ListsInjective'
  <2>1. UNCHANGED <<acquired, express, extracted, writes, beingWaited>>
    BY DEF DrainReads
  <2>2. ToSet(waitReads') \cap ToSet(waitDrain') = {}
    BY <1>2, EmptyList
  <2>3. IsInjective(waitReads') /\ IsInjective(waitDrain')
    BY <1>2, EmptyList
  <2>. QED BY <2>1, <2>2, <2>3 DEF ListsInjective
<1>6. ReadsPlaced'
  BY <1>3 DEF DrainReads, ReadsPlaced
<1>7. LockHeld'
  BY DEF DrainReads, LockHeld, Writes, NoReads
<1>8. ReadsCovered'
  BY DEF DrainReads, ReadsCovered, NoReads, ReadsPlaced
<1>9. ClaimsKept'
  BY DEF DrainReads, ClaimsKept, LockHeld, Served
<1>10. WaitsMatch'
  BY <1>1, <1>2 DEF DrainReads, WaitsMatch, WowMatch, OneWaiter, ReadersWait, WritersWait,
     StartWait
<1>11. TagsMatch'
  BY <1>1, <1>2 DEF DrainReads, TagsMatch
<1>12. ReadersQueue'
  BY LeaderDrains DEF WaitsMatch
<1>13. PushersRun'
  BY <1>1, <1>2, PushersStay DEF DrainReads
<1>. QED BY <1>4, <1>5, <1>6, <1>7, <1>8, <1>9, <1>10, <1>11, <1>12, <1>13

LEMMA ReadWaitEndedKeeps == ASSUME LockInv, NEW r \in Readers, ReadWaitEnded(r) PROVE LockInv'
<1> USE RWLockAssumption DEF LockInv, Types, Threads, listVars, writerVars, Goto, AccessFree,
        LinkedPC, ReaderHoldPC, WriterHoldPC, AwaitPC, ClaimPC, PushPC, HolderAt
<1>1. pc[r] = "follow" /\ \A t \in Threads : pc'[t] = IF t = r THEN "leave" ELSE pc[t]
  BY DEF ReadWaitEnded
<1>2. /\ target' \in [Threads -> Threads \cup {Nobody}] /\ wow[target[r]] = "none"
      /\ \A t \in Threads : target'[t] = IF t = r THEN Nobody ELSE target[t]
  BY TargetSet DEF ReadWaitEnded, EndWait
<1>3. UNCHANGED <<till, wow, beingWaited>>
  BY DEF ReadWaitEnded
<1>4. BeforeEnd' = BeforeEnd
  BY DEF BeforeEnd, ReadWaitEnded
<1>5. Types'
  BY <1>1, <1>2, <1>3 DEF ReadWaitEnded, Types
<1>6. ListsInjective'
  BY DEF ReadWaitEnded, ListsInjective
<1>7. ReadsPlaced'
  BY <1>4 DEF ReadWaitEnded, ReadsPlaced
<1>8. LockHeld'
  BY <1>3 DEF ReadWaitEnded, LockHeld, Writes, NoReads
<1>9. ReadsCovered'
  BY <1>3 DEF ReadWaitEnded, ReadsCovered, NoReads, ReadsPlaced
<1>10. ClaimsKept'
  BY <1>3 DEF ReadWaitEnded, ClaimsKept, LockHeld, Served
<1>11. WaitsMatch'
  <2>1. WowMatch'
    BY <1>1, <1>2, <1>3 DEF WowMatch, WaitsMatch
  <2>2. OneWaiter'
    BY <1>1, <1>2, <1>3 DEF OneWaiter, WaitsMatch
  <2>3. ReadersWait'
    BY <1>1, <1>2, <1>3 DEF ReadersWait, WaitsMatch
  <2>4. WritersWait'
    BY <1>1, <1>2, <1>3 DEF WritersWait, WaitsMatch
  <2>. QED BY <2>1, <2>2, <2>3, <2>4 DEF WaitsMatch
<1>12. TagsMatch'
  BY <1>1, <1>2, <1>3 DEF ReadWaitEnded, TagsMatch, ReadsPlaced, WaitsMatch, WowMatch, OneWaiter
<1>13. ReadersQueue'
  BY FollowerWaited DEF WaitsMatch
<1>14. PushersRun'
  BY PushersStay DEF ReadWaitEnded
<1>. QED BY <1>5, <1>6, <1>7, <1>8, <1>9, <1>10, <1>11, <1>12, <1>13, <1>14

LEMMA LeaveReadsKeeps == ASSUME LockInv, NEW r \in Readers, LeaveReads(r) PROVE LockInv'
<1> USE RWLockAssumption DEF LockInv, Types, Threads, listVars, writerVars, Goto, AccessFree,
        LinkedPC, ReaderHoldPC, WriterHoldPC, AwaitPC, ClaimPC, PushPC, HolderAt
<1>1. pc[r] = "leave" /\ \A t \in Threads : pc'[t] = IF t = r THEN "finishWait" ELSE pc[t]
  BY DEF LeaveReads
<1>2. /\ waitReads' = waitReads /\ waitDrain' \in Seq(Readers) /\ IsInjective(waitDrain')
      /\ ToSet(waitDrain') = ToSet(waitDrain) \ {r}
  BY FollowerLeaves DEF WaitsMatch
<1>3. BeforeEnd' = BeforeEnd
  BY DEF BeforeEnd, LeaveReads
<1>4. Types'
  BY <1>1, <1>2 DEF LeaveReads, Types
<1>5. ListsInjective'
  BY <1>1, <1>2 DEF LeaveReads, ListsInjective
<1>6. ReadsPlaced'
  BY <1>3 DEF LeaveReads, ReadsPlaced
<1>7. LockHeld'
  BY DEF LeaveReads, LockHeld, Writes, NoReads
<1>8. ReadsCovered'
  BY DEF LeaveReads, ReadsCovered, NoReads, ReadsPlaced
<1>9. ClaimsKept'
  BY DEF LeaveReads, ClaimsKept, LockHeld, Served
<1>10. WaitsMatch'
  BY <1>1, <1>2 DEF LeaveReads, WaitsMatch, WowMatch, OneWaiter, ReadersWait, WritersWait,
     StartWait
<1>11. TagsMatch'
  BY <1>1, <1>2 DEF LeaveReads, TagsMatch
<1>12. ReadersQueue'
  BY FollowerLeaves DEF WaitsMatch
<1>13. PushersRun'
  BY <1>1, <1>2, PushersStay DEF LeaveReads
<1>. QED BY <1>4, <1>5, <1>6, <1>7, <1>8, <1>9, <1>10, <1>11, <1>12, <1>13

LEMMA FinishWaitKeeps == ASSUME LockInv, NEW r \in Readers, FinishWait(r) PROVE LockInv'
<1> USE RWLockAssumption DEF LockInv, Types, Threads, listVars, writerVars, Goto, AccessFree,
        LinkedPC, ReaderHoldPC, WriterHoldPC, AwaitPC, ClaimPC, PushPC, HolderAt
<1>1. pc[r] = "finishWait" /\ \A t \in Threads : pc'[t] = IF t = r THEN "meetFollower" ELSE pc[t]
  BY DEF FinishWait
<1>2. /\ wow' \in [Threads -> {"none", "worker", "waiter"}]
      /\ \A t \in Threads : wow'[t] = IF t = r THEN "none" ELSE wow[t]
  BY WowSet DEF FinishWait
<1>3. BeforeEnd' = BeforeEnd
  BY DEF BeforeEnd, FinishWait
<1>4. Types'
  BY <1>1, <1>2 DEF FinishWait, Types
<1>5. ListsInjective'
  BY <1>1, <1>2 DEF FinishWait, ListsInjective
<1>6. ReadsPlaced'
  BY <1>3 DEF FinishWait, ReadsPlaced
<1>7. LockHeld'
  BY DEF FinishWait, LockHeld, Writes, NoReads
<1>8. ReadsCovered'
  BY DEF FinishWait, ReadsCovered, NoReads, ReadsPlaced
<1>9. ClaimsKept'
  BY DEF FinishWait, ClaimsKept, LockHeld, Served
<1>10. WaitsMatch'
  BY <1>1, <1>2 DEF FinishWait, WaitsMatch, WowMatch, OneWaiter, ReadersWait, WritersWait,
     StartWait
<1>11. TagsMatch'
  BY <1>1, <1>2 DEF FinishWait, TagsMatch
<1>12. ReadersQueue'
  BY <1>2, QueueStays DEF FinishWait
<1>13. PushersRun'
  BY <1>1, <1>2, PushersStay DEF FinishWait
<1>. QED BY <1>4, <1>5, <1>6, <1>7, <1>8, <1>9, <1>10, <1>11, <1>12, <1>13

LEMMA PrestartAgainKeeps == ASSUME LockInv, NEW r \in Readers, PrestartAgain(r) PROVE LockInv'
<1> USE RWLockAssumption DEF LockInv, Types, Threads, listVars, writerVars, Goto, AccessFree,
        LinkedPC, ReaderHoldPC, WriterHoldPC, AwaitPC, ClaimPC, PushPC, HolderAt
<1>1. pc[r] = "meetFollower" /\ \A t \in Threads : pc'[t] = IF t = r THEN "relock" ELSE pc[t]
  BY DEF PrestartAgain
<1>2. /\ wow' \in [Threads -> {"none", "worker", "waiter"}]
      /\ \A t \in Threads : wow'[t] = IF t = r THEN "worker" ELSE wow[t]
  BY WowSet DEF PrestartAgain
<1>3. BeforeEnd' = BeforeEnd
  BY DEF BeforeEnd, PrestartAgain
<1>4. Types'
  BY <1>1, <1>2 DEF PrestartAgain, Types
<1>5. ListsInjective'
  BY <1>1, <1>2 DEF PrestartAgain, ListsInjective
<1>6. ReadsPlaced'
  BY <1>3 DEF PrestartAgain, ReadsPlaced
<1>7. LockHeld'
  BY DEF PrestartAgain, LockHeld, Writes, NoReads
<1>8. ReadsCovered'
  BY DEF PrestartAgain, ReadsCovered, NoReads, ReadsPlaced
<1>9. ClaimsKept'
  BY DEF PrestartAgain, ClaimsKept, LockHeld, Served
<1>10. WaitsMatch'
  BY <1>1, <1>2 DEF PrestartAgain, WaitsMatch, WowMatch, OneWaiter, ReadersWait, WritersWait,
     StartWait, EndWait, NoWaiter, ClaimsKept, ReadersQueue, WaitingLine, WaitingReaders,
     ReadsPlaced, TagsMatch
<1>11. TagsMatch'
  BY <1>1, <1>2 DEF PrestartAgain, TagsMatch
<1>12. ReadersQueue'
  BY <1>1, <1>2 DEF PrestartAgain, ReadersQueue, WaitingLine, WaitingReaders, StartWait,
     EndWait, NoWaiter, WaitsMatch, WowMatch, OneWaiter, ReadersWait, WritersWait,
     ListsInjective
<1>13. PushersRun'
  BY <1>1, <1>2, PushersStay DEF PrestartAgain
<1>. QED BY <1>4, <1>5, <1>6, <1>7, <1>8, <1>9, <1>10, <1>11, <1>12, <1>13

LEMMA RelockKeeps == ASSUME LockInv, NEW r \in Readers, Relock(r) PROVE LockInv'
<1> USE RWLockAssumption DEF LockInv, Types, Threads, listVars, writerVars, Goto, AccessFree,
        LinkedPC, ReaderHoldPC, WriterHoldPC, AwaitPC, ClaimPC, PushPC, HolderAt
<1>1. /\ pc[r] = "relock" /\ accessLock = Nobody /\ DOMAIN pc' = Threads
      /\ \A t \in Threads : t # r => pc'[t] = pc[t]
  BY DEF Relock
<1>2. \/ pc'[r] = "commitOwn" /\ accessLock' = r /\ writes = << >>
      \/ pc'[r] = "await" /\ accessLock' = Nobody
  BY DEF Relock
<1>3. BeforeEnd' = BeforeEnd
  BY DEF BeforeEnd, Relock
<1>4. Types'
  BY <1>1, <1>2 DEF Relock, Types
<1>5. ListsInjective'
  BY <1>1, <1>2 DEF Relock, ListsInjective
<1>6. ReadsPlaced'
  BY <1>1, <1>2, <1>3 DEF Relock, ReadsPlaced
<1>7. LockHeld'
  BY DEF Relock, LockHeld, Writes, NoReads
<1>8. ReadsCovered'
  BY DEF Relock, ReadsCovered, NoReads, ReadsPlaced
<1>9. ClaimsKept'
  <2>1. ToSet(writes) \subseteq Writers /\ accessLock' \notin Writers
    BY <1>1, <1>2, ListIndices
  <2>2. ASSUME NEW u \in Readers
        PROVE  ahead[u] \subseteq ToSet(writes) \ {accessLock'} /\ (ahead[u] # {} => pc'[u] \in AwaitPC)
    <3>1. ahead[u] \subseteq ToSet(writes) \ {accessLock'}
      BY <2>1 DEF ClaimsKept
    <3>2. CASE u = r
      BY <1>2, <3>1, <3>2, EmptyList
    <3>3. CASE u # r
      <4>1. pc'[u] = pc[u]
        BY <1>1, <3>3
      <4>. QED BY <3>1, <4>1 DEF ClaimsKept
    <3>. QED BY <3>1, <3>2, <3>3
  <2>3. \A w \in Writers : pc'[w] = pc[w]
    BY <1>1
  <2>. QED BY <2>2, <2>3 DEF Relock, ClaimsKept
<1>10. WaitsMatch'
  BY WaitsStay DEF Relock, QueuePC, LeadPC
<1>11. TagsMatch'
  BY <1>1, <1>2 DEF Relock, TagsMatch, ReadsPlaced, WaitsMatch, WowMatch, OneWaiter,
     ReadersWait, WritersWait, StartWait, EndWait, HasTag, HasAnyTag, WithTag, WithoutTags
<1>12. ReadersQueue'
  BY QueueStays DEF Relock, QueuePC, LeadPC
<1>13. PushersRun'
  BY <1>1, <1>2, PushersStay DEF Relock
<1>. QED BY <1>4, <1>5, <1>6, <1>7, <1>8, <1>9, <1>10, <1>11, <1>12, <1>13

LEMMA RdUnlockCallKeeps == ASSUME LockInv, NEW r \in Readers, RdUnlockCall(r) PROVE LockInv'
<1> USE RWLockAssumption DEF LockInv, Types, Threads, listVars, writerVars, Goto, AccessFree,
        LinkedPC, ReaderHoldPC, WriterHoldPC, AwaitPC, ClaimPC, PushPC, HolderAt
<1>1. pc[r] = "reading" /\ \A t \in Threads : pc'[t] = IF t = r THEN "unlock" ELSE pc[t]
  BY DEF RdUnlockCall
<1>2. BeforeEnd' = BeforeEnd
  BY DEF BeforeEnd, RdUnlockCall
<1>3. Types'
  BY <1>1 DEF RdUnlockCall, Types
<1>4. ListsInjective'
  BY <1>1 DEF RdUnlockCall, ListsInjective
<1>5. ReadsPlaced'
  BY <1>1, <1>2 DEF RdUnlockCall, ReadsPlaced
<1>6. LockHeld'
  BY <1>1 DEF RdUnlockCall, LockHeld, Writes, NoReads
<1>7. ReadsCovered'
  BY <1>1 DEF RdUnlockCall, ReadsCovered, NoReads, ReadsPlaced
<1>8. ClaimsKept'
  BY DEF RdUnlockCall, ClaimsKept
<1>9. WaitsMatch'
  BY <1>1, WaitsStay DEF RdUnlockCall, QueuePC, LeadPC
<1>10. TagsMatch'
  BY <1>1 DEF RdUnlockCall, TagsMatch, ReadsPlaced
<1>11. ReadersQueue'
  BY <1>1, QueueStays DEF RdUnlockCall, StartWait, EndWait, QueuePC, LeadPC
<1>12. PushersRun'
  BY <1>1, PushersStay DEF RdUnlockCall
<1>. QED BY <1>3, <1>4, <1>5, <1>6, <1>7, <1>8, <1>9, <1>10, <1>11, <1>12

LEMMA UnlinkOwnKeeps == ASSUME LockInv, NEW r \in Readers, UnlinkOwn(r) PROVE LockInv'
<1> USE RWLockAssumption DEF LockInv, Types, Threads, listVars, writerVars, Goto, AccessFree,
        LinkedPC, ReaderHoldPC, WriterHoldPC, AwaitPC, ClaimPC, PushPC, HolderAt
<1>1. pc[r] = "unlock" /\ \A t \in Threads : pc'[t] = IF t = r THEN "extract" ELSE pc[t]
  BY DEF UnlinkOwn
<1>2. UNCHANGED <<express, writes, waitReads, waitDrain, extracted, pushLock, outdated, till,
                  wow, beingWaited, target, seen, ahead>>
  BY DEF UnlinkOwn
<1>3. accessLock = Nobody /\ accessLock' = r /\ ToSet(extracted) = {}
  BY <1>1, EmptyList DEF UnlinkOwn, LockHeld, ReadsPlaced
<1>4. EndsIn(acquired)
  BY DEF EndsIn, ListsInjective
<1>5. ToSet(express) \cap ToSet(acquired) = {} /\ r \in ToSet(acquired)
  BY <1>3, ListIndices DEF UnlinkOwn, ReadsPlaced
<1>6. EndsIn(acquired') /\ ToSet(acquired') = ToSet(acquired) \ {r}
  <2>1. /\ acquired' \in Seq(Readers \cup ToSet(EndList)) /\ IsInjective(acquired')
        /\ ToSet(acquired') = ToSet(acquired) \ {r}
    BY <1>4, RemoveFromList DEF UnlinkOwn, EndsIn
  <2>2. r \notin ToSet(EndList)
    BY EndItemSet
  <2>. QED BY <1>4, <2>1, <2>2 DEF EndsIn
<1>7. DOMAIN pc' = Threads
  BY DEF UnlinkOwn
<1>8. Types'
  BY <1>1, <1>2, <1>3, <1>4, <1>5, <1>6, <1>7 DEF Types, EndsIn
<1>9. ListsInjective'
  BY <1>1, <1>2, <1>3, <1>4, <1>5, <1>6, <1>7 DEF ListsInjective, EndsIn
<1>10. ReadsPlaced'
  BY <1>1, <1>2, <1>3, <1>4, <1>5, <1>6, <1>7 DEF ReadsPlaced
<1>11. LockHeld'
  BY <1>1, <1>2, <1>3, <1>7 DEF LockHeld, Writes, NoReads
<1>12. ReadsCovered'
  BY <1>1, <1>2, <1>3, <1>7 DEF ReadsCovered, NoReads, ReadsPlaced
<1>13. ClaimsKept'
  <2>1. accessLock' \notin Writers
    BY <1>2, <1>3, <1>4
  <2>2. \A w \in Writers : pc'[w] = pc[w]
    BY <1>1
  <2>3. \A u \in Readers : pc[u] \in AwaitPC => pc'[u] = pc[u]
    BY <1>1
  <2>4. UNCHANGED <<writes, till, ahead>>
    BY <1>2
  <2>. QED BY <2>1, <2>2, <2>3, <2>4, ClaimsStay
<1>14. WaitsMatch'
  BY <1>7, WaitsStay DEF UnlinkOwn, QueuePC, LeadPC
<1>15. TagsMatch'
  BY <1>1, <1>2, <1>3, <1>4, <1>5, <1>6, <1>7 DEF TagsMatch, ReadsPlaced, WaitsMatch
<1>16. ReadersQueue'
  BY QueueStays DEF UnlinkOwn, StartWait, EndWait, QueuePC, LeadPC
<1>17. PushersRun'
  BY PushersStay DEF UnlinkOwn
<1>. QED BY <1>8, <1>9, <1>10, <1>11, <1>12, <1>13, <1>14, <1>15, <1>16, <1>17

LEMMA ExtractExpressKeeps == ASSUME LockInv, NEW r \in Readers, ExtractExpress(r) PROVE LockInv'
<1> USE RWLockAssumption DEF LockInv, Types, Threads, listVars, writerVars, Goto, AccessFree,
        LinkedPC, ReaderHoldPC, WriterHoldPC, AwaitPC, ClaimPC, PushPC, HolderAt
<1>1. pc[r] = "extract" /\ \A t \in Threads : pc'[t] = IF t = r THEN "link" ELSE pc[t]
  BY DEF ExtractExpress
<1>2. UNCHANGED <<acquired, writes, waitReads, waitDrain, accessLock, pushLock, till, wow,
                  beingWaited, target, seen, ahead>>
  BY DEF ExtractExpress
<1>3. accessLock = r /\ ToSet(extracted) = {}
  BY <1>1, EmptyList DEF ExtractExpress, LockHeld, ReadsPlaced
<1>4. ToSet(express) \cap ToSet(acquired) = {}
  BY <1>1, <1>3, ListIndices DEF ReadsPlaced
<1>5. express' = << >> /\ ToSet(express') = {} /\ IsInjective(express')
  BY EmptyList DEF ExtractExpress
<1>6. extracted' = express
  BY DEF ExtractExpress
<1>7. outdated' \subseteq Writers
  BY DEF ExtractExpress, CountCommit
<1>8. DOMAIN pc' = Threads
  BY DEF ExtractExpress
<1>9. BeforeEnd' = BeforeEnd
  BY DEF BeforeEnd, ExtractExpress
<1>10. Types'
  BY <1>1, <1>2, <1>3, <1>4, <1>5, <1>6, <1>7, <1>8 DEF Types, EndsIn
<1>11. ListsInjective'
  BY <1>1, <1>2, <1>3, <1>4, <1>5, <1>6, <1>7, <1>8 DEF ListsInjective, EndsIn
<1>12. ReadsPlaced'
  BY <1>1, <1>2, <1>3, <1>4, <1>5, <1>6, <1>7, <1>8, <1>9 DEF ReadsPlaced
<1>13. LockHeld'
  BY <1>1, <1>2, <1>3, <1>7, <1>8 DEF LockHeld, Writes, NoReads
<1>14. ReadsCovered'
  BY <1>4, <1>5, <1>6, <1>7, <1>8 DEF ReadsCovered, NoReads, ReadsPlaced
<1>15. ClaimsKept'
  BY <1>1, <1>2, <1>3, <1>4, <1>5, <1>6, <1>7, <1>8 DEF ClaimsKept, LockHeld, Served
<1>16. WaitsMatch'
  BY WaitsStay DEF ExtractExpress, QueuePC, LeadPC
<1>17. TagsMatch'
  BY <1>1, <1>2, <1>3, <1>4, <1>5, <1>6, <1>7, <1>8 DEF TagsMatch, ReadsPlaced, WaitsMatch
<1>18. ReadersQueue'
  BY <1>8, QueueStays DEF ExtractExpress, StartWait, EndWait, QueuePC, LeadPC
<1>19. PushersRun'
  BY PushersStay DEF ExtractExpress
<1>. QED BY <1>10, <1>11, <1>12, <1>13, <1>14, <1>15, <1>16, <1>17, <1>18, <1>19

LEMMA LinkExtractedKeeps == ASSUME LockInv, NEW r \in Readers, LinkExtracted(r) PROVE LockInv'
<1> USE RWLockAssumption DEF LockInv, Types, Threads, listVars, writerVars, Goto, AccessFree,
        LinkedPC, ReaderHoldPC, WriterHoldPC, AwaitPC, ClaimPC, PushPC, HolderAt
<1>1. pc[r] = "link" /\ \A t \in Threads : pc'[t] = IF t = r THEN "finish" ELSE pc[t]
  BY DEF LinkExtracted
<1>2. UNCHANGED <<express, writes, waitReads, waitDrain, pushLock, outdated, till, wow,
                  beingWaited, target, seen, ahead>>
  BY DEF LinkExtracted
<1>3. accessLock = r /\ accessLock' = Nobody
  BY <1>1 DEF LinkExtracted, LockHeld
<1>4. EndsIn(acquired)
  BY DEF EndsIn, ListsInjective
<1>5. ToSet(express) \cap ToSet(acquired) = {}
  BY <1>1, <1>3, ListIndices DEF ReadsPlaced
<1>6. EndsIn(acquired') /\ ToSet(acquired') = ToSet(acquired) \cup ToSet(extracted)
  BY <1>4, LinkStep DEF LinkExtracted, ListsInjective, ReadsPlaced
<1>7. extracted' = << >> /\ ToSet(extracted') = {} /\ IsInjective(extracted')
  BY EmptyList DEF LinkExtracted
<1>8. ~NoReads => ~NoReads'
  BY <1>4, <1>6, ReadsThere, ReadsThereThen
<1>9. DOMAIN pc' = Threads
  BY DEF LinkExtracted
<1>10. Types'
  BY <1>1, <1>2, <1>3, <1>4, <1>5, <1>6, <1>7, <1>8, <1>9 DEF Types, EndsIn
<1>11. ListsInjective'
  BY <1>1, <1>2, <1>3, <1>4, <1>5, <1>6, <1>7, <1>8, <1>9 DEF ListsInjective, EndsIn
<1>12. ReadsPlaced'
  BY <1>1, <1>2, <1>3, <1>4, <1>5, <1>6, <1>7, <1>8, <1>9 DEF ReadsPlaced
<1>13. LockHeld'
  BY <1>1, <1>2, <1>3, <1>4, <1>5, <1>6, <1>7, <1>8, <1>9 DEF LockHeld, Writes, NoReads
<1>14. ReadsCovered'
  BY <1>1, <1>2, <1>3, <1>4, <1>5, <1>6, <1>7, <1>8, <1>9 DEF ReadsCovered, NoReads, ReadsPlaced
<1>15. ClaimsKept'
  <2>1. accessLock' \notin Writers
    BY <1>1, <1>2, <1>3
  <2>2. \A w \in Writers : pc'[w] = pc[w]
    BY <1>1
  <2>3. \A u \in Readers : pc[u] \in AwaitPC => pc'[u] = pc[u]
    BY <1>1
  <2>4. UNCHANGED <<writes, till, ahead>>
    BY <1>2
  <2>. QED BY <2>1, <2>2, <2>3, <2>4, ClaimsStay
<1>16. WaitsMatch'
  BY WaitsStay DEF LinkExtracted, QueuePC, LeadPC
<1>17. TagsMatch'
  BY <1>1, <1>2, <1>3, <1>4, <1>5, <1>6, <1>7, <1>8, <1>9 DEF TagsMatch, ReadsPlaced,
     WaitsMatch, WowMatch, OneWaiter, ReadersWait, WritersWait, StartWait, EndWait, HasTag,
     HasAnyTag, WithTag, WithoutTags
<1>18. ReadersQueue'
  BY <1>9, QueueStays DEF LinkExtracted, StartWait, EndWait, QueuePC, LeadPC
<1>19. PushersRun'
  BY PushersStay DEF LinkExtracted
<1>. QED BY <1>10, <1>11, <1>12, <1>13, <1>14, <1>15, <1>16, <1>17, <1>18, <1>19

LEMMA FinishReadKeeps == ASSUME LockInv, NEW r \in Readers, FinishRead(r) PROVE LockInv'
<1> USE RWLockAssumption DEF LockInv, Types, Threads, listVars, writerVars, Goto, AccessFree,
        LinkedPC, ReaderHoldPC, WriterHoldPC, AwaitPC, ClaimPC, PushPC, HolderAt
<1>1. pc[r] = "finish" /\ \A t \in Threads : pc'[t] = IF t = r THEN "meet" ELSE pc[t]
  BY DEF FinishRead
<1>2. /\ wow' \in [Threads -> {"none", "worker", "waiter"}]
      /\ \A t \in Threads : wow'[t] = IF t = r THEN "none" ELSE wow[t]
  BY WowSet DEF FinishRead
<1>3. BeforeEnd' = BeforeEnd
  BY DEF BeforeEnd, FinishRead
<1>4. Types'
  BY <1>1, <1>2 DEF FinishRead, Types
<1>5. ListsInjective'
  BY <1>1, <1>2 DEF FinishRead, ListsInjective
<1>6. ReadsPlaced'
  BY <1>3 DEF FinishRead, ReadsPlaced
<1>7. LockHeld'
  BY DEF FinishRead, LockHeld, Writes, NoReads
<1>8. ReadsCovered'
  BY DEF FinishRead, ReadsCovered, NoReads, ReadsPlaced
<1>9. ClaimsKept'
  BY DEF FinishRead, ClaimsKept, LockHeld, Served
<1>10. WaitsMatch'
  BY <1>1, <1>2 DEF FinishRead, WaitsMatch, WowMatch, OneWaiter, ReadersWait, WritersWait,
     StartWait
<1>11. TagsMatch'
  BY <1>1, <1>2 DEF FinishRead, TagsMatch
<1>12. ReadersQueue'
  BY QueueStays DEF FinishRead, StartWait, EndWait, QueuePC, LeadPC
<1>13. PushersRun'
  BY <1>1, <1>2, PushersStay DEF FinishRead
<1>. QED BY <1>4, <1>5, <1>6, <1>7, <1>8, <1>9, <1>10, <1>11, <1>12, <1>13

LEMMA RdUnlockReturnKeeps == ASSUME LockInv, NEW r \in Readers, RdUnlockReturn(r) PROVE LockInv'
<1> USE RWLockAssumption DEF LockInv, Types, Threads, listVars, writerVars, Goto, AccessFree,
        LinkedPC, ReaderHoldPC, WriterHoldPC, AwaitPC, ClaimPC, PushPC, HolderAt
<1>1. pc[r] = "meet" /\ \A t \in Threads : pc'[t] = IF t = r THEN "idle" ELSE pc[t]
  BY DEF RdUnlockReturn
<1>2. beingWaited' = beingWaited \ {r} /\ \A t \in Threads : target[t] # r
  BY DEF RdUnlockReturn, WithoutTags, WithTag, NoWaiter
<1>3. r \notin ToSet(EndList) /\ r \notin ToSet(acquired)
  <2>1. ToSet(EndList) \subseteq {EndItem}
    BY EndItemSet
  <2>. QED BY <1>1, <2>1 DEF ReadsPlaced
<1>4. BeforeEnd' = BeforeEnd
  BY DEF BeforeEnd, RdUnlockReturn
<1>5. Types'
  BY <1>1, <1>2, <1>3 DEF RdUnlockReturn, Types
<1>6. ListsInjective'
  BY <1>1, <1>2, <1>3 DEF RdUnlockReturn, ListsInjective
<1>7. ReadsPlaced'
  BY <1>4 DEF RdUnlockReturn, ReadsPlaced
<1>8. LockHeld'
  BY <1>3 DEF RdUnlockReturn, LockHeld, Writes, NoReads
<1>9. ReadsCovered'
  BY <1>3 DEF RdUnlockReturn, ReadsCovered, NoReads, ReadsPlaced
<1>10. ClaimsKept'
  BY <1>3 DEF RdUnlockReturn, ClaimsKept, LockHeld, Served
<1>11. WaitsMatch'
  BY <1>1, <1>2, <1>3 DEF RdUnlockReturn, WaitsMatch, WowMatch, OneWaiter, ReadersWait,
     WritersWait
<1>12. TagsMatch'
  BY <1>1, <1>2, <1>3 DEF RdUnlockReturn, TagsMatch
<1>13. ReadersQueue'
  BY QueueStays DEF RdUnlockReturn, StartWait, EndWait, QueuePC, LeadPC
<1>14. PushersRun'
  BY PushersStay DEF RdUnlockReturn
<1>. QED BY <1>5, <1>6, <1>7, <1>8, <1>9, <1>10, <1>11, <1>12, <1>13, <1>14

LEMMA UnlockQueuedKeeps == ASSUME LockInv, NEW r \in Readers, UnlockQueued(r) PROVE LockInv'
<1> USE RWLockAssumption DEF LockInv, Types, Threads, listVars, writerVars, Goto, AccessFree,
        LinkedPC, ReaderHoldPC, WriterHoldPC, AwaitPC, ClaimPC, PushPC, HolderAt
<1>1. pc[r] = "unlock" /\ \A t \in Threads : pc'[t] = IF t = r THEN "idle" ELSE pc[t]
  BY DEF UnlockQueued
<1>2. UNCHANGED <<writes, waitReads, waitDrain, extracted, accessLock, pushLock, till,
                  beingWaited, target, seen, ahead>>
  BY DEF UnlockQueued
<1>3. accessLock = Nobody /\ ToSet(extracted) = {}
  BY <1>1, EmptyList DEF UnlockQueued, LockHeld, ReadsPlaced
<1>4. EndsIn(acquired)
  BY DEF EndsIn, ListsInjective
<1>5. r \in ToSet(express) /\ r \notin ToSet(acquired)
  BY <1>1, <1>3 DEF UnlockQueued, ReadsPlaced
<1>6. ToSet(express) \cap ToSet(acquired) = {}
  BY <1>3, ListIndices DEF ReadsPlaced
<1>7. PICK items \in Seq(Readers) : /\ acquired' = Linked(items) /\ IsInjective(items)
                                      /\ ToSet(items) = ToSet(express) \ {r}
  BY RemoveFromList DEF UnlockQueued, ListsInjective
<1>8. EndsIn(acquired') /\ ToSet(acquired') = ToSet(acquired) \cup (ToSet(express) \ {r})
  BY <1>4, <1>6, <1>7, LinkStep
<1>9. express' = << >> /\ ToSet(express') = {} /\ IsInjective(express')
  BY EmptyList DEF UnlockQueued
<1>10. outdated' \subseteq Writers
  BY DEF UnlockQueued, CountCommit
<1>11. /\ wow' \in [Threads -> {"none", "worker", "waiter"}]
      /\ \A t \in Threads : wow'[t] = IF t = r THEN "none" ELSE wow[t]
  BY WowSet DEF UnlockQueued
<1>12. r \notin beingWaited /\ \A t \in Threads : target[t] # r
  <2>1. r \notin beingWaited
    BY <1>1, <1>5 DEF TagsMatch
  <2>. QED BY <1>1, <2>1, NobodyWaitsForReader DEF QueuePC, LeadPC
<1>13. DOMAIN pc' = Threads
  BY DEF UnlockQueued
<1>14. Types'
  BY <1>1, <1>2, <1>3, <1>4, <1>5, <1>6, <1>7, <1>8, <1>9, <1>10, <1>11, <1>12, <1>13 DEF Types,
     EndsIn
<1>15. ListsInjective'
  BY <1>1, <1>2, <1>3, <1>4, <1>5, <1>6, <1>7, <1>8, <1>9, <1>10, <1>11, <1>12, <1>13 DEF
     ListsInjective, EndsIn
<1>16. ReadsPlaced'
  BY <1>1, <1>2, <1>3, <1>4, <1>5, <1>6, <1>7, <1>8, <1>9, <1>10, <1>11, <1>12, <1>13 DEF
     ReadsPlaced
<1>17. LockHeld'
  BY <1>1, <1>2, <1>3, <1>4, <1>5, <1>6, <1>7, <1>8, <1>9, <1>10, <1>11, <1>12, <1>13 DEF
     LockHeld, Writes, NoReads
<1>18. ReadsCovered'
  BY <1>9, <1>10, <1>11, <1>12, <1>13 DEF ReadsCovered, NoReads, ReadsPlaced
<1>19. ClaimsKept'
  BY <1>1, <1>2, <1>3, <1>4, <1>5, <1>6, <1>7, <1>8, <1>9, <1>10, <1>11, <1>12, <1>13 DEF
     ClaimsKept, LockHeld, Served
<1>20. WaitsMatch'
  <2>1. WowMatch'
    BY <1>1, <1>2, <1>3, <1>4, <1>9, <1>10, <1>11, <1>12, <1>13 DEF WowMatch, WaitsMatch
  <2>2. OneWaiter'
    BY <1>1, <1>2, <1>3, <1>4, <1>5, <1>6, <1>7, <1>8, <1>9, <1>10, <1>11, <1>12, <1>13 DEF
       OneWaiter, WaitsMatch
  <2>3. ReadersWait'
    <3>1. pc[r] = "unlock" /\ \A t \in Threads : target[t] # r
      BY <1>1, <1>12
    <3>2. UNCHANGED <<target, till>>
      BY <1>2
    <3>3. \A u \in Readers : pc'[u] = IF u = r THEN "idle" ELSE pc[u]
      BY <1>1
    <3>4. \A w \in Writers : pc'[w] = pc[w]
      BY <1>1
    <3>5. ReadersWait /\ Readers \subseteq Threads
      BY DEF WaitsMatch
    <3>. HIDE DEF Types, LockInv, Threads
    <3>. QED BY <3>1, <3>2, <3>3, <3>4, <3>5 DEF ReadersWait
  <2>4. WritersWait'
    BY <1>1, <1>2, <1>3, <1>4, <1>5, <1>6, <1>7, <1>8, <1>9, <1>10, <1>11, <1>12, <1>13 DEF
       WritersWait, WaitsMatch
  <2>. QED BY <2>1, <2>2, <2>3, <2>4 DEF WaitsMatch
<1>21. TagsMatch'
  BY <1>1, <1>2, <1>3, <1>4, <1>5, <1>6, <1>7, <1>8, <1>9, <1>10, <1>11, <1>12, <1>13 DEF
     TagsMatch, ReadsPlaced, WaitsMatch, WowMatch, OneWaiter, ReadersWait, WritersWait,
     StartWait, EndWait, HasTag, HasAnyTag, WithTag, WithoutTags
<1>22. ReadersQueue'
  BY QueueStays DEF UnlockQueued, StartWait, EndWait, QueuePC, LeadPC
<1>23. PushersRun'
  BY <1>13, PushersStay DEF UnlockQueued
<1>. QED BY <1>14, <1>15, <1>16, <1>17, <1>18, <1>19, <1>20, <1>21, <1>22, <1>23

-----------------------------------------------------------------------------
(* All the steps together.                                                   *)
LEMMA WrLockStepKeeps == ASSUME LockInv, NEW w \in Writers, WrLockStep(w) PROVE LockInv'
BY WrLockEmptyKeeps, NothingTakenKeeps, EnlistKeeps, PushFirstKeeps, AcquireEmptiedKeeps,
   WaitLastReadKeeps, FindAllBusyKeeps, ReadWaitedKeeps, EnlistLateKeeps, LookAtCommitsKeeps,
   PushNextKeeps, UnpushKeeps, UnlistKeeps, ReinitUnlistedKeeps, FinishWriteKeeps,
   WrLockReturnKeeps DEF WrLockStep

LEMMA WriterStepKeeps ==
  ASSUME LockInv, NEW w \in Writers, WrLockCall(w) \/ TryWrLockCall(w) \/ WriterStep(w)
  PROVE  LockInv'
BY WrLockCallKeeps, WrLockStepKeeps, WrUnlockKeeps, TryWrLockKeeps, NothingTakenKeeps
   DEF WriterStep

LEMMA RdLockStepKeeps == ASSUME LockInv, NEW r \in Readers, RdLockStep(r) PROVE LockInv'
BY PushExpressKeeps, PushFailedKeeps, CheckReadsKeeps, LockLinkedKeeps, LockPlainKeeps,
   CommittedByOtherKeeps, CommitLinkedKeeps, SwapLinkedKeeps, CommitOwnKeeps, SwapOwnKeeps,
   LeadReadsKeeps, FollowReadsKeeps, WaitLastWriteKeeps, WriteWaitedKeeps,
   FindNoWritesKeeps, DrainReadsKeeps, ReadWaitEndedKeeps, LeaveReadsKeeps,
   FinishWaitKeeps, PrestartAgainKeeps, RelockKeeps DEF RdLockStep

LEMMA RdUnlockStepKeeps == ASSUME LockInv, NEW r \in Readers, RdUnlockStep(r) PROVE LockInv'
BY RdUnlockCallKeeps, UnlinkOwnKeeps, ExtractExpressKeeps, LinkExtractedKeeps,
   FinishReadKeeps, RdUnlockReturnKeeps, UnlockQueuedKeeps DEF RdUnlockStep

LEMMA ReaderStepKeeps ==
  ASSUME LockInv, NEW r \in Readers, RdLockCall(r) \/ ReaderStep(r)
  PROVE  LockInv'
BY RdLockCallKeeps, RdLockStepKeeps, RdUnlockStepKeeps DEF ReaderStep

LEMMA InitLockInv == Init => LockInv
<1> SUFFICES ASSUME Init PROVE LockInv
  OBVIOUS
<1> USE RWLockAssumption DEF Init
<1>1. /\ ToSet(<< >>) = {} /\ IsInjective(<< >>)
      /\ ToSet(EndList) = IF EndItem = Nobody THEN {} ELSE {EndItem}
  BY EmptyList, EndItemSet
<1>2. EndList \in Seq(Readers \cup ToSet(EndList)) /\ IsInjective(EndList)
  <2>1. CASE EndItem = Nobody
    BY <1>1, <2>1 DEF EndList
  <2>2. CASE EndItem # Nobody
    BY <1>1, <2>2 DEF EndList, IsInjective
  <2>. QED BY <2>1, <2>2
<1>3. \A t \in Threads : pc[t] = "idle" /\ target[t] = Nobody /\ wow[t] = "none"
  OBVIOUS
<1>4. Readers \subseteq Threads /\ Writers \subseteq Threads
  BY DEF Threads
<1>5. Types
  BY <1>1, <1>2 DEF Types
<1>6. ListsInjective
  BY <1>1, <1>2 DEF ListsInjective
<1>7. ReadsPlaced
  BY <1>1, <1>3, <1>4 DEF ReadsPlaced, HolderAt, LinkedPC
<1>8. LockHeld /\ ReadsCovered
  BY <1>3, <1>4 DEF LockHeld, ReadsCovered, Writes, ReaderHoldPC, WriterHoldPC
<1>9. ClaimsKept
  BY <1>1, <1>3, <1>4 DEF ClaimsKept, ClaimPC
<1>10. WaitsMatch
  BY <1>3, <1>4 DEF WaitsMatch, WowMatch, OneWaiter, ReadersWait, WritersWait, ClaimPC, Threads
<1>11. TagsMatch /\ ReadersQueue
  BY <1>1, <1>3, <1>4 DEF TagsMatch, ReadersQueue, WaitingLine, WaitingReaders
<1>12. PushersRun
  <2>1. 0 \in Channel
    BY DEF Channel
  <2>. QED BY <1>3, <1>4, <2>1 DEF PushersRun, PushPC
<1>. QED BY <1>5, <1>6, <1>7, <1>8, <1>9, <1>10, <1>11, <1>12 DEF LockInv

LEMMA StutterKeepsLockInv == ASSUME LockInv, UNCHANGED vars PROVE LockInv'
<1> USE DEF LockInv, vars, listVars, writerVars
<1>1. Types' /\ ListsInjective'
  BY DEF Types, ListsInjective
<1>2. ReadsPlaced' /\ ReadsCovered'
  BY DEF ReadsPlaced, ReadsCovered, HolderAt, BeforeEnd, NoReads
<1>3. LockHeld' /\ ClaimsKept'
  BY DEF LockHeld, ClaimsKept, Writes, NoReads
<1>4. WaitsMatch'
  BY DEF WaitsMatch, WowMatch, OneWaiter, ReadersWait, WritersWait
<1>5. TagsMatch' /\ ReadersQueue' /\ PushersRun'
  BY DEF TagsMatch, ReadersQueue, WaitingLine, WaitingReaders, PushersRun
<1>. QED BY <1>1, <1>2, <1>3, <1>4, <1>5

(* The invariant of the rwlock.                                              *)
THEOREM LockInvariant == Spec => []LockInv
<1>1. LockInv /\ [Next]_vars => LockInv'
  BY WriterStepKeeps, ReaderStepKeeps, StutterKeepsLockInv DEF Next
<1>. QED BY <1>1, InitLockInv, PTL DEF Spec

LEMMA ReadsAreCovered == LockInv => ExpressReadsCovered
<1>1. ASSUME LockInv, NEW r \in Readers, pc[r] \in {"reading", "unlock"}, r \notin ToSet(acquired)
      PROVE  /\ r \in ToSet(express) \cup ToSet(extracted)
             /\ ~NoReads \/ \E u \in Readers : accessLock = u /\ pc[u] \in {"extract", "link"}
  <2>1. r \in ToSet(express) \cup ToSet(extracted)
    BY <1>1 DEF LockInv, ReadsPlaced, LinkedPC
  <2>2. CASE r \in ToSet(express)
    BY <1>1, <2>2 DEF LockInv, ReadsCovered, HolderAt
  <2>3. CASE r \in ToSet(extracted)
    BY <1>1, <2>3, EmptyList DEF LockInv, ReadsPlaced, HolderAt
  <2>. QED BY <2>1, <2>2, <2>3
<1>. QED BY <1>1 DEF ExpressReadsCovered

(* Readers let through without a mutex are covered by a linked one or by the *)
(* reader that is about to link them (rwlock.c, the notes in rdunlock).      *)
THEOREM ReadersAreCovered == Spec => []ExpressReadsCovered
BY ReadsAreCovered, LockInvariant, PTL

(* No wait for an item fails because nobody started it, and no item has two  *)
(* waiters, though three kinds of thread wait in three queues (rwlock.c).    *)
THEOREM WaitsStayLegal == Spec => []WaitsAreLegal
<1>1. ASSUME LockInv, NEW x \in ToSet(acquired), x # EndItem PROVE wow[x] # "none"
  <2>1. x \in Readers
    BY <1>1, ListIndices, EndItemSet DEF LockInv, Types
  <2>. QED BY <1>1, <2>1 DEF LockInv, ReadsPlaced, LinkedPC, WaitsMatch, WowMatch
<1>2. ASSUME LockInv, NEW x \in ToSet(waitReads) PROVE wow[x] # "none"
  <2>1. PICK k \in 1 .. Len(waitReads) : waitReads[k] = x
    BY <1>2, ListIndices DEF LockInv, Types
  <2>2. x \in Readers
    BY <1>2, ListIndices DEF LockInv, Types
  <2>3. k = 1 \/ k > 1
    OBVIOUS
  <2>4. pc[x] \notin {"idle", "meetFollower", "meet"}
    BY <1>2, <2>1, <2>3 DEF LockInv, ReadersQueue, WaitingLine
  <2>. QED BY <1>2, <2>2, <2>4 DEF LockInv, WaitsMatch, WowMatch
<1>3. ASSUME LockInv, NEW x \in ToSet(writes) PROVE wow[x] # "none"
  <2>1. x \in Writers
    BY <1>3, ListIndices DEF LockInv, Types
  <2>2. till[x] = 0 /\ pc[x] \in ClaimPC
    BY <1>3, <2>1 DEF LockInv, ClaimsKept
  <2>. QED BY <1>3, <2>1, <2>2 DEF LockInv, WaitsMatch, WowMatch
<1>4. ASSUME LockInv PROVE ToSet(acquired \o waitReads) = ToSet(acquired) \cup ToSet(waitReads)
  <2> DEFINE S == Readers \cup ToSet(EndList)
  <2>1. acquired \in Seq(S) /\ waitReads \in Seq(S)
    BY <1>4 DEF LockInv, Types
  <2>. HIDE DEF S
  <2>. QED BY <2>1, ConcatLists
<1>5. ASSUME LockInv, NEW t \in Threads, target[t] # Nobody
      PROVE  /\ wow[target[t]] \in {"waiter", "none"}
             /\ \A u \in Threads \ {t} : target[u] # target[t]
  <2>1. target[t] \in Threads /\ OneWaiter /\ wow \in [Threads -> {"none", "worker", "waiter"}]
    BY <1>5 DEF LockInv, Types, WaitsMatch
  <2>. QED BY <2>1 DEF OneWaiter
<1>6. LockInv => WaitsAreLegal
  BY <1>1, <1>2, <1>3, <1>4, <1>5, EmptyList, EndItemSet DEF WaitsAreLegal
<1>. QED BY <1>6, LockInvariant, PTL

(* A tag is on the item of a reader exactly while a writer waits for it      *)
(* (rwlock.c, rdlock_itemtag_beingwaited).                                   *)
THEOREM TagsStayCurrent == Spec => []TagsAreCurrent
<1>1. ASSUME LockInv, NEW r \in Readers
      PROVE  /\ r \in ToSet(acquired) =>
                  (r \in beingWaited <=> \E w \in Writers : target[w] = r)
             /\ r \in ToSet(express) \/ pc[r] \in {"idle", "express", "relock", "await"} =>
                  r \notin beingWaited \ ToSet(acquired)
  BY <1>1 DEF LockInv, TagsMatch, WaitsMatch, WritersWait, ReadsPlaced, LinkedPC
<1>2. LockInv => TagsAreCurrent
  BY <1>1 DEF TagsAreCurrent
<1>. QED BY <1>2, LockInvariant, PTL

\* Around the ring of the push locks.
LEMMA RingHeld ==
  ASSUME RWLockAssumption, NEW H, NEW c \in Channel, c \in H,
         \A d \in Channel : d \in H => (d + 1) % Channels \in H
  PROVE  Channel \subseteq H
<1>1. CASE Channels = 1
  BY <1>1 DEF Channel
<1>2. CASE Channels = 2
  <2>1. (0 + 1) % 2 = 1 /\ (1 + 1) % 2 = 0
    OBVIOUS
  <2>. QED BY <1>2, <2>1 DEF Channel
<1>3. CASE Channels = 4
  <2>1. (0 + 1) % 4 = 1 /\ (1 + 1) % 4 = 2 /\ (2 + 1) % 4 = 3 /\ (3 + 1) % 4 = 0
    OBVIOUS
  <2>2. Channel = {0, 1, 2, 3}
    BY <1>3 DEF Channel
  <2>3. (0 \in H => 1 \in H) /\ (1 \in H => 2 \in H) /\ (2 \in H => 3 \in H) /\ (3 \in H => 0 \in H)
    BY <1>3, <2>1, <2>2
  <2>. QED BY <2>2, <2>3
<1>. QED BY <1>1, <1>2, <1>3 DEF RWLockAssumption

(* The writers do not deadlock on the push locks (rwlock.c,                  *)
(* push_readers_waiting_to_acquire_access__multiple_channels).               *)
THEOREM PushersDoNotDeadlock == Spec => []SomePusherRuns
<1>1. ASSUME LockInv, NEW c \in Channel, pushLock[c] # Nobody
      PROVE  \E d \in Channel : pushLock[d] # Nobody /\ ~PushBlocked(pushLock[d])
  <2> DEFINE H == {d \in Channel : pushLock[d] # Nobody}
  <2>1. CASE \E d \in Channel : pushLock[d] = Nobody
    <3>1. PICK d \in Channel : d \in H /\ (d + 1) % Channels \notin H
      <4>1. ~(Channel \subseteq H)
        BY <2>1
      <4>. QED BY <1>1, <4>1, RingHeld, RWLockAssumption
    <3>2. (d + 1) % Channels \in Channel
      BY RWLockAssumption DEF Channel
    <3>. QED BY <3>1, <3>2 DEF PushBlocked
  <2>2. CASE \A d \in Channel : pushLock[d] # Nobody
    BY <1>1, <2>2 DEF LockInv, PushersRun, PushBlocked
  <2>. QED BY <2>1, <2>2
<1>2. LockInv => SomePusherRuns
  BY <1>1 DEF SomePusherRuns
<1>. QED BY <1>2, LockInvariant, PTL

(* Where the threads are: what module TrdlRWLock adds does not happen here.  *)
Places == /\ pc \in [Threads -> ReaderPC \cup WriterPC \cup {"checkTail"}]
          /\ \A r \in Readers : pc[r] \in ReaderPC \/ (pc[r] = "checkTail" /\ EndItem # Nobody)
          /\ \A w \in Writers : pc[w] \in WriterPC

\* A thread goes on to a place of its own kind.
LEMMA PlaceSet ==
  ASSUME Places, NEW t \in Threads, NEW place, pc' = [pc EXCEPT ![t] = place],
         t \in Readers => place \in ReaderPC \/ (place = "checkTail" /\ EndItem # Nobody),
         t \in Writers => place \in WriterPC
  PROVE  Places'
<1>1. \A u \in Threads : pc'[u] = IF u = t THEN place ELSE pc[u]
  BY DEF Places
<1>2. pc' \in [Threads -> ReaderPC \cup WriterPC \cup {"checkTail"}]
  BY DEF Places, Threads
<1>. QED BY <1>1, <1>2 DEF Places, Threads

LEMMA WriterStaysPlaced ==
  ASSUME Places, NEW w \in Writers, WrLockCall(w) \/ TryWrLockCall(w) \/ WriterStep(w)
  PROVE  Places'
<1>1. PICK place \in WriterPC : pc' = [pc EXCEPT ![w] = place]
  <2> USE DEF Goto, WriterPC
  <2>1. CASE WrLockCall(w) \/ TryWrLockCall(w) \/ WrUnlock(w) \/ TryWrLock(w) \/ TryWrLockBusy(w)
    BY <2>1 DEF WrLockCall, TryWrLockCall, WrUnlock, TryWrLock, TryWrLockBusy
  <2>2. CASE WrLockEmpty(w) \/ WrLockNotEmpty(w) \/ Enlist(w) \/ PushFirst(w)
    BY <2>2 DEF WrLockEmpty, WrLockNotEmpty, Enlist, PushFirst
  <2>3. CASE AcquireEmptied(w) \/ WaitLastRead(w) \/ FindAllBusy(w) \/ ReadWaited(w)
    BY <2>3 DEF AcquireEmptied, WaitLastRead, FindAllBusy, ReadWaited
  <2>4. CASE EnlistLate(w) \/ LookAtCommits(w) \/ PushNext(w) \/ Unpush(w)
    BY <2>4 DEF EnlistLate, LookAtCommits, PushNext, Unpush
  <2>5. CASE Unlist(w) \/ ReinitUnlisted(w) \/ FinishWrite(w) \/ WrLockReturn(w)
    BY <2>5 DEF Unlist, ReinitUnlisted, FinishWrite, WrLockReturn
  <2>. QED BY <2>1, <2>2, <2>3, <2>4, <2>5 DEF WriterStep, WrLockStep
<1>2. w \in Threads /\ w \notin Readers
  BY RWLockAssumption DEF Threads
<1>. QED BY <1>1, <1>2, PlaceSet

LEMMA ReaderStaysPlaced ==
  ASSUME Places, NEW r \in Readers, RdLockCall(r) \/ ReaderStep(r)
  PROVE  Places'
<1>1. CASE CheckReads(r)
  <2>1. PICK place : /\ pc' = [pc EXCEPT ![r] = place]
                     /\ place \in ReaderPC \/ (place = "checkTail" /\ EndItem # Nobody)
    BY <1>1 DEF CheckReads, ReaderPC
  <2>. QED BY <2>1, PlaceSet, RWLockAssumption DEF Threads
<1>2. CASE PushFailed(r)
  <2>1. UNCHANGED pc \/ \E place \in ReaderPC : pc' = [pc EXCEPT ![r] = place]
    BY <1>2 DEF PushFailed, ReaderPC
  <2>2. UNCHANGED pc => Places'
    BY DEF Places
  <2>. QED BY <2>1, <2>2, PlaceSet, RWLockAssumption DEF Threads
<1>3. CASE ~CheckReads(r) /\ ~PushFailed(r)
  <2>1. PICK place \in ReaderPC : pc' = [pc EXCEPT ![r] = place]
    <3> USE DEF Goto, ReaderPC
    <3>1. CASE RdLockCall(r) \/ PushExpress(r) \/ LockLinked(r) \/ LockPlain(r) \/ CommittedByOther(r)
      BY <3>1 DEF RdLockCall, PushExpress, LockLinked, LockPlain, CommittedByOther
    <3>2. CASE CommitLinked(r) \/ SwapLinked(r) \/ CommitOwn(r) \/ SwapOwn(r)
      BY <3>2 DEF CommitLinked, SwapLinked, CommitOwn, SwapOwn
    <3>3. CASE LeadReads(r) \/ FollowReads(r) \/ WaitLastWrite(r) \/ WriteWaited(r) \/ FindNoWrites(r)
      BY <3>3 DEF LeadReads, FollowReads, WaitLastWrite, WriteWaited, FindNoWrites
    <3>4. CASE DrainReads(r) \/ ReadWaitEnded(r) \/ LeaveReads(r) \/ FinishWait(r) \/ PrestartAgain(r) \/ Relock(r)
      BY <3>4 DEF DrainReads, ReadWaitEnded, LeaveReads, FinishWait, PrestartAgain, Relock
    <3>5. CASE RdUnlockStep(r)
      BY <3>5 DEF RdUnlockStep, RdUnlockCall, UnlinkOwn, ExtractExpress, LinkExtracted,
         FinishRead, RdUnlockReturn, UnlockQueued
    <3>. QED BY <1>3, <3>1, <3>2, <3>3, <3>4, <3>5 DEF ReaderStep, RdLockStep
  <2>. QED BY <2>1, PlaceSet, RWLockAssumption DEF Threads
<1>. QED BY <1>1, <1>2, <1>3

LEMMA PlacesHold == Spec => []Places
<1>1. Init => Places
  BY DEF Init, Places, Threads, ReaderPC, WriterPC
<1>2. Places /\ [Next]_vars => Places'
  <2>1. Places /\ UNCHANGED vars => Places'
    BY DEF Places, vars
  <2>. QED BY <2>1, WriterStaysPlaced, ReaderStaysPlaced DEF Next
<1>. QED BY <1>1, <1>2, PTL DEF Spec

(* In the basic lock, no item is in two places, the reader that waits for    *)
(* the writers is the first of the waiting ones, and a writer is waited for  *)
(* from the time its number has come to zero (rwlock.c, rdlock, wrlock).     *)
THEOREM LeaderComesFirst == ASSUME EndItem = Nobody PROVE Spec => []LeaderIsFirst
<1>1. ASSUME LockInv, Places PROVE TypeOK
  <2>1. pc \in [Threads -> ReaderPC \cup WriterPC]
    BY <1>1 DEF Places, Threads
  <2>. QED BY <1>1, <2>1 DEF LockInv, Types, TypeOK, Places
<1>2. ASSUME LockInv PROVE IsInjective(acquired \o waitReads \o waitDrain \o extracted)
  <2>1. {acquired, waitReads, waitDrain, extracted} \subseteq Seq(Readers)
    BY <1>2, EndItemSet DEF LockInv, Types
  <2>2. ASSUME NEW x \in Readers
        PROVE  /\ x \in ToSet(waitReads) \cup ToSet(waitDrain) =>
                    pc[x] \in {"lead", "waitWrite", "drain", "follow", "leave"}
               /\ x \in ToSet(acquired) \cup ToSet(extracted) => pc[x] \in LinkedPC \cup {"swapOwn", "unlinkTried"}
    <3>1. x \in ToSet(waitReads) => pc[x] \in {"lead", "waitWrite", "drain", "follow"}
      <4>1. ASSUME x \in ToSet(waitReads) PROVE \E k \in 1 .. Len(waitReads) : waitReads[k] = x
        BY <2>1, <4>1, ListIndices
      <4>. QED BY <1>2, <4>1 DEF LockInv, ReadersQueue, WaitingLine
    <3>. QED BY <1>2, <3>1 DEF LockInv, ReadersQueue, WaitingReaders, ReadsPlaced
  <2>3. ToSet(acquired) \cup ToSet(waitReads) \cup ToSet(waitDrain) \cup ToSet(extracted) \subseteq Readers
    BY <2>1, ListIndices
  <2>4. /\ ToSet(acquired) \cap ToSet(waitReads) = {}
        /\ (ToSet(acquired) \cup ToSet(waitReads)) \cap ToSet(waitDrain) = {}
        /\ (ToSet(acquired) \cup ToSet(waitReads) \cup ToSet(waitDrain)) \cap ToSet(extracted) = {}
    BY <1>2, <2>2, <2>3 DEF LockInv, ListsInjective, ReadsPlaced, LinkedPC
  <2>. DEFINE a == acquired \o waitReads
              b == a \o waitDrain
  <2>5. a \in Seq(Readers) /\ IsInjective(a) /\ ToSet(a) = ToSet(acquired) \cup ToSet(waitReads)
    BY <1>2, <2>1, <2>4, ConcatLists DEF LockInv, ListsInjective
  <2>. HIDE DEF a
  <2>6. b \in Seq(Readers) /\ IsInjective(b) /\ ToSet(b) = ToSet(a) \cup ToSet(waitDrain)
    BY <1>2, <2>1, <2>4, <2>5, ConcatLists DEF LockInv, ListsInjective
  <2>. HIDE DEF b
  <2>7. IsInjective(b \o extracted)
    BY <1>2, <2>1, <2>4, <2>5, <2>6, ConcatLists DEF LockInv, ListsInjective
  <2>. QED BY <2>7 DEF a, b
<1>3. ASSUME LockInv, NEW r \in Readers
      PROVE  pc[r] \in {"lead", "waitWrite", "drain"} <=> waitReads # << >> /\ Head(waitReads) = r
  <2>1. waitReads # << >> => 1 \in 1 .. Len(waitReads)
    BY <1>3 DEF LockInv, Types
  <2>. QED BY <1>3, <2>1 DEF LockInv, ReadersQueue, WaitingLine, WaitingReaders
<1>4. ASSUME LockInv
      PROVE  \A w \in Writers : w \in ToSet(writes) <=> till[w] = 0 /\ pc[w] \in ClaimPC
  BY <1>4 DEF LockInv, ClaimsKept
<1>5. LockInv /\ Places => LeaderIsFirst
  BY <1>1, <1>2, <1>3, <1>4 DEF LeaderIsFirst
<1>. QED BY <1>5, LockInvariant, PlacesHold, PTL

-----------------------------------------------------------------------------
(* The abstract state: the substitutions of Lock under names of their own.   *)
reading == {r \in Readers : pc[r] = "reading"}
holder == IF \E w \in Writers : Writes(w) THEN accessLock ELSE Nobody
claimed == ToSet(writes) \ {accessLock}

\* A step of the waiting, of the queues and of the tags is none of the lock.
LEMMA NothingMoves ==
  ASSUME UNCHANGED <<ahead, claimed, holder>>,
         \A r \in Readers : pc'[r] = "reading" <=> pc[r] = "reading"
  PROVE  UNCHANGED Lock!vars
<1>1. reading' = reading
  BY DEF reading
<1>. QED BY <1>1 DEF Lock!vars, holder, reading, claimed

\* The access lock in the hands of a reader is not the lock for write, and the
\* other threads stay where they are.
LEMMA SameHolder ==
  ASSUME \/ accessLock' = accessLock
         \/ accessLock \notin Writers /\ accessLock' \notin Writers,
         \A w \in Writers : pc'[w] = "release" <=> pc[w] = "release"
  PROVE  holder' = holder
BY DEF holder, Writes

LEMMA SameClaims ==
  ASSUME Types, writes' = writes,
         \/ accessLock' = accessLock
         \/ accessLock \notin Writers /\ accessLock' \notin Writers
  PROVE  claimed' = claimed
<1>1. ToSet(writes) \subseteq Writers
  BY ListIndices DEF Types
<1>. QED BY <1>1 DEF claimed

LEMMA OneWriterMoves ==
  ASSUME LockInv, NEW w \in Writers, NEW place, pc' = [pc EXCEPT ![w] = place]
  PROVE  /\ \A r \in Readers : pc'[r] = pc[r]
         /\ \A u \in Writers : pc'[u] = IF u = w THEN place ELSE pc[u]
BY RWLockAssumption DEF LockInv, Types, Threads

LEMMA OneReaderMoves ==
  ASSUME LockInv, NEW r \in Readers, NEW place, pc' = [pc EXCEPT ![r] = place]
  PROVE  /\ \A u \in Readers : pc'[u] = IF u = r THEN place ELSE pc[u]
         /\ \A w \in Writers : pc'[w] = pc[w]
BY RWLockAssumption DEF LockInv, Types, Threads

LEMMA WriterStutters ==
  ASSUME LockInv, NEW w \in Writers,
         \/ WrLockCall(w) \/ WrLockNotEmpty(w) \/ (Enlist(w) /\ till[w] # 0) \/ PushFirst(w)
         \/ WaitLastRead(w) \/ FindAllBusy(w) \/ ReadWaited(w) \/ LookAtCommits(w) \/ PushNext(w)
         \/ Unpush(w) \/ Unlist(w) \/ ReinitUnlisted(w) \/ FinishWrite(w) \/ WrLockReturn(w)
         \/ TryWrLockCall(w) \/ TryWrLockBusy(w)
  PROVE  UNCHANGED Lock!vars
<1>1. UNCHANGED <<accessLock, ahead>>
  BY DEF WrLockCall, WrLockNotEmpty, Enlist, PushFirst, WaitLastRead, FindAllBusy, ReadWaited,
         LookAtCommits, PushNext, Unpush, Unlist, ReinitUnlisted, FinishWrite, WrLockReturn,
         TryWrLockCall, TryWrLockBusy
<1>2. pc[w] # "release" /\ \E place : place # "release" /\ pc' = [pc EXCEPT ![w] = place]
  BY DEF WrLockCall, WrLockNotEmpty, Enlist, PushFirst, WaitLastRead, FindAllBusy, ReadWaited,
         LookAtCommits, PushNext, Unpush, Unlist, ReinitUnlisted, FinishWrite, WrLockReturn,
         TryWrLockCall, TryWrLockBusy, Goto
<1>3. /\ \A r \in Readers : pc'[r] = pc[r]
      /\ \A u \in Writers : pc'[u] = "release" <=> pc[u] = "release"
  BY <1>2, OneWriterMoves
<1>4. claimed' = claimed
  <2>1. CASE Unlist(w)
    <3>1. accessLock = w
      BY <2>1 DEF LockInv, LockHeld, WriterHoldPC, Unlist, Goto
    <3>2. ToSet(writes') = ToSet(writes) \ {w}
      BY <2>1, RemoveFromList DEF LockInv, Types, ListsInjective, Unlist
    <3>. QED BY <1>1, <3>1, <3>2 DEF claimed
  <2>2. CASE ~Unlist(w)
    <3>1. writes' = writes
      BY <2>2 DEF WrLockCall, WrLockNotEmpty, Enlist, PushFirst, WaitLastRead, FindAllBusy,
           ReadWaited, LookAtCommits, PushNext, Unpush, ReinitUnlisted, FinishWrite,
           WrLockReturn, TryWrLockCall, TryWrLockBusy, listVars
    <3>. QED BY <1>1, <3>1 DEF claimed
  <2>. QED BY <2>1, <2>2
<1>. QED BY <1>1, <1>3, <1>4, NothingMoves, SameHolder

LEMMA ClaimMapped ==
  ASSUME LockInv, NEW w \in Writers, (Enlist(w) /\ till[w] = 0) \/ EnlistLate(w)
  PROVE  Lock!Claim(w)
<1>1. /\ writes' = Append(writes, w) /\ UNCHANGED <<accessLock, ahead>>
      /\ pc[w] \in {"enlist", "enlistLate"}
      /\ \E place \in {"push", "lockReads"} : pc' = [pc EXCEPT ![w] = place]
  BY DEF Enlist, EnlistLate, Goto
<1>2. accessLock # w /\ w \notin ToSet(writes)
  BY <1>1 DEF LockInv, LockHeld, ClaimsKept, WriterHoldPC, ClaimPC
<1>3. ToSet(writes') = ToSet(writes) \cup {w}
  BY <1>1, AppendToList DEF LockInv, Types
<1>4. /\ \A r \in Readers : pc'[r] = pc[r]
      /\ \A u \in Writers : pc'[u] = "release" <=> pc[u] = "release"
  BY <1>1, OneWriterMoves
<1>5. reading' = reading
  BY <1>4 DEF reading
<1>6. holder' = holder /\ holder # w
  BY <1>1, <1>2, <1>4, SameHolder, RWLockAssumption DEF holder
<1>7. w \notin claimed /\ claimed' = claimed \cup {w}
  BY <1>1, <1>2, <1>3 DEF claimed
<1>. QED BY <1>1, <1>5, <1>6, <1>7 DEF Lock!Claim, reading, holder, claimed

\* A lock with no reads in acquired_reads and with its mutex free has no readers.
LEMMA NoReaders ==
  ASSUME LockInv, AccessFree, NoReads, NEW r \in Readers
  PROVE  pc[r] # "reading"
<1> SUFFICES ASSUME pc[r] = "reading" PROVE FALSE
  OBVIOUS
<1>1. r \notin ToSet(acquired)
  BY EndItemSet, RWLockAssumption DEF NoReads
<1>2. r \in ToSet(express) \cup ToSet(extracted)
  BY <1>1 DEF LockInv, ReadsPlaced, LinkedPC
<1>3. accessLock \notin Readers
  BY RWLockAssumption DEF AccessFree
<1>4. ToSet(extracted) = {}
  BY <1>3, EmptyList DEF LockInv, ReadsPlaced, HolderAt
<1>. QED BY <1>2, <1>3, <1>4 DEF LockInv, ReadsCovered, HolderAt

LEMMA BeginWriteMapped ==
  ASSUME LockInv, NEW w \in Writers, WrLockEmpty(w) \/ AcquireEmptied(w) \/ TryWrLock(w)
  PROVE  Lock!BeginWrite(w)
<1>1. /\ AccessFree /\ NoReads /\ accessLock' = w /\ Served(w) /\ writes' = writes
      /\ \E place \in {"writing", "unpush"} : pc' = [pc EXCEPT ![w] = place]
  BY DEF WrLockEmpty, AcquireEmptied, TryWrLock, Goto, listVars
<1>2. pc'[w] # "release" /\ \A r \in Readers : pc'[r] = pc[r]
  BY <1>1, OneWriterMoves
<1>3. reading = {} /\ reading' = {}
  BY <1>1, <1>2, NoReaders DEF reading
<1>4. holder = Nobody /\ holder' = w
  BY <1>1, <1>2 DEF AccessFree, holder, Writes
<1>5. claimed' = claimed \ {w}
  <2>1. ToSet(writes) \subseteq Writers
    BY ListIndices DEF LockInv, Types
  <2>. QED BY <1>1, <2>1, RWLockAssumption DEF claimed, AccessFree
<1>. QED BY <1>1, <1>3, <1>4, <1>5 DEF Lock!BeginWrite, reading, holder, claimed, Served

LEMMA EndWriteMapped ==
  ASSUME LockInv, NEW w \in Writers, WrUnlock(w)
  PROVE  Lock!EndWrite(w)
<1>1. /\ pc[w] = "writing" /\ accessLock' = Nobody /\ UNCHANGED <<writes, ahead>>
      /\ pc' = [pc EXCEPT ![w] = "idle"]
  BY DEF WrUnlock, Goto, listVars
<1>2. accessLock = w /\ w \notin ToSet(writes)
  BY <1>1 DEF LockInv, LockHeld, ClaimsKept, WriterHoldPC, ClaimPC
<1>3. reading' = reading
  BY <1>1, OneWriterMoves DEF reading
<1>4. holder = w /\ holder' = Nobody
  BY <1>1, <1>2, RWLockAssumption DEF holder, Writes
<1>5. claimed' = claimed
  <2>1. ToSet(writes) \subseteq Writers
    BY ListIndices DEF LockInv, Types
  <2>. QED BY <1>1, <1>2, <2>1, RWLockAssumption DEF claimed
<1>. QED BY <1>1, <1>3, <1>4, <1>5 DEF Lock!EndWrite, reading, holder, claimed

\* Where a reader has the access lock, no writer has it.
LEMMA ReaderHolds ==
  ASSUME LockInv, NEW r \in Readers, pc[r] \in ReaderHoldPC
  PROVE  accessLock = r /\ accessLock \notin Writers
BY RWLockAssumption DEF LockInv, LockHeld

\* A reader that goes about elsewhere than where it reads does nothing to the lock.
LEMMA ReaderElsewhere ==
  ASSUME LockInv, NEW r \in Readers, UNCHANGED <<writes, ahead>>, pc[r] # "reading",
         UNCHANGED pc \/ \E place : place # "reading" /\ pc' = [pc EXCEPT ![r] = place],
         \/ accessLock' = accessLock
         \/ accessLock \notin Writers /\ accessLock' \notin Writers
  PROVE  UNCHANGED Lock!vars
<1>1. /\ \A u \in Readers : pc'[u] = "reading" <=> pc[u] = "reading"
      /\ \A w \in Writers : pc'[w] = "release" <=> pc[w] = "release"
  BY OneReaderMoves
<1>. QED BY <1>1, NothingMoves, SameHolder, SameClaims DEF LockInv

LEMMA ReaderStutters ==
  ASSUME LockInv, NEW r \in Readers, ReaderStep(r),
         ~(CheckReads(r) \/ CommittedByOther(r) \/ SwapLinked(r) \/ SwapOwn(r) \/ RdUnlockCall(r))
  PROVE  UNCHANGED Lock!vars
<1>1. CASE \/ PushExpress(r) \/ PushFailed(r) \/ CommitLinked(r) \/ CommitOwn(r) \/ LeadReads(r)
           \/ FollowReads(r) \/ WaitLastWrite(r) \/ WriteWaited(r) \/ FindNoWrites(r)
           \/ DrainReads(r) \/ ReadWaitEnded(r) \/ LeaveReads(r) \/ FinishWait(r)
           \/ PrestartAgain(r) \/ ExtractExpress(r) \/ FinishRead(r) \/ RdUnlockReturn(r)
           \/ UnlockQueued(r)
  <2>1. UNCHANGED <<accessLock, writes, ahead>>
    BY <1>1 DEF PushExpress, PushFailed, CommitLinked, CommitOwn, LeadReads, FollowReads,
       WaitLastWrite, WriteWaited, FindNoWrites, DrainReads, ReadWaitEnded, LeaveReads,
       FinishWait, PrestartAgain, ExtractExpress, FinishRead, RdUnlockReturn, UnlockQueued, listVars
  <2>2. /\ pc[r] # "reading"
        /\ UNCHANGED pc \/ \E place : place # "reading" /\ pc' = [pc EXCEPT ![r] = place]
    BY <1>1 DEF PushExpress, PushFailed, CommitLinked, CommitOwn, LeadReads, FollowReads,
       WaitLastWrite, WriteWaited, FindNoWrites, DrainReads, ReadWaitEnded, LeaveReads,
       FinishWait, PrestartAgain, ExtractExpress, FinishRead, RdUnlockReturn, UnlockQueued, Goto
  <2>. QED BY <2>1, <2>2, ReaderElsewhere
<1>2. CASE \/ LockLinked(r) \/ LockPlain(r) \/ Relock(r) \/ UnlinkOwn(r) \/ LinkExtracted(r)
  <2>1. UNCHANGED <<writes, ahead>> /\ accessLock' \in {r, Nobody}
    BY <1>2 DEF LockLinked, LockPlain, Relock, UnlinkOwn, LinkExtracted, AccessFree, listVars
  <2>2. accessLock \notin Writers
    <3>1. AccessFree \/ pc[r] = "link"
      BY <1>2 DEF LockLinked, LockPlain, Relock, UnlinkOwn, LinkExtracted, Goto
    <3>. QED BY <3>1, ReaderHolds, RWLockAssumption DEF AccessFree, ReaderHoldPC
  <2>3. pc[r] # "reading" /\ \E place : place # "reading" /\ pc' = [pc EXCEPT ![r] = place]
    BY <1>2 DEF LockLinked, LockPlain, Relock, UnlinkOwn, LinkExtracted, Goto
  <2>. QED BY <2>1, <2>2, <2>3, ReaderElsewhere, RWLockAssumption
<1>. QED BY <1>1, <1>2 DEF ReaderStep, RdLockStep, RdUnlockStep

LEMMA AskReadMapped ==
  ASSUME LockInv, NEW r \in Readers, RdLockCall(r)
  PROVE  Lock!AskRead(r)
<1>1. /\ pc[r] = "idle" /\ UNCHANGED <<writes, accessLock>>
      /\ \E place : place # "reading" /\ pc' = [pc EXCEPT ![r] = place]
      /\ ahead' = [ahead EXCEPT ![r] = claimed]
  BY DEF RdLockCall, listVars, claimed
<1>2. /\ \A u \in Readers : pc'[u] = "reading" <=> pc[u] = "reading"
      /\ \A w \in Writers : pc'[w] = pc[w]
  BY <1>1, OneReaderMoves
<1>3. r \notin reading /\ reading' = reading
  BY <1>1, <1>2 DEF reading
<1>4. holder' = holder
  BY <1>1, <1>2, SameHolder
<1>5. claimed' = claimed
  BY <1>1 DEF claimed
<1>. QED BY <1>1, <1>3, <1>4, <1>5 DEF Lock!AskRead, reading, holder, claimed

\* A reader gets the lock when no writer has it, and after all those it was to follow.
LEMMA ReadBegins ==
  ASSUME LockInv, NEW r \in Readers, pc' = [pc EXCEPT ![r] = "reading"], ahead[r] = {},
         UNCHANGED <<writes, ahead>>, holder = Nobody,
         \/ accessLock' = accessLock
         \/ accessLock \notin Writers /\ accessLock' \notin Writers
  PROVE  Lock!BeginRead(r)
<1>1. /\ \A u \in Readers : pc'[u] = IF u = r THEN "reading" ELSE pc[u]
      /\ \A w \in Writers : pc'[w] = pc[w]
  BY OneReaderMoves
<1>2. reading' = reading \cup {r}
  BY <1>1 DEF reading
<1>3. holder' = Nobody
  BY <1>1, SameHolder
<1>4. claimed' = claimed
  BY SameClaims DEF LockInv
<1>. QED BY <1>2, <1>3, <1>4 DEF Lock!BeginRead, reading, holder, claimed

LEMMA BeginReadMapped ==
  ASSUME LockInv, NEW r \in Readers, pc'[r] = "reading",
         CheckReads(r) \/ CommittedByOther(r) \/ SwapLinked(r) \/ SwapOwn(r)
  PROVE  Lock!BeginRead(r)
<1>1. /\ UNCHANGED <<writes, ahead>> /\ pc' = [pc EXCEPT ![r] = "reading"]
      /\ pc[r] \in {"check", "commitLinked", "swapLinked", "swapOwn"}
  BY DEF CheckReads, CommittedByOther, SwapLinked, SwapOwn, Goto, LockInv, Types, Threads,
     listVars
<1>2. ahead[r] = {}
  BY <1>1 DEF LockInv, ClaimsKept, AwaitPC
<1>3. CASE CheckReads(r)
  <2>1. BeforeEnd # << >> /\ accessLock' = accessLock
    BY <1>3 DEF CheckReads, LockInv, Types, Threads
  <2>2. ~NoReads
    BY <2>1, BeforeEndReads DEF LockInv, Types, ListsInjective, EndsIn
  <2>3. holder = Nobody
    BY <2>2 DEF LockInv, LockHeld, holder
  <2>. QED BY <1>1, <1>2, <2>1, <2>3, ReadBegins
<1>4. CASE CommittedByOther(r) \/ SwapLinked(r) \/ SwapOwn(r)
  <2>1. pc[r] \in ReaderHoldPC /\ accessLock' = Nobody
    BY <1>4 DEF CommittedByOther, SwapLinked, SwapOwn, Goto, ReaderHoldPC
  <2>2. accessLock \notin Writers
    BY <2>1, ReaderHolds
  <2>3. holder = Nobody
    BY <2>2 DEF holder, Writes
  <2>. QED BY <1>1, <1>2, <2>1, <2>2, <2>3, ReadBegins, RWLockAssumption
<1>. QED BY <1>3, <1>4

LEMMA EndReadMapped ==
  ASSUME LockInv, NEW r \in Readers, RdUnlockCall(r)
  PROVE  Lock!EndRead(r)
<1>1. /\ pc[r] = "reading" /\ UNCHANGED <<writes, accessLock, ahead>>
      /\ pc' = [pc EXCEPT ![r] = "unlock"]
  BY DEF RdUnlockCall, listVars, Goto
<1>2. /\ \A u \in Readers : pc'[u] = IF u = r THEN "unlock" ELSE pc[u]
      /\ \A w \in Writers : pc'[w] = pc[w]
  BY <1>1, OneReaderMoves
<1>3. r \in reading /\ reading' = reading \ {r}
  BY <1>1, <1>2 DEF reading
<1>4. holder' = holder
  BY <1>1, <1>2, SameHolder
<1>5. claimed' = claimed
  BY <1>1 DEF claimed
<1>. QED BY <1>1, <1>3, <1>4, <1>5 DEF Lock!EndRead, reading, holder, claimed

LEMMA WrLockStepMapped ==
  ASSUME LockInv, NEW w \in Writers, WrLockStep(w)
  PROVE  Lock!Next \/ UNCHANGED Lock!vars
<1>1. CASE WrLockEmpty(w) \/ AcquireEmptied(w)
  BY <1>1, BeginWriteMapped DEF Lock!Next
<1>2. CASE (Enlist(w) /\ till[w] = 0) \/ EnlistLate(w)
  BY <1>2, ClaimMapped DEF Lock!Next
<1>. QED BY <1>1, <1>2, WriterStutters DEF WrLockStep

LEMMA WriterStepMapped ==
  ASSUME LockInv, NEW w \in Writers, WrLockCall(w) \/ TryWrLockCall(w) \/ WriterStep(w)
  PROVE  Lock!Next \/ UNCHANGED Lock!vars
<1>1. CASE TryWrLock(w)
  BY <1>1, BeginWriteMapped DEF Lock!Next
<1>2. CASE WrUnlock(w)
  BY <1>2, EndWriteMapped DEF Lock!Next
<1>. QED BY <1>1, <1>2, WrLockStepMapped, WriterStutters DEF WriterStep

LEMMA ReaderStepMapped ==
  ASSUME LockInv, NEW r \in Readers, RdLockCall(r) \/ ReaderStep(r)
  PROVE  Lock!Next \/ UNCHANGED Lock!vars
<1>1. CASE RdLockCall(r)
  BY <1>1, AskReadMapped DEF Lock!Next
<1>2. CASE RdUnlockCall(r)
  BY <1>2, EndReadMapped DEF Lock!Next
<1>3. CASE CheckReads(r) \/ CommittedByOther(r) \/ SwapLinked(r) \/ SwapOwn(r)
  <2>1. CASE pc'[r] = "reading"
    BY <1>3, <2>1, BeginReadMapped DEF Lock!Next
  <2>2. CASE pc'[r] # "reading"
    <3>1. /\ CheckReads(r) /\ UNCHANGED <<accessLock, writes, ahead>>
          /\ pc[r] = "check" /\ \E place : place # "reading" /\ pc' = [pc EXCEPT ![r] = place]
      BY <1>3, <2>2 DEF CheckReads, CommittedByOther, SwapLinked, SwapOwn, Goto, LockInv, Types,
         Threads, listVars
    <3>. QED BY <3>1, ReaderElsewhere
  <2>. QED BY <2>1, <2>2
<1>. QED BY <1>1, <1>2, <1>3, ReaderStutters

LEMMA LockInitMapped == Init => Lock!Init
<1> SUFFICES ASSUME Init PROVE Lock!Init
  OBVIOUS
<1>1. \A t \in Threads : pc[t] = "idle"
  BY DEF Init
<1>2. reading = {}
  BY <1>1 DEF reading, Threads
<1>3. holder = Nobody
  BY DEF Init, holder
<1>4. claimed = {}
  BY EmptyList DEF Init, claimed
<1>. QED BY <1>2, <1>3, <1>4 DEF Init, Lock!Init, reading, holder, claimed

(* The rwlock keeps readers and writers apart, and serves a writer that      *)
(* claimed priority before every reader that asked later (rwlock.h,          *)
(* mutexgear_rwlock_wrlock): it implements ReadWriteLock.                    *)
THEOREM RWLockKeepsPromise == Spec => LockSpec
<1>1. Init => Lock!Init
  BY LockInitMapped
<1>2. LockInv /\ [Next]_vars => [Lock!Next]_(Lock!vars)
  <2>1. ASSUME UNCHANGED vars PROVE UNCHANGED Lock!vars
    BY <2>1 DEF vars, listVars, Lock!vars, Writes
  <2>. QED BY <2>1, WriterStepMapped, ReaderStepMapped DEF Next
<1>. QED BY <1>1, <1>2, LockInvariant, PTL DEF Spec, LockSpec, Lock!Spec
=============================================================================
