------------------------ MODULE DrainableQueueProofs ------------------------
(***************************************************************************)
(* The lists of DrainableQueue stay consistent, and what is read of them   *)
(* without the lock is what DrainSpec promises, for any number of items.   *)
(*                                                                         *)
(* The pointers of a list are related to the sequence of its items (Ring), *)
(* the stores that are still to be made to the pointers they lead to       *)
(* (Settled), and the walks along the pointers to the sequence, by         *)
(* induction over their length.  What is seen between two stores (View)    *)
(* is told by the previous pointers alone (Back, Shows), and the stores of *)
(* an operation are a course from one view to the next (Course).           *)
(***************************************************************************)
EXTENDS DrainableQueue, ListFacts, FiniteSetTheorems

\* The pointers: two in each node.
Ptrs == {"next", "prev"} \X Nodes

\* The nodes of a list with end item l around, from l to l.
At(l, s, k) == IF k \in 1 .. Len(s) THEN s[k] ELSE l

(* Both directions of a list agree with a sequence of items.                 *)
Ring(h, l, s) ==
  \A k \in 0 .. Len(s) : /\ h[<<"next", At(l, s, k)>>] = At(l, s, k + 1)
                         /\ h[<<"prev", At(l, s, k + 1)>>] = At(l, s, k)

(* Items that are chained.                                                   *)
Chain(h, t) ==
  \A k \in 1 .. Len(t) - 1 : h[<<"next", t[k]>>] = t[k + 1] /\ h[<<"prev", t[k + 1]>>] = t[k]

\* A sequence of different items.
ItemSeq(s) == s \in Seq(Items) /\ IsInjective(s)

\* The sequence s is u with t put before its kth element.
Joined(s, u, t, k) ==
  /\ ItemSeq(s) /\ ItemSeq(u) /\ ItemSeq(t)
  /\ ToSet(u) \cap ToSet(t) = {} /\ ToSet(s) = ToSet(u) \cup ToSet(t)
  /\ k \in 1 .. Len(u) + 1
  /\ Len(s) = Len(u) + Len(t)
  /\ \A i \in 1 .. k - 1 : s[i] = u[i]
  /\ \A i \in 1 .. Len(t) : s[k - 1 + i] = t[i]
  /\ \A i \in k .. Len(u) : s[Len(t) + i] = u[i]

-----------------------------------------------------------------------------
\* A sequence of items can be put into another that has none of them, at any place.
LEMMA JoinLists ==
  ASSUME NEW u, ItemSeq(u), NEW t, ItemSeq(t), ToSet(u) \cap ToSet(t) = {},
         NEW k \in 1 .. Len(u) + 1
  PROVE  \E s : Joined(s, u, t, k)
<1> DEFINE n == Len(u) + Len(t)
           s == [i \in 1 .. n |-> IF i < k THEN u[i]
                                  ELSE IF i < k + Len(t) THEN t[i - k + 1] ELSE u[i - Len(t)]]
<1>0. Len(u) \in Nat /\ Len(t) \in Nat /\ n \in Nat
  BY DEF ItemSeq
<1>1. \A i \in 1 .. n : s[i] \in Items
  BY <1>0 DEF ItemSeq
<1>2. s \in [1 .. n -> Items]
  BY <1>1
<1>3. s \in Seq(Items) /\ Len(s) = n
  BY <1>0, <1>2, SeqDef, LenProperties
<1>4. /\ \A i \in 1 .. k - 1 : s[i] = u[i]
      /\ \A i \in 1 .. Len(t) : s[k - 1 + i] = t[i]
      /\ \A i \in k .. Len(u) : s[Len(t) + i] = u[i]
  BY <1>0
<1>5. ToSet(s) = ToSet(u) \cup ToSet(t)
  <2>1. ASSUME NEW x \in ToSet(s) PROVE x \in ToSet(u) \cup ToSet(t)
    <3>1. \A i \in 1 .. n : s[i] \in ToSet(u) \cup ToSet(t)
      <4>1. /\ \A i \in 1 .. Len(u) : u[i] \in ToSet(u)
            /\ \A i \in 1 .. Len(t) : t[i] \in ToSet(t)
        BY ListIndices DEF ItemSeq
      <4>2. ASSUME NEW i \in 1 .. n PROVE s[i] \in ToSet(u) \cup ToSet(t)
        <5>1. CASE i < k
          BY <1>0, <4>1, <5>1
        <5>2. CASE i >= k /\ i < k + Len(t)
          <6>1. i - k + 1 \in 1 .. Len(t) /\ s[i] = t[i - k + 1]
            BY <1>0, <5>2
          <6>. QED BY <4>1, <6>1
        <5>3. CASE i >= k + Len(t)
          <6>1. i - Len(t) \in 1 .. Len(u) /\ s[i] = u[i - Len(t)]
            BY <1>0, <5>3
          <6>. QED BY <4>1, <6>1
        <5>. QED BY <1>0, <5>1, <5>2, <5>3
      <4>. QED BY <4>2
    <3>. HIDE DEF s
    <3>. QED BY <1>3, <3>1, ListIndices
  <2>2. ASSUME NEW x \in ToSet(u) PROVE x \in ToSet(s)
    <3>1. PICK i \in 1 .. Len(u) : u[i] = x
      BY ListIndices DEF ItemSeq
    <3>2. s[i] = x \/ s[Len(t) + i] = x
      BY <1>0, <1>4, <3>1
    <3>3. i \in 1 .. Len(s) /\ Len(t) + i \in 1 .. Len(s)
      BY <1>0, <1>3
    <3>. HIDE DEF s
    <3>. QED BY <1>3, <3>2, <3>3, ListIndices
  <2>3. ASSUME NEW x \in ToSet(t) PROVE x \in ToSet(s)
    <3>1. PICK i \in 1 .. Len(t) : t[i] = x
      BY ListIndices DEF ItemSeq
    <3>2. s[k - 1 + i] = x /\ k - 1 + i \in 1 .. Len(s)
      BY <1>0, <1>3, <1>4, <3>1
    <3>. HIDE DEF s
    <3>. QED BY <1>3, <3>2, ListIndices
  <2>. QED BY <2>1, <2>2, <2>3
<1>6. IsInjective(s)
  <2>1. \A i \in 1 .. Len(u), j \in 1 .. Len(t) : u[i] # t[j]
    BY ListIndices DEF ItemSeq
  <2>2. /\ \A i, j \in 1 .. Len(u) : u[i] = u[j] => i = j
        /\ \A i, j \in 1 .. Len(t) : t[i] = t[j] => i = j
    BY ListIndices DEF ItemSeq
  <2>3. ASSUME NEW i \in 1 .. n, NEW j \in 1 .. n, s[i] = s[j] PROVE i = j
    <3> DEFINE InT(m) == m >= k /\ m < k + Len(t)
               from(m) == IF m < k THEN m ELSE m - Len(t)
    <3>1. \A m \in 1 .. n : \/ InT(m) /\ m - k + 1 \in 1 .. Len(t) /\ s[m] = t[m - k + 1]
                            \/ ~InT(m) /\ from(m) \in 1 .. Len(u) /\ s[m] = u[from(m)]
      BY <1>0
    <3>2. InT(i) <=> InT(j)
      <4>. HIDE DEF InT, from, s
      <4>. QED BY <2>1, <2>3, <3>1
    <3>3. CASE InT(i)
      <4>1. i - k + 1 = j - k + 1
        <5>. HIDE DEF InT, from, s
        <5>. QED BY <2>2, <2>3, <3>1, <3>2, <3>3
      <4>. QED BY <1>0, <4>1
    <3>4. CASE ~InT(i)
      <4>1. from(i) = from(j)
        <5>. HIDE DEF InT, from, s
        <5>. QED BY <2>2, <2>3, <3>1, <3>2, <3>4
      <4>. QED BY <1>0, <4>1, <3>2, <3>4
    <3>. QED BY <3>3, <3>4
  <2>. HIDE DEF s
  <2>. QED BY <1>3, <2>3, ListIndices
<1>. HIDE DEF s
<1>. QED BY <1>3, <1>4, <1>5, <1>6 DEF ItemSeq, Joined

\* Any part of a sequence can be cut out of it.
LEMMA CutList ==
  ASSUME NEW s, ItemSeq(s), NEW a \in 1 .. Len(s), NEW b \in a .. Len(s)
  PROVE  \E u, t : Joined(s, u, t, a) /\ Len(t) = b - a + 1
<1> DEFINE m == b - a + 1
           n == Len(s) - m
           t == [i \in 1 .. m |-> s[a - 1 + i]]
           u == [i \in 1 .. n |-> IF i < a THEN s[i] ELSE s[m + i]]
<1>0. Len(s) \in Nat /\ m \in Nat /\ n \in Nat /\ s \in Seq(Items)
  BY DEF ItemSeq
<1>1. t \in [1 .. m -> Items] /\ u \in [1 .. n -> Items]
  BY <1>0
<1>2. t \in Seq(Items) /\ Len(t) = m /\ u \in Seq(Items) /\ Len(u) = n
  BY <1>0, <1>1, SeqDef, LenProperties
<1>3. /\ a \in 1 .. Len(u) + 1 /\ Len(s) = Len(u) + Len(t)
      /\ \A i \in 1 .. a - 1 : s[i] = u[i]
      /\ \A i \in 1 .. Len(t) : s[a - 1 + i] = t[i]
      /\ \A i \in a .. Len(u) : s[Len(t) + i] = u[i]
  BY <1>0, <1>2
<1>4. \A i, j \in 1 .. Len(s) : s[i] = s[j] => i = j
  BY ListIndices DEF ItemSeq
<1>5. IsInjective(t) /\ IsInjective(u)
  <2>1. \A i, j \in 1 .. m : t[i] = t[j] => i = j
    BY <1>0, <1>4
  <2>2. \A i, j \in 1 .. n : u[i] = u[j] => i = j
    BY <1>0, <1>4
  <2>. QED BY <1>2, <2>1, <2>2, ListIndices
<1>6. ToSet(u) \cap ToSet(t) = {}
  <2>1. \A i \in 1 .. n, j \in 1 .. m : u[i] # t[j]
    BY <1>0, <1>4
  <2>. HIDE DEF u, t
  <2>. QED BY <1>2, <2>1, ListIndices
<1>7. ToSet(s) = ToSet(u) \cup ToSet(t)
  <2>1. ASSUME NEW x \in ToSet(s) PROVE x \in ToSet(u) \cup ToSet(t)
    <3>1. PICK i \in 1 .. Len(s) : s[i] = x
      BY <1>0, ListIndices
    <3>2. CASE i < a
      <4>1. i \in 1 .. n /\ u[i] = x
        BY <1>0, <3>1, <3>2
      <4>. HIDE DEF u
      <4>. QED BY <1>2, <4>1, ListIndices
    <3>3. CASE i \in a .. b
      <4>1. i - a + 1 \in 1 .. m /\ t[i - a + 1] = x
        BY <1>0, <3>1, <3>3
      <4>. HIDE DEF t
      <4>. QED BY <1>2, <4>1, ListIndices
    <3>4. CASE i > b
      <4>1. i - m \in 1 .. n /\ u[i - m] = x
        BY <1>0, <3>1, <3>4
      <4>. HIDE DEF u
      <4>. QED BY <1>2, <4>1, ListIndices
    <3>. QED BY <1>0, <3>1, <3>2, <3>3, <3>4
  <2>2. ASSUME NEW x \in ToSet(u) \cup ToSet(t) PROVE x \in ToSet(s)
    <3>0. \A i \in 1 .. Len(s) : s[i] \in ToSet(s)
      BY <1>0, ListIndices
    <3>1. ASSUME NEW i \in 1 .. n PROVE u[i] \in ToSet(s)
      <4>1. \E j \in 1 .. Len(s) : u[i] = s[j]
        <5>1. u[i] = s[IF i < a THEN i ELSE m + i] /\ (IF i < a THEN i ELSE m + i) \in 1 .. Len(s)
          BY <1>0
        <5>. QED BY <5>1
      <4>. HIDE DEF u
      <4>. QED BY <4>1, <3>0
    <3>2. ASSUME NEW i \in 1 .. m PROVE t[i] \in ToSet(s)
      <4>1. t[i] = s[a - 1 + i] /\ a - 1 + i \in 1 .. Len(s)
        BY <1>0
      <4>. HIDE DEF t
      <4>. QED BY <4>1, <3>0
    <3>. HIDE DEF u, t
    <3>3. CASE x \in ToSet(u)
      BY <1>2, <3>1, <3>3, ListIndices
    <3>4. CASE x \in ToSet(t)
      BY <1>2, <3>2, <3>4, ListIndices
    <3>. QED BY <2>2, <3>3, <3>4
  <2>. QED BY <2>1, <2>2
<1>. HIDE DEF u, t
<1>. QED BY <1>2, <1>3, <1>5, <1>6, <1>7 DEF ItemSeq, Joined

\* The list u and the item i make up the list s, where i is the kth item.
OneOut(s, i, k, u, t) ==
  /\ k \in 1 .. Len(s) /\ s[k] = i
  /\ Joined(s, u, t, k) /\ Len(t) = 1 /\ t # << >> /\ t[1] = i /\ ToSet(t) = {i}
  /\ ItemSeq(t) /\ ItemSeq(u) /\ ToSet(u) = ToSet(s) \ {i}

\* One item can be taken out of its list.
LEMMA CutOne ==
  ASSUME NEW s, ItemSeq(s), NEW i \in ToSet(s)
  PROVE  \E k, u, t : OneOut(s, i, k, u, t)
<1>1. PICK k \in 1 .. Len(s) : s[k] = i
  BY ListIndices DEF ItemSeq
<1>2. PICK u, t : Joined(s, u, t, k) /\ Len(t) = k - k + 1
  <2>1. k \in k .. Len(s)
    BY DEF ItemSeq
  <2>. QED BY <2>1, CutList
<1>3. t \in Seq(Items)
  BY <1>2 DEF Joined, ItemSeq
<1>4. k \in Int /\ k - k + 1 = 1 /\ k - 1 + 1 = k
  OBVIOUS
<1>5. Len(t) = 1
  BY <1>2, <1>4
<1>6. t # << >> /\ 1 \in 1 .. Len(t)
  BY <1>3, <1>5
<1>7. t[1] = i
  BY <1>1, <1>2, <1>4, <1>6 DEF Joined
<1>8. ToSet(t) = {i}
  BY <1>3, <1>5, <1>7, ListIndices
<1>9. ItemSeq(t) /\ ItemSeq(u) /\ ToSet(u) = ToSet(s) \ {i}
  BY <1>2, <1>8 DEF Joined
<1>. QED BY <1>1, <1>2, <1>5, <1>6, <1>7, <1>8, <1>9 DEF OneOut

\* A list can be cut before one of its items.
LEMMA CutTail ==
  ASSUME NEW s, ItemSeq(s), NEW i \in ToSet(s)
  PROVE  \E u, t : Joined(s, u, t, Len(u) + 1) /\ t # << >> /\ t[1] = i
<1>1. PICK k \in 1 .. Len(s) : s[k] = i
  BY ListIndices DEF ItemSeq
<1>2. PICK u, t : Joined(s, u, t, k) /\ Len(t) = Len(s) - k + 1
  <2>1. Len(s) \in k .. Len(s)
    BY DEF ItemSeq
  <2>. QED BY <2>1, CutList
<1>3. /\ Len(s) \in Nat /\ Len(u) \in Nat /\ Len(t) \in Nat /\ Len(s) = Len(u) + Len(t)
      /\ \A n \in 1 .. Len(t) : s[k - 1 + n] = t[n]
  BY <1>2 DEF Joined, ItemSeq
<1>4. Len(t) > 0 /\ 1 \in 1 .. Len(t) /\ k - 1 + 1 = k /\ k = Len(u) + 1
  BY <1>1, <1>2, <1>3
<1>5. t # << >> /\ t[1] = i
  BY <1>1, <1>3, <1>4
<1>. QED BY <1>2, <1>4, <1>5

\* The nodes around a list are its items and the end item, each met once.
LEMMA RingNodes ==
  ASSUME NEW s, ItemSeq(s), NEW l \in {Queue, Drain}
  PROVE  /\ \A k \in Int : At(l, s, k) \in ToSet(s) \cup {l} /\ At(l, s, k) \in Nodes
         /\ \A j, k \in 0 .. Len(s) : At(l, s, j) = At(l, s, k) => j = k
         /\ \A j, k \in 1 .. Len(s) + 1 : At(l, s, j) = At(l, s, k) => j = k
<1>0. Len(s) \in Nat /\ s \in Seq(Items) /\ \A k \in 1 .. Len(s) : s[k] \in ToSet(s) /\ s[k] \in Items
  BY ListIndices DEF ItemSeq
<1>1. l \notin Items /\ l \in Nodes
  BY DrainableQueueAssumption DEF Nodes
<1>2. \A j, k \in 1 .. Len(s) : s[j] = s[k] => j = k
  BY ListIndices DEF ItemSeq
<1>. QED BY <1>0, <1>1, <1>2 DEF At, Nodes

JoinedAt(l, s, u, t, k) ==
  /\ \A j \in 0 .. k - 1 : At(l, s, j) = At(l, u, j)
  /\ \A j \in 1 .. Len(t) : At(l, s, k - 1 + j) = t[j]
  /\ \A j \in k .. Len(u) + 1 : At(l, s, Len(t) + j) = At(l, u, j)

\* Where the nodes of the two parts are in the joined list.
LEMMA AtJoined ==
  ASSUME NEW s, NEW u, NEW t, NEW k, Joined(s, u, t, k), NEW l
  PROVE  JoinedAt(l, s, u, t, k)
<1> Len(s) \in Nat /\ Len(u) \in Nat /\ Len(t) \in Nat
  BY DEF ItemSeq, Joined
<1> USE DEF Joined, At
<1>1. ASSUME NEW j \in 0 .. k - 1 PROVE At(l, s, j) = At(l, u, j)
  OBVIOUS
<1>2. ASSUME NEW j \in 1 .. Len(t) PROVE At(l, s, k - 1 + j) = t[j]
  OBVIOUS
<1>3. ASSUME NEW j \in k .. Len(u) + 1 PROVE At(l, s, Len(t) + j) = At(l, u, j)
  OBVIOUS
<1>. QED BY <1>1, <1>2, <1>3 DEF JoinedAt

\* The ends of the list u before its kth node are joined, and nothing else is changed.
CutOut(h, g, l, u, k) ==
  /\ g[<<"next", At(l, u, k - 1)>>] = At(l, u, k) /\ g[<<"prev", At(l, u, k)>>] = At(l, u, k - 1)
  /\ \A n \in ToSet(u) \cup {l} :
       /\ n # At(l, u, k - 1) => g[<<"next", n>>] = h[<<"next", n>>]
       /\ n # At(l, u, k) => g[<<"prev", n>>] = h[<<"prev", n>>]

(* A list without the items that are cut out.                                *)
LEMMA RingCut ==
  ASSUME NEW s, NEW u, NEW t, NEW k, Joined(s, u, t, k),
         NEW l \in {Queue, Drain}, NEW h, NEW g, Ring(h, l, s),
         CutOut(h, g, l, u, k)
  PROVE  Ring(g, l, u)
<1> Len(s) \in Nat /\ Len(u) \in Nat /\ Len(t) \in Nat /\ k \in 1 .. Len(u) + 1
    /\ Len(s) = Len(u) + Len(t) /\ ItemSeq(s) /\ ItemSeq(u) /\ ItemSeq(t)
  BY DEF ItemSeq, Joined
<1>at. JoinedAt(l, s, u, t, k)
  BY AtJoined
<1> SUFFICES ASSUME NEW j \in 0 .. Len(u)
             PROVE  /\ g[<<"next", At(l, u, j)>>] = At(l, u, j + 1)
                    /\ g[<<"prev", At(l, u, j + 1)>>] = At(l, u, j)
  BY DEF Ring
<1>1. CASE j = k - 1
  BY <1>1 DEF CutOut
<1>2. CASE j # k - 1
  <2>1. /\ g[<<"next", At(l, u, j)>>] = h[<<"next", At(l, u, j)>>]
        /\ g[<<"prev", At(l, u, j + 1)>>] = h[<<"prev", At(l, u, j + 1)>>]
    <3>1. At(l, u, j) # At(l, u, k - 1) /\ At(l, u, j) \in ToSet(u) \cup {l}
      BY <1>2, RingNodes
    <3>2. At(l, u, j + 1) # At(l, u, k) /\ At(l, u, j + 1) \in ToSet(u) \cup {l}
      BY <1>2, RingNodes
    <3>. QED BY <3>1, <3>2 DEF CutOut
  <2>2. PICK i \in 0 .. Len(s) : At(l, s, i) = At(l, u, j) /\ At(l, s, i + 1) = At(l, u, j + 1)
    <3>1. CASE j < k - 1
      <4>1. j \in 0 .. k - 1 /\ j + 1 \in 0 .. k - 1 /\ j \in 0 .. Len(s)
        BY <3>1
      <4>. QED BY <4>1, <1>at DEF JoinedAt
    <3>2. CASE j > k - 1
      <4>1. /\ j \in k .. Len(u) + 1 /\ j + 1 \in k .. Len(u) + 1 /\ Len(t) + j \in 0 .. Len(s)
            /\ Len(t) + (j + 1) = (Len(t) + j) + 1
        BY <3>2
      <4>. QED BY <4>1, <1>at DEF JoinedAt
    <3>. QED BY <1>2, <3>1, <3>2
  <2>. QED BY <2>1, <2>2 DEF Ring
<1>. QED BY <1>1, <1>2

(* What is cut out of a list is a chain.                                     *)
LEMMA CutChain ==
  ASSUME NEW s, NEW u, NEW t, NEW k, Joined(s, u, t, k),
         NEW l \in {Queue, Drain}, NEW h, Ring(h, l, s)
  PROVE  Chain(h, t)
<1> Len(s) \in Nat /\ Len(u) \in Nat /\ Len(t) \in Nat /\ k \in 1 .. Len(u) + 1
    /\ Len(s) = Len(u) + Len(t) /\ ItemSeq(s) /\ ItemSeq(u) /\ ItemSeq(t)
  BY DEF ItemSeq, Joined
<1>at. JoinedAt(l, s, u, t, k)
  BY AtJoined
<1> SUFFICES ASSUME NEW j \in 1 .. Len(t) - 1
             PROVE  h[<<"next", t[j]>>] = t[j + 1] /\ h[<<"prev", t[j + 1]>>] = t[j]
  BY DEF Chain
<1>1. /\ j \in 1 .. Len(t) /\ j + 1 \in 1 .. Len(t) /\ k - 1 + j \in 0 .. Len(s)
      /\ k - 1 + (j + 1) = (k - 1 + j) + 1
  OBVIOUS
<1>2. At(l, s, k - 1 + j) = t[j] /\ At(l, s, (k - 1 + j) + 1) = t[j + 1]
  BY <1>1, <1>at DEF JoinedAt
<1>. QED BY <1>1, <1>2 DEF Ring

\* The chain t is put before the kth node of the list u, and nothing else is changed.
LinkedIn(h, g, l, u, t, k) ==
  /\ g[<<"next", At(l, u, k - 1)>>] = t[1] /\ g[<<"prev", t[1]>>] = At(l, u, k - 1)
  /\ g[<<"next", t[Len(t)]>>] = At(l, u, k) /\ g[<<"prev", At(l, u, k)>>] = t[Len(t)]
  /\ \A n \in ToSet(u) \cup ToSet(t) \cup {l} :
       /\ n \notin {At(l, u, k - 1), t[Len(t)]} => g[<<"next", n>>] = h[<<"next", n>>]
       /\ n \notin {At(l, u, k), t[1]} => g[<<"prev", n>>] = h[<<"prev", n>>]

\* The chain t is between the nodes o and e.
Between(h, t, o, e) ==
  /\ h[<<"prev", t[1]>>] = o /\ h[<<"next", t[Len(t)]>>] = e
  /\ h[<<"next", o>>] = t[1] /\ h[<<"prev", e>>] = t[Len(t)]

\* Where a part that is going to be cut is linked to the rest of the list.
LEMMA CutEnds ==
  ASSUME NEW s, NEW u, NEW t, NEW k \in Int, Joined(s, u, t, k), t # << >>,
         NEW l \in {Queue, Drain}, NEW h, Ring(h, l, s)
  PROVE  Between(h, t, At(l, u, k - 1), At(l, u, k))
<1> Len(s) \in Nat /\ Len(u) \in Nat /\ Len(t) \in Nat /\ k \in 1 .. Len(u) + 1
    /\ Len(s) = Len(u) + Len(t) /\ Len(t) > 0
  BY DEF ItemSeq, Joined
<1>at. JoinedAt(l, s, u, t, k)
  BY AtJoined
<1>1. k - 1 \in 0 .. Len(s) /\ k - 1 \in 0 .. k - 1 /\ 1 \in 1 .. Len(t) /\ k - 1 + 1 = k
  OBVIOUS
<1>2. At(l, s, k - 1) = At(l, u, k - 1) /\ At(l, s, k) = t[1]
  BY <1>1, <1>at DEF JoinedAt
<1>3. /\ k - 1 + Len(t) \in 0 .. Len(s) /\ Len(t) \in 1 .. Len(t) /\ k \in k .. Len(u) + 1
      /\ (k - 1 + Len(t)) + 1 = Len(t) + k
  OBVIOUS
<1>4. At(l, s, k - 1 + Len(t)) = t[Len(t)] /\ At(l, s, (k - 1 + Len(t)) + 1) = At(l, u, k)
  BY <1>3, <1>at DEF JoinedAt
<1>. QED BY <1>1, <1>2, <1>3, <1>4 DEF Ring, Between

(* A list with a chain of items put in.                                      *)
LEMMA RingInsert ==
  ASSUME NEW s, NEW u, NEW t, NEW k, Joined(s, u, t, k),
         t # << >>,
         NEW l \in {Queue, Drain}, NEW h, NEW g, Ring(h, l, u), Chain(h, t),
         LinkedIn(h, g, l, u, t, k)
  PROVE  Ring(g, l, s)
<1> Len(s) \in Nat /\ Len(u) \in Nat /\ Len(t) \in Nat /\ k \in 1 .. Len(u) + 1
    /\ Len(s) = Len(u) + Len(t) /\ Len(t) > 0 /\ ItemSeq(s) /\ ItemSeq(u) /\ ItemSeq(t)
    /\ ToSet(u) \cap ToSet(t) = {}
  BY DEF ItemSeq, Joined
<1>0. /\ \A j \in 1 .. Len(t) : t[j] \in ToSet(t) /\ t[j] \notin ToSet(u) \cup {l}
      /\ \A i, j \in 1 .. Len(t) : t[i] = t[j] => i = j
  <2>1. l \notin ToSet(t)
    BY ListIndices, DrainableQueueAssumption DEF ItemSeq
  <2>. QED BY <2>1, ListIndices DEF ItemSeq
<1>at. JoinedAt(l, s, u, t, k)
  BY AtJoined
<1> SUFFICES ASSUME NEW j \in 0 .. Len(s)
             PROVE  /\ g[<<"next", At(l, s, j)>>] = At(l, s, j + 1)
                    /\ g[<<"prev", At(l, s, j + 1)>>] = At(l, s, j)
  BY DEF Ring
<1>1. ASSUME NEW i \in 0 .. Len(u), i # k - 1
      PROVE  /\ g[<<"next", At(l, u, i)>>] = At(l, u, i + 1)
             /\ g[<<"prev", At(l, u, i + 1)>>] = At(l, u, i)
  <2>1. At(l, u, i) # At(l, u, k - 1) /\ At(l, u, i) \in ToSet(u) \cup {l}
    BY <1>1, RingNodes
  <2>2. At(l, u, i + 1) # At(l, u, k) /\ At(l, u, i + 1) \in ToSet(u) \cup {l}
    BY <1>1, RingNodes
  <2>3. t[1] \notin ToSet(u) \cup {l} /\ t[Len(t)] \notin ToSet(u) \cup {l}
    BY <1>0
  <2>. QED BY <2>1, <2>2, <2>3 DEF Ring, LinkedIn
<1>2. CASE j < k - 1
  <2>1. j \in 0 .. k - 1 /\ j + 1 \in 0 .. k - 1 /\ j \in 0 .. Len(u) /\ j # k - 1
    BY <1>2
  <2>. QED BY <1>1, <2>1, <1>at DEF JoinedAt
<1>3. CASE j = k - 1
  <2>1. j \in 0 .. k - 1 /\ 1 \in 1 .. Len(t) /\ j + 1 = k - 1 + 1
    BY <1>3
  <2>2. At(l, s, j) = At(l, u, k - 1) /\ At(l, s, j + 1) = t[1]
    BY <1>3, <2>1, <1>at DEF JoinedAt
  <2>. QED BY <2>2 DEF LinkedIn
<1>4. CASE j > k - 1 /\ j < k - 1 + Len(t)
  <2> DEFINE i == j - k + 1
  <2>0. i \in 1 .. Len(t) - 1 /\ j = k - 1 + i
    BY <1>4
  <2> HIDE DEF i
  <2>1. /\ i \in 1 .. Len(t) /\ i + 1 \in 1 .. Len(t)
        /\ j + 1 = k - 1 + (i + 1) /\ i # Len(t) /\ i + 1 # 1
        /\ 1 \in 1 .. Len(t) /\ Len(t) \in 1 .. Len(t)
    BY <2>0
  <2>2. At(l, s, j) = t[i] /\ At(l, s, j + 1) = t[i + 1]
    BY <2>0, <2>1, <1>at DEF JoinedAt
  <2>3. t[i] # t[Len(t)] /\ t[i + 1] # t[1]
    BY <1>0, <2>0, <2>1
  <2>4. At(l, u, k - 1) \in ToSet(u) \cup {l} /\ At(l, u, k) \in ToSet(u) \cup {l}
    BY RingNodes
  <2>5. h[<<"next", t[i]>>] = t[i + 1] /\ h[<<"prev", t[i + 1]>>] = t[i]
    BY <2>0 DEF Chain
  <2>. QED BY <1>0, <2>0, <2>1, <2>2, <2>3, <2>4, <2>5 DEF LinkedIn
<1>5. CASE j = k - 1 + Len(t)
  <2>1. /\ Len(t) \in 1 .. Len(t) /\ k \in k .. Len(u) + 1 /\ j = k - 1 + Len(t)
        /\ j + 1 = Len(t) + k
    BY <1>5
  <2>2. At(l, s, j) = t[Len(t)] /\ At(l, s, j + 1) = At(l, u, k)
    BY <2>1, <1>at DEF JoinedAt
  <2>. QED BY <2>2 DEF LinkedIn
<1>6. CASE j > k - 1 + Len(t)
  <2> DEFINE i == j - Len(t)
  <2>0. i \in Int /\ i >= k /\ i <= Len(u) /\ j = Len(t) + i
    BY <1>6
  <2> HIDE DEF i
  <2>1. /\ i \in k .. Len(u) + 1 /\ i + 1 \in k .. Len(u) + 1 /\ i \in 0 .. Len(u) /\ i # k - 1
        /\ j = Len(t) + i /\ j + 1 = Len(t) + (i + 1)
    BY <2>0
  <2>2. At(l, s, j) = At(l, u, i) /\ At(l, s, j + 1) = At(l, u, i + 1)
    BY <2>1, <1>at DEF JoinedAt
  <2>. QED BY <1>1, <2>1, <2>2
<1>. QED BY <1>2, <1>3, <1>4, <1>5, <1>6

\* A list whose nodes keep their pointers stays.
LEMMA RingStays ==
  ASSUME NEW s, ItemSeq(s), NEW l \in {Queue, Drain}, NEW h, NEW g, Ring(h, l, s),
         \A n \in ToSet(s) \cup {l} : g[<<"next", n>>] = h[<<"next", n>>] /\ g[<<"prev", n>>] = h[<<"prev", n>>]
  PROVE  Ring(g, l, s)
<1> SUFFICES ASSUME NEW k \in 0 .. Len(s)
             PROVE  /\ g[<<"next", At(l, s, k)>>] = At(l, s, k + 1)
                    /\ g[<<"prev", At(l, s, k + 1)>>] = At(l, s, k)
  BY DEF Ring
<1>1. At(l, s, k) \in ToSet(s) \cup {l} /\ At(l, s, k + 1) \in ToSet(s) \cup {l}
  BY RingNodes DEF ItemSeq
<1>. QED BY <1>1 DEF Ring

\* Where a store goes.
Loc(store) == <<store[1], store[2]>>

(* What the pointers will be after the stores: nothing is stored over.       *)
Settled(h, todo, g) ==
  /\ g \in [Ptrs -> Nodes]
  /\ \A k \in 1 .. Len(todo) : g[Loc(todo[k])] = todo[k][3]
  /\ \A p \in Ptrs : (\A k \in 1 .. Len(todo) : p # Loc(todo[k])) => g[p] = h[p]

StoreSeq == Seq({"next", "prev"} \X Nodes \X Nodes)

\* A store brings the pointers a step nearer to what they will be.
LEMMA StoreSettles ==
  ASSUME NEW h \in [Ptrs -> Nodes], NEW todo \in StoreSeq, todo # << >>, NEW g, Settled(h, todo, g)
  PROVE  Settled(Write(h, Head(todo)), Tail(todo), g)
<1>1. /\ Head(todo) = todo[1] /\ Len(Tail(todo)) = Len(todo) - 1 /\ Len(todo) \in Nat \ {0}
      /\ \A k \in 1 .. Len(todo) - 1 : Tail(todo)[k] = todo[k + 1]
  BY DEF StoreSeq
<1>2. \A k \in 1 .. Len(Tail(todo)) : g[Loc(Tail(todo)[k])] = Tail(todo)[k][3]
  BY <1>1 DEF Settled
<1>3. ASSUME NEW p \in Ptrs, \A k \in 1 .. Len(Tail(todo)) : p # Loc(Tail(todo)[k])
      PROVE  g[p] = Write(h, Head(todo))[p]
  <2>1. CASE p = Loc(todo[1])
    <3>1. g[p] = todo[1][3]
      BY <1>1, <2>1 DEF Settled
    <3>. QED BY <1>1, <2>1, <3>1 DEF Write, Loc
  <2>2. CASE p # Loc(todo[1])
    <3>1. ASSUME NEW k \in 1 .. Len(todo) PROVE p # Loc(todo[k])
      <4>1. CASE k = 1
        BY <2>2, <4>1
      <4>2. CASE k # 1
        <5>1. k - 1 \in 1 .. Len(Tail(todo)) /\ Tail(todo)[k - 1] = todo[k]
          BY <1>1, <4>2
        <5>. QED BY <1>3, <5>1
      <4>. QED BY <4>1, <4>2
    <3>. QED BY <1>1, <2>2, <3>1 DEF Settled, Write, Loc
  <2>. QED BY <2>1, <2>2
<1>. QED BY <1>2, <1>3 DEF Settled

\* With nothing to store the pointers are what they will be.
LEMMA NothingToStore ==
  ASSUME NEW h, h \in [Ptrs -> Nodes]
  PROVE  /\ Settled(h, << >>, h)
         /\ \A g : Settled(h, << >>, g) => g = h
BY DEF Settled

\* Nothing is changed at the nodes that are not in N.
Only(h, g, N) ==
  \A n \in Nodes \ N : g[<<"next", n>>] = h[<<"next", n>>] /\ g[<<"prev", n>>] = h[<<"prev", n>>]

\* The stores of linkat put a chain of items into a list (mg_llist_linkat).
LEMMA LinkSettles ==
  ASSUME NEW h \in [Ptrs -> Nodes], NEW s, NEW u, NEW t, NEW k, Joined(s, u, t, k), t # << >>,
         NEW l \in {Queue, Drain}, Ring(h, l, u), Chain(h, t)
  PROVE  \E g : /\ Settled(h, LinkAt(h, t[1], t[Len(t)], At(l, u, k)), g)
                /\ Ring(g, l, s) /\ Only(h, g, ToSet(s) \cup {l})
<1> DEFINE first == t[1]
           last == t[Len(t)]
           before == At(l, u, k)
           after == At(l, u, k - 1)
           g == [h EXCEPT ![<<"next", last>>] = before, ![<<"prev", first>>] = after,
                          ![<<"prev", before>>] = last, ![<<"next", after>>] = first]
<1>1. /\ ItemSeq(u) /\ ItemSeq(t) /\ ToSet(u) \cap ToSet(t) = {} /\ Len(t) \in Nat \ {0} /\ Len(u) \in Nat
      /\ k \in 1 .. Len(u) + 1 /\ ToSet(s) = ToSet(u) \cup ToSet(t)
  BY DEF Joined, ItemSeq
<1>2. /\ first \in ToSet(t) /\ last \in ToSet(t) /\ ToSet(t) \subseteq Items /\ ToSet(u) \subseteq Items
  BY <1>1, ListIndices DEF ItemSeq
<1>3. before \in ToSet(u) \cup {l} /\ after \in ToSet(u) \cup {l}
  BY <1>1, RingNodes
<1>4. l \notin Items /\ l \in Nodes /\ Items \subseteq Nodes
  BY DrainableQueueAssumption DEF Nodes
<1>5. /\ {first, last, before, after} \subseteq Nodes
      /\ before \notin {first, last} /\ after \notin {first, last}
  BY <1>1, <1>2, <1>3, <1>4
<1>6. h[<<"prev", before>>] = after
  <2>1. k - 1 \in 0 .. Len(u) /\ k = (k - 1) + 1
    BY <1>1
  <2>. QED BY <2>1 DEF Ring
<1>7. /\ g \in [Ptrs -> Nodes]
      /\ g[<<"next", last>>] = before /\ g[<<"prev", first>>] = after
      /\ g[<<"prev", before>>] = last /\ g[<<"next", after>>] = first
      /\ \A p \in Ptrs : p \notin {<<"next", last>>, <<"prev", first>>, <<"prev", before>>, <<"next", after>>}
                           => g[p] = h[p]
  BY <1>5 DEF Ptrs
<1> HIDE DEF g
<1>8. \A n \in Nodes : /\ n \notin {after, last} => g[<<"next", n>>] = h[<<"next", n>>]
                       /\ n \notin {before, first} => g[<<"prev", n>>] = h[<<"prev", n>>]
  BY <1>7 DEF Ptrs
<1>9. Ring(g, l, s)
  <2>1. ToSet(u) \cup ToSet(t) \cup {l} \subseteq Nodes
    BY <1>2, <1>4
  <2>2. \A n \in ToSet(u) \cup ToSet(t) \cup {l} :
          /\ n \notin {At(l, u, k - 1), t[Len(t)]} => g[<<"next", n>>] = h[<<"next", n>>]
          /\ n \notin {At(l, u, k), t[1]} => g[<<"prev", n>>] = h[<<"prev", n>>]
    BY <1>8, <2>1
  <2>3. /\ g[<<"next", At(l, u, k - 1)>>] = t[1] /\ g[<<"prev", t[1]>>] = At(l, u, k - 1)
        /\ g[<<"next", t[Len(t)]>>] = At(l, u, k) /\ g[<<"prev", At(l, u, k)>>] = t[Len(t)]
    BY <1>7
  <2>4. LinkedIn(h, g, l, u, t, k)
    BY <2>2, <2>3 DEF LinkedIn
  <2>. QED BY <2>4, RingInsert
<1>10. Only(h, g, ToSet(s) \cup {l})
  BY <1>1, <1>2, <1>3, <1>8 DEF Only
<1>11. Settled(h, LinkAt(h, first, last, before), g)
  <2> DEFINE todo == << <<"next", last, before>>, <<"prev", first, after>>,
                        <<"prev", before, last>>, <<"next", after, first>> >>
  <2>1. LinkAt(h, first, last, before) = todo
    BY <1>6 DEF LinkAt
  <2>2. /\ Len(todo) = 4 /\ Loc(todo[1]) = <<"next", last>> /\ Loc(todo[2]) = <<"prev", first>>
        /\ Loc(todo[3]) = <<"prev", before>> /\ Loc(todo[4]) = <<"next", after>>
        /\ todo[1][3] = before /\ todo[2][3] = after /\ todo[3][3] = last /\ todo[4][3] = first
    BY DEF Loc
  <2> HIDE DEF todo
  <2>3. \A j \in 1 .. Len(todo) : j = 1 \/ j = 2 \/ j = 3 \/ j = 4
    BY <2>2
  <2>4. 1 \in 1 .. Len(todo) /\ 2 \in 1 .. Len(todo) /\ 3 \in 1 .. Len(todo) /\ 4 \in 1 .. Len(todo)
    BY <2>2
  <2>5. \A j \in 1 .. Len(todo) : g[Loc(todo[j])] = todo[j][3]
    BY <1>7, <2>2, <2>3
  <2>6. \A p \in Ptrs : (\A j \in 1 .. Len(todo) : p # Loc(todo[j])) => g[p] = h[p]
    BY <1>7, <2>2, <2>4
  <2>. QED BY <1>7, <2>1, <2>5, <2>6 DEF Settled
<1>. QED BY <1>6, <1>9, <1>10, <1>11

Pointers(h) == h \in [Ptrs -> Nodes]

\* The nodes o and e are linked, and nothing else is changed.
Closed(h, c, o, e) ==
  /\ c[<<"next", o>>] = e /\ c[<<"prev", e>>] = o
  /\ \A n \in Nodes : /\ n # o => c[<<"next", n>>] = h[<<"next", n>>]
                      /\ n # e => c[<<"prev", n>>] = h[<<"prev", n>>]

\* The two stores of a cut.
CutPtr(h, o, e) == Write(Write(h, <<"next", o, e>>), <<"prev", e, o>>)

\* The cut leaves a list of what is before and behind it, and the chain as it was.
LEMMA CutKeeps ==
  ASSUME NEW h \in [Ptrs -> Nodes], NEW s, NEW u, NEW t, NEW k \in Int, Joined(s, u, t, k),
         NEW l \in {Queue, Drain}, Ring(h, l, s),
         NEW c, c = CutPtr(h, At(l, u, k - 1), At(l, u, k))
  PROVE  /\ Pointers(c) /\ Ring(c, l, u) /\ Chain(c, t)
         /\ Closed(h, c, At(l, u, k - 1), At(l, u, k))
<1> DEFINE o == At(l, u, k - 1)
           e == At(l, u, k)
<1>1. /\ ItemSeq(u) /\ ItemSeq(t) /\ ToSet(u) \cap ToSet(t) = {} /\ Len(t) \in Nat /\ Len(u) \in Nat
      /\ k \in 1 .. Len(u) + 1 /\ ToSet(s) = ToSet(u) \cup ToSet(t)
  BY DEF Joined, ItemSeq
<1>2. ToSet(t) \subseteq Items /\ ToSet(u) \subseteq Items
  BY <1>1, ListIndices DEF ItemSeq
<1>3. o \in ToSet(u) \cup {l} /\ e \in ToSet(u) \cup {l}
  BY <1>1, RingNodes
<1>4. l \notin Items /\ l \in Nodes /\ Items \subseteq Nodes
  BY DrainableQueueAssumption DEF Nodes
<1>5. /\ c \in [Ptrs -> Nodes]
      /\ c[<<"next", o>>] = e /\ c[<<"prev", e>>] = o
      /\ \A p \in Ptrs : p \notin {<<"next", o>>, <<"prev", e>>} => c[p] = h[p]
  BY <1>2, <1>3, <1>4 DEF Ptrs, CutPtr, Write
<1> HIDE DEF o, e
<1>6. \A n \in Nodes : /\ n # o => c[<<"next", n>>] = h[<<"next", n>>]
                       /\ n # e => c[<<"prev", n>>] = h[<<"prev", n>>]
  BY <1>5 DEF Ptrs
<1>7. CutOut(h, c, l, u, k)
  <2>1. \A n \in ToSet(u) \cup {l} : n \in Nodes
    BY <1>2, <1>4
  <2>2. \A n \in ToSet(u) \cup {l} : /\ n # o => c[<<"next", n>>] = h[<<"next", n>>]
                                     /\ n # e => c[<<"prev", n>>] = h[<<"prev", n>>]
    BY <1>6, <2>1
  <2>. QED BY <1>5, <2>2 DEF CutOut, o, e
<1>8. Ring(c, l, u)
  BY <1>7, RingCut
<1>9. Chain(c, t)
  <2>1. Chain(h, t)
    BY CutChain
  <2>2. \A j \in 1 .. Len(t) : t[j] \in Nodes /\ t[j] # o /\ t[j] # e
    BY <1>1, <1>2, <1>3, <1>4, ListIndices DEF ItemSeq
  <2>3. \A j \in 1 .. Len(t) - 1 : j \in 1 .. Len(t) /\ j + 1 \in 1 .. Len(t)
    BY <1>1
  <2>4. ASSUME NEW j \in 1 .. Len(t) - 1
        PROVE  c[<<"next", t[j]>>] = t[j + 1] /\ c[<<"prev", t[j + 1]>>] = t[j]
    <3>1. h[<<"next", t[j]>>] = t[j + 1] /\ h[<<"prev", t[j + 1]>>] = t[j]
      BY <2>1 DEF Chain
    <3>. QED BY <1>6, <2>2, <2>3, <3>1
  <2>. QED BY <2>4 DEF Chain
<1>. QED BY <1>5, <1>6, <1>8, <1>9 DEF o, e, Closed, Pointers

\* The stores of unlink take one item out of its list and leave it unlinked.
LEMMA UnlinkSettles ==
  ASSUME NEW h \in [Ptrs -> Nodes], NEW s, ItemSeq(s), NEW i \in ToSet(s),
         NEW l \in {Queue, Drain}, Ring(h, l, s)
  PROVE  \E g, u : /\ Settled(h, Unlink(h, i), g) /\ g[<<"prev", i>>] = i
                   /\ ItemSeq(u) /\ ToSet(u) = ToSet(s) \ {i} /\ Ring(g, l, u)
                   /\ Only(h, g, ToSet(s) \cup {l})
<1>1. PICK k, u, t : OneOut(s, i, k, u, t)
  BY CutOne
<1>2. k \in Int /\ Joined(s, u, t, k)
  BY <1>1 DEF OneOut
<1>3. /\ Len(t) = 1 /\ t # << >> /\ t[1] = i /\ ItemSeq(u) /\ ToSet(u) = ToSet(s) \ {i}
      /\ i \in Items /\ ToSet(s) \subseteq Items
  BY <1>1, ListIndices DEF OneOut, ItemSeq
<1> DEFINE o == At(l, u, k - 1)
           e == At(l, u, k)
           c == CutPtr(h, o, e)
           g == [c EXCEPT ![<<"prev", i>>] = i]
<1>4. h[<<"prev", i>>] = o /\ h[<<"next", i>>] = e
  <2>1. Between(h, t, o, e)
    BY <1>2, <1>3, CutEnds
  <2>. QED BY <1>3, <2>1 DEF Between
<1>5. o \in ToSet(u) \cup {l} /\ e \in ToSet(u) \cup {l}
  <2>1. k \in Int /\ k - 1 \in Int
    BY <1>2
  <2>. QED BY <1>3, <2>1, RingNodes
<1>6. l \notin Items /\ l \in Nodes /\ Items \subseteq Nodes
  BY DrainableQueueAssumption DEF Nodes
<1>7. /\ c \in [Ptrs -> Nodes] /\ Ring(c, l, u)
      /\ \A n \in Nodes : /\ n # o => c[<<"next", n>>] = h[<<"next", n>>]
                          /\ n # e => c[<<"prev", n>>] = h[<<"prev", n>>]
      /\ c[<<"next", o>>] = e /\ c[<<"prev", e>>] = o
  <2>1. Joined(s, u, t, k) /\ c = CutPtr(h, At(l, u, k - 1), At(l, u, k)) /\ k \in Int
    BY <1>2
  <2> HIDE DEF c, o, e
  <2>2. Closed(h, c, At(l, u, k - 1), At(l, u, k))
    BY <2>1, CutKeeps
  <2>3. Ring(c, l, u)
    BY <2>1, CutKeeps
  <2>4. Pointers(c)
    BY <2>1, CutKeeps
  <2> USE DEF o, e
  <2>. QED BY <2>2, <2>3, <2>4 DEF Closed, Pointers
<1> HIDE DEF o, e, c
<1>8. /\ g \in [Ptrs -> Nodes] /\ g[<<"prev", i>>] = i
      /\ \A n \in Nodes : /\ g[<<"next", n>>] = c[<<"next", n>>]
                          /\ n # i => g[<<"prev", n>>] = c[<<"prev", n>>]
  BY <1>3, <1>6, <1>7 DEF Ptrs
<1> HIDE DEF g
<1>9. i \notin {o, e}
  BY <1>3, <1>5, <1>6
<1>10. Ring(g, l, u)
  <2>1. \A n \in ToSet(u) \cup {l} : n \in Nodes /\ n # i
    BY <1>3, <1>6
  <2>2. \A n \in ToSet(u) \cup {l} :
             g[<<"next", n>>] = c[<<"next", n>>] /\ g[<<"prev", n>>] = c[<<"prev", n>>]
    BY <1>8, <2>1
  <2>. QED BY <1>3, <1>7, <2>2, RingStays
<1>11. Only(h, g, ToSet(s) \cup {l})
  <2>1. ASSUME NEW n \in Nodes \ (ToSet(s) \cup {l})
        PROVE  g[<<"next", n>>] = h[<<"next", n>>] /\ g[<<"prev", n>>] = h[<<"prev", n>>]
    <3>1. n \in Nodes /\ n # o /\ n # e /\ n # i
      BY <1>3, <1>5
    <3>. QED BY <1>7, <1>8, <3>1
  <2>. QED BY <2>1 DEF Only
<1>12. Settled(h, Unlink(h, i), g)
  <2> DEFINE todo == << <<"prev", e, o>>, <<"next", o, e>>, <<"prev", i, i>> >>
  <2>1. Unlink(h, i) = todo
    BY <1>4 DEF Unlink
  <2>2. /\ Len(todo) = 3 /\ Loc(todo[1]) = <<"prev", e>> /\ Loc(todo[2]) = <<"next", o>>
        /\ Loc(todo[3]) = <<"prev", i>>
        /\ todo[1][3] = o /\ todo[2][3] = e /\ todo[3][3] = i
    BY DEF Loc
  <2> HIDE DEF todo
  <2>3. (\A j \in 1 .. Len(todo) : j = 1 \/ j = 2 \/ j = 3) /\ {1, 2, 3} \subseteq 1 .. Len(todo)
    BY <2>2
  <2>4. o \in Nodes /\ e \in Nodes
    BY <1>3, <1>5, <1>6
  <2>7. g[<<"prev", e>>] = o /\ g[<<"next", o>>] = e
    BY <1>7, <1>8, <1>9, <2>4
  <2>5. \A j \in 1 .. Len(todo) : g[Loc(todo[j])] = todo[j][3]
    BY <1>8, <2>2, <2>3, <2>7
  <2>6. ASSUME NEW p \in Ptrs, \A j \in 1 .. Len(todo) : p # Loc(todo[j]) PROVE g[p] = h[p]
    <3>1. p \notin {<<"prev", e>>, <<"next", o>>, <<"prev", i>>}
      BY <2>2, <2>3, <2>6
    <3>2. PICK n \in Nodes : p = <<"next", n>> \/ p = <<"prev", n>>
      BY DEF Ptrs
    <3>. QED BY <1>7, <1>8, <3>1, <3>2
  <2>. QED BY <1>8, <2>1, <2>5, <2>6 DEF Settled
<1>. QED BY <1>3, <1>8, <1>10, <1>11, <1>12

\* A chain is cut out of the list l and put before the jth node of the list m.
LEMMA SpliceSettles ==
  ASSUME NEW h \in [Ptrs -> Nodes], NEW s, NEW u, NEW t, NEW k \in Int, Joined(s, u, t, k),
         t # << >>, NEW l \in {Queue, Drain}, Ring(h, l, s),
         NEW m \in {Queue, Drain}, NEW v, NEW w, NEW j \in Int, Joined(v, w, t, j),
         NEW c, c = CutPtr(h, At(l, u, k - 1), At(l, u, k)), Ring(c, m, w),
         NEW before, before = At(m, w, j), before # At(l, u, k)
  PROVE  \E g : /\ Settled(h, SpliceAt(h, before, t[1], At(l, u, k)), g)
                /\ Ring(g, m, v) /\ Only(c, g, ToSet(v) \cup {m})
<1> DEFINE o == At(l, u, k - 1)
           e == At(l, u, k)
           first == t[1]
           last == t[Len(t)]
           after == c[<<"prev", before>>]
<1>1. Between(h, t, o, e)
  BY CutEnds
<1>2. Pointers(c) /\ Chain(c, t) /\ Closed(h, c, o, e)
  <2> HIDE DEF o, e
  <2>1. c = CutPtr(h, At(l, u, k - 1), At(l, u, k))
    OBVIOUS
  <2>. QED BY <2>1, CutKeeps DEF o, e
<1>3. PICK g : /\ Settled(c, LinkAt(c, first, last, before), g)
               /\ Ring(g, m, v) /\ Only(c, g, ToSet(v) \cup {m})
  BY <1>2, LinkSettles DEF Pointers
<1>4. /\ ItemSeq(u) /\ ItemSeq(w) /\ ItemSeq(t) /\ Len(t) \in Nat \ {0}
      /\ ToSet(u) \cap ToSet(t) = {} /\ ToSet(w) \cap ToSet(t) = {}
      /\ k \in 1 .. Len(u) + 1 /\ j \in 1 .. Len(w) + 1 /\ Len(u) \in Nat /\ Len(w) \in Nat
  BY DEF Joined, ItemSeq
<1>5. first \in ToSet(t) /\ last \in ToSet(t) /\ ToSet(t) \subseteq Items
      /\ ToSet(u) \subseteq Items /\ ToSet(w) \subseteq Items
  BY <1>4, ListIndices DEF ItemSeq
<1>6. o \in ToSet(u) \cup {l} /\ e \in ToSet(u) \cup {l}
  BY <1>4, RingNodes
<1>7. after = At(m, w, j - 1) /\ c[<<"next", after>>] = before
  <2>1. j - 1 \in 0 .. Len(w) /\ j - 1 + 1 = j
    BY <1>4
  <2>. QED BY <2>1 DEF Ring
<1>8. before \in ToSet(w) \cup {m} /\ after \in ToSet(w) \cup {m}
  BY <1>4, <1>7, RingNodes
<1>9. l \notin Items /\ m \notin Items /\ Items \cup {l, m} \subseteq Nodes
  BY DrainableQueueAssumption DEF Nodes
<1>10. {o, e, before, after, first, last} \subseteq Nodes
  BY <1>5, <1>6, <1>8, <1>9
<1>11. /\ o # last /\ e # first /\ e # before /\ first \notin {before, e}
       /\ last \notin {after, o} /\ first # e
  BY <1>4, <1>5, <1>6, <1>8, <1>9
<1>12. o # after
  BY <1>2, <1>7, <1>11 DEF Closed
<1> DEFINE todo == << <<"next", o, e>>, <<"prev", e, o>>,
                      <<"next", last, before>>, <<"prev", first, after>>,
                      <<"prev", before, last>>, <<"next", after, first>> >>
<1>13. SpliceAt(h, before, first, e) = todo
  <2>1. h[<<"prev", e>>] = last /\ h[<<"prev", first>>] = o
    BY <1>1 DEF Between
  <2>2. Write(Write(h, <<"next", o, e>>), <<"prev", e, o>>) = c
    BY DEF CutPtr
  <2>. QED BY <1>11, <2>1, <2>2 DEF SpliceAt
<1> HIDE DEF o, e, first, last, after
<1> DEFINE linked == << <<"next", last, before>>, <<"prev", first, after>>,
                        <<"prev", before, last>>, <<"next", after, first>> >>
<1>14. LinkAt(c, first, last, before) = linked
  BY DEF LinkAt, after
<1>15. /\ g \in [Ptrs -> Nodes]
       /\ g[<<"next", last>>] = before /\ g[<<"prev", first>>] = after
       /\ g[<<"prev", before>>] = last /\ g[<<"next", after>>] = first
       /\ \A p \in Ptrs : p \notin {<<"next", last>>, <<"prev", first>>,
                                    <<"prev", before>>, <<"next", after>>} => g[p] = c[p]
  <2>1. Settled(c, linked, g)
    BY <1>3, <1>14
  <2>2. /\ Len(linked) = 4 /\ Loc(linked[1]) = <<"next", last>> /\ Loc(linked[2]) = <<"prev", first>>
        /\ Loc(linked[3]) = <<"prev", before>> /\ Loc(linked[4]) = <<"next", after>>
        /\ linked[1][3] = before /\ linked[2][3] = after /\ linked[3][3] = last /\ linked[4][3] = first
    BY DEF Loc
  <2> HIDE DEF linked
  <2>3. \A n \in 1 .. Len(linked) : n = 1 \/ n = 2 \/ n = 3 \/ n = 4
    BY <2>2
  <2>4. 1 \in 1 .. Len(linked) /\ 2 \in 1 .. Len(linked) /\ 3 \in 1 .. Len(linked) /\ 4 \in 1 .. Len(linked)
    BY <2>2
  <2>5. \A n \in 1 .. Len(linked) : g[Loc(linked[n])] = linked[n][3]
    BY <2>1 DEF Settled
  <2>6. ASSUME NEW p \in Ptrs, p \notin {<<"next", last>>, <<"prev", first>>,
                                         <<"prev", before>>, <<"next", after>>}
        PROVE  g[p] = c[p]
    <3>1. \A n \in 1 .. Len(linked) : p # Loc(linked[n])
      BY <2>2, <2>3, <2>6
    <3>. QED BY <2>1, <3>1 DEF Settled
  <2>7. g \in [Ptrs -> Nodes]
    BY <2>1 DEF Settled
  <2>. QED BY <2>2, <2>4, <2>5, <2>6, <2>7
<1>16. g[<<"next", o>>] = e /\ g[<<"prev", e>>] = o
  <2>1. <<"next", o>> \in Ptrs /\ <<"prev", e>> \in Ptrs
    BY <1>10 DEF Ptrs
  <2>. QED BY <1>2, <1>11, <1>12, <1>15, <2>1 DEF Closed
<1>17. Settled(h, todo, g)
  <2>2. /\ Len(todo) = 6 /\ Loc(todo[1]) = <<"next", o>> /\ Loc(todo[2]) = <<"prev", e>>
        /\ Loc(todo[3]) = <<"next", last>> /\ Loc(todo[4]) = <<"prev", first>>
        /\ Loc(todo[5]) = <<"prev", before>> /\ Loc(todo[6]) = <<"next", after>>
        /\ todo[1][3] = e /\ todo[2][3] = o /\ todo[3][3] = before /\ todo[4][3] = after
        /\ todo[5][3] = last /\ todo[6][3] = first
    BY DEF Loc
  <2> HIDE DEF todo
  <2>3. /\ \A n \in 1 .. Len(todo) : n \in {1, 2, 3, 4, 5, 6}
        /\ {1, 2, 3, 4, 5, 6} \subseteq 1 .. Len(todo)
    BY <2>2
  <2>4. \A n \in 1 .. Len(todo) : g[Loc(todo[n])] = todo[n][3]
    BY <1>15, <1>16, <2>2, <2>3
  <2>5. ASSUME NEW p \in Ptrs, \A n \in 1 .. Len(todo) : p # Loc(todo[n])
        PROVE  g[p] = h[p]
    <3>1. p \notin {<<"next", o>>, <<"prev", e>>, <<"next", last>>, <<"prev", first>>,
                    <<"prev", before>>, <<"next", after>>}
      BY <2>2, <2>3, <2>5
    <3>2. g[p] = c[p]
      BY <1>15, <3>1
    <3>3. PICK n \in Nodes : p = <<"next", n>> \/ p = <<"prev", n>>
      BY DEF Ptrs
    <3>. QED BY <1>2, <3>1, <3>2, <3>3 DEF Closed
  <2>. QED BY <1>15, <2>4, <2>5 DEF Settled
<1>. QED BY <1>3, <1>13, <1>17 DEF first, e

\* What a walk over n nodes from the end item has seen.
Ahead(l, q, n) == [i \in 1 .. (IF n < Len(q) THEN n ELSE Len(q)) + 1 |-> At(l, q, i)]

\* Induction over the natural numbers, for a set instead of a predicate.
LEMMA SetInduction ==
  ASSUME NEW S \in SUBSET Nat, 0 \in S, \A n \in S : n + 1 \in S
  PROVE  S = Nat
<1> SUFFICES ASSUME Nat \ S # {} PROVE FALSE
  OBVIOUS
<1> DEFINE T == Nat \ S
<1>1. PICK x \in T : \A y \in T : <<y, x>> \notin OpToRel(<, Nat)
  BY NatLessThanWellFounded, WFMin
<1>2. x # 0 /\ x - 1 \in Nat
  OBVIOUS
<1>3. <<x - 1, x>> \in OpToRel(<, Nat)
  BY <1>2 DEF OpToRel
<1>4. x - 1 \in S
  BY <1>1, <1>2, <1>3
<1>. QED BY <1>2, <1>4

\* The walk forth from node to node sees the items of the list in order.
LEMMA AheadSteps ==
  ASSUME NEW l \in {Queue, Drain}, NEW q, ItemSeq(q), NEW h, Ring(h, l, q)
  PROVE  /\ Ahead(l, q, 0) = << h[<<"next", l>>] >>
         /\ \A k \in Nat \ {0} :
              LET s == Ahead(l, q, k - 1) IN
              Ahead(l, q, k) = IF Last(s) = l THEN s ELSE Append(s, h[<<"next", Last(s)>>])
         /\ \A k \in Nat : k >= Len(q) => Front(Ahead(l, q, k)) = q
<1>1. /\ Len(q) \in Nat /\ q \in Seq(Items) /\ \A i \in 1 .. Len(q) : At(l, q, i) = q[i] /\ q[i] # l
  <2>1. l \notin Items
    BY DrainableQueueAssumption
  <2>. QED BY <2>1 DEF ItemSeq, At
<1>2. \A k \in 0 .. Len(q) : h[<<"next", At(l, q, k)>>] = At(l, q, k + 1)
  BY DEF Ring
<1>3. At(l, q, 0) = l /\ At(l, q, Len(q) + 1) = l
  BY <1>1 DEF At
<1>4. Ahead(l, q, 0) = << h[<<"next", l>>] >>
  <2>1. h[<<"next", l>>] = At(l, q, 1)
    BY <1>1, <1>2, <1>3
  <2>2. (IF 0 < Len(q) THEN 0 ELSE Len(q)) + 1 = 1
    BY <1>1
  <2>. QED BY <2>1, <2>2 DEF Ahead
<1>5. ASSUME NEW k \in Nat \ {0}
      PROVE  LET s == Ahead(l, q, k - 1) IN
             Ahead(l, q, k) = IF Last(s) = l THEN s ELSE Append(s, h[<<"next", Last(s)>>])
  <2> DEFINE s == Ahead(l, q, k - 1)
  <2>1. CASE k - 1 < Len(q)
    <3>1. s = [i \in 1 .. k |-> At(l, q, i)] /\ k \in 1 .. Len(q)
      BY <1>1, <2>1 DEF Ahead
    <3>2. Ahead(l, q, k) = [i \in 1 .. k + 1 |-> At(l, q, i)]
      BY <1>1, <2>1 DEF Ahead
    <3> HIDE DEF s
    <3>3. Len(s) = k /\ Last(s) = At(l, q, k) /\ Last(s) # l
      BY <1>1, <3>1 DEF Last
    <3>4. h[<<"next", Last(s)>>] = At(l, q, k + 1)
      BY <1>2, <3>1, <3>3
    <3>5. Append(s, At(l, q, k + 1)) = [i \in 1 .. k + 1 |-> At(l, q, i)]
      BY <3>1, <3>3
    <3>. QED BY <3>2, <3>3, <3>4, <3>5 DEF s
  <2>2. CASE k - 1 >= Len(q)
    <3>1. s = [i \in 1 .. Len(q) + 1 |-> At(l, q, i)] /\ Ahead(l, q, k) = s
      BY <1>1, <2>2 DEF Ahead
    <3> HIDE DEF s
    <3>2. Len(s) = Len(q) + 1 /\ Last(s) = l
      BY <1>1, <1>3, <3>1 DEF Last
    <3>. QED BY <3>1, <3>2 DEF s
  <2>. QED BY <1>1, <2>1, <2>2
<1>6. ASSUME NEW k \in Nat, k >= Len(q) PROVE Front(Ahead(l, q, k)) = q
  <2> DEFINE s == Ahead(l, q, k)
  <2>1. s = [i \in 1 .. Len(q) + 1 |-> At(l, q, i)]
    BY <1>1, <1>6 DEF Ahead
  <2> HIDE DEF s
  <2>2. Len(s) = Len(q) + 1 /\ \A i \in 1 .. Len(q) : s[i] = q[i]
    BY <1>1, <2>1
  <2>3. Front(s) = [i \in 1 .. Len(q) |-> s[i]]
    BY <1>1, <2>2 DEF Front, SubSeq
  <2>. QED BY <1>1, <2>2, <2>3 DEF s
<1>. QED BY <1>4, <1>5, <1>6

\* Following the next pointers gives the items of the list.
LEMMA ForwardIs ==
  ASSUME NEW l \in {Queue, Drain}, NEW q, ItemSeq(q), NEW h, Ring(h, l, q),
         NEW n \in Nat, Len(q) <= n
  PROVE  Forward(h, l, n) = q
<1> DEFINE f[k \in 0 .. n] ==
             IF k = 0 THEN << h[<<"next", l>>] >>
             ELSE LET s == f[k - 1] IN
                  IF Last(s) = l THEN s ELSE Append(s, h[<<"next", Last(s)>>])
           F == [k \in 0 .. n |-> Ahead(l, q, k)]
<1>1. Forward(h, l, n) = Front(f[n])
  BY DEF Forward
<1>2. F = [k \in 0 .. n |->
             IF k = 0 THEN << h[<<"next", l>>] >>
             ELSE LET s == F[k - 1] IN
                  IF Last(s) = l THEN s ELSE Append(s, h[<<"next", Last(s)>>])]
  <2>1. ASSUME NEW k \in 0 .. n
        PROVE  Ahead(l, q, k) =
                 IF k = 0 THEN << h[<<"next", l>>] >>
                 ELSE LET s == F[k - 1] IN
                      IF Last(s) = l THEN s ELSE Append(s, h[<<"next", Last(s)>>])
    <3>1. CASE k = 0
      BY <3>1, AheadSteps
    <3>2. CASE k # 0
      <4>1. k \in Nat \ {0} /\ F[k - 1] = Ahead(l, q, k - 1)
        BY <3>2
      <4>. QED BY <3>2, <4>1, AheadSteps
    <3>. QED BY <3>1, <3>2
  <2>. QED BY <2>1
<1> HIDE DEF F
<1>3. f = [k \in 0 .. n |->
             IF k = 0 THEN << h[<<"next", l>>] >>
             ELSE LET s == f[k - 1] IN
                  IF Last(s) = l THEN s ELSE Append(s, h[<<"next", Last(s)>>])]
  BY <1>2
<1> HIDE DEF f
<1> DEFINE next(s) == IF Last(s) = l THEN s ELSE Append(s, h[<<"next", Last(s)>>])
<1>8. /\ \A k \in 0 .. n : F[k] = IF k = 0 THEN << h[<<"next", l>>] >> ELSE next(F[k - 1])
      /\ \A k \in 0 .. n : f[k] = IF k = 0 THEN << h[<<"next", l>>] >> ELSE next(f[k - 1])
  <2>1. \A k \in 0 .. n : F[k] = IF k = 0 THEN << h[<<"next", l>>] >> ELSE next(F[k - 1])
    BY <1>2, Zenon
  <2>2. \A k \in 0 .. n : f[k] = IF k = 0 THEN << h[<<"next", l>>] >> ELSE next(f[k - 1])
    BY <1>3, Zenon
  <2>. QED BY <2>1, <2>2
<1> HIDE DEF next
<1> DEFINE S == {k \in Nat : k <= n => f[k] = F[k]}
<1>4. 0 \in S
  BY <1>8
<1>5. ASSUME NEW k \in S PROVE k + 1 \in S
  <2> SUFFICES ASSUME k + 1 <= n PROVE f[k + 1] = F[k + 1]
    OBVIOUS
  <2>1. k \in Nat /\ k + 1 \in 0 .. n /\ k + 1 # 0 /\ k + 1 - 1 = k /\ f[k] = F[k]
    OBVIOUS
  <2>2. f[k + 1] = next(f[k]) /\ F[k + 1] = next(F[k])
    BY <1>8, <2>1
  <2>. QED BY <2>1, <2>2
<1>6. S = Nat
  BY <1>4, <1>5, SetInduction
<1>7. f[n] = Ahead(l, q, n)
  <2>1. n \in S
    BY <1>6
  <2>. QED BY <2>1 DEF F
<1>. QED BY <1>1, <1>7, AheadSteps

\* The nodes of t are chained backward.
Trail(h, t) == \A k \in 1 .. Len(t) - 1 : h[<<"prev", t[k + 1]>>] = t[k]

\* The last nodes of a sequence, n and one more of them, or all.
Ending(t, n) == LET m == IF n < Len(t) - 1 THEN n ELSE Len(t) - 1 IN
                [i \in 1 .. m + 1 |-> t[Len(t) - m + i - 1]]

\* A walk back sees one node more with every step, until it has seen them all.
LEMMA EndingSteps ==
  ASSUME NEW t \in Seq(Nodes), IsInjective(t), t # << >>, NEW h, Trail(h, t)
  PROVE  /\ Ending(t, 0) = << t[Len(t)] >>
         /\ \A k \in Nat \ {0} :
              LET s == Ending(t, k - 1) IN
              Ending(t, k) = IF Head(s) = t[1] THEN s ELSE << h[<<"prev", Head(s)>>] >> \o s
         /\ \A k \in Nat : k >= Len(t) - 1 => Ending(t, k) = t
<1>1. /\ Len(t) \in Nat \ {0} /\ t = [i \in 1 .. Len(t) |-> t[i]]
      /\ \A i \in 1 .. Len(t) : t[i] = t[1] => i = 1
  <2>1. Len(t) \in Nat \ {0} /\ t = [i \in 1 .. Len(t) |-> t[i]] /\ 1 \in 1 .. Len(t)
    OBVIOUS
  <2>. QED BY <2>1, ListIndices
<1>2. Ending(t, 0) = << t[Len(t)] >>
  <2>1. (IF 0 < Len(t) - 1 THEN 0 ELSE Len(t) - 1) = 0 /\ Len(t) - 0 + 1 - 1 = Len(t)
    BY <1>1
  <2>2. Ending(t, 0) = [i \in 1 .. 1 |-> t[Len(t) - 0 + i - 1]]
    BY <1>1, <2>1 DEF Ending
  <2>. QED BY <2>1, <2>2
<1>3. ASSUME NEW k \in Nat \ {0}
      PROVE  LET s == Ending(t, k - 1) IN
             Ending(t, k) = IF Head(s) = t[1] THEN s ELSE << h[<<"prev", Head(s)>>] >> \o s
  <2> DEFINE s == Ending(t, k - 1)
  <2>1. CASE k - 1 < Len(t) - 1
    <3>1. s = [i \in 1 .. k |-> t[Len(t) - (k - 1) + i - 1]] /\ k \in 1 .. Len(t) - 1
      BY <1>1, <2>1 DEF Ending
    <3>2. Ending(t, k) = [i \in 1 .. k + 1 |-> t[Len(t) - k + i - 1]]
      BY <1>1, <2>1 DEF Ending
    <3> HIDE DEF s
    <3>3. /\ Len(t) - (k - 1) + 1 - 1 = Len(t) - k + 1 /\ Len(t) - k + 1 \in 2 .. Len(t)
          /\ Len(t) - k \in 1 .. Len(t) - 1
      BY <1>1, <3>1
    <3>4. Len(s) = k /\ Head(s) = t[Len(t) - k + 1] /\ Head(s) # t[1]
      BY <1>1, <3>1, <3>3
    <3>5. h[<<"prev", Head(s)>>] = t[Len(t) - k]
      BY <3>3, <3>4 DEF Trail
    <3>6. << t[Len(t) - k] >> \o s = [i \in 1 .. k + 1 |-> t[Len(t) - k + i - 1]]
      <4> DEFINE a == t[Len(t) - k]
                 v == << a >> \o s
                 w == [i \in 1 .. k + 1 |-> t[Len(t) - k + i - 1]]
      <4>0. s = [i \in 1 .. Len(s) |-> s[i]] /\ Len(s) = k
        BY <3>1, <3>4
      <4>1. /\ Len(v) = k + 1 /\ v = [i \in 1 .. k + 1 |-> v[i]] /\ v[1] = a
            /\ \A i \in 2 .. k + 1 : v[i] = s[i - 1]
        BY <1>1, <4>0
      <4>2. w[1] = a
        <5>1. Len(t) - k + 1 - 1 = Len(t) - k /\ 1 \in 1 .. k + 1
          BY <1>1
        <5>. QED BY <5>1
      <4>3. \A i \in 2 .. k + 1 : w[i] = s[i - 1]
        <5>1. \A i \in 2 .. k + 1 : /\ i - 1 \in 1 .. k /\ i \in 1 .. k + 1
                                   /\ Len(t) - (k - 1) + (i - 1) - 1 = Len(t) - k + i - 1
          BY <1>1
        <5>. QED BY <3>1, <5>1
      <4> HIDE DEF v, w
      <4>4. \A i \in 1 .. k + 1 : v[i] = w[i]
        <5>1. ASSUME NEW i \in 1 .. k + 1 PROVE v[i] = w[i]
          <6>1. i = 1 \/ i \in 2 .. k + 1
            OBVIOUS
          <6>. QED BY <4>1, <4>2, <4>3, <6>1
        <5>. QED BY <5>1
      <4>5. w = [i \in 1 .. k + 1 |-> w[i]]
        BY DEF w
      <4>6. v = w
        BY <4>1, <4>4, <4>5
      <4>. QED BY <4>6 DEF v, w
    <3>. QED BY <3>2, <3>4, <3>5, <3>6 DEF s
  <2>2. CASE k - 1 >= Len(t) - 1
    <3> DEFINE m == Len(t) - 1
    <3>0. m \in Nat /\ ~(k - 1 < m) /\ ~(k < m)
      BY <1>1, <2>2
    <3>1. s = [i \in 1 .. m + 1 |-> t[Len(t) - m + i - 1]] /\ Ending(t, k) = s
      BY <3>0 DEF Ending
    <3>2. Head(s) = t[1]
      <4>1. Len(t) - m + 1 - 1 = 1 /\ 1 \in 1 .. m + 1
        BY <1>1
      <4> HIDE DEF s, m
      <4>2. s[1] = t[1]
        BY <3>1, <4>1
      <4>3. Head(s) = s[1]
        BY <3>0, <3>1
      <4>. QED BY <4>2, <4>3
    <3>. QED BY <3>1, <3>2
  <2>. QED BY <1>1, <2>1, <2>2
<1>4. ASSUME NEW k \in Nat, k >= Len(t) - 1 PROVE Ending(t, k) = t
  <2> DEFINE m == Len(t) - 1
  <2>1. Ending(t, k) = [i \in 1 .. m + 1 |-> t[Len(t) - m + i - 1]]
    BY <1>1, <1>4 DEF Ending
  <2>2. m + 1 = Len(t) /\ \A i \in 1 .. Len(t) : Len(t) - m + i - 1 = i
    BY <1>1
  <2>3. Ending(t, k) = [i \in 1 .. Len(t) |-> t[i]]
    BY <2>1, <2>2
  <2>. QED BY <1>1, <2>3
<1>. QED BY <1>2, <1>3, <1>4

\* A walk back from the last node of a trail to its first sees the trail.
LEMMA SpanIs ==
  ASSUME NEW t \in Seq(Nodes), IsInjective(t), t # << >>, NEW h, Trail(h, t),
         NEW n \in Nat, Len(t) - 1 <= n
  PROVE  Span(h, t[1], t[Len(t)], n) = t
<1> DEFINE first == t[1]
           last == t[Len(t)]
           f[k \in 0 .. n] ==
             IF k = 0 THEN << last >>
             ELSE LET s == f[k - 1] IN
                  IF Head(s) = first THEN s ELSE << h[<<"prev", Head(s)>>] >> \o s
           F == [k \in 0 .. n |-> Ending(t, k)]
<1>1. Span(h, first, last, n) = f[n]
  BY DEF Span
<1>2. F = [k \in 0 .. n |->
             IF k = 0 THEN << last >>
             ELSE LET s == F[k - 1] IN
                  IF Head(s) = first THEN s ELSE << h[<<"prev", Head(s)>>] >> \o s]
  <2>1. ASSUME NEW k \in 0 .. n
        PROVE  Ending(t, k) =
                 IF k = 0 THEN << last >>
                 ELSE LET s == F[k - 1] IN
                      IF Head(s) = first THEN s ELSE << h[<<"prev", Head(s)>>] >> \o s
    <3>1. CASE k = 0
      BY <3>1, EndingSteps
    <3>2. CASE k # 0
      <4>1. k \in Nat \ {0} /\ F[k - 1] = Ending(t, k - 1)
        BY <3>2
      <4>2. LET s == Ending(t, k - 1) IN
            Ending(t, k) = IF Head(s) = first THEN s ELSE << h[<<"prev", Head(s)>>] >> \o s
        BY <4>1, EndingSteps
      <4>. QED BY <3>2, <4>1, <4>2
    <3>. QED BY <3>1, <3>2
  <2>. QED BY <2>1
<1> HIDE DEF F
<1>3. f = [k \in 0 .. n |->
             IF k = 0 THEN << last >>
             ELSE LET s == f[k - 1] IN
                  IF Head(s) = first THEN s ELSE << h[<<"prev", Head(s)>>] >> \o s]
  BY <1>2
<1> HIDE DEF f
<1> DEFINE next(s) == IF Head(s) = first THEN s ELSE << h[<<"prev", Head(s)>>] >> \o s
<1>8. /\ \A k \in 0 .. n : F[k] = IF k = 0 THEN << last >> ELSE next(F[k - 1])
      /\ \A k \in 0 .. n : f[k] = IF k = 0 THEN << last >> ELSE next(f[k - 1])
  <2>1. \A k \in 0 .. n : F[k] = IF k = 0 THEN << last >> ELSE next(F[k - 1])
    BY <1>2, Zenon
  <2>2. \A k \in 0 .. n : f[k] = IF k = 0 THEN << last >> ELSE next(f[k - 1])
    BY <1>3, Zenon
  <2>. QED BY <2>1, <2>2
<1> HIDE DEF next
<1> DEFINE S == {k \in Nat : k <= n => f[k] = F[k]}
<1>4. 0 \in S
  BY <1>8
<1>5. ASSUME NEW k \in S PROVE k + 1 \in S
  <2> SUFFICES ASSUME k + 1 <= n PROVE f[k + 1] = F[k + 1]
    OBVIOUS
  <2>1. k \in Nat /\ k + 1 \in 0 .. n /\ k + 1 # 0 /\ k + 1 - 1 = k /\ f[k] = F[k]
    OBVIOUS
  <2>2. f[k + 1] = next(f[k]) /\ F[k + 1] = next(F[k])
    BY <1>8, <2>1
  <2>. QED BY <2>1, <2>2
<1>6. S = Nat
  BY <1>4, <1>5, SetInduction
<1>7. f[n] = Ending(t, n)
  <2>1. n \in S
    BY <1>6
  <2>. QED BY <2>1 DEF F
<1>8a. n >= Len(t) - 1
  OBVIOUS
<1>. QED BY <1>1, <1>7, <1>8a, EndingSteps

(* The previous pointers around an end item agree with a sequence of items.  *)
Back(h, l, s) == \A k \in 0 .. Len(s) : h[<<"prev", At(l, s, k + 1)>>] = At(l, s, k)

\* The pointers of a list show it backward.
LEMMA RingIsBack == ASSUME NEW h, NEW l, NEW s, Ring(h, l, s) PROVE Back(h, l, s)
BY DEF Ring, Back

\* Following the previous pointers gives the items of the list.
LEMMA BackIs ==
  ASSUME NEW l \in {Queue, Drain}, NEW q, ItemSeq(q), NEW h, Back(h, l, q),
         NEW n \in Nat, Len(q) <= n
  PROVE  Backward(h, l, n) = q
<1>0. Len(q) \in Nat /\ q \in Seq(Items) /\ l \notin Items /\ l \in Nodes /\ Items \subseteq Nodes
  BY DrainableQueueAssumption DEF ItemSeq, Nodes
<1>1. h[<<"prev", l>>] = At(l, q, Len(q))
  <2>1. Len(q) \in 0 .. Len(q) /\ At(l, q, Len(q) + 1) = l
    BY <1>0 DEF At
  <2>. QED BY <2>1 DEF Back
<1>2. CASE q = << >>
  <2>1. At(l, q, Len(q)) = l
    BY <1>2 DEF At
  <2>. QED BY <1>1, <1>2, <2>1 DEF Backward
<1>3. CASE q # << >>
  <2> DEFINE t == << l >> \o q
  <2>1. /\ t \in Seq(Nodes) /\ Len(t) = Len(q) + 1 /\ t[1] = l /\ Len(q) > 0
        /\ \A k \in 1 .. Len(q) : t[k + 1] = q[k]
    BY <1>0, <1>3
  <2>2. t # << >> /\ Tail(t) = q
    BY <1>0
  <2> HIDE DEF t
  <2>3. \A k \in 1 .. Len(t) : t[k] = At(l, q, k - 1)
    <3>1. ASSUME NEW k \in 1 .. Len(t) PROVE t[k] = At(l, q, k - 1)
      <4>1. CASE k = 1
        BY <2>1, <4>1 DEF At
      <4>2. CASE k # 1
        <5>1. k - 1 \in 1 .. Len(q) /\ k - 1 + 1 = k
          BY <1>0, <2>1, <4>2
        <5>. QED BY <2>1, <5>1 DEF At
      <4>. QED BY <4>1, <4>2
    <3>. QED BY <3>1
  <2>4. IsInjective(t)
    <3>1. ASSUME NEW i \in 1 .. Len(t), NEW j \in 1 .. Len(t), t[i] = t[j] PROVE i = j
      <4>1. i - 1 \in 0 .. Len(q) /\ j - 1 \in 0 .. Len(q)
        BY <1>0, <2>1
      <4>2. i - 1 = j - 1
        BY <2>3, <3>1, <4>1, RingNodes
      <4>. QED BY <4>2
    <3>. QED BY <2>1, <3>1, ListIndices
  <2>5. Trail(h, t)
    <3>1. ASSUME NEW k \in 1 .. Len(t) - 1 PROVE h[<<"prev", t[k + 1]>>] = t[k]
      <4>1. /\ k \in 1 .. Len(t) /\ k + 1 \in 1 .. Len(t) /\ k - 1 \in 0 .. Len(q)
            /\ k + 1 - 1 = k - 1 + 1
        BY <1>0, <2>1
      <4>. QED BY <2>3, <4>1 DEF Back
    <3>. QED BY <3>1 DEF Trail
  <2>6. t[Len(t)] = h[<<"prev", l>>] /\ h[<<"prev", l>>] # l
    <3>1. Len(t) \in 1 .. Len(t) /\ Len(t) - 1 = Len(q) /\ Len(q) \in 1 .. Len(q)
      BY <1>0, <2>1
    <3>2. q[Len(q)] \in Items
      BY <1>0, <3>1
    <3>. QED BY <1>0, <1>1, <2>3, <3>1, <3>2 DEF At
  <2>7. Span(h, l, h[<<"prev", l>>], n) = t
    <3>1. Len(t) - 1 <= n
      BY <1>0, <2>1
    <3>. QED BY <2>1, <2>2, <2>4, <2>5, <2>6, <3>1, SpanIs
  <2>. QED BY <2>2, <2>6, <2>7 DEF Backward
<1>. QED BY <1>2, <1>3

(* The two lists show q and d, and who is in neither is unlinked.            *)
Rings(h, q, d) ==
  /\ ItemSeq(q) /\ ItemSeq(d) /\ ToSet(q) \cap ToSet(d) = {}
  /\ Ring(h, Queue, q) /\ Ring(h, Drain, d)

Lists(h, q, d) ==
  /\ Rings(h, q, d)
  /\ \A i \in Items \ (ToSet(q) \cup ToSet(d)) : h[<<"prev", i>>] = i

\* The end items are no items.
LEMMA NodesApart ==
  /\ Queue \notin Items /\ Drain \notin Items /\ Queue # Drain
  /\ Nodes = Items \cup {Queue, Drain}
BY DrainableQueueAssumption DEF Nodes

\* A position in a list is the place before one of its nodes.
LEMMA NodeOf ==
  ASSUME NEW l \in {Queue, Drain}, NEW s, ItemSeq(s), NEW n \in ToSet(s) \cup {l}
  PROVE  \E k \in 1 .. Len(s) + 1 : At(l, s, k) = n
<1>1. Len(s) \in Nat /\ s \in Seq(Items)
  BY DEF ItemSeq
<1>2. CASE n = l
  <2>1. Len(s) + 1 \in 1 .. Len(s) + 1 /\ Len(s) + 1 \notin 1 .. Len(s)
    BY <1>1
  <2>. QED BY <1>2, <2>1 DEF At
<1>3. CASE n \in ToSet(s)
  <2>1. PICK k \in 1 .. Len(s) : s[k] = n
    BY <1>1, <1>3, ListIndices
  <2>2. k \in 1 .. Len(s) + 1 /\ At(l, s, k) = n
    BY <1>1, <2>1 DEF At
  <2>. QED BY <2>2
<1>. QED BY <1>2, <1>3

(* A list that is not touched stays.                                         *)
LEMMA ListStays ==
  ASSUME NEW s, ItemSeq(s), NEW l \in {Queue, Drain}, NEW h, NEW g, NEW N, Ring(h, l, s),
         Only(h, g, N), N \cap (ToSet(s) \cup {l}) = {}
  PROVE  Ring(g, l, s)
<1>1. ToSet(s) \cup {l} \subseteq Nodes
  BY NodesApart, ListIndices DEF ItemSeq
<1>2. \A n \in ToSet(s) \cup {l} : n \in Nodes \ N
  BY <1>1
<1>3. \A n \in ToSet(s) \cup {l} :
           g[<<"next", n>>] = h[<<"next", n>>] /\ g[<<"prev", n>>] = h[<<"prev", n>>]
  BY <1>2 DEF Only
<1>. QED BY <1>3, RingStays

\* Enqueuing: a chain of items comes in before any node of the queue.
LEMMA LinkLists ==
  ASSUME NEW h \in [Ptrs -> Nodes], NEW q, NEW d, Rings(h, q, d),
         NEW t, ItemSeq(t), t # << >>, ToSet(t) \cap (ToSet(q) \cup ToSet(d)) = {}, Chain(h, t),
         \A i \in Items \ (ToSet(q) \cup ToSet(d) \cup ToSet(t)) : h[<<"prev", i>>] = i,
         NEW before \in ToSet(q) \cup {Queue}
  PROVE  \E g, v : /\ Settled(h, LinkAt(h, t[1], t[Len(t)], before), g)
                   /\ Lists(g, v, d) /\ ToSet(v) = ToSet(q) \cup ToSet(t)
<1>1. /\ ItemSeq(q) /\ ItemSeq(d) /\ Ring(h, Queue, q) /\ Ring(h, Drain, d)
      /\ ToSet(q) \cap ToSet(t) = {}
  BY DEF Lists, Rings
<1>2. PICK k \in 1 .. Len(q) + 1 : At(Queue, q, k) = before
  BY <1>1, NodeOf
<1>3. PICK v : Joined(v, q, t, k)
  BY <1>1, JoinLists
<1>4. PICK g : /\ Settled(h, LinkAt(h, t[1], t[Len(t)], before), g)
               /\ Ring(g, Queue, v) /\ Only(h, g, ToSet(v) \cup {Queue})
  BY <1>1, <1>2, <1>3, LinkSettles
<1>5. /\ ItemSeq(v) /\ ToSet(v) = ToSet(q) \cup ToSet(t) /\ ToSet(v) \subseteq Items
      /\ ToSet(v) \cap ToSet(d) = {} /\ ToSet(d) \subseteq Items
  BY <1>1, <1>3, ListIndices DEF Joined, Lists, Rings, ItemSeq
<1>6. Ring(g, Drain, d)
  <2>1. (ToSet(v) \cup {Queue}) \cap (ToSet(d) \cup {Drain}) = {}
    BY <1>5, NodesApart
  <2>. QED BY <1>1, <1>4, <2>1, ListStays
<1>7. ASSUME NEW i \in Items \ (ToSet(v) \cup ToSet(d)) PROVE g[<<"prev", i>>] = i
  <2>1. i \in Nodes \ (ToSet(v) \cup {Queue}) /\ i \in Items \ (ToSet(q) \cup ToSet(d) \cup ToSet(t))
    BY <1>5, NodesApart
  <2>. QED BY <1>4, <2>1 DEF Only, Lists, Rings
<1>8. Lists(g, v, d)
  BY <1>1, <1>4, <1>5, <1>6, <1>7 DEF Lists, Rings
<1>. QED BY <1>4, <1>5, <1>8

\* Finishing: an item goes from whichever list it is in.
LEMMA UnlinkLists ==
  ASSUME NEW h \in [Ptrs -> Nodes], NEW q, NEW d, Lists(h, q, d),
         NEW i \in ToSet(q) \cup ToSet(d)
  PROVE  \E g, v, w : /\ Settled(h, Unlink(h, i), g) /\ Lists(g, v, w)
                      /\ ToSet(v) = ToSet(q) \ {i} /\ ToSet(w) = ToSet(d) \ {i}
<1>1. /\ ItemSeq(q) /\ ItemSeq(d) /\ Ring(h, Queue, q) /\ Ring(h, Drain, d)
      /\ ToSet(q) \cap ToSet(d) = {} /\ ToSet(q) \subseteq Items /\ ToSet(d) \subseteq Items
  BY ListIndices DEF Lists, Rings, ItemSeq
<1>2. CASE i \in ToSet(q)
  <2>1. PICK g, u : /\ Settled(h, Unlink(h, i), g) /\ g[<<"prev", i>>] = i
                    /\ ItemSeq(u) /\ ToSet(u) = ToSet(q) \ {i} /\ Ring(g, Queue, u)
                    /\ Only(h, g, ToSet(q) \cup {Queue})
    BY <1>1, <1>2, UnlinkSettles
  <2>2. Ring(g, Drain, d)
    <3>1. (ToSet(q) \cup {Queue}) \cap (ToSet(d) \cup {Drain}) = {}
      BY <1>1, NodesApart
    <3>. QED BY <1>1, <2>1, <3>1, ListStays
  <2>3. ASSUME NEW j \in Items \ (ToSet(u) \cup ToSet(d)) PROVE g[<<"prev", j>>] = j
    <3>1. j = i \/ (j \in Nodes \ (ToSet(q) \cup {Queue}) /\ j \in Items \ (ToSet(q) \cup ToSet(d)))
      BY <2>1, NodesApart
    <3>. QED BY <2>1, <3>1 DEF Only, Lists, Rings
  <2>4. Lists(g, u, d) /\ ToSet(d) = ToSet(d) \ {i}
    BY <1>1, <1>2, <2>1, <2>2, <2>3 DEF Lists, Rings
  <2>. QED BY <2>1, <2>4
<1>3. CASE i \in ToSet(d)
  <2>1. PICK g, u : /\ Settled(h, Unlink(h, i), g) /\ g[<<"prev", i>>] = i
                    /\ ItemSeq(u) /\ ToSet(u) = ToSet(d) \ {i} /\ Ring(g, Drain, u)
                    /\ Only(h, g, ToSet(d) \cup {Drain})
    BY <1>1, <1>3, UnlinkSettles
  <2>2. Ring(g, Queue, q)
    <3>1. (ToSet(d) \cup {Drain}) \cap (ToSet(q) \cup {Queue}) = {}
      BY <1>1, NodesApart
    <3>. QED BY <1>1, <2>1, <3>1, ListStays
  <2>3. ASSUME NEW j \in Items \ (ToSet(q) \cup ToSet(u)) PROVE g[<<"prev", j>>] = j
    <3>1. j = i \/ (j \in Nodes \ (ToSet(d) \cup {Drain}) /\ j \in Items \ (ToSet(q) \cup ToSet(d)))
      BY <2>1, NodesApart
    <3>. QED BY <2>1, <3>1 DEF Only, Lists, Rings
  <2>4. Lists(g, q, u) /\ ToSet(q) = ToSet(q) \ {i}
    BY <1>1, <1>3, <2>1, <2>2, <2>3 DEF Lists, Rings
  <2>. QED BY <2>1, <2>4
<1>. QED BY <1>2, <1>3

\* Moving: an item goes elsewhere in the queue, or stays when it is there already.
LEMMA MoveLists ==
  ASSUME NEW h \in [Ptrs -> Nodes], NEW q, NEW d, Lists(h, q, d), NEW i \in ToSet(q),
         NEW before \in (ToSet(q) \cup {Queue}) \ {i}
  PROVE  \E g, v : /\ Settled(h, SpliceAt(h, before, i, h[<<"next", i>>]), g)
                   /\ Lists(g, v, d) /\ ToSet(v) = ToSet(q)
<1>1. /\ ItemSeq(q) /\ ItemSeq(d) /\ Ring(h, Queue, q) /\ Ring(h, Drain, d)
      /\ ToSet(q) \cap ToSet(d) = {} /\ ToSet(q) \subseteq Items /\ ToSet(d) \subseteq Items
  BY ListIndices DEF Lists, Rings, ItemSeq
<1>2. PICK k, u, t : OneOut(q, i, k, u, t)
  BY <1>1, CutOne
<1>3. Joined(q, u, t, k)
  BY <1>2 DEF OneOut
<1>4. /\ t # << >> /\ t[1] = i /\ t[Len(t)] = i /\ ItemSeq(t) /\ ToSet(t) = {i}
      /\ ItemSeq(u) /\ ToSet(u) = ToSet(q) \ {i} /\ k \in Int /\ ToSet(u) \cap ToSet(t) = {}
  BY <1>2 DEF OneOut
<1> DEFINE end == At(Queue, u, k)
<1>5. h[<<"next", i>>] = end
  <2>1. Between(h, t, At(Queue, u, k - 1), end)
    BY <1>1, <1>3, <1>4, CutEnds
  <2>. QED BY <1>4, <2>1 DEF Between
<1>6. CASE before = end
  <2>1. SpliceAt(h, before, i, end) = << >>
    BY <1>6 DEF SpliceAt
  <2>. QED BY <1>5, <2>1, NothingToStore
<1>7. CASE before # end
  <2>1. PICK j \in 1 .. Len(u) + 1 : At(Queue, u, j) = before
    <3>1. before \in ToSet(u) \cup {Queue}
      BY <1>4
    <3>. QED BY <1>4, <3>1, NodeOf
  <2>2. PICK v : Joined(v, u, t, j)
    BY <1>4, JoinLists
  <2> DEFINE c == CutPtr(h, At(Queue, u, k - 1), end)
  <2>3. Ring(c, Queue, u) /\ Closed(h, c, At(Queue, u, k - 1), end)
    <3> HIDE DEF c
    <3>1. c = CutPtr(h, At(Queue, u, k - 1), At(Queue, u, k))
      BY DEF c
    <3>. QED BY <1>1, <1>3, <1>4, <3>1, CutKeeps
  <2>4. PICK g : /\ Settled(h, SpliceAt(h, before, t[1], end), g)
                 /\ Ring(g, Queue, v) /\ Only(c, g, ToSet(v) \cup {Queue})
    <3> HIDE DEF c
    <3>1. c = CutPtr(h, At(Queue, u, k - 1), At(Queue, u, k)) /\ j \in Int /\ before = At(Queue, u, j)
      BY <2>1 DEF c
    <3>. QED BY <1>1, <1>3, <1>4, <1>7, <2>2, <2>3, <3>1, SpliceSettles
  <2> HIDE DEF c
  <2>5. ItemSeq(v) /\ ToSet(v) = ToSet(q)
    BY <1>4, <2>2 DEF Joined
  <2>6. Only(h, g, ToSet(q) \cup {Queue})
    <3>1. At(Queue, u, k - 1) \in ToSet(q) \cup {Queue} /\ end \in ToSet(q) \cup {Queue}
      BY <1>4, RingNodes
    <3>. QED BY <2>3, <2>4, <2>5, <3>1 DEF Only, Closed
  <2>7. Ring(g, Drain, d)
    <3>1. (ToSet(q) \cup {Queue}) \cap (ToSet(d) \cup {Drain}) = {}
      BY <1>1, NodesApart
    <3>. QED BY <1>1, <2>6, <3>1, ListStays
  <2>8. ASSUME NEW n \in Items \ (ToSet(v) \cup ToSet(d)) PROVE g[<<"prev", n>>] = n
    <3>1. n \in Nodes \ (ToSet(q) \cup {Queue}) /\ n \in Items \ (ToSet(q) \cup ToSet(d))
      BY <2>5, NodesApart
    <3>. QED BY <2>6, <3>1 DEF Only, Lists, Rings
  <2>9. Lists(g, v, d)
    BY <1>1, <2>4, <2>5, <2>7, <2>8 DEF Lists, Rings
  <2>. QED BY <1>4, <1>5, <2>4, <2>5, <2>9
<1>. QED BY <1>6, <1>7

\* Draining: the item and all behind it go to the end of the drain.
LEMMA DrainLists ==
  ASSUME NEW h \in [Ptrs -> Nodes], NEW q, NEW d, Lists(h, q, d), NEW i \in ToSet(q)
  PROVE  \E g, v, w : /\ Settled(h, SpliceAt(h, Drain, i, Queue), g) /\ Lists(g, v, w)
                      /\ ToSet(v) \cup ToSet(w) = ToSet(q) \cup ToSet(d)
<1>1. /\ ItemSeq(q) /\ ItemSeq(d) /\ Ring(h, Queue, q) /\ Ring(h, Drain, d)
      /\ ToSet(q) \cap ToSet(d) = {} /\ ToSet(q) \subseteq Items /\ ToSet(d) \subseteq Items
  BY ListIndices DEF Lists, Rings, ItemSeq
<1>2. PICK u, t : Joined(q, u, t, Len(u) + 1) /\ t # << >> /\ t[1] = i
  BY <1>1, CutTail
<1> DEFINE k == Len(u) + 1
<1>3. Joined(q, u, t, k)
  BY <1>2
<1>4. /\ ItemSeq(t) /\ ItemSeq(u) /\ ToSet(u) \cap ToSet(t) = {}
      /\ ToSet(q) = ToSet(u) \cup ToSet(t) /\ Len(u) \in Nat
  BY <1>3 DEF Joined, ItemSeq
<1>5. k \in Int /\ k - 1 \in Int /\ k \notin 1 .. Len(u)
  BY <1>4
<1> HIDE DEF k
<1>6. At(Queue, u, k) = Queue
  BY <1>5 DEF At
<1> DEFINE o == At(Queue, u, k - 1)
           c == CutPtr(h, o, Queue)
           j == Len(d) + 1
<1>7. Ring(c, Queue, u) /\ Closed(h, c, o, Queue)
  <2> HIDE DEF c
  <2>1. c = CutPtr(h, At(Queue, u, k - 1), At(Queue, u, k))
    BY <1>6 DEF c
  <2>2. Ring(c, Queue, u) /\ Closed(h, c, At(Queue, u, k - 1), At(Queue, u, k))
    BY <1>1, <1>3, <1>5, <2>1, CutKeeps
  <2>. QED BY <1>6, <2>2
<1>8. o \in ToSet(u) \cup {Queue}
  BY <1>4, <1>5, RingNodes
<1>9. Ring(c, Drain, d)
  <2> HIDE DEF c, o
  <2>1. Only(h, c, ToSet(u) \cup {Queue})
    BY <1>7, <1>8 DEF Only, Closed
  <2>2. (ToSet(u) \cup {Queue}) \cap (ToSet(d) \cup {Drain}) = {}
    BY <1>1, <1>4, NodesApart
  <2>. QED BY <1>1, <2>1, <2>2, ListStays
<1>10. j \in 1 .. Len(d) + 1 /\ j \in Int /\ At(Drain, d, j) = Drain
  <2>1. Len(d) \in Nat
    BY <1>1 DEF ItemSeq
  <2>2. j \in 1 .. Len(d) + 1 /\ j \in Int /\ j \notin 1 .. Len(d)
    BY <2>1
  <2>. QED BY <2>2 DEF At
<1> HIDE DEF j
<1>11. PICK w : Joined(w, d, t, j)
  <2>1. ToSet(d) \cap ToSet(t) = {}
    BY <1>1, <1>4
  <2>. QED BY <1>1, <1>4, <1>10, <2>1, JoinLists
<1>12. PICK g : /\ Settled(h, SpliceAt(h, Drain, t[1], At(Queue, u, k)), g)
                /\ Ring(g, Drain, w) /\ Only(c, g, ToSet(w) \cup {Drain})
  <2> HIDE DEF c
  <2>1. c = CutPtr(h, At(Queue, u, k - 1), At(Queue, u, k)) /\ Drain = At(Drain, d, j)
        /\ Drain # At(Queue, u, k)
    BY <1>6, <1>10, NodesApart DEF c
  <2>. QED BY <1>1, <1>2, <1>3, <1>5, <1>9, <1>10, <1>11, <2>1, SpliceSettles
<1>13. /\ ItemSeq(w) /\ ToSet(w) = ToSet(d) \cup ToSet(t) /\ ToSet(w) \subseteq Items
       /\ ToSet(u) \cap ToSet(w) = {}
  <2>1. ItemSeq(w) /\ ToSet(w) = ToSet(d) \cup ToSet(t)
    BY <1>11 DEF Joined
  <2>. QED BY <1>1, <1>4, <2>1
<1> HIDE DEF c, o
<1>14. Ring(g, Queue, u)
  <2>1. (ToSet(w) \cup {Drain}) \cap (ToSet(u) \cup {Queue}) = {}
    BY <1>1, <1>4, <1>13, NodesApart
  <2>. QED BY <1>4, <1>7, <1>12, <2>1, ListStays
<1>15. ASSUME NEW n \in Items \ (ToSet(u) \cup ToSet(w)) PROVE g[<<"prev", n>>] = n
  <2>1. /\ n \in Nodes \ (ToSet(w) \cup {Drain}) /\ n \in Items \ (ToSet(q) \cup ToSet(d))
        /\ n \in Nodes /\ n # Queue
    BY <1>4, <1>13, NodesApart
  <2>. QED BY <1>7, <1>12, <2>1 DEF Only, Lists, Rings, Closed
<1>16. Lists(g, u, w)
  BY <1>4, <1>12, <1>13, <1>14, <1>15 DEF Lists, Rings
<1>17. ToSet(u) \cup ToSet(w) = ToSet(q) \cup ToSet(d)
  BY <1>4, <1>13
<1>. QED BY <1>2, <1>6, <1>12, <1>16, <1>17

\* A list of different items is not longer than the number of items.
LEMMA ListsFit == ASSUME NEW s, ItemSeq(s) PROVE Len(s) <= NumItems /\ NumItems \in Nat
<1>1. s \in Seq(Items) /\ IsInjective(s) /\ Len(s) \in Nat
  BY DEF ItemSeq
<1>2. s \in Injection(1 .. Len(s), Items)
  BY <1>1 DEF Injection
<1>3. IsFiniteSet(Items)
  BY DrainableQueueAssumption
<1>4. Cardinality(1 .. Len(s)) <= Cardinality(Items)
  BY <1>2, <1>3, FS_Injection
<1>5. Cardinality(1 .. Len(s)) = Len(s)
  <2> DEFINE n == Len(s)
  <2> HIDE DEF n
  <2>1. n \in Nat /\ 1 \in Int /\ n \in Int
    BY <1>1 DEF n
  <2>2. Cardinality(1 .. n) = IF 1 > n THEN 0 ELSE n - 1 + 1
    BY <2>1, FS_Interval
  <2>3. Cardinality(1 .. n) = n
    BY <2>1, <2>2
  <2>. QED BY <2>3 DEF n
<1>6. NumItems \in Nat
  BY <1>3, FS_CardinalityType DEF NumItems
<1>. QED BY <1>4, <1>5, <1>6 DEF NumItems

(* What is read in the lists is what they show.                              *)
LEMMA ListsRead ==
  ASSUME NEW h, NEW q, NEW d, Lists(h, q, d)
  PROVE  /\ Forward(h, Queue, NumItems) = q /\ Backward(h, Queue, NumItems) = q
         /\ Forward(h, Drain, NumItems) = d /\ Backward(h, Drain, NumItems) = d
BY ListsFit, ForwardIs, BackIs, RingIsBack DEF Lists, Rings

\* An item of a list is linked, and a list is empty when its end item is not.
LEMMA MembersAreLinked ==
  ASSUME NEW h, NEW s, ItemSeq(s), NEW l \in {Queue, Drain}, Ring(h, l, s)
  PROVE  /\ \A i \in ToSet(s) : h[<<"prev", i>>] # i
         /\ h[<<"prev", l>>] = l <=> s = << >>
         /\ h[<<"next", l>>] \in ToSet(s) \cup {l}
         /\ h[<<"next", l>>] = l <=> s = << >>
<1>1. s \in Seq(Items) /\ Len(s) \in Nat
  BY DEF ItemSeq
<1>2. ASSUME NEW i \in ToSet(s) PROVE h[<<"prev", i>>] # i
  <2>1. PICK k \in 1 .. Len(s) : s[k] = i
    BY <1>1, ListIndices
  <2>2. /\ At(l, s, k) = i /\ k - 1 \in 0 .. Len(s) /\ k \in 0 .. Len(s) /\ k - 1 + 1 = k
        /\ k # k - 1
    BY <1>1, <2>1 DEF At
  <2>3. h[<<"prev", i>>] = At(l, s, k - 1)
    BY <2>2 DEF Ring
  <2>. QED BY <2>2, <2>3, RingNodes
<1>3. At(l, s, 0) = l /\ At(l, s, Len(s) + 1) = l
  BY <1>1 DEF At
<1>4. 0 \in 0 .. Len(s) /\ Len(s) \in 0 .. Len(s) /\ 0 + 1 = 1
      /\ 1 \in 1 .. Len(s) + 1 /\ Len(s) + 1 \in 1 .. Len(s) + 1
  BY <1>1
<1>5. h[<<"prev", l>>] = At(l, s, Len(s)) /\ h[<<"next", l>>] = At(l, s, 1)
  BY <1>3, <1>4 DEF Ring
<1>6. Len(s) = 0 <=> s = << >>
  BY <1>1
<1>7. h[<<"prev", l>>] = l <=> s = << >>
  BY <1>3, <1>4, <1>5, <1>6, RingNodes
<1>8. h[<<"next", l>>] \in ToSet(s) \cup {l}
  BY <1>5, RingNodes
<1>9. h[<<"next", l>>] = l <=> s = << >>
  <2>1. At(l, s, 1) = l <=> 1 = Len(s) + 1
    BY <1>3, <1>4, RingNodes
  <2>. QED BY <1>1, <1>5, <1>6, <2>1
<1>. QED BY <1>2, <1>7, <1>8, <1>9

\* The operations store nodes into pointers.
LEMMA StoresTyped ==
  ASSUME NEW h \in [Ptrs -> Nodes], NEW a \in Nodes, NEW b \in Nodes, NEW c \in Nodes
  PROVE  /\ LinkAt(h, a, b, c) \in StoreSeq /\ LinkAt(h, a, b, c) # << >>
         /\ Unlink(h, a) \in StoreSeq
         /\ SpliceAt(h, a, b, c) \in StoreSeq
<1>1. \A n \in Nodes : h[<<"next", n>>] \in Nodes /\ h[<<"prev", n>>] \in Nodes
  BY DEF Ptrs
<1>2. LinkAt(h, a, b, c) \in StoreSeq /\ LinkAt(h, a, b, c) # << >>
  <2> DEFINE after == h[<<"prev", c>>]
  <2>1. after \in Nodes
    BY <1>1
  <2> HIDE DEF after
  <2>2. LinkAt(h, a, b, c) = << <<"next", b, c>>, <<"prev", a, after>>, <<"prev", c, b>>, <<"next", after, a>> >>
    BY DEF LinkAt, after
  <2>. QED BY <2>1, <2>2 DEF StoreSeq
<1>3. Unlink(h, a) \in StoreSeq
  <2> DEFINE o == h[<<"prev", a>>]
             e == h[<<"next", a>>]
  <2>1. o \in Nodes /\ e \in Nodes
    BY <1>1
  <2> HIDE DEF o, e
  <2>2. Unlink(h, a) = << <<"prev", e, o>>, <<"next", o, e>>, <<"prev", a, a>> >>
    BY DEF Unlink, o, e
  <2>. QED BY <2>1, <2>2 DEF StoreSeq
<1>4. SpliceAt(h, a, b, c) \in StoreSeq
  <2> DEFINE o == h[<<"prev", b>>]
             last == h[<<"prev", c>>]
             w == Write(Write(h, <<"next", o, c>>), <<"prev", c, o>>)
             after == w[<<"prev", a>>]
             todo == << <<"next", o, c>>, <<"prev", c, o>>, <<"next", last, a>>, <<"prev", b, after>>,
                        <<"prev", a, last>>, <<"next", after, b>> >>
  <2>1. o \in Nodes /\ last \in Nodes
    BY <1>1
  <2>2. w \in [Ptrs -> Nodes]
    BY <2>1 DEF Write
  <2>3. after \in Nodes
    BY <2>2 DEF Ptrs
  <2>4. SpliceAt(h, a, b, c) = << >> \/ SpliceAt(h, a, b, c) = todo
    BY DEF SpliceAt
  <2> HIDE DEF o, last, after
  <2>5. todo \in StoreSeq
    BY <2>1, <2>3 DEF StoreSeq
  <2>6. << >> \in StoreSeq
    BY DEF StoreSeq
  <2>. QED BY <2>4, <2>5, <2>6
<1>. QED BY <1>2, <1>3, <1>4

-----------------------------------------------------------------------------
Placed == {i \in Items : pc[i] \in {"enqueue", "in", "move", "drain", "drained"}}
Draining == lock # Nobody /\ pc[lock] \in {"drain", "drained"}

\* Where a thread is.
PcTyped(f) ==
  f \in [Threads -> {"out", "enqueue", "in", "move", "drain", "drained", "finish"}]

(* Who is inside a call has the lock, or is part of the chain that is being  *)
(* enqueued.                                                                 *)
LockGuards ==
  /\ lock = Nobody => stores = << >> /\ \A t \in Threads : pc[t] \in {"out", "in"}
  /\ lock # Nobody => pc[lock] \in {"enqueue", "move", "drain", "drained", "finish"}
  /\ \A t \in Threads : /\ pc[t] \in {"move", "drain", "drained", "finish"} => lock = t
                        /\ pc[t] = "enqueue" => lock # Nobody /\ pc[lock] = "enqueue"
  /\ pc[Splicer] \in {"out", "drained"}

(* What is drained can be told by its index; while a splice is under way the *)
(* index that comes next is nobody's.                                        *)
FreshIn(d) == IF Draining THEN \A i \in Placed : index[i] # Increment(drainIdx)
              ELSE \A i \in ToSet(d) : index[i] # drainIdx

(* When the stores are made the pointers will show the items that are placed.*)
Picture(g, q, d) ==
  /\ Settled(ptr, stores, g) /\ Lists(g, q, d)
  /\ ToSet(q) \cup ToSet(d) = Placed /\ (drainable \/ ToSet(d) = {})
  /\ FreshIn(d)

ListInv == TypeOK /\ LockGuards /\ \E g, q, d : Picture(g, q, d)

\* The invariant holds of two empty lists.
LEMMA InitListInv == Init => ListInv
<1> SUFFICES ASSUME Init PROVE ListInv
  OBVIOUS
<1>1. TypeOK
  BY DrainableQueueAssumption DEF Init, TypeOK, PcTyped, Nodes, Threads
<1>2. LockGuards
  BY DrainableQueueAssumption DEF Init, LockGuards, Threads
<1>3. ptr \in [Ptrs -> Nodes] /\ \A p \in Ptrs : ptr[p] = p[2]
  BY <1>1 DEF TypeOK, PcTyped, Ptrs, Init
<1>4. ItemSeq(<< >>) /\ ToSet(<< >>) = {}
  BY EmptyList DEF ItemSeq
<1>5. ASSUME NEW l \in {Queue, Drain} PROVE Ring(ptr, l, << >>)
  <2>1. \A k \in Int : At(l, << >>, k) = l
    BY DEF At
  <2>2. ptr[<<"next", l>>] = l /\ ptr[<<"prev", l>>] = l
    BY <1>3, NodesApart DEF Ptrs
  <2>. QED BY <2>1, <2>2 DEF Ring
<1>6. \A i \in Items : ptr[<<"prev", i>>] = i
  BY <1>3, NodesApart DEF Ptrs
<1>7. Lists(ptr, << >>, << >>)
  BY <1>4, <1>5, <1>6 DEF Lists, Rings
<1>8. Placed = {} /\ ~Draining /\ stores = << >>
  BY DEF Placed, Draining, Init, Threads
<1>9. Picture(ptr, << >>, << >>)
  BY <1>3, <1>4, <1>7, <1>8, NothingToStore DEF Picture, FreshIn
<1>. QED BY <1>1, <1>2, <1>9 DEF ListInv

\* What the pointers show when the lock is free.
LEMMA ListInvIsEnough == ListInv => ListsConsistent
<1> SUFFICES ASSUME ListInv PROVE ListsConsistent
  OBVIOUS
<1>1. TypeOK /\ LockGuards
  BY DEF ListInv
<1> SUFFICES ASSUME lock = Nobody
             PROVE  LET queue == Forward(ptr, Queue, NumItems)
                        drain == Forward(ptr, Drain, NumItems) IN
                    /\ queue = Backward(ptr, Queue, NumItems)
                    /\ drain = Backward(ptr, Drain, NumItems)
                    /\ IsInjective(queue \o drain)
                    /\ LodIsEmpty <=> queue = << >>
                    /\ \A i \in Items : /\ pc[i] = "in" <=> i \in ToSet(queue \o drain)
                                        /\ pc[i] = "in" <=> Linked(i)
  BY <1>1 DEF ListsConsistent
<1>2. PICK g, q, d : Picture(g, q, d)
  BY DEF ListInv
<1>3. ptr \in [Ptrs -> Nodes] /\ stores = << >>
  BY <1>1 DEF TypeOK, PcTyped, Ptrs, LockGuards
<1>4. Lists(ptr, q, d)
  BY <1>2, <1>3, NothingToStore DEF Picture
<1>5. /\ Forward(ptr, Queue, NumItems) = q /\ Backward(ptr, Queue, NumItems) = q
      /\ Forward(ptr, Drain, NumItems) = d /\ Backward(ptr, Drain, NumItems) = d
  BY <1>4, ListsRead
<1>6. IsInjective(q \o d) /\ ToSet(q \o d) = ToSet(q) \cup ToSet(d)
  BY <1>4, ConcatLists DEF Lists, Rings, ItemSeq
<1>7. LodIsEmpty <=> q = << >>
  BY <1>4, MembersAreLinked DEF Lists, Rings, LodIsEmpty, IsLinked
<1>8. \A i \in Items : pc[i] = "in" <=> i \in ToSet(q) \cup ToSet(d)
  <2>1. Items \subseteq Threads
    BY DEF Threads
  <2>. QED BY <1>1, <1>2, <2>1 DEF Picture, Placed, LockGuards
<1>9. \A i \in Items : i \in ToSet(q) \cup ToSet(d) <=> ptr[<<"prev", i>>] # i
  BY <1>4, MembersAreLinked DEF Lists, Rings
<1>. QED BY <1>5, <1>6, <1>7, <1>8, <1>9 DEF Linked, IsLinked

(* Who takes the lock finds the lists complete.                              *)
LEMMA FreeLists ==
  ASSUME ListInv, lock = Nobody
  PROVE  \E q, d : /\ Lists(ptr, q, d) /\ ToSet(q) \cup ToSet(d) = Placed
                   /\ (drainable \/ ToSet(d) = {}) /\ \A i \in ToSet(d) : index[i] # drainIdx
                   /\ Queued = ToSet(q) /\ ToSet(q) \subseteq Items /\ ToSet(d) \subseteq Items
<1>1. PICK g, q, d : Picture(g, q, d)
  BY DEF ListInv
<1>2. ptr \in [Ptrs -> Nodes] /\ stores = << >>
  BY DEF ListInv, TypeOK, PcTyped, Ptrs, LockGuards
<1>3. Lists(ptr, q, d)
  BY <1>1, <1>2, NothingToStore DEF Picture
<1>4. ~Draining
  BY DEF Draining
<1>5. ToSet(q) \subseteq Items /\ ToSet(d) \subseteq Items
  BY <1>3, ListIndices DEF Lists, Rings, ItemSeq
<1>. QED BY <1>1, <1>3, <1>4, <1>5, ListsRead DEF Picture, FreshIn, Queued

\* Threads and nodes, unfolded once.
LEMMA ItemsAreThreads ==
  /\ Items \subseteq Threads /\ Items \subseteq Nodes /\ Queue \in Nodes /\ Drain \in Nodes
  /\ Nobody \notin Threads /\ Splicer \notin Items /\ Splicer \in Threads
BY DrainableQueueAssumption DEF Threads, Nodes

\* A store leaves what the pointers will be.
LEMMA StepStore == ASSUME ListInv, Store PROVE ListInv'
<1>1. PICK g, q, d : Picture(g, q, d)
  BY DEF ListInv
<1>2. /\ ptr \in [Ptrs -> Nodes] /\ stores \in StoreSeq /\ stores # << >>
      /\ ptr' = Write(ptr, Head(stores)) /\ stores' = Tail(stores)
      /\ UNCHANGED <<drainable, drainIdx, index, lock, pc>>
  BY DEF ListInv, TypeOK, PcTyped, Ptrs, StoreSeq, Store
<1>3. TypeOK'
  <2>1. stores' \in StoreSeq
    BY <1>2 DEF StoreSeq
  <2>2. stores[1] \in {"next", "prev"} \X Nodes \X Nodes /\ Head(stores) = stores[1]
    BY <1>2 DEF StoreSeq
  <2>3. ptr' \in [Ptrs -> Nodes]
    BY <1>2, <2>2 DEF Write
  <2>. QED BY <1>2, <2>1, <2>3 DEF ListInv, TypeOK, PcTyped, Ptrs, StoreSeq
<1>4. LockGuards'
  <2>1. lock # Nobody
    BY <1>2 DEF ListInv, LockGuards
  <2>. QED BY <1>2, <2>1 DEF ListInv, LockGuards
<1>5. Settled(ptr', stores', g)
  BY <1>1, <1>2, StoreSettles DEF Picture
<1>6. Placed' = Placed /\ Draining' = Draining
  BY <1>2 DEF Placed, Draining
<1>7. Picture(g, q, d)'
  BY <1>1, <1>2, <1>5, <1>6 DEF Picture, FreshIn
<1>. QED BY <1>3, <1>4, <1>7 DEF ListInv

(* The items t come in before one of the queue.                              *)
LEMMA ComeIn ==
  ASSUME ListInv, NEW i \in Items, lock = Nobody, lock' = i,
         NEW t, ItemSeq(t), t # << >>, i \in ToSet(t), \A j \in ToSet(t) : pc[j] = "out",
         pc' = [u \in Threads |-> IF u \in ToSet(t) THEN "enqueue" ELSE pc[u]],
         NEW h \in [Ptrs -> Nodes], Chain(h, t), ptr' = h,
         \A n \in Nodes : /\ n \notin ToSet(t) => h[<<"next", n>>] = ptr[<<"next", n>>]
                          /\ n \notin ToSet(t) => h[<<"prev", n>>] = ptr[<<"prev", n>>],
         NEW before \in Queued \cup {Queue},
         stores' = LinkAt(h, t[1], t[Len(t)], before),
         drainable' = drainable, drainIdx' = drainIdx,
         index' \in [Items -> 1 .. LastDrainIdx],
         \A j \in Items \ ToSet(t) : index'[j] = index[j]
  PROVE  ListInv'
<1>1. PICK q, d : /\ Lists(ptr, q, d) /\ ToSet(q) \cup ToSet(d) = Placed
                  /\ (drainable \/ ToSet(d) = {}) /\ \A j \in ToSet(d) : index[j] # drainIdx
                  /\ Queued = ToSet(q) /\ ToSet(q) \subseteq Items /\ ToSet(d) \subseteq Items
  BY FreeLists
<1>2. ToSet(t) \subseteq Items /\ t[1] \in ToSet(t) /\ t[Len(t)] \in ToSet(t)
  <2>1. Len(t) \in Nat \ {0} /\ t \in Seq(Items)
    BY DEF ItemSeq
  <2>. QED BY <2>1, ListIndices
<1>3. ToSet(t) \cap Placed = {} /\ Placed' = Placed \cup ToSet(t)
  BY <1>2, ItemsAreThreads DEF Placed
<1>4. TypeOK /\ LockGuards
  BY DEF ListInv
<1>5. Rings(h, q, d)
  <2>1. ASSUME NEW n \in Nodes, n \notin ToSet(t)
        PROVE  h[<<"next", n>>] = ptr[<<"next", n>>] /\ h[<<"prev", n>>] = ptr[<<"prev", n>>]
    BY <2>1
  <2>2. \A n \in (ToSet(q) \cup ToSet(d) \cup {Queue, Drain}) : n \in Nodes /\ n \notin ToSet(t)
    BY <1>1, <1>2, <1>3, NodesApart
  <2>3. Ring(h, Queue, q)
    <3>1. \A n \in ToSet(q) \cup {Queue} :
             h[<<"next", n>>] = ptr[<<"next", n>>] /\ h[<<"prev", n>>] = ptr[<<"prev", n>>]
      BY <2>1, <2>2
    <3>. QED BY <1>1, <3>1, RingStays DEF Lists, Rings
  <2>4. Ring(h, Drain, d)
    <3>1. \A n \in ToSet(d) \cup {Drain} :
             h[<<"next", n>>] = ptr[<<"next", n>>] /\ h[<<"prev", n>>] = ptr[<<"prev", n>>]
      BY <2>1, <2>2
    <3>. QED BY <1>1, <3>1, RingStays DEF Lists, Rings
  <2>. QED BY <1>1, <2>3, <2>4 DEF Lists, Rings
<1>6. \A n \in Items \ (ToSet(q) \cup ToSet(d) \cup ToSet(t)) : h[<<"prev", n>>] = n
  <2>1. \A n \in Items : n \in Nodes
    BY ItemsAreThreads
  <2>. QED BY <1>1, <2>1 DEF Lists
<1>7. ToSet(t) \cap (ToSet(q) \cup ToSet(d)) = {}
  BY <1>1, <1>3
<1>8. PICK g, v : /\ Settled(h, LinkAt(h, t[1], t[Len(t)], before), g)
                  /\ Lists(g, v, d) /\ ToSet(v) = ToSet(q) \cup ToSet(t)
  <2>1. before \in ToSet(q) \cup {Queue}
    BY <1>1
  <2>2. \A n \in Items \ (ToSet(q) \cup ToSet(d) \cup ToSet(t)) : h[<<"prev", n>>] = n
    BY <1>6
  <2>3. ToSet(t) \cap (ToSet(q) \cup ToSet(d)) = {}
    BY <1>7
  <2>4. Rings(h, q, d) /\ ItemSeq(t) /\ t # << >> /\ Chain(h, t) /\ h \in [Ptrs -> Nodes]
    BY <1>5
  <2>. QED BY ONLY <2>1, <2>2, <2>3, <2>4, LinkLists
<1>9. TypeOK'
  <2>1. before \in Nodes /\ t[1] \in Nodes /\ t[Len(t)] \in Nodes
    BY <1>1, <1>2, ItemsAreThreads
  <2>2. stores' \in StoreSeq
    BY <2>1, StoresTyped
  <2>3. PcTyped(pc')
    BY <1>4 DEF TypeOK, PcTyped
  <2>. QED BY <1>4, <2>2, <2>3, ItemsAreThreads DEF TypeOK, PcTyped, Ptrs, StoreSeq
<1>10. LockGuards'
  <2>1. \A u \in Threads : /\ u \in ToSet(t) => pc'[u] = "enqueue"
                           /\ u \notin ToSet(t) => pc'[u] \in {"out", "in"}
    BY <1>4 DEF LockGuards
  <2>2. Splicer \notin ToSet(t) /\ pc[Splicer] \in {"out", "drained"} /\ lock' # Nobody /\ i \in Threads
    BY <1>2, <1>4, ItemsAreThreads DEF LockGuards
  <2>. QED BY <1>4, <2>1, <2>2, ItemsAreThreads DEF LockGuards
<1>11. Picture(g, v, d)'
  <2>1. ~Draining'
    BY ItemsAreThreads DEF Draining
  <2>2. \A j \in ToSet(d) : index'[j] # drainIdx'
    BY <1>1, <1>7
  <2>3. ToSet(v) \cup ToSet(d) = Placed'
    BY <1>1, <1>3, <1>8
  <2>. QED BY <1>1, <1>8, <2>1, <2>2, <2>3 DEF Picture, FreshIn
<1>. QED BY <1>9, <1>10, <1>11 DEF ListInv

\* Enqueuing one item, at the end or before another.
LEMMA StepEnqueue ==
  ASSUME ListInv, NEW i \in Items, Enqueue(i) \/ \E before \in Nodes : EnqueueBefore(i, before)
  PROVE  ListInv'
<1> DEFINE t == << i >>
<1>1. PICK before \in Queued \cup {Queue} :
           /\ pc[i] = "out" /\ pc' = [pc EXCEPT ![i] = "enqueue"] /\ lock = Nobody /\ lock' = i
           /\ stores' = LinkAt(ptr, i, i, before)
           /\ UNCHANGED <<drainable, ptr, drainIdx>>
           /\ index' = index \/ index' = [index EXCEPT ![i] = drainIdx]
  BY DEF Enqueue, EnqueueBefore, Goto, Lock
<1>2. TypeOK
  BY DEF ListInv
<1>3. /\ ptr \in [Ptrs -> Nodes] /\ index' \in [Items -> 1 .. LastDrainIdx]
      /\ \A j \in Items \ {i} : index'[j] = index[j]
  BY <1>1, <1>2 DEF TypeOK, PcTyped, Ptrs
<1>4. /\ Len(t) = 1 /\ t[1] = i /\ t[Len(t)] = i /\ t \in Seq(Items) /\ t # << >>
      /\ \A a, b \in 1 .. Len(t) : a = b
  OBVIOUS
<1> HIDE DEF t
<1>5. ToSet(t) = {i} /\ ItemSeq(t) /\ Chain(ptr, t)
  BY <1>4, ListIndices DEF ItemSeq, Chain, IsInjective
<1>6. pc' = [u \in Threads |-> IF u \in ToSet(t) THEN "enqueue" ELSE pc[u]]
  BY <1>1, <1>2, <1>5, ItemsAreThreads DEF TypeOK, PcTyped
<1>. QED BY <1>1, <1>3, <1>4, <1>5, <1>6, ComeIn

\* Two items that are linked to each other are a chain.
LEMMA TwoItems ==
  ASSUME NEW i \in Items, NEW j \in Items, i # j, NEW t, t = << i, j >>,
         NEW h, h[<<"next", i>>] = j, h[<<"prev", j>>] = i
  PROVE  /\ Len(t) = 2 /\ t # << >> /\ t[1] = i /\ t[Len(t)] = j
         /\ ToSet(t) = {i, j} /\ ItemSeq(t) /\ Chain(h, t)
<1>1. /\ Len(t) = 2 /\ t[1] = i /\ t[2] = j /\ t \in Seq(Items) /\ t # << >>
      /\ \A a \in 1 .. Len(t) : a = 1 \/ a = 2
      /\ \A a \in 1 .. Len(t) - 1 : a = 1 /\ a + 1 = 2
  OBVIOUS
<1>2. 1 \in 1 .. Len(t) /\ 2 \in 1 .. Len(t) /\ DOMAIN t = 1 .. Len(t)
  BY <1>1
<1>3. ToSet(t) = {i, j}
  BY ONLY <1>1, <1>2, ListIndices
<1>4. IsInjective(t)
  BY <1>1, <1>2 DEF IsInjective
<1>. QED BY <1>1, <1>3, <1>4 DEF Chain, ItemSeq

\* Enqueuing a chain of two.
LEMMA StepEnqueueChain ==
  ASSUME ListInv, NEW i \in Items, NEW j \in Items, NEW before \in Nodes, EnqueueChain(i, j, before)
  PROVE  ListInv'
<1> DEFINE t == << i, j >>
           h == Write(Write(ptr, <<"next", i, j>>), <<"prev", j, i>>)
<1>1. /\ pc[i] = "out" /\ pc[j] = "out" /\ i # j
      /\ pc' = [pc EXCEPT ![i] = "enqueue", ![j] = "enqueue"] /\ lock = Nobody /\ lock' = i
      /\ before \in Queued \cup {Queue}
      /\ ptr' = h /\ stores' = LinkAt(h, i, j, before)
      /\ UNCHANGED <<drainable, drainIdx, index>>
  BY DEF EnqueueChain, Lock
<1>2. TypeOK
  BY DEF ListInv
<1>3. ptr \in [Ptrs -> Nodes] /\ index' \in [Items -> 1 .. LastDrainIdx] /\ i \in Nodes /\ j \in Nodes
  BY <1>1, <1>2, ItemsAreThreads DEF TypeOK, PcTyped, Ptrs
<1>4. /\ h \in [Ptrs -> Nodes] /\ h[<<"next", i>>] = j /\ h[<<"prev", j>>] = i
      /\ \A n \in Nodes : /\ n # i => h[<<"next", n>>] = ptr[<<"next", n>>]
                          /\ n # j => h[<<"prev", n>>] = ptr[<<"prev", n>>]
  BY <1>3 DEF Write, Ptrs
<1> HIDE DEF h
<1>5. /\ Len(t) = 2 /\ t # << >> /\ t[1] = i /\ t[Len(t)] = j
      /\ ToSet(t) = {i, j} /\ ItemSeq(t) /\ Chain(h, t)
  BY <1>1, <1>4, TwoItems
<1> HIDE DEF t
<1>6. pc' = [u \in Threads |-> IF u \in ToSet(t) THEN "enqueue" ELSE pc[u]]
  BY <1>1, <1>2, <1>5, ItemsAreThreads DEF TypeOK, PcTyped
<1>7. \A n \in Nodes : /\ n \notin ToSet(t) => h[<<"next", n>>] = ptr[<<"next", n>>]
                       /\ n \notin ToSet(t) => h[<<"prev", n>>] = ptr[<<"prev", n>>]
  BY <1>4, <1>5
<1>8. /\ i \in ToSet(t) /\ \A n \in ToSet(t) : pc[n] = "out"
      /\ stores' = LinkAt(h, t[1], t[Len(t)], before) /\ before \in Queued \cup {Queue}
      /\ \A n \in Items \ ToSet(t) : index'[n] = index[n]
  BY <1>1, <1>5
<1>9. /\ lock = Nobody /\ lock' = i /\ ItemSeq(t) /\ t # << >> /\ h \in [Ptrs -> Nodes]
      /\ Chain(h, t) /\ ptr' = h /\ drainable' = drainable /\ drainIdx' = drainIdx
  BY <1>1, <1>4, <1>5
<1>. QED BY <1>3, <1>6, <1>7, <1>8, <1>9, ComeIn

\* Who starts a call has the lock.
LEMMA LockTaken ==
  ASSUME LockGuards, TypeOK, NEW t \in Threads, lock = Nobody, lock' = t,
         NEW to \in {"move", "drain", "drained", "finish"}, pc' = [pc EXCEPT ![t] = to],
         t = Splicer => to = "drained"
  PROVE  /\ LockGuards' /\ PcTyped(pc')
         /\ pc'[t] = to /\ \A u \in Threads : pc[u] \in {"out", "in"} /\ (u # t => pc'[u] = pc[u])
<1>1. PcTyped(pc)
  BY DEF TypeOK, PcTyped
<1>2. pc'[t] = to /\ \A u \in Threads : pc[u] \in {"out", "in"} /\ (u # t => pc'[u] = pc[u])
  BY <1>1 DEF LockGuards, PcTyped
<1>3. LockGuards'
  BY <1>2, ItemsAreThreads DEF LockGuards
<1>. QED BY <1>1, <1>2, <1>3 DEF PcTyped

\* Who returns has left the lock.
LEMMA LockLeft ==
  ASSUME LockGuards, TypeOK, NEW t \in Threads, lock = t, lock' = Nobody, stores' = << >>,
         pc[t] \in {"move", "drain", "drained", "finish"},
         NEW to \in {"out", "in"}, pc' = [pc EXCEPT ![t] = to], t = Splicer => to = "out"
  PROVE  /\ LockGuards' /\ PcTyped(pc')
         /\ pc'[t] = to /\ \A u \in Threads : u # t => pc'[u] = pc[u]
<1>1. PcTyped(pc)
  BY DEF TypeOK, PcTyped
<1>2. pc'[t] = to /\ \A u \in Threads : u # t => pc'[u] = pc[u]
  BY <1>1 DEF PcTyped
<1>3. \A u \in Threads : pc'[u] \in {"out", "in"}
  BY <1>1, <1>2 DEF LockGuards, PcTyped
<1>4. pc'[Splicer] \in {"out", "drained"}
  BY <1>2, ItemsAreThreads DEF LockGuards
<1>5. LockGuards'
  BY <1>3, <1>4 DEF LockGuards
<1>. QED BY <1>1, <1>2, <1>5 DEF PcTyped

(* The lock is left when all is stored: the lists stay as they are.          *)
LEMMA StepReturn ==
  ASSUME ListInv, NEW i \in Items, EnqueueReturn(i) \/ MoveReturn(i) \/ FinishReturn(i)
  PROVE  ListInv'
<1>1. /\ lock = i /\ lock' = Nobody /\ stores = << >> /\ stores' = << >>
      /\ UNCHANGED <<drainable, ptr, drainIdx, index>> /\ i \in Threads
  BY ItemsAreThreads DEF EnqueueReturn, MoveReturn, FinishReturn, Unlock
<1>2. TypeOK /\ LockGuards
  BY DEF ListInv
<1>3. PICK g, q, d : Picture(g, q, d)
  BY DEF ListInv
<1>4. /\ LockGuards' /\ PcTyped(pc')
      /\ Placed' = Placed /\ ~Draining
  <2>1. CASE EnqueueReturn(i)
    <3>1. pc[i] = "enqueue" /\ pc' = [u \in Threads |-> IF pc[u] = "enqueue" THEN "in" ELSE pc[u]]
      BY <2>1 DEF EnqueueReturn
    <3>2. \A u \in Threads : /\ pc[u] \in {"out", "enqueue", "in"} \/ u = i
                             /\ pc'[u] = IF pc[u] = "enqueue" THEN "in" ELSE pc[u]
      BY <1>1, <1>2, <3>1 DEF LockGuards, TypeOK, PcTyped
    <3>3. \A u \in Threads : pc'[u] \in {"out", "in"}
      BY <3>1, <3>2
    <3>4. PcTyped(pc')
      BY <1>2, <3>1, <3>3 DEF PcTyped
    <3>5. pc'[Splicer] \in {"out", "drained"}
      BY <1>2, <3>2, ItemsAreThreads DEF LockGuards
    <3>6. LockGuards'
      BY <1>1, <3>3, <3>5 DEF LockGuards
    <3>7. Placed' = Placed
      BY <3>2, ItemsAreThreads DEF Placed
    <3>8. ~Draining
      BY <1>1, <3>1 DEF Draining
    <3>. QED BY <3>4, <3>6, <3>7, <3>8
  <2>2. CASE MoveReturn(i) \/ FinishReturn(i)
    <3>1. PICK to \in {"out", "in"} :
               /\ pc' = [pc EXCEPT ![i] = to]
               /\ \/ pc[i] = "move" /\ to = "in"
                  \/ pc[i] = "finish" /\ to = "out"
      BY <2>2 DEF MoveReturn, FinishReturn, Goto
    <3>2. /\ LockGuards' /\ PcTyped(pc')
          /\ pc'[i] = to /\ \A u \in Threads : u # i => pc'[u] = pc[u]
      BY <1>1, <1>2, <3>1, ItemsAreThreads, LockLeft
    <3>3. Placed' = Placed
      BY <3>1, <3>2, ItemsAreThreads DEF Placed
    <3>4. ~Draining
      BY <1>1, <3>1 DEF Draining
    <3>. QED BY <3>2, <3>3, <3>4
  <2>. QED BY <2>1, <2>2
<1>5. TypeOK'
  BY <1>1, <1>2, <1>4 DEF TypeOK, PcTyped
<1>6. ~Draining'
  BY <1>1 DEF Draining
<1>7. Picture(g, q, d)'
  BY <1>1, <1>3, <1>4, <1>6 DEF Picture, FreshIn
<1>. QED BY <1>4, <1>5, <1>7 DEF ListInv

\* Moving an item inside the queue.
LEMMA StepMove ==
  ASSUME ListInv, NEW i \in Items, NEW before \in Nodes, Move(i, before)
  PROVE  ListInv'
<1>1. /\ ~drainable /\ pc[i] = "in" /\ pc' = [pc EXCEPT ![i] = "move"] /\ lock = Nobody /\ lock' = i
      /\ before \in (Queued \cup {Queue}) \ {i} /\ i \in Threads /\ i # Splicer /\ i \in Nodes
      /\ stores' = SpliceAt(ptr, before, i, ptr[<<"next", i>>])
      /\ UNCHANGED <<drainable, ptr, drainIdx, index>>
  BY ItemsAreThreads DEF Move, Goto, Lock, Splice, GetNext
<1>2. TypeOK /\ LockGuards /\ ptr \in [Ptrs -> Nodes]
  BY DEF ListInv, TypeOK, PcTyped, Ptrs
<1>3. PICK q, d : /\ Lists(ptr, q, d) /\ ToSet(q) \cup ToSet(d) = Placed
                  /\ (drainable \/ ToSet(d) = {}) /\ Queued = ToSet(q)
  BY <1>1, FreeLists
<1>4. /\ LockGuards' /\ PcTyped(pc')
      /\ pc'[i] = "move" /\ \A u \in Threads : u # i => pc'[u] = pc[u]
  BY <1>1, <1>2, LockTaken
<1>5. Placed' = Placed /\ i \in Placed
  BY <1>1, <1>4, ItemsAreThreads DEF Placed
<1>6. i \in ToSet(q) /\ before \in (ToSet(q) \cup {Queue}) \ {i} /\ ToSet(d) = {}
  BY <1>1, <1>3, <1>5
<1>7. PICK g, v : /\ Settled(ptr, SpliceAt(ptr, before, i, ptr[<<"next", i>>]), g)
                  /\ Lists(g, v, d) /\ ToSet(v) = ToSet(q)
  BY <1>2, <1>3, <1>6, MoveLists
<1>8. TypeOK'
  <2>1. ptr[<<"next", i>>] \in Nodes
    BY <1>1, <1>2 DEF Ptrs
  <2>2. stores' \in StoreSeq
    BY <1>1, <1>2, <2>1, StoresTyped
  <2>. QED BY <1>1, <1>2, <1>4, <2>2 DEF TypeOK, PcTyped, StoreSeq
<1>9. Picture(g, v, d)'
  <2>1. ~Draining'
    BY <1>1, <1>4 DEF Draining
  <2>. QED BY <1>1, <1>3, <1>5, <1>6, <1>7, <2>1 DEF Picture, FreshIn
<1>. QED BY <1>4, <1>8, <1>9 DEF ListInv

\* What is drained is in the queue: no item of the drain has the index of the queue.
LEMMA DrainedIsQueued ==
  ASSUME NEW q, NEW d, Lists(ptr, q, d), ToSet(q) \cup ToSet(d) = Placed,
         \A j \in ToSet(d) : index[j] # drainIdx,
         NEW i, i = GetHead \/ (i \in Items /\ pc[i] = "in" /\ index[i] = drainIdx)
  PROVE  i \in ToSet(q) \cup {Queue}
<1>1. GetHead \in ToSet(q) \cup {Queue}
  BY MembersAreLinked DEF Lists, Rings, GetHead
<1>2. ASSUME i \in Items, pc[i] = "in", index[i] = drainIdx PROVE i \in ToSet(q)
  BY <1>2 DEF Placed
<1>. QED BY <1>1, <1>2

\* A splice to the drain, on the request of an item or for the whole queue: the item is in the
\* queue, since no item of the drain has the index of the queue.
LEMMA DrainBegins ==
  ASSUME ListInv, NEW t \in Threads, lock = Nobody, lock' = t, IndexIsFresh, drainable,
         NEW to \in {"drain", "drained"}, pc' = [pc EXCEPT ![t] = to],
         t = Splicer => to = "drained", t \in Items => pc[t] = "in",
         NEW i \in Nodes,
         i = GetHead \/ (i \in Items /\ pc[i] = "in" /\ index[i] = drainIdx),
         stores' = SpliceAt(ptr, Drain, i, Queue),
         UNCHANGED <<drainable, ptr, drainIdx, index>>
  PROVE  ListInv'
<1>1. TypeOK /\ LockGuards /\ ptr \in [Ptrs -> Nodes]
  BY DEF ListInv, TypeOK, PcTyped, Ptrs
<1>2. PICK q, d : /\ Lists(ptr, q, d) /\ ToSet(q) \cup ToSet(d) = Placed
                  /\ \A j \in ToSet(d) : index[j] # drainIdx
  BY FreeLists
<1>3. /\ LockGuards' /\ PcTyped(pc')
      /\ pc'[t] = to /\ \A u \in Threads : pc[u] \in {"out", "in"} /\ (u # t => pc'[u] = pc[u])
  BY <1>1, LockTaken
<1>4. Placed' = Placed /\ \A j \in Placed : pc[j] = "in"
  BY <1>3, ItemsAreThreads DEF Placed
<1>5. i \in ToSet(q) \cup {Queue}
  BY <1>2, DrainedIsQueued
<1>6. PICK g, v, w : /\ Settled(ptr, stores', g) /\ Lists(g, v, w)
                     /\ ToSet(v) \cup ToSet(w) = ToSet(q) \cup ToSet(d)
  <2>1. CASE i = Queue
    <3>1. stores' = << >>
      BY <2>1 DEF SpliceAt
    <3>. QED BY <1>1, <1>2, <3>1, NothingToStore
  <2>2. CASE i \in ToSet(q)
    BY <1>1, <1>2, <2>2, DrainLists
  <2>. QED BY <1>5, <2>1, <2>2
<1>7. TypeOK'
  <2>1. stores' \in StoreSeq
    BY <1>1, StoresTyped, ItemsAreThreads
  <2>. QED BY <1>1, <1>3, <2>1 DEF TypeOK, PcTyped, StoreSeq
<1>8. \A j \in Placed : index[j] # Increment(drainIdx)
  BY <1>4 DEF IndexIsFresh, Placed
<1>9. Picture(g, v, w)'
  <2>1. Draining'
    BY <1>3, ItemsAreThreads DEF Draining
  <2>2. Increment(drainIdx') = Increment(drainIdx)
    BY DEF Increment
  <2>3. FreshIn(w)'
    BY <1>4, <1>8, <2>1, <2>2 DEF FreshIn, Increment
  <2>. QED BY <1>2, <1>4, <1>6, <2>3 DEF Picture
<1>. QED BY <1>3, <1>7, <1>9 DEF ListInv

\* The three ways to start a drain.
LEMMA StepDrain ==
  ASSUME ListInv, SpliceAll \/ \E i \in Items : SafeDrain(i) \/ FinishDraining(i)
  PROVE  ListInv'
<1>1. CASE SpliceAll
  <2>1. GetHead \in Nodes
    BY ItemsAreThreads DEF ListInv, TypeOK, PcTyped, GetHead
  <2>2. /\ lock = Nobody /\ lock' = Splicer /\ IndexIsFresh /\ drainable
        /\ pc' = [pc EXCEPT ![Splicer] = "drained"]
        /\ stores' = SpliceAt(ptr, Drain, GetHead, Queue)
        /\ UNCHANGED <<drainable, ptr, drainIdx, index>>
    BY <1>1 DEF SpliceAll, Goto, Lock, Splice
  <2>. QED BY <2>1, <2>2, ItemsAreThreads, DrainBegins
<1>2. ASSUME NEW i \in Items, SafeDrain(i) \/ FinishDraining(i) PROVE ListInv'
  <2>1. PICK to \in {"drain", "drained"} :
             /\ lock = Nobody /\ lock' = i /\ IndexIsFresh /\ drainable
             /\ pc[i] = "in" /\ pc' = [pc EXCEPT ![i] = to]
             /\ i = GetHead \/ index[i] = drainIdx
             /\ stores' = SpliceAt(ptr, Drain, i, Queue)
             /\ UNCHANGED <<drainable, ptr, drainIdx, index>>
    BY <1>2 DEF SafeDrain, FinishDraining, DrainFrom, Drains, Goto, Lock, Splice
  <2>. QED BY <2>1, ItemsAreThreads, DrainBegins
<1>. QED BY <1>1, <1>2

\* The drain index stays in range.
LEMMA NextIndex == \A k \in 1 .. LastDrainIdx : Increment(k) \in 1 .. LastDrainIdx
BY DrainableQueueAssumption DEF Increment

\* Unlinking the item that is finished.
LEMMA StepFinish ==
  ASSUME ListInv, NEW i \in Items, Finish(i)
  PROVE  ListInv'
<1>1. /\ pc[i] = "in" /\ pc' = [pc EXCEPT ![i] = "finish"] /\ lock = Nobody /\ lock' = i
      /\ stores' = Unlink(ptr, i) /\ UNCHANGED <<drainable, ptr, drainIdx, index>>
      /\ i \in Threads /\ i # Splicer /\ i \in Nodes
  BY ItemsAreThreads DEF Finish, Goto, Lock
<1>2. TypeOK /\ LockGuards /\ ptr \in [Ptrs -> Nodes]
  BY DEF ListInv, TypeOK, PcTyped, Ptrs
<1>3. PICK q, d : /\ Lists(ptr, q, d) /\ ToSet(q) \cup ToSet(d) = Placed
                  /\ (drainable \/ ToSet(d) = {}) /\ \A j \in ToSet(d) : index[j] # drainIdx
  BY <1>1, FreeLists
<1>4. /\ LockGuards' /\ PcTyped(pc')
      /\ pc'[i] = "finish" /\ \A u \in Threads : u # i => pc'[u] = pc[u]
  BY <1>1, <1>2, LockTaken
<1>5. Placed' = Placed \ {i} /\ i \in ToSet(q) \cup ToSet(d)
  BY <1>1, <1>3, <1>4, ItemsAreThreads DEF Placed
<1>6. PICK g, v, w : /\ Settled(ptr, Unlink(ptr, i), g) /\ Lists(g, v, w)
                     /\ ToSet(v) = ToSet(q) \ {i} /\ ToSet(w) = ToSet(d) \ {i}
  BY <1>2, <1>3, <1>5, UnlinkLists
<1>7. TypeOK'
  <2>1. stores' \in StoreSeq
    BY <1>1, <1>2, StoresTyped
  <2>. QED BY <1>1, <1>2, <1>4, <2>1 DEF TypeOK, PcTyped, StoreSeq
<1>8. Picture(g, v, w)'
  <2>1. ~Draining'
    BY <1>1, <1>4 DEF Draining
  <2>. QED BY <1>1, <1>3, <1>5, <1>6, <2>1 DEF Picture, FreshIn
<1>. QED BY <1>4, <1>7, <1>8 DEF ListInv

\* The index is incremented and, in finish, the item unlinked as well.
LEMMA StepDrained ==
  ASSUME ListInv, NEW t \in Threads, Drained(t)
  PROVE  ListInv'
<1>1. /\ lock = t /\ stores = << >> /\ drainIdx' = Increment(drainIdx)
      /\ UNCHANGED <<drainable, ptr, index>> /\ lock # Nobody
  BY ItemsAreThreads DEF Drained
<1>2. TypeOK /\ LockGuards /\ ptr \in [Ptrs -> Nodes]
  BY DEF ListInv, TypeOK, PcTyped, Ptrs
<1>3. PICK g, q, d : Picture(g, q, d)
  BY DEF ListInv
<1>4. Lists(ptr, q, d) /\ Settled(ptr, << >>, ptr)
  BY <1>1, <1>2, <1>3, NothingToStore DEF Picture
<1>5. \A j \in Placed : index[j] # drainIdx'
  <2>1. Draining
    BY <1>1 DEF Drained, Goto, Draining
  <2>. QED BY <1>1, <1>3, <2>1 DEF Picture, FreshIn
<1>6. drainIdx' \in 1 .. LastDrainIdx
  BY <1>1, <1>2, NextIndex DEF TypeOK, PcTyped
<1>7. CASE /\ Goto(t, "drain", "finish") /\ stores' = Unlink(ptr, t) /\ UNCHANGED lock
  <2>1. pc[t] = "drain" /\ pc' = [pc EXCEPT ![t] = "finish"] /\ t # Splicer
    BY <1>2, <1>7 DEF Goto, LockGuards
  <2>2. t \in Items /\ t \in Placed /\ t \in Nodes
    BY <2>1, ItemsAreThreads DEF Threads, Placed
  <2>3. PICK h, v, w : /\ Settled(ptr, Unlink(ptr, t), h) /\ Lists(h, v, w)
                       /\ ToSet(v) = ToSet(q) \ {t} /\ ToSet(w) = ToSet(d) \ {t}
    <3>1. t \in ToSet(q) \cup ToSet(d)
      BY <1>3, <2>2 DEF Picture
    <3>. QED BY <1>2, <1>4, <3>1, UnlinkLists
  <2>4. /\ PcTyped(pc')
        /\ pc'[t] = "finish" /\ \A u \in Threads : u # t => pc'[u] = pc[u]
    BY <1>2, <2>1 DEF TypeOK, PcTyped
  <2>5. LockGuards'
    <3>1. \A u \in Threads : u # t => pc[u] \in {"out", "in"}
      BY <1>1, <1>2, <2>1 DEF LockGuards, TypeOK, PcTyped
    <3>2. pc'[Splicer] \in {"out", "drained"}
      BY <1>2, <2>1, <2>4, ItemsAreThreads DEF LockGuards
    <3>3. lock' = t
      BY <1>1, <1>7
    <3>. QED BY <1>1, <2>4, <3>1, <3>2, <3>3 DEF LockGuards
  <2>6. Placed' = Placed \ {t}
    BY <2>2, <2>4, ItemsAreThreads DEF Placed
  <2>7. TypeOK'
    <3>1. stores' \in StoreSeq
      BY <1>2, <1>7, <2>2, StoresTyped
    <3>. QED BY <1>1, <1>2, <1>6, <1>7, <2>4, <3>1 DEF TypeOK, PcTyped, StoreSeq
  <2>8. Picture(h, v, w)'
    <3>1. ~Draining'
      BY <1>1, <1>7, <2>4 DEF Draining
    <3>2. ToSet(v) \cup ToSet(w) = Placed' /\ (drainable \/ ToSet(w) = {}) /\ ToSet(w) \subseteq Placed
      BY <1>3, <2>3, <2>6 DEF Picture
    <3>3. FreshIn(w)'
      BY <1>1, <1>5, <3>1, <3>2 DEF FreshIn
    <3>. QED BY <1>1, <1>7, <2>3, <3>2, <3>3 DEF Picture
  <2>. QED BY <2>5, <2>7, <2>8 DEF ListInv
<1>8. CASE /\ Goto(t, "drained", IF t = Splicer THEN "out" ELSE "in")
           /\ lock' = Nobody /\ UNCHANGED stores
  <2>1. PICK to \in {"out", "in"} :
             /\ pc[t] = "drained" /\ pc' = [pc EXCEPT ![t] = to]
             /\ (t = Splicer => to = "out") /\ (t # Splicer => to = "in")
    BY <1>8 DEF Goto
  <2>2. /\ LockGuards' /\ PcTyped(pc')
        /\ pc'[t] = to /\ \A u \in Threads : u # t => pc'[u] = pc[u]
    BY <1>1, <1>2, <1>8, <2>1, LockLeft
  <2>3. Placed' = Placed
    BY <2>1, <2>2, ItemsAreThreads DEF Placed
  <2>4. TypeOK'
    BY <1>1, <1>2, <1>6, <1>8, <2>2 DEF TypeOK, PcTyped
  <2>5. Picture(ptr, q, d)'
    <3>1. ~Draining'
      BY <1>8 DEF Draining
    <3>2. ToSet(q) \cup ToSet(d) = Placed /\ (drainable \/ ToSet(d) = {})
      BY <1>3 DEF Picture
    <3>3. FreshIn(d)'
      BY <1>1, <1>5, <3>1, <3>2 DEF FreshIn
    <3>. QED BY <1>1, <1>4, <1>8, <2>3, <3>2, <3>3 DEF Picture
  <2>. QED BY <2>2, <2>4, <2>5 DEF ListInv
<1>. QED BY <1>7, <1>8 DEF Drained

\* One step per action.
LEMMA StepListInv == ListInv /\ [Next]_vars => ListInv'
<1> SUFFICES ASSUME ListInv, [Next]_vars PROVE ListInv'
  OBVIOUS
<1>1. CASE Store
  BY <1>1, StepStore
<1>2. CASE SpliceAll
  BY <1>2, StepDrain
<1>3. ASSUME NEW i \in Items, EnqueueReturn(i) \/ MoveReturn(i) \/ FinishReturn(i) PROVE ListInv'
  BY <1>3, StepReturn
<1>4. ASSUME NEW i \in Items, Enqueue(i) \/ \E before \in Nodes : EnqueueBefore(i, before)
      PROVE  ListInv'
  BY <1>4, StepEnqueue
<1>5. ASSUME NEW i \in Items, SafeDrain(i) \/ FinishDraining(i) PROVE ListInv'
  BY <1>5, StepDrain
<1>6. ASSUME NEW i \in Items, Finish(i) PROVE ListInv'
  BY <1>6, StepFinish
<1>7. ASSUME NEW i \in Items, NEW before \in Nodes, Move(i, before) PROVE ListInv'
  BY <1>7, StepMove
<1>8. ASSUME NEW i \in Items, NEW j \in Items, NEW before \in Nodes, EnqueueChain(i, j, before)
      PROVE  ListInv'
  BY <1>8, StepEnqueueChain
<1>9. ASSUME NEW t \in Threads, Drained(t) PROVE ListInv'
  BY <1>9, StepDrained
<1>10. CASE UNCHANGED vars
  BY <1>10 DEF vars, ListInv, TypeOK, PcTyped, LockGuards, Picture, FreshIn, Draining, Placed,
     Increment
<1>. QED BY <1>1, <1>2, <1>3, <1>4, <1>5, <1>6, <1>7, <1>8, <1>9, <1>10 DEF Next

(* Whenever the lock is free, both directions of the list and of the drain    *)
(* agree, every item that is in is in exactly one of them and no other item  *)
(* is linked, for any number of items, any order of calls and however often  *)
(* the drain index wraps, as long as no item stays in for a whole round of   *)
(* it (the assertions of linkat, unlink and item_destroy).                   *)
THEOREM ListsStayConsistent == Spec => []ListsConsistent
<1>1. Spec => []ListInv
  BY InitListInv, StepListInv, PTL DEF Spec
<1>. QED BY <1>1, ListInvIsEnough, PTL

-----------------------------------------------------------------------------
(* What is seen between two stores.                                         *)

\* A list whose nodes keep their previous pointers stays.
LEMMA BackStays ==
  ASSUME NEW s, ItemSeq(s), NEW l \in {Queue, Drain}, NEW h, NEW g, Back(h, l, s),
         \A n \in ToSet(s) \cup {l} : g[<<"prev", n>>] = h[<<"prev", n>>]
  PROVE  Back(g, l, s)
<1>1. \A k \in 0 .. Len(s) : At(l, s, k + 1) \in ToSet(s) \cup {l}
  BY RingNodes DEF ItemSeq
<1>. QED BY <1>1 DEF Back

\* The one store, into h, that links the list u again where something was before its kth node.
TakenOut(h, g, l, u, k) ==
  /\ g[<<"prev", At(l, u, k)>>] = At(l, u, k - 1)
  /\ \A n \in ToSet(u) \cup {l} : n # At(l, u, k) => g[<<"prev", n>>] = h[<<"prev", n>>]

\* A list without the items that are cut out, by one store.
LEMMA BackCut ==
  ASSUME NEW s, NEW u, NEW t, NEW k, Joined(s, u, t, k),
         NEW l \in {Queue, Drain}, NEW h, NEW g, Back(h, l, s), TakenOut(h, g, l, u, k)
  PROVE  Back(g, l, u)
<1> Len(s) \in Nat /\ Len(u) \in Nat /\ Len(t) \in Nat /\ k \in 1 .. Len(u) + 1
    /\ Len(s) = Len(u) + Len(t) /\ ItemSeq(s) /\ ItemSeq(u) /\ ItemSeq(t)
  BY DEF ItemSeq, Joined
<1>at. JoinedAt(l, s, u, t, k)
  BY AtJoined
<1> SUFFICES ASSUME NEW j \in 0 .. Len(u)
             PROVE  g[<<"prev", At(l, u, j + 1)>>] = At(l, u, j)
  BY DEF Back
<1>1. CASE j = k - 1
  BY <1>1 DEF TakenOut
<1>2. CASE j # k - 1
  <2>1. g[<<"prev", At(l, u, j + 1)>>] = h[<<"prev", At(l, u, j + 1)>>]
    BY <1>2, RingNodes DEF TakenOut
  <2>2. PICK i \in 0 .. Len(s) : At(l, s, i) = At(l, u, j) /\ At(l, s, i + 1) = At(l, u, j + 1)
    <3>1. CASE j < k - 1
      <4>1. j \in 0 .. k - 1 /\ j + 1 \in 0 .. k - 1 /\ j \in 0 .. Len(s)
        BY <3>1
      <4>. QED BY <4>1, <1>at DEF JoinedAt
    <3>2. CASE j > k - 1
      <4>1. /\ j \in k .. Len(u) + 1 /\ j + 1 \in k .. Len(u) + 1 /\ Len(t) + j \in 0 .. Len(s)
            /\ Len(t) + (j + 1) = (Len(t) + j) + 1
        BY <3>2
      <4>. QED BY <4>1, <1>at DEF JoinedAt
    <3>. QED BY <1>2, <3>1, <3>2
  <2>. QED BY <2>1, <2>2 DEF Back
<1>. QED BY <1>1, <1>2

\* The one store, into h, that puts the trail t before the kth node of the list u.
PutIn(h, g, l, u, t, k) ==
  /\ h[<<"prev", t[1]>>] = At(l, u, k - 1) /\ g[<<"prev", At(l, u, k)>>] = t[Len(t)]
  /\ \A n \in ToSet(u) \cup ToSet(t) \cup {l} :
       n # At(l, u, k) => g[<<"prev", n>>] = h[<<"prev", n>>]

\* A list with a trail of items put in, by one store.
LEMMA BackInsert ==
  ASSUME NEW s, NEW u, NEW t, NEW k, Joined(s, u, t, k), t # << >>,
         NEW l \in {Queue, Drain}, NEW h, NEW g, Back(h, l, u), Trail(h, t),
         PutIn(h, g, l, u, t, k)
  PROVE  Back(g, l, s)
<1> Len(s) \in Nat /\ Len(u) \in Nat /\ Len(t) \in Nat /\ k \in 1 .. Len(u) + 1
    /\ Len(s) = Len(u) + Len(t) /\ Len(t) > 0 /\ ItemSeq(s) /\ ItemSeq(u) /\ ItemSeq(t)
    /\ ToSet(u) \cap ToSet(t) = {}
  BY DEF ItemSeq, Joined
<1>0. \A j \in 1 .. Len(t) : t[j] \in ToSet(t) /\ t[j] \notin ToSet(u) \cup {l}
  <2>1. l \notin ToSet(t)
    BY ListIndices, DrainableQueueAssumption DEF ItemSeq
  <2>. QED BY <2>1, ListIndices DEF ItemSeq
<1>at. JoinedAt(l, s, u, t, k)
  BY AtJoined
<1> SUFFICES ASSUME NEW j \in 0 .. Len(s)
             PROVE  g[<<"prev", At(l, s, j + 1)>>] = At(l, s, j)
  BY DEF Back
<1>1. ASSUME NEW i \in 0 .. Len(u), i # k - 1
      PROVE  g[<<"prev", At(l, u, i + 1)>>] = At(l, u, i)
  <2>1. At(l, u, i + 1) # At(l, u, k) /\ At(l, u, i + 1) \in ToSet(u) \cup {l}
    BY <1>1, RingNodes
  <2>. QED BY <2>1 DEF Back, PutIn
<1>2. CASE j < k - 1
  <2>1. j \in 0 .. k - 1 /\ j + 1 \in 0 .. k - 1 /\ j \in 0 .. Len(u) /\ j # k - 1
    BY <1>2
  <2>. QED BY <1>1, <2>1, <1>at DEF JoinedAt
<1>u. At(l, u, k) \in ToSet(u) \cup {l}
  BY RingNodes
<1>3. CASE j = k - 1
  <2>1. j \in 0 .. k - 1 /\ 1 \in 1 .. Len(t) /\ j + 1 = k - 1 + 1
    BY <1>3
  <2>2. At(l, s, j) = At(l, u, k - 1) /\ At(l, s, j + 1) = t[1]
    BY <1>3, <2>1, <1>at DEF JoinedAt
  <2>. QED BY <1>0, <1>u, <2>1, <2>2 DEF PutIn
<1>4. CASE j > k - 1 /\ j < k - 1 + Len(t)
  <2> DEFINE i == j - k + 1
  <2>0. i \in 1 .. Len(t) - 1 /\ j = k - 1 + i
    BY <1>4
  <2> HIDE DEF i
  <2>1. /\ i \in 1 .. Len(t) /\ i + 1 \in 1 .. Len(t)
        /\ j + 1 = k - 1 + (i + 1)
    BY <2>0
  <2>2. At(l, s, j) = t[i] /\ At(l, s, j + 1) = t[i + 1]
    BY <2>0, <2>1, <1>at DEF JoinedAt
  <2>3. h[<<"prev", t[i + 1]>>] = t[i]
    BY <2>0 DEF Trail
  <2>. QED BY <1>0, <1>u, <2>1, <2>2, <2>3 DEF PutIn
<1>5. CASE j = k - 1 + Len(t)
  <2>1. /\ Len(t) \in 1 .. Len(t) /\ k \in k .. Len(u) + 1 /\ j = k - 1 + Len(t)
        /\ j + 1 = Len(t) + k
    BY <1>5
  <2>2. At(l, s, j) = t[Len(t)] /\ At(l, s, j + 1) = At(l, u, k)
    BY <2>1, <1>at DEF JoinedAt
  <2>. QED BY <2>2 DEF PutIn
<1>6. CASE j > k - 1 + Len(t)
  <2> DEFINE i == j - Len(t)
  <2>0. i \in Int /\ i >= k /\ i <= Len(u) /\ j = Len(t) + i
    BY <1>6
  <2> HIDE DEF i
  <2>1. /\ i \in k .. Len(u) + 1 /\ i + 1 \in k .. Len(u) + 1 /\ i \in 0 .. Len(u) /\ i # k - 1
        /\ j = Len(t) + i /\ j + 1 = Len(t) + (i + 1)
    BY <2>0
  <2>2. At(l, s, j) = At(l, u, i) /\ At(l, s, j + 1) = At(l, u, i + 1)
    BY <2>1, <1>at DEF JoinedAt
  <2>. QED BY <1>1, <2>1, <2>2
<1>. QED BY <1>2, <1>3, <1>4, <1>5, <1>6

-----------------------------------------------------------------------------
\* What is seen by one who reads without the lock: the two lists, and what is moved.
View(q, d, m) == [queue |-> q, drain |-> d, moving |-> m]

\* The items of a splice, by its first and its last one, are m.
Spanned(h, sp, m) ==
  ItemSeq(m) /\ m # << >> /\ sp = << m[1], m[Len(m)] >> /\ Trail(h, m)

IsMoving(sp, n) == sp # << >> /\ n \in 2 .. 4

(* The pointers h show v, when n stores of an operation are left and its     *)
(* span is sp.                                                               *)
Shows(sp, h, v, n) ==
  /\ Pointers(h)
  /\ v = View(v.queue, v.drain, v.moving)
  /\ ItemSeq(v.queue) /\ ItemSeq(v.drain) /\ ToSet(v.queue) \cap ToSet(v.drain) = {}
  /\ Back(h, Queue, v.queue) /\ Back(h, Drain, v.drain)
  /\ IF IsMoving(sp, n)
       THEN /\ Spanned(h, sp, v.moving)
            /\ ToSet(v.moving) \cap (ToSet(v.queue) \cup ToSet(v.drain)) = {}
       ELSE v.moving = << >>

\* What is shown is what is read.
LEMMA ShownIsRead ==
  ASSUME NEW sp, NEW h, NEW v, NEW n, Shows(sp, h, v, n)
  PROVE  /\ Backward(h, Queue, NumItems) = v.queue /\ Backward(h, Drain, NumItems) = v.drain
         /\ v.moving = IF sp # << >> /\ n \in 2 .. 4 THEN Span(h, sp[1], sp[2], NumItems) ELSE << >>
<1>1. Backward(h, Queue, NumItems) = v.queue /\ Backward(h, Drain, NumItems) = v.drain
  BY ListsFit, BackIs DEF Shows
<1>2. CASE ~IsMoving(sp, n)
  BY <1>1, <1>2 DEF Shows, IsMoving
<1>3. CASE IsMoving(sp, n)
  <2> DEFINE m == v.moving
  <2>1. ItemSeq(m) /\ m # << >> /\ Trail(h, m) /\ sp[1] = m[1] /\ sp[2] = m[Len(m)]
    BY <1>3 DEF Shows, Spanned
  <2>2. Len(m) <= NumItems /\ NumItems \in Nat /\ Len(m) \in Nat
    BY <2>1, ListsFit DEF ItemSeq
  <2>3. m \in Seq(Nodes) /\ IsInjective(m)
    BY <2>1 DEF ItemSeq, Nodes
  <2> HIDE DEF m
  <2>4. Len(m) - 1 <= NumItems
    BY <2>2
  <2>5. Span(h, m[1], m[Len(m)], NumItems) = m
    BY <2>1, <2>2, <2>3, <2>4, SpanIs
  <2>. QED BY <1>1, <1>3, <2>1, <2>5 DEF IsMoving, m
<1>. QED BY <1>2, <1>3

-----------------------------------------------------------------------------
(* What a store may change of what is seen (the steps of DrainSpec).         *)

Adds(dr, v, w) ==
  \E t, k : /\ Len(t) \in {1, 2} /\ Joined(w.queue, v.queue, t, k)
            /\ ToSet(t) \cap (ToSet(v.drain) \cup ToSet(v.moving)) = {}
            /\ dr => k = Len(v.queue) + 1
            /\ w.drain = v.drain /\ w.moving = v.moving

Takes(v, w) ==
  \E t, k : /\ Len(t) = 1
            /\ \/ Joined(v.queue, w.queue, t, k) /\ w.drain = v.drain
               \/ Joined(v.drain, w.drain, t, k) /\ w.queue = v.queue
            /\ w.moving = v.moving

Cuts(dr, v, w) ==
  \E k : /\ v.moving = << >> /\ w.moving # << >>
         /\ Joined(v.queue, w.queue, w.moving, k)
         /\ IF dr THEN k = Len(w.queue) + 1 ELSE Len(w.moving) = 1
         /\ w.drain = v.drain

Joins(dr, v, w) ==
  \E k : /\ v.moving # << >> /\ w.moving = << >>
         /\ IF dr THEN /\ Joined(w.drain, v.drain, v.moving, k) /\ k = Len(v.drain) + 1
                       /\ w.queue = v.queue
                  ELSE Joined(w.queue, v.queue, v.moving, k) /\ w.drain = v.drain

Moves(dr, v, w) == w = v \/ Adds(dr, v, w) \/ Takes(v, w) \/ Cuts(dr, v, w) \/ Joins(dr, v, w)

(* The stores that are left go from one view to the next, v being the first. *)
Course(dr, sp, h, todo, v) ==
  \E hs, vs :
    /\ hs[0] = h /\ vs[0] = v
    /\ \A k \in 1 .. Len(todo) : /\ hs[k] = Write(hs[k - 1], todo[k])
                                 /\ Moves(dr, vs[k - 1], vs[k])
    /\ \A k \in 0 .. Len(todo) : Shows(sp, hs[k], vs[k], Len(todo) - k)

\* With nothing to store there is one view.
LEMMA CourseEnds ==
  ASSUME NEW dr, NEW sp, NEW h, NEW v, Shows(sp, h, v, 0)
  PROVE  Course(dr, sp, h, << >>, v)
<1> DEFINE hs == [k \in {0} |-> h]
           vs == [k \in {0} |-> v]
<1>1. hs[0] = h /\ vs[0] = v /\ Len(<< >>) = 0 /\ 0 .. 0 = {0} /\ 1 .. 0 = {} /\ 0 - 0 = 0
  OBVIOUS
<1> HIDE DEF hs, vs
<1>2. \A k \in 0 .. Len(<< >>) : Shows(sp, hs[k], vs[k], Len(<< >>) - k)
  BY <1>1
<1>. QED BY <1>1, <1>2 DEF Course

\* A store that leads to the first view of a course is the first of a longer one.
LEMMA CourseBefore ==
  ASSUME NEW dr, NEW sp, NEW h, NEW v, NEW w, NEW todo \in StoreSeq, todo # << >>,
         Shows(sp, h, v, Len(todo)), Moves(dr, v, w),
         Course(dr, sp, Write(h, Head(todo)), Tail(todo), w)
  PROVE  Course(dr, sp, h, todo, v)
<1> DEFINE n == Len(todo)
<1>1. /\ Head(todo) = todo[1] /\ Len(Tail(todo)) = n - 1 /\ n \in Nat \ {0}
      /\ \A k \in 1 .. n - 1 : Tail(todo)[k] = todo[k + 1]
  BY DEF StoreSeq
<1>2. PICK fs, us :
        /\ fs[0] = Write(h, todo[1]) /\ us[0] = w
        /\ \A k \in 1 .. n - 1 : /\ fs[k] = Write(fs[k - 1], Tail(todo)[k])
                                 /\ Moves(dr, us[k - 1], us[k])
        /\ \A k \in 0 .. n - 1 : Shows(sp, fs[k], us[k], n - 1 - k)
  BY <1>1 DEF Course
<1> DEFINE hs == [k \in 0 .. n |-> IF k = 0 THEN h ELSE fs[k - 1]]
           vs == [k \in 0 .. n |-> IF k = 0 THEN v ELSE us[k - 1]]
<1>3. /\ hs[0] = h /\ vs[0] = v
      /\ \A k \in 1 .. n : hs[k] = fs[k - 1] /\ vs[k] = us[k - 1]
  BY <1>1
<1> HIDE DEF hs, vs
<1>4. ASSUME NEW k \in 1 .. n
      PROVE  hs[k] = Write(hs[k - 1], todo[k]) /\ Moves(dr, vs[k - 1], vs[k])
  <2>1. CASE k = 1
    BY <1>2, <1>3, <2>1
  <2>2. CASE k # 1
    <3>1. k - 1 \in 1 .. n - 1 /\ k - 1 \in 1 .. n /\ k - 1 + 1 = k
      BY <1>1, <2>2
    <3>. QED BY <1>1, <1>2, <1>3, <3>1
  <2>. QED BY <2>1, <2>2
<1>5. ASSUME NEW k \in 0 .. n PROVE Shows(sp, hs[k], vs[k], n - k)
  <2>1. CASE k = 0
    BY <1>1, <1>3, <2>1
  <2>2. CASE k # 0
    <3>1. k - 1 \in 0 .. n - 1 /\ k \in 1 .. n /\ n - 1 - (k - 1) = n - k
      BY <1>1, <2>2
    <3>. QED BY <1>2, <1>3, <3>1
  <2>. QED BY <2>1, <2>2
<1>. QED BY <1>3, <1>4, <1>5 DEF Course

\* A store is a step of the course.
LEMMA CourseGoesOn ==
  ASSUME NEW dr, NEW sp, NEW h, NEW v, NEW todo \in StoreSeq, todo # << >>,
         Course(dr, sp, h, todo, v)
  PROVE  \E w : Moves(dr, v, w) /\ Course(dr, sp, Write(h, Head(todo)), Tail(todo), w)
<1> DEFINE n == Len(todo)
<1>1. /\ Head(todo) = todo[1] /\ Len(Tail(todo)) = n - 1 /\ n \in Nat \ {0}
      /\ \A k \in 1 .. n - 1 : Tail(todo)[k] = todo[k + 1]
  BY DEF StoreSeq
<1>2. PICK hs, vs :
        /\ hs[0] = h /\ vs[0] = v
        /\ \A k \in 1 .. n : hs[k] = Write(hs[k - 1], todo[k]) /\ Moves(dr, vs[k - 1], vs[k])
        /\ \A k \in 0 .. n : Shows(sp, hs[k], vs[k], n - k)
  BY DEF Course
<1> DEFINE fs == [k \in 0 .. n - 1 |-> hs[k + 1]]
           us == [k \in 0 .. n - 1 |-> vs[k + 1]]
<1>3. \A k \in 0 .. n - 1 : fs[k] = hs[k + 1] /\ us[k] = vs[k + 1]
  BY <1>1
<1> HIDE DEF fs, us
<1>4. fs[0] = Write(h, Head(todo)) /\ Moves(dr, v, us[0])
  <2>1. 0 \in 0 .. n - 1 /\ 1 \in 1 .. n /\ 0 + 1 = 1 /\ 1 - 1 = 0
    BY <1>1
  <2>. QED BY <1>1, <1>2, <1>3, <2>1
<1>5. ASSUME NEW k \in 1 .. n - 1
      PROVE  fs[k] = Write(fs[k - 1], Tail(todo)[k]) /\ Moves(dr, us[k - 1], us[k])
  <2>1. k \in 0 .. n - 1 /\ k - 1 \in 0 .. n - 1 /\ k + 1 \in 1 .. n /\ k - 1 + 1 = k /\ k + 1 - 1 = k
    BY <1>1
  <2>. QED BY <1>1, <1>2, <1>3, <2>1
<1>6. ASSUME NEW k \in 0 .. n - 1 PROVE Shows(sp, fs[k], us[k], n - 1 - k)
  <2>1. k + 1 \in 0 .. n /\ n - (k + 1) = n - 1 - k
    BY <1>1
  <2>. QED BY <1>2, <1>3, <2>1
<1>7. Course(dr, sp, Write(h, Head(todo)), Tail(todo), us[0])
  BY <1>1, <1>4, <1>5, <1>6 DEF Course
<1>. QED BY <1>4, <1>7

\* The first view of a course is what is seen.
LEMMA CourseShows ==
  ASSUME NEW dr, NEW sp, NEW h, NEW v, NEW todo \in StoreSeq, Course(dr, sp, h, todo, v)
  PROVE  Shows(sp, h, v, Len(todo))
<1>1. Len(todo) \in Nat /\ 0 \in 0 .. Len(todo) /\ Len(todo) - 0 = Len(todo)
  BY DEF StoreSeq
<1>. QED BY <1>1 DEF Course

\* What a store does to the pointers.
LEMMA Written ==
  ASSUME NEW h, Pointers(h), NEW f \in {"next", "prev"}, NEW a \in Nodes, NEW b \in Nodes,
         NEW g, g = Write(h, << f, a, b >>)
  PROVE  /\ Pointers(g)
         /\ f = "next" => \A n \in Nodes : g[<<"prev", n>>] = h[<<"prev", n>>]
         /\ f = "prev" => /\ g[<<"prev", a>>] = b
                          /\ \A n \in Nodes : n # a => g[<<"prev", n>>] = h[<<"prev", n>>]
BY DEF Pointers, Ptrs, Write

\* The nodes that are looked at.
LEMMA ShownNodes ==
  ASSUME NEW sp, NEW h, NEW v, NEW n, Shows(sp, h, v, n)
  PROVE  /\ ToSet(v.queue) \subseteq Items /\ ToSet(v.drain) \subseteq Items
         /\ Items \subseteq Nodes /\ Queue \in Nodes /\ Drain \in Nodes
         /\ Queue \notin Items /\ Drain \notin Items
BY ListIndices, NodesApart DEF Shows, ItemSeq

\* Pointers that differ in no node that is looked at show the same.
LEMMA ShowsAsWell ==
  ASSUME NEW sp, NEW h, NEW v, NEW n, NEW m, Shows(sp, h, v, n), IsMoving(sp, n) <=> IsMoving(sp, m),
         NEW g, Pointers(g),
         \A a \in ToSet(v.queue) \cup ToSet(v.drain) \cup {Queue, Drain} :
           g[<<"prev", a>>] = h[<<"prev", a>>],
         IsMoving(sp, n) => Trail(g, v.moving)
  PROVE  Shows(sp, g, v, m)
<1>1. Back(g, Queue, v.queue) /\ Back(g, Drain, v.drain)
  BY BackStays DEF Shows
<1>. QED BY <1>1 DEF Shows, Spanned

\* The last four stores of an enqueuing and of a splice: the third one puts the items in.
LEMMA LinkCourse ==
  ASSUME NEW dr, NEW sp, NEW h, NEW v, Shows(sp, h, v, 4), NEW l \in {Queue, Drain},
         NEW s, NEW u, NEW t, NEW k, Joined(s, u, t, k), t # << >>, Trail(h, t),
         u = IF l = Queue THEN v.queue ELSE v.drain,
         ToSet(t) \cap (ToSet(v.queue) \cup ToSet(v.drain)) = {},
         sp # << >> => v.moving = t,
         NEW w, w = IF l = Queue THEN View(s, v.drain, << >>) ELSE View(v.queue, s, << >>),
         Moves(dr, v, w),
         NEW before, before = At(l, u, k), NEW after, after = At(l, u, k - 1)
  PROVE  Course(dr, sp, h, << <<"next", t[Len(t)], before>>, <<"prev", t[1], after>>,
                              <<"prev", before, t[Len(t)]>>, <<"next", after, t[1]>> >>, v)
<1> DEFINE first == t[1]
           last == t[Len(t)]
           s1 == <<"next", last, before>>
           s2 == <<"prev", first, after>>
           s3 == <<"prev", before, last>>
           s4 == <<"next", after, first>>
           h1 == Write(h, s1)
           h2 == Write(h1, s2)
           h3 == Write(h2, s3)
           h4 == Write(h3, s4)
<1>1. /\ ItemSeq(s) /\ ItemSeq(u) /\ ItemSeq(t) /\ Len(t) \in Nat \ {0} /\ Len(u) \in Nat
      /\ k \in 1 .. Len(u) + 1 /\ ToSet(s) = ToSet(u) \cup ToSet(t)
  BY DEF Joined, ItemSeq
<1>2. first \in ToSet(t) /\ last \in ToSet(t) /\ ToSet(t) \subseteq Items /\ ToSet(u) \subseteq Items
  BY <1>1, ListIndices DEF ItemSeq
<1>3. before \in ToSet(u) \cup {l} /\ after \in ToSet(u) \cup {l}
  BY <1>1, RingNodes
<1>4. /\ ToSet(v.queue) \subseteq Items /\ ToSet(v.drain) \subseteq Items
      /\ Items \subseteq Nodes /\ Queue \in Nodes /\ Drain \in Nodes
      /\ Queue \notin Items /\ Drain \notin Items /\ Queue # Drain
  BY ShownNodes, NodesApart
<1>5. {first, last, before, after} \subseteq Nodes
  BY <1>2, <1>3, <1>4
<1>6. ASSUME NEW a \in ToSet(v.queue) \cup ToSet(v.drain) \cup {Queue, Drain}
      PROVE  a \in Nodes /\ a \notin ToSet(t)
  BY <1>2, <1>4
<1>7. /\ \A i \in 1 .. Len(t) - 1 : t[i + 1] \in ToSet(t) /\ t[i + 1] # first /\ t[i + 1] \in Nodes
      /\ before \notin ToSet(t) /\ after \notin ToSet(t)
  <2>1. \A i \in 1 .. Len(t) - 1 : i + 1 \in 1 .. Len(t) /\ 1 \in 1 .. Len(t) /\ i + 1 # 1
    BY <1>1
  <2>. QED BY <1>1, <1>2, <1>3, <1>4, <1>6, <2>1, ListIndices DEF ItemSeq
<1>8. /\ Pointers(h1) /\ \A n \in Nodes : h1[<<"prev", n>>] = h[<<"prev", n>>]
      /\ Pointers(h2) /\ h2[<<"prev", first>>] = after
      /\ \A n \in Nodes : n # first => h2[<<"prev", n>>] = h1[<<"prev", n>>]
      /\ Pointers(h3) /\ h3[<<"prev", before>>] = last
      /\ \A n \in Nodes : n # before => h3[<<"prev", n>>] = h2[<<"prev", n>>]
      /\ Pointers(h4) /\ \A n \in Nodes : h4[<<"prev", n>>] = h3[<<"prev", n>>]
  <2> HIDE DEF first, last
  <2>1. Pointers(h) /\ {first, last, before, after} \subseteq Nodes
    BY <1>5 DEF Shows
  <2>2. Pointers(h1) /\ \A n \in Nodes : h1[<<"prev", n>>] = h[<<"prev", n>>]
    BY <2>1, Written
  <2> HIDE DEF h1
  <2>3. /\ Pointers(h2) /\ h2[<<"prev", first>>] = after
        /\ \A n \in Nodes : n # first => h2[<<"prev", n>>] = h1[<<"prev", n>>]
    BY <2>1, <2>2, Written
  <2> HIDE DEF h2
  <2>4. /\ Pointers(h3) /\ h3[<<"prev", before>>] = last
        /\ \A n \in Nodes : n # before => h3[<<"prev", n>>] = h2[<<"prev", n>>]
    BY <2>1, <2>3, Written
  <2> HIDE DEF h3
  <2>5. Pointers(h4) /\ \A n \in Nodes : h4[<<"prev", n>>] = h3[<<"prev", n>>]
    BY <2>1, <2>4, Written
  <2>. QED BY <2>2, <2>3, <2>4, <2>5
<1>s. /\ {s1, s2, s3, s4} \subseteq {"next", "prev"} \X Nodes \X Nodes
      /\ h1 = Write(h, s1) /\ h2 = Write(h1, s2) /\ h3 = Write(h2, s3) /\ h4 = Write(h3, s4)
  BY <1>5
<1> HIDE DEF first, last, s1, s2, s3, s4, h1, h2, h3, h4
<1>9. Trail(h1, t) /\ Trail(h2, t)
  BY <1>7, <1>8 DEF Trail
<1>10. Shows(sp, h1, v, 3)
  <2>1. IsMoving(sp, 4) <=> IsMoving(sp, 3)
    BY DEF IsMoving
  <2>2. IsMoving(sp, 4) => Trail(h1, v.moving)
    BY <1>9 DEF IsMoving
  <2>. QED BY <1>6, <1>8, <2>1, <2>2, ShowsAsWell
<1>11. Shows(sp, h2, v, 2)
  <2>1. IsMoving(sp, 3) <=> IsMoving(sp, 2)
    BY DEF IsMoving
  <2>2. IsMoving(sp, 3) => Trail(h2, v.moving)
    BY <1>9 DEF IsMoving
  <2>3. \A a \in ToSet(v.queue) \cup ToSet(v.drain) \cup {Queue, Drain} :
          h2[<<"prev", a>>] = h1[<<"prev", a>>]
    BY <1>2, <1>6, <1>8
  <2>. QED BY <1>8, <1>10, <2>1, <2>2, <2>3, ShowsAsWell
<1>12. Back(h3, l, s)
  <2>1. Back(h2, l, u)
    BY <1>11 DEF Shows
  <2>2. \A n \in ToSet(u) \cup ToSet(t) \cup {l} : n \in Nodes
    BY <1>2, <1>4
  <2>3. h2[<<"prev", t[1]>>] = At(l, u, k - 1) /\ h3[<<"prev", At(l, u, k)>>] = t[Len(t)]
    BY <1>8 DEF first, last
  <2>4. \A n \in ToSet(u) \cup ToSet(t) \cup {l} :
          n # At(l, u, k) => h3[<<"prev", n>>] = h2[<<"prev", n>>]
    BY <1>8, <2>2
  <2>5. PutIn(h2, h3, l, u, t, k)
    BY <2>3, <2>4 DEF PutIn
  <2>. QED BY <1>9, <2>1, <2>5, BackInsert
<1>13. Shows(sp, h3, w, 1)
  <2>1. ~IsMoving(sp, 1)
    BY DEF IsMoving
  <2>2. CASE l = Queue
    <3>1. w = View(s, v.drain, << >>) /\ w.queue = s /\ w.drain = v.drain /\ w.moving = << >>
      BY <2>2 DEF View
    <3>2. before \notin ToSet(v.drain) \cup {Drain}
      BY <1>3, <1>4, <2>2 DEF Shows
    <3>3. \A n \in ToSet(v.drain) \cup {Drain} : h3[<<"prev", n>>] = h2[<<"prev", n>>]
      BY <1>6, <1>8, <3>2
    <3>4. Back(h3, Drain, v.drain)
      BY <1>11, <3>3, BackStays DEF Shows
    <3>5. ToSet(s) \cap ToSet(v.drain) = {}
      BY <1>1, <2>2 DEF Shows
    <3>. QED BY <1>1, <1>8, <1>11, <1>12, <2>1, <2>2, <3>1, <3>4, <3>5 DEF Shows
  <2>3. CASE l = Drain
    <3>1. w = View(v.queue, s, << >>) /\ w.queue = v.queue /\ w.drain = s /\ w.moving = << >>
      BY <1>4, <2>3 DEF View
    <3>2. before \notin ToSet(v.queue) \cup {Queue}
      BY <1>3, <1>4, <2>3 DEF Shows
    <3>3. \A n \in ToSet(v.queue) \cup {Queue} : h3[<<"prev", n>>] = h2[<<"prev", n>>]
      BY <1>6, <1>8, <3>2
    <3>4. Back(h3, Queue, v.queue)
      BY <1>11, <3>3, BackStays DEF Shows
    <3>5. ToSet(v.queue) \cap ToSet(s) = {}
      BY <1>1, <1>4, <2>3 DEF Shows
    <3>. QED BY <1>1, <1>8, <1>11, <1>12, <2>1, <2>3, <3>1, <3>4, <3>5 DEF Shows
  <2>. QED BY <2>2, <2>3
<1>14. Shows(sp, h4, w, 0)
  <2>1. ~IsMoving(sp, 1) /\ ~IsMoving(sp, 0)
    BY DEF IsMoving
  <2>2. \A a \in ToSet(w.queue) \cup ToSet(w.drain) \cup {Queue, Drain} : a \in Nodes
    BY <1>13, ShownNodes
  <2>3. \A a \in ToSet(w.queue) \cup ToSet(w.drain) \cup {Queue, Drain} :
          h4[<<"prev", a>>] = h3[<<"prev", a>>]
    BY <1>8, <2>2
  <2>. QED BY <1>8, <1>13, <2>1, <2>3, ShowsAsWell
<1>15. Course(dr, sp, h4, << >>, w)
  BY <1>14, CourseEnds
<1>16. Course(dr, sp, h3, << s4 >>, w)
  <2>1. /\ << s4 >> \in StoreSeq /\ << s4 >> # << >> /\ Len(<< s4 >>) = 1
        /\ Head(<< s4 >>) = s4 /\ Tail(<< s4 >>) = << >>
    BY <1>s DEF StoreSeq
  <2>2. Moves(dr, w, w)
    BY DEF Moves
  <2>. QED BY <1>s, <1>13, <1>15, <2>1, <2>2, CourseBefore
<1>17. Course(dr, sp, h2, << s3, s4 >>, v)
  <2>1. /\ << s3, s4 >> \in StoreSeq /\ << s3, s4 >> # << >> /\ Len(<< s3, s4 >>) = 2
        /\ Head(<< s3, s4 >>) = s3 /\ Tail(<< s3, s4 >>) = << s4 >>
    BY <1>s DEF StoreSeq
  <2>. QED BY <1>s, <1>11, <1>16, <2>1, CourseBefore
<1>18. Course(dr, sp, h1, << s2, s3, s4 >>, v)
  <2>1. /\ << s2, s3, s4 >> \in StoreSeq /\ << s2, s3, s4 >> # << >> /\ Len(<< s2, s3, s4 >>) = 3
        /\ Head(<< s2, s3, s4 >>) = s2 /\ Tail(<< s2, s3, s4 >>) = << s3, s4 >>
    BY <1>s DEF StoreSeq
  <2>2. Moves(dr, v, v)
    BY DEF Moves
  <2>. QED BY <1>s, <1>10, <1>17, <2>1, <2>2, CourseBefore
<1>19. Course(dr, sp, h, << s1, s2, s3, s4 >>, v)
  <2>1. /\ << s1, s2, s3, s4 >> \in StoreSeq /\ << s1, s2, s3, s4 >> # << >>
        /\ Len(<< s1, s2, s3, s4 >>) = 4 /\ Head(<< s1, s2, s3, s4 >>) = s1
        /\ Tail(<< s1, s2, s3, s4 >>) = << s2, s3, s4 >>
    BY <1>s DEF StoreSeq
  <2>2. Moves(dr, v, v)
    BY DEF Moves
  <2>. QED BY <1>s, <1>18, <2>1, <2>2, CourseBefore
<1>. QED BY <1>19 DEF s1, s2, s3, s4, first, last

\* When no operation is under way, the two lists are seen.
LEMMA ListsShow ==
  ASSUME NEW h \in [Ptrs -> Nodes], NEW q, NEW d, Rings(h, q, d), NEW sp, NEW n, ~IsMoving(sp, n)
  PROVE  Shows(sp, h, View(q, d, << >>), n)
<1> DEFINE v == View(q, d, << >>)
<1>1. v.queue = q /\ v.drain = d /\ v.moving = << >>
  BY DEF View
<1>2. Back(h, Queue, q) /\ Back(h, Drain, d)
  BY RingIsBack DEF Rings
<1> HIDE DEF v
<1>3. v = View(v.queue, v.drain, v.moving)
  BY <1>1 DEF v
<1>. QED BY <1>1, <1>2, <1>3 DEF Shows, Rings, Pointers, v

\* The stores of unlink: the first one takes the item out.
LEMMA UnlinkCourse ==
  ASSUME NEW dr, NEW h, NEW v, Shows(<< >>, h, v, 3), NEW l \in {Queue, Drain},
         NEW s, s = (IF l = Queue THEN v.queue ELSE v.drain), Ring(h, l, s), NEW i \in ToSet(s)
  PROVE  Course(dr, << >>, h, Unlink(h, i), v)
<1>0. /\ ToSet(v.queue) \subseteq Items /\ ToSet(v.drain) \subseteq Items
      /\ Items \subseteq Nodes /\ Queue \in Nodes /\ Drain \in Nodes
      /\ Queue \notin Items /\ Drain \notin Items /\ Queue # Drain
  BY ShownNodes, NodesApart
<1>m. \A n : ~IsMoving(<< >>, n)
  BY DEF IsMoving
<1>1. ItemSeq(s) /\ v.moving = << >>
  BY <1>m DEF Shows
<1>p. PICK k, u, t : OneOut(s, i, k, u, t)
  BY <1>1, CutOne
<1>2. /\ k \in 1 .. Len(s) /\ s[k] = i
      /\ Joined(s, u, t, k) /\ Len(t) = 1 /\ t # << >> /\ t[1] = i /\ ToSet(t) = {i}
      /\ ItemSeq(t) /\ ItemSeq(u) /\ ToSet(u) = ToSet(s) \ {i}
  BY <1>p DEF OneOut
<1> DEFINE o == At(l, u, k - 1)
           e == At(l, u, k)
           w == IF l = Queue THEN View(u, v.drain, << >>) ELSE View(v.queue, u, << >>)
<1>3. h[<<"prev", i>>] = o /\ h[<<"next", i>>] = e
  <2>0. k \in Int
    BY <1>2
  <2>1. Between(h, t, o, e)
    BY <1>2, <2>0, CutEnds
  <2>. QED BY <1>2, <2>1 DEF Between
<1>4. o \in ToSet(u) \cup {l} /\ e \in ToSet(u) \cup {l}
  <2>1. k \in Int /\ k - 1 \in Int
    BY <1>2
  <2>. QED BY <1>2, <2>1, RingNodes
<1>5. i \in Items /\ {o, e, i} \subseteq Nodes
  BY <1>0, <1>2, <1>4
<1>6. Moves(dr, v, w)
  <2>1. CASE l = Queue
    <3>1. w.queue = u /\ w.drain = v.drain /\ w.moving = v.moving
      BY <1>1, <2>1 DEF View
    <3>2. Takes(v, w)
      BY <1>2, <2>1, <3>1 DEF Takes
    <3>. QED BY <3>2 DEF Moves
  <2>2. CASE l = Drain
    <3>1. w.queue = v.queue /\ w.drain = u /\ w.moving = v.moving
      BY <1>0, <1>1, <2>2 DEF View
    <3>2. Takes(v, w)
      BY <1>0, <1>2, <2>2, <3>1 DEF Takes
    <3>. QED BY <3>2 DEF Moves
  <2>. QED BY <2>1, <2>2
<1> DEFINE s1 == <<"prev", e, o>>
           s2 == <<"next", o, e>>
           s3 == <<"prev", i, i>>
           h1 == Write(h, s1)
           h2 == Write(h1, s2)
           h3 == Write(h2, s3)
<1>7. /\ Pointers(h1) /\ h1[<<"prev", e>>] = o
      /\ \A n \in Nodes : n # e => h1[<<"prev", n>>] = h[<<"prev", n>>]
      /\ Pointers(h2) /\ \A n \in Nodes : h2[<<"prev", n>>] = h1[<<"prev", n>>]
      /\ Pointers(h3) /\ \A n \in Nodes : n # i => h3[<<"prev", n>>] = h2[<<"prev", n>>]
  <2> HIDE DEF o, e
  <2>1. Pointers(h) /\ {o, e, i} \subseteq Nodes
    BY <1>5 DEF Shows
  <2>2. /\ Pointers(h1) /\ h1[<<"prev", e>>] = o
        /\ \A n \in Nodes : n # e => h1[<<"prev", n>>] = h[<<"prev", n>>]
    BY <2>1, Written
  <2> HIDE DEF h1
  <2>3. Pointers(h2) /\ \A n \in Nodes : h2[<<"prev", n>>] = h1[<<"prev", n>>]
    BY <2>1, <2>2, Written
  <2> HIDE DEF h2
  <2>4. Pointers(h3) /\ \A n \in Nodes : n # i => h3[<<"prev", n>>] = h2[<<"prev", n>>]
    <3>1. i \in Nodes
      BY <2>1
    <3>. QED BY <2>3, <3>1 DEF Write, Pointers, Ptrs
  <2>. QED BY <2>2, <2>3, <2>4
<1>s. /\ {s1, s2, s3} \subseteq {"next", "prev"} \X Nodes \X Nodes
      /\ h1 = Write(h, s1) /\ h2 = Write(h1, s2) /\ h3 = Write(h2, s3)
  BY <1>5
<1>u. Unlink(h, i) = << s1, s2, s3 >>
  BY <1>3 DEF Unlink
<1> HIDE DEF s1, s2, s3, h1, h2, h3
<1>8. Back(h1, l, u)
  <2>1. Back(h, l, s)
    BY RingIsBack
  <2>2. \A n \in ToSet(u) \cup {l} : n \in Nodes
    BY <1>0, <1>2
  <2>3. TakenOut(h, h1, l, u, k)
    BY <1>7, <2>2 DEF TakenOut
  <2>. QED BY <1>2, <2>1, <2>3, BackCut
<1>9. Shows(<< >>, h1, w, 2)
  <2>1. CASE l = Queue
    <3>1. w = View(u, v.drain, << >>) /\ w.queue = u /\ w.drain = v.drain /\ w.moving = << >>
      BY <2>1 DEF View
    <3>2. e \notin ToSet(v.drain) \cup {Drain}
      BY <1>0, <1>2, <1>4, <2>1 DEF Shows
    <3>3. \A n \in ToSet(v.drain) \cup {Drain} : h1[<<"prev", n>>] = h[<<"prev", n>>]
      BY <1>0, <1>7, <3>2
    <3>4. Back(h1, Drain, v.drain)
      BY <3>3, BackStays DEF Shows
    <3>5. ToSet(u) \cap ToSet(v.drain) = {}
      BY <1>2, <2>1 DEF Shows
    <3> HIDE DEF w
    <3>. QED BY <1>m, <1>2, <1>7, <1>8, <2>1, <3>1, <3>4, <3>5 DEF Shows
  <2>2. CASE l = Drain
    <3>1. w = View(v.queue, u, << >>) /\ w.queue = v.queue /\ w.drain = u /\ w.moving = << >>
      BY <1>0, <2>2 DEF View
    <3>2. e \notin ToSet(v.queue) \cup {Queue}
      BY <1>0, <1>2, <1>4, <2>2 DEF Shows
    <3>3. \A n \in ToSet(v.queue) \cup {Queue} : h1[<<"prev", n>>] = h[<<"prev", n>>]
      BY <1>0, <1>7, <3>2
    <3>4. Back(h1, Queue, v.queue)
      BY <3>3, BackStays DEF Shows
    <3>5. ToSet(v.queue) \cap ToSet(u) = {}
      BY <1>0, <1>2, <2>2 DEF Shows
    <3> HIDE DEF w
    <3>. QED BY <1>m, <1>2, <1>7, <1>8, <2>2, <3>1, <3>4, <3>5 DEF Shows
  <2>. QED BY <2>1, <2>2
<1> HIDE DEF w
<1>10. \A a \in ToSet(w.queue) \cup ToSet(w.drain) \cup {Queue, Drain} : a \in Nodes /\ a # i
  <2>1. i \notin ToSet(w.queue) \cup ToSet(w.drain)
    BY <1>0, <1>2 DEF Shows, w, View
  <2>. QED BY <1>0, <1>5, <1>9, <2>1, ShownNodes
<1>11. Shows(<< >>, h2, w, 1)
  BY <1>m, <1>7, <1>9, <1>10, ShowsAsWell
<1>12. Shows(<< >>, h3, w, 0)
  BY <1>m, <1>7, <1>10, <1>11, ShowsAsWell
<1>13. Moves(dr, w, w)
  BY DEF Moves
<1>14. Course(dr, << >>, h2, << s3 >>, w)
  <2>1. /\ << s3 >> \in StoreSeq /\ << s3 >> # << >> /\ Len(<< s3 >>) = 1
        /\ Head(<< s3 >>) = s3 /\ Tail(<< s3 >>) = << >>
    BY <1>s DEF StoreSeq
  <2>2. Course(dr, << >>, h3, << >>, w)
    BY <1>12, CourseEnds
  <2>. QED BY <1>s, <1>11, <1>13, <2>1, <2>2, CourseBefore
<1>15. Course(dr, << >>, h1, << s2, s3 >>, w)
  <2>1. /\ << s2, s3 >> \in StoreSeq /\ << s2, s3 >> # << >> /\ Len(<< s2, s3 >>) = 2
        /\ Head(<< s2, s3 >>) = s2 /\ Tail(<< s2, s3 >>) = << s3 >>
    BY <1>s DEF StoreSeq
  <2>. QED BY <1>s, <1>9, <1>13, <1>14, <2>1, CourseBefore
<1>16. Course(dr, << >>, h, << s1, s2, s3 >>, v)
  <2>1. /\ << s1, s2, s3 >> \in StoreSeq /\ << s1, s2, s3 >> # << >> /\ Len(<< s1, s2, s3 >>) = 3
        /\ Head(<< s1, s2, s3 >>) = s1 /\ Tail(<< s1, s2, s3 >>) = << s2, s3 >>
    BY <1>s DEF StoreSeq
  <2>. QED BY <1>s, <1>6, <1>15, <2>1, CourseBefore
<1>. QED BY <1>u, <1>16

\* The items t are cut out of the queue, and put into the queue or the drain, as dr tells.
Transfer(dr, q, d, u, t, k, m, x, y, j) ==
  /\ k \in Int /\ j \in Int /\ t # << >> /\ Joined(q, u, t, k) /\ Joined(y, x, t, j)
  /\ IF dr THEN m = Drain /\ x = d /\ k = Len(u) + 1 /\ j = Len(d) + 1
           ELSE m = Queue /\ x = u /\ Len(t) = 1

\* A splice: the second store cuts the items out of the queue, the fifth one puts them in.
LEMMA SpliceCourse ==
  ASSUME NEW dr \in BOOLEAN, NEW h \in [Ptrs -> Nodes], NEW q, NEW d, Rings(h, q, d),
         NEW u, NEW t, NEW k, NEW m, NEW x, NEW y, NEW j, Transfer(dr, q, d, u, t, k, m, x, y, j),
         NEW before, before = At(m, x, j), before # At(Queue, u, k)
  PROVE  Course(dr, << t[1], t[Len(t)] >>, h, SpliceAt(h, before, t[1], At(Queue, u, k)),
                View(q, d, << >>))
<1> DEFINE o == At(Queue, u, k - 1)
           e == At(Queue, u, k)
           first == t[1]
           last == t[Len(t)]
           sp == << first, last >>
           v == View(q, d, << >>)
           w == View(u, d, t)
           z == IF m = Queue THEN View(y, d, << >>) ELSE View(u, y, << >>)
           s1 == <<"next", o, e>>
           s2 == <<"prev", e, o>>
           h1 == Write(h, s1)
           c == Write(h1, s2)
           after == c[<<"prev", before>>]
           s3 == <<"next", last, before>>
           s4 == <<"prev", first, after>>
           s5 == <<"prev", before, last>>
           s6 == <<"next", after, first>>
<1>0. /\ Queue \notin Items /\ Drain \notin Items /\ Queue # Drain
      /\ Items \subseteq Nodes /\ Queue \in Nodes /\ Drain \in Nodes
  BY NodesApart
<1>1. /\ ItemSeq(q) /\ ItemSeq(d) /\ Ring(h, Queue, q) /\ Ring(h, Drain, d)
      /\ ToSet(q) \cap ToSet(d) = {} /\ ToSet(d) \subseteq Items
  BY ListIndices DEF Rings, ItemSeq
<1>2. /\ k \in Int /\ j \in Int /\ t # << >> /\ Joined(q, u, t, k) /\ Joined(y, x, t, j)
      /\ m \in {Queue, Drain} /\ x = (IF m = Queue THEN u ELSE d)
  BY <1>0 DEF Transfer
<1>3. /\ ItemSeq(u) /\ ItemSeq(t) /\ ItemSeq(x) /\ Len(t) \in Nat \ {0} /\ Len(x) \in Nat
      /\ ToSet(u) \cap ToSet(t) = {} /\ ToSet(q) = ToSet(u) \cup ToSet(t)
      /\ ToSet(x) \cap ToSet(t) = {} /\ j \in 1 .. Len(x) + 1
  BY <1>2 DEF Joined, ItemSeq
<1>4. /\ first \in ToSet(t) /\ last \in ToSet(t)
      /\ ToSet(t) \subseteq Items /\ ToSet(u) \subseteq Items /\ ToSet(x) \subseteq Items
  BY <1>3, ListIndices DEF ItemSeq
<1>5. /\ o \in ToSet(u) \cup {Queue} /\ e \in ToSet(u) \cup {Queue}
      /\ before \in ToSet(x) \cup {m}
  <2>1. k - 1 \in Int
    BY <1>2
  <2>. QED BY <1>2, <1>3, <2>1, RingNodes
<1>6. {o, e, before, first, last} \subseteq Nodes /\ first # e
  BY <1>0, <1>2, <1>3, <1>4, <1>5
<1>7. h[<<"prev", first>>] = o /\ h[<<"prev", e>>] = last
  <2>1. Between(h, t, o, e)
    BY <1>1, <1>2, CutEnds
  <2>. QED BY <2>1 DEF Between
<1>8. /\ Pointers(h1) /\ \A n \in Nodes : h1[<<"prev", n>>] = h[<<"prev", n>>]
      /\ Pointers(c) /\ \A n \in Nodes : n # e => c[<<"prev", n>>] = h1[<<"prev", n>>]
  <2> HIDE DEF o, e
  <2>1. Pointers(h) /\ {o, e} \subseteq Nodes
    BY <1>6 DEF Pointers
  <2>2. Pointers(h1) /\ \A n \in Nodes : h1[<<"prev", n>>] = h[<<"prev", n>>]
    BY <2>1, Written
  <2> HIDE DEF h1
  <2>3. Pointers(c) /\ \A n \in Nodes : n # e => c[<<"prev", n>>] = h1[<<"prev", n>>]
    BY <2>1, <2>2 DEF Write, Pointers, Ptrs
  <2>. QED BY <2>2, <2>3
<1>9. Ring(c, Queue, u) /\ Chain(c, t)
  <2>1. c = CutPtr(h, At(Queue, u, k - 1), At(Queue, u, k))
    BY DEF CutPtr
  <2> HIDE DEF c
  <2>. QED BY <1>1, <1>2, <2>1, CutKeeps
<1>v. /\ v.queue = q /\ v.drain = d /\ v.moving = << >>
      /\ w.queue = u /\ w.drain = d /\ w.moving = t /\ w = View(w.queue, w.drain, w.moving)
  BY DEF View
<1>m. /\ ~IsMoving(sp, 6) /\ ~IsMoving(sp, 5) /\ IsMoving(sp, 4) /\ sp # << >>
  BY DEF IsMoving
<1>10. Shows(sp, h, v, 6)
  <2> HIDE DEF sp
  <2>. QED BY <1>m, ListsShow
<1> HIDE DEF v, w, sp, c, h1, e, o
<1>11. Shows(sp, h1, v, 5)
  <2>1. \A a \in ToSet(v.queue) \cup ToSet(v.drain) \cup {Queue, Drain} : a \in Nodes
    BY <1>10, ShownNodes
  <2>. QED BY <1>m, <1>8, <1>10, <2>1, ShowsAsWell
<1>12. Shows(sp, c, w, 4)
  <2>1. Back(c, Queue, w.queue)
    BY <1>9, <1>v, RingIsBack
  <2>2. Back(c, Drain, w.drain)
    <3>1. \A n \in ToSet(d) \cup {Drain} : n \in Nodes /\ n # e
      BY <1>0, <1>1, <1>3, <1>4, <1>5
    <3>2. \A n \in ToSet(d) \cup {Drain} : c[<<"prev", n>>] = h[<<"prev", n>>]
      BY <1>8, <3>1
    <3>3. Back(h, Drain, d)
      BY <1>1, RingIsBack
    <3>. QED BY <1>1, <1>v, <3>2, <3>3, BackStays
  <2>3. Spanned(c, sp, w.moving)
    <3>1. Trail(c, t)
      BY <1>9 DEF Chain, Trail
    <3>. QED BY <1>2, <1>3, <1>v, <3>1 DEF Spanned, sp
  <2>. QED BY <1>1, <1>3, <1>8, <1>m, <1>v, <2>1, <2>2, <2>3 DEF Shows
<1>13. after = At(m, x, j - 1)
  <2>1. Back(c, m, x)
    BY <1>2, <1>12, <1>v DEF Shows
  <2>2. j - 1 \in 0 .. Len(x) /\ j - 1 + 1 = j
    BY <1>3
  <2>. QED BY <2>1, <2>2 DEF Back
<1>14. SpliceAt(h, before, first, e) = << s1, s2, s3, s4, s5, s6 >>
  BY <1>6, <1>7 DEF SpliceAt, c, h1, e
<1> HIDE DEF after
<1>15. Moves(dr, v, w)
  <2>1. Cuts(dr, v, w)
    BY <1>2, <1>v DEF Cuts, Transfer
  <2>. QED BY <2>1 DEF Moves
<1>16. Moves(dr, w, z)
  <2>1. CASE dr
    <3>1. z.queue = u /\ z.drain = y /\ z.moving = << >>
      BY <1>0, <2>1 DEF Transfer, View
    <3>. QED BY <1>2, <1>v, <2>1, <3>1 DEF Moves, Joins, Transfer
  <2>2. CASE ~dr
    <3>1. z.queue = y /\ z.drain = d /\ z.moving = << >>
      BY <2>2 DEF Transfer, View
    <3>. QED BY <1>2, <1>v, <2>2, <3>1 DEF Moves, Joins, Transfer
  <2>. QED BY <2>1, <2>2
<1> HIDE DEF first, last
<1>17. Course(dr, sp, c, << s3, s4, s5, s6 >>, w)
  <2>1. x = (IF m = Queue THEN w.queue ELSE w.drain)
    BY <1>2, <1>v
  <2>2. ToSet(t) \cap (ToSet(w.queue) \cup ToSet(w.drain)) = {}
    BY <1>1, <1>3, <1>v
  <2>3. Trail(c, t)
    BY <1>9 DEF Chain, Trail
  <2>4. z = (IF m = Queue THEN View(y, w.drain, << >>) ELSE View(w.queue, y, << >>))
    BY <1>v
  <2> HIDE DEF z
  <2>. QED BY <1>2, <1>v, <1>12, <1>13, <1>16, <2>1, <2>2, <2>3, <2>4, LinkCourse DEF first, last
<1>s. {s1, s2, s3, s4, s5, s6} \subseteq {"next", "prev"} \X Nodes \X Nodes
  <2>1. after \in Nodes
    BY <1>2, <1>3, <1>13, RingNodes
  <2>. QED BY <1>6, <2>1
<1> HIDE DEF s3, s4, s5, s6
<1>18. Course(dr, sp, h1, << s2, s3, s4, s5, s6 >>, v)
  <2> DEFINE r == << s2, s3, s4, s5, s6 >>
  <2>1. r \in StoreSeq /\ r # << >> /\ Len(r) = 5 /\ Head(r) = s2 /\ Tail(r) = << s3, s4, s5, s6 >>
    BY <1>s DEF StoreSeq
  <2>2. c = Write(h1, s2)
    BY DEF c
  <2> HIDE DEF r, s2
  <2>. QED BY <1>11, <1>15, <1>17, <2>1, <2>2, CourseBefore DEF r
<1>19. Course(dr, sp, h, << s1, s2, s3, s4, s5, s6 >>, v)
  <2> DEFINE r == << s1, s2, s3, s4, s5, s6 >>
  <2>1. r \in StoreSeq /\ r # << >> /\ Len(r) = 6 /\ Head(r) = s1 /\ Tail(r) = << s2, s3, s4, s5, s6 >>
    BY <1>s DEF StoreSeq
  <2>2. h1 = Write(h, s1) /\ Moves(dr, v, v)
    BY DEF h1, Moves
  <2> HIDE DEF r, s1, s2
  <2>. QED BY <1>10, <1>18, <2>1, <2>2, CourseBefore DEF r
<1>. QED BY <1>14, <1>19 DEF v, sp, first, last, e

\* The pointers h, when n stores of an operation are left and its span is sp, as they are read.
Seen(h, sp, n) ==
  View(Backward(h, Queue, NumItems), Backward(h, Drain, NumItems),
       IF sp # << >> /\ n \in 2 .. 4 THEN Span(h, sp[1], sp[2], NumItems) ELSE << >>)

Viewed == Seen(ptr, span, Len(stores))

\* Only a splice has a span.
SpanInv == (lock = Nobody \/ pc[lock] \in {"enqueue", "finish"}) => span = << >>

(* The stores that are left take what is seen through the steps of DrainSpec.*)
CourseInv == SpanInv /\ Course(drainable, span, ptr, stores, Viewed)

\* A step of the queue is one of DrainSpec, or changes nothing that is seen.
Advances == CourseInv' /\ drainable' = drainable /\ Moves(drainable, Viewed, Viewed')

\* What is shown is what is seen.
LEMMA SeenIs ==
  ASSUME NEW h, NEW sp, NEW n, NEW v, Shows(sp, h, v, n)
  PROVE  Seen(h, sp, n) = v
<1>1. /\ Backward(h, Queue, NumItems) = v.queue /\ Backward(h, Drain, NumItems) = v.drain
      /\ v.moving = IF sp # << >> /\ n \in 2 .. 4 THEN Span(h, sp[1], sp[2], NumItems) ELSE << >>
  BY ShownIsRead
<1>2. v = View(v.queue, v.drain, v.moving)
  BY DEF Shows
<1>. QED BY <1>1, <1>2 DEF Seen

\* An operation starts, or is over: what is seen is the same.
LEMMA Starts ==
  ASSUME TypeOK', NEW v, Shows(span, ptr, v, Len(stores)), SpanInv',
         drainable' = drainable, Course(drainable, span', ptr', stores', v)
  PROVE  Advances
<1>1. stores' \in StoreSeq
  BY DEF TypeOK, StoreSeq
<1>2. Shows(span', ptr', v, Len(stores'))
  BY <1>1, CourseShows
<1>3. Viewed = v /\ Viewed' = v
  BY <1>2, SeenIs DEF Viewed
<1>. QED BY <1>3 DEF Advances, CourseInv, Moves

\* One store more is made.
LEMMA StoreAdvances == ASSUME ListInv, CourseInv, Store PROVE Advances
<1>1. /\ stores \in StoreSeq /\ stores # << >> /\ ptr' = Write(ptr, Head(stores))
      /\ stores' = Tail(stores) /\ UNCHANGED <<drainable, lock, pc, span>>
  BY DEF ListInv, TypeOK, StoreSeq, Store
<1>2. PICK w : Moves(drainable, Viewed, w) /\ Course(drainable, span, ptr', stores', w)
  BY <1>1, CourseGoesOn DEF CourseInv
<1>3. stores' \in StoreSeq
  BY <1>1 DEF StoreSeq
<1>4. Viewed' = w
  <2>1. Shows(span, ptr', w, Len(stores'))
    BY <1>2, <1>3, CourseShows
  <2>. QED BY <1>1, <2>1, SeenIs DEF Viewed
<1>5. SpanInv'
  BY <1>1 DEF CourseInv, SpanInv
<1>. QED BY <1>1, <1>2, <1>4, <1>5 DEF Advances, CourseInv

\* With nothing to store, what is seen are the lists.
LEMMA AllStored ==
  ASSUME ListInv, stores = << >>, NEW q, NEW d, Lists(ptr, q, d), NEW sp, NEW n, ~IsMoving(sp, n)
  PROVE  /\ Shows(span, ptr, View(q, d, << >>), Len(stores))
         /\ Shows(sp, ptr, View(q, d, << >>), n)
<1>1. ptr \in [Ptrs -> Nodes] /\ Rings(ptr, q, d)
  BY DEF ListInv, TypeOK, Ptrs, Lists
<1>2. Len(stores) = 0 /\ ~IsMoving(span, 0)
  BY DEF IsMoving
<1>. QED BY <1>1, <1>2, ListsShow

\* A step that neither stores nor has anything to store.
LEMMA NothingMoves ==
  ASSUME ListInv, ListInv', stores = << >>, stores' = << >>, SpanInv',
         UNCHANGED <<drainable, ptr>>, NEW q, NEW d, Lists(ptr, q, d)
  PROVE  Advances
<1> DEFINE v == View(q, d, << >>)
<1>1. ~IsMoving(span', 0)
  BY DEF IsMoving
<1>2. Shows(span, ptr, v, Len(stores)) /\ Shows(span', ptr, v, 0)
  BY <1>1, AllStored
<1> HIDE DEF v
<1>3. Course(drainable, span', ptr', stores', v)
  BY <1>2, CourseEnds
<1>. QED BY <1>2, <1>3, Starts DEF ListInv

\* The items t come in: at the end, when the queue is a drainable one.
LEMMA ArrivalAdvances ==
  ASSUME ListInv, ListInv', CourseInv, lock = Nobody, drainable' = drainable, span' = span,
         NEW t, ItemSeq(t), Len(t) \in {1, 2}, \A j \in ToSet(t) : pc[j] = "out", Chain(ptr', t),
         \A n \in Nodes \ ToSet(t) : ptr'[<<"prev", n>>] = ptr[<<"prev", n>>],
         NEW before \in Queued \cup {Queue}, drainable => before = Queue,
         stores' = LinkAt(ptr', t[1], t[Len(t)], before)
  PROVE  Advances
<1>1. span = << >> /\ span' = << >> /\ SpanInv' /\ stores = << >>
  BY DEF CourseInv, SpanInv, ListInv, LockGuards
<1>2. PICK q, d : /\ Lists(ptr, q, d) /\ ToSet(q) \cup ToSet(d) = Placed
                  /\ Queued = ToSet(q) /\ ToSet(q) \subseteq Items /\ ToSet(d) \subseteq Items
  BY FreeLists
<1>3. /\ ItemSeq(q) /\ ItemSeq(d) /\ Len(q) \in Nat
      /\ ToSet(t) \subseteq Items /\ ToSet(t) \cap (ToSet(q) \cup ToSet(d)) = {}
  <2>1. ItemSeq(q) /\ ItemSeq(d) /\ Len(q) \in Nat
    BY <1>2 DEF Lists, Rings, ItemSeq
  <2>2. ToSet(t) \subseteq Items
    BY ListIndices DEF ItemSeq
  <2>3. ToSet(t) \cap Placed = {}
    BY DEF Placed
  <2>. QED BY <1>2, <2>1, <2>2, <2>3
<1>4. PICK k \in 1 .. Len(q) + 1 : At(Queue, q, k) = before
  BY <1>2, <1>3, NodeOf
<1>5. drainable => k = Len(q) + 1
  <2>1. At(Queue, q, Len(q) + 1) = Queue /\ Len(q) + 1 \in 1 .. Len(q) + 1
    BY <1>3 DEF At
  <2>. QED BY <1>3, <1>4, <2>1, RingNodes
<1>6. PICK s : Joined(s, q, t, k)
  <2>1. ToSet(q) \cap ToSet(t) = {}
    BY <1>3
  <2>. QED BY <1>3, <2>1, JoinLists
<1> DEFINE v == View(q, d, << >>)
           w == View(s, d, << >>)
<1>v. /\ v.queue = q /\ v.drain = d /\ v.moving = << >>
      /\ w.queue = s /\ w.drain = d /\ w.moving = << >>
      /\ w = IF Queue = Queue THEN View(s, v.drain, << >>) ELSE View(v.queue, s, << >>)
  BY DEF View
<1> HIDE DEF v, w
<1>m. ~IsMoving(<< >>, 4)
  BY DEF IsMoving
<1>7. Shows(span, ptr, v, Len(stores)) /\ Shows(<< >>, ptr, v, 4)
  BY <1>1, <1>2, <1>m, AllStored DEF v
<1>8. Shows(<< >>, ptr', v, 4)
  <2>1. Pointers(ptr')
    BY DEF ListInv, TypeOK, Ptrs, Pointers
  <2>2. \A a \in ToSet(v.queue) \cup ToSet(v.drain) \cup {Queue, Drain} : a \in Nodes \ ToSet(t)
    BY <1>2, <1>3, <1>v, NodesApart
  <2>. QED BY <1>m, <1>7, <2>1, <2>2, ShowsAsWell
<1>9. ptr'[<<"prev", before>>] = At(Queue, q, k - 1)
  <2>1. k - 1 \in 0 .. Len(q) /\ k - 1 + 1 = k
    BY <1>3
  <2>. QED BY <1>4, <1>8, <1>v, <2>1 DEF Shows, Back
<1>10. Moves(drainable, v, w)
  <2>1. ToSet(t) \cap (ToSet(v.drain) \cup ToSet(v.moving)) = {}
    BY <1>3, <1>v, EmptyList
  <2>2. Adds(drainable, v, w)
    BY <1>5, <1>6, <1>v, <2>1 DEF Adds
  <2>. QED BY <2>2 DEF Moves
<1>11. t # << >> /\ Trail(ptr', t)
  <2>1. Len(<< >>) = 0 /\ Len(t) # 0
    OBVIOUS
  <2>. QED BY <2>1 DEF Chain, Trail
<1>12. Course(drainable, << >>, ptr', stores', v)
  <2>1. stores' = << <<"next", t[Len(t)], before>>, <<"prev", t[1], At(Queue, q, k - 1)>>,
                     <<"prev", before, t[Len(t)]>>, <<"next", At(Queue, q, k - 1), t[1]>> >>
    BY <1>9 DEF LinkAt
  <2>2. q = (IF Queue = Queue THEN v.queue ELSE v.drain)
    BY <1>v
  <2>3. ToSet(t) \cap (ToSet(v.queue) \cup ToSet(v.drain)) = {}
    BY <1>3, <1>v
  <2>4. /\ Queue \in {Queue, Drain} /\ << >> # << >> => v.moving = t
        /\ before = At(Queue, q, k)
    BY <1>4
  <2>5. w = IF Queue = Queue THEN View(s, v.drain, << >>) ELSE View(v.queue, s, << >>)
    BY <1>v
  <2>6. Course(drainable, << >>, ptr',
               << <<"next", t[Len(t)], before>>, <<"prev", t[1], At(Queue, q, k - 1)>>,
                  <<"prev", before, t[Len(t)]>>, <<"next", At(Queue, q, k - 1), t[1]>> >>, v)
    BY ONLY <1>6, <1>8, <1>10, <1>11, <2>2, <2>3, <2>4, <2>5, LinkCourse
  <2>. QED BY <2>1, <2>6
<1>. QED BY <1>1, <1>7, <1>12, Starts DEF ListInv

\* An item is unlinked.
LEMMA UnlinkAdvances ==
  ASSUME ListInv, ListInv', stores = << >>, span' = << >>, UNCHANGED <<drainable, ptr>>,
         NEW q, NEW d, Lists(ptr, q, d), NEW i \in ToSet(q) \cup ToSet(d),
         stores' = Unlink(ptr, i)
  PROVE  Advances
<1> DEFINE v == View(q, d, << >>)
<1>1. SpanInv' /\ ~IsMoving(<< >>, 3)
  BY DEF SpanInv, IsMoving
<1>2. Shows(span, ptr, v, Len(stores)) /\ Shows(<< >>, ptr, v, 3)
  BY <1>1, AllStored
<1>3. v.queue = q /\ v.drain = d /\ Ring(ptr, Queue, q) /\ Ring(ptr, Drain, d) /\ Queue # Drain
  BY NodesApart DEF View, Lists, Rings
<1> HIDE DEF v
<1>4. Course(drainable, << >>, ptr, Unlink(ptr, i), v)
  <2>1. CASE i \in ToSet(q)
    BY <1>2, <1>3, <2>1, UnlinkCourse
  <2>2. CASE i \in ToSet(d)
    BY <1>2, <1>3, <2>2, UnlinkCourse
  <2>. QED BY <2>1, <2>2
<1>. QED BY <1>1, <1>2, <1>4, Starts DEF ListInv

\* Items are moved, from the queue to the drain or inside the queue.
LEMMA SpliceAdvances ==
  ASSUME ListInv, ListInv', CourseInv, stores = << >>, UNCHANGED <<drainable, ptr>>,
         SpanInv', NEW q, NEW d, Lists(ptr, q, d),
         NEW u, NEW t, NEW k, NEW m, NEW x, NEW y, NEW j,
         Transfer(drainable, q, d, u, t, k, m, x, y, j),
         NEW before, before = At(m, x, j), before # At(Queue, u, k),
         Splice(before, t[1], At(Queue, u, k))
  PROVE  Advances
<1> DEFINE e == At(Queue, u, k)
           v == View(q, d, << >>)
<1>1. ptr \in [Ptrs -> Nodes] /\ drainable \in BOOLEAN /\ Rings(ptr, q, d)
  BY DEF ListInv, TypeOK, Ptrs, Lists
<1>2. ptr[<<"prev", e>>] = t[Len(t)] /\ t[1] # e
  <2>1. /\ k \in Int /\ t # << >> /\ Joined(q, u, t, k) /\ Ring(ptr, Queue, q)
        /\ ItemSeq(u) /\ ItemSeq(t) /\ ToSet(u) \cap ToSet(t) = {} /\ Len(t) \in Nat \ {0}
    BY <1>1 DEF Transfer, Rings, Joined, ItemSeq
  <2>2. Between(ptr, t, At(Queue, u, k - 1), e)
    BY <2>1, CutEnds
  <2>3. t[1] \in ToSet(t) /\ ToSet(t) \subseteq Items /\ Queue \notin Items
    BY <2>1, ListIndices, NodesApart DEF ItemSeq
  <2>4. e \in ToSet(u) \cup {Queue}
    BY <2>1, RingNodes
  <2>. QED BY <2>1, <2>2, <2>3, <2>4 DEF Between
<1>3. SpliceAt(ptr, before, t[1], e) # << >>
  BY <1>2 DEF SpliceAt
<1>4. stores' = SpliceAt(ptr, before, t[1], e) /\ span' = << t[1], t[Len(t)] >>
  BY <1>2, <1>3 DEF Splice, GetPreceding
<1>5. Course(drainable, << t[1], t[Len(t)] >>, ptr, SpliceAt(ptr, before, t[1], e), v)
  BY <1>1, SpliceCourse
<1>6. Shows(span, ptr, v, Len(stores))
  <2>1. ~IsMoving(span, 0)
    BY DEF IsMoving
  <2>. QED BY <2>1, AllStored
<1> HIDE DEF e, v
<1>. QED BY <1>4, <1>5, <1>6, Starts DEF ListInv

\* Who holds the lock for a splice may have a span.
LEMMA SpliceSpan ==
  ASSUME ListInv, NEW t \in Threads, NEW to \in {"move", "drain", "drained"},
         lock' = t, pc' = [pc EXCEPT ![t] = to]
  PROVE  SpanInv'
<1>1. pc'[t] = to /\ t # Nobody
  BY ItemsAreThreads DEF ListInv, TypeOK
<1>. QED BY <1>1 DEF SpanInv

\* Enqueuing one item.
LEMMA EnqueueAdvances ==
  ASSUME ListInv, ListInv', CourseInv, NEW i \in Items,
         Enqueue(i) \/ \E before \in Nodes : EnqueueBefore(i, before)
  PROVE  Advances
<1> DEFINE t == << i >>
<1>1. PICK before \in Queued \cup {Queue} :
           /\ pc[i] = "out" /\ lock = Nobody /\ stores' = LinkAt(ptr, i, i, before)
           /\ UNCHANGED <<drainable, ptr, span>> /\ (drainable => before = Queue)
  BY DEF Enqueue, EnqueueBefore, Goto, Lock
<1>2. /\ Len(t) = 1 /\ t[1] = i /\ t[Len(t)] = i /\ t \in Seq(Items)
      /\ \A a, b \in 1 .. Len(t) : a = b
  OBVIOUS
<1> HIDE DEF t
<1>3. ToSet(t) = {i} /\ ItemSeq(t) /\ Chain(ptr, t)
  BY <1>2, ListIndices DEF ItemSeq, Chain, IsInjective
<1>. QED BY <1>1, <1>2, <1>3, ArrivalAdvances

\* Enqueuing a chain of two.
LEMMA ChainAdvances ==
  ASSUME ListInv, ListInv', CourseInv, NEW i \in Items, NEW j \in Items, NEW before \in Nodes,
         EnqueueChain(i, j, before)
  PROVE  Advances
<1> DEFINE t == << i, j >>
           h == Write(Write(ptr, <<"next", i, j>>), <<"prev", j, i>>)
<1>1. /\ pc[i] = "out" /\ pc[j] = "out" /\ i # j /\ lock = Nobody /\ ~drainable
      /\ before \in Queued \cup {Queue} /\ ptr' = h /\ stores' = LinkAt(h, i, j, before)
      /\ UNCHANGED <<drainable, span>>
  BY DEF EnqueueChain, Lock
<1>2. ptr \in [Ptrs -> Nodes] /\ i \in Nodes /\ j \in Nodes
  BY ItemsAreThreads DEF ListInv, TypeOK, Ptrs
<1>3. /\ h[<<"next", i>>] = j /\ h[<<"prev", j>>] = i
      /\ \A n \in Nodes : n # j => h[<<"prev", n>>] = ptr[<<"prev", n>>]
  BY <1>2 DEF Write, Ptrs
<1> HIDE DEF h
<1>4. /\ Len(t) = 2 /\ t # << >> /\ t[1] = i /\ t[Len(t)] = j
      /\ ToSet(t) = {i, j} /\ ItemSeq(t) /\ Chain(h, t)
  BY <1>1, <1>3, TwoItems
<1> HIDE DEF t
<1>5. /\ \A n \in ToSet(t) : pc[n] = "out"
      /\ \A n \in Nodes \ ToSet(t) : ptr'[<<"prev", n>>] = ptr[<<"prev", n>>]
      /\ Chain(ptr', t) /\ stores' = LinkAt(ptr', t[1], t[Len(t)], before)
  BY <1>1, <1>3, <1>4
<1>. QED BY <1>1, <1>4, <1>5, ArrivalAdvances

\* The lock is left.
LEMMA ReturnAdvances ==
  ASSUME ListInv, ListInv', CourseInv, NEW i \in Items,
         EnqueueReturn(i) \/ MoveReturn(i) \/ FinishReturn(i)
  PROVE  Advances
<1>1. /\ stores = << >> /\ stores' = << >> /\ UNCHANGED <<drainable, ptr>> /\ lock = i
      /\ span' = << >> \/ (span' = span /\ pc[i] \in {"enqueue", "finish"})
  BY DEF EnqueueReturn, MoveReturn, FinishReturn, Unlock, Goto
<1>2. SpanInv'
  BY <1>1 DEF CourseInv, SpanInv
<1>3. PICK g, q, d : Picture(g, q, d)
  BY DEF ListInv
<1>4. Lists(ptr, q, d)
  BY <1>1, <1>3, NothingToStore DEF ListInv, TypeOK, Ptrs, Picture
<1>. QED BY <1>1, <1>2, <1>4, NothingMoves

\* Moving an item inside the queue.
LEMMA MoveAdvances ==
  ASSUME ListInv, ListInv', CourseInv, NEW i \in Items, NEW before \in Nodes, Move(i, before)
  PROVE  Advances
<1>1. /\ ~drainable /\ pc[i] = "in" /\ pc' = [pc EXCEPT ![i] = "move"] /\ lock = Nobody /\ lock' = i
      /\ before \in (Queued \cup {Queue}) \ {i} /\ Splice(before, i, ptr[<<"next", i>>])
      /\ UNCHANGED <<drainable, ptr>> /\ i \in Threads
  BY ItemsAreThreads DEF Move, Goto, Lock, GetNext
<1>2. SpanInv'
  BY <1>1, SpliceSpan
<1>3. PICK q, d : /\ Lists(ptr, q, d) /\ ToSet(q) \cup ToSet(d) = Placed
                  /\ (drainable \/ ToSet(d) = {}) /\ Queued = ToSet(q)
  BY <1>1, FreeLists
<1>4. i \in ToSet(q) /\ ItemSeq(q) /\ Ring(ptr, Queue, q) /\ stores = << >>
  BY <1>1, <1>3 DEF Placed, Lists, Rings, ListInv, LockGuards
<1>5. PICK k, u, t : OneOut(q, i, k, u, t)
  BY <1>4, CutOne
<1>6. /\ k \in Int /\ Joined(q, u, t, k) /\ Len(t) = 1 /\ t # << >> /\ t[1] = i /\ ToSet(t) = {i}
      /\ ItemSeq(t) /\ ItemSeq(u) /\ ToSet(u) = ToSet(q) \ {i}
  BY <1>5 DEF OneOut
<1> DEFINE e == At(Queue, u, k)
<1>7. ptr[<<"next", i>>] = e
  <2>1. Between(ptr, t, At(Queue, u, k - 1), e)
    BY <1>4, <1>6, CutEnds
  <2>. QED BY <1>6, <2>1 DEF Between
<1>8. CASE before = e
  <2>1. stores' = << >>
    BY <1>1, <1>7, <1>8 DEF Splice, SpliceAt
  <2>. QED BY <1>1, <1>2, <1>3, <1>4, <2>1, NothingMoves
<1>9. CASE before # e
  <2>1. PICK j \in 1 .. Len(u) + 1 : At(Queue, u, j) = before
    <3>1. before \in ToSet(u) \cup {Queue}
      BY <1>1, <1>3, <1>6
    <3>. QED BY <1>6, <3>1, NodeOf
  <2>2. PICK y : Joined(y, u, t, j)
    <3>1. ToSet(u) \cap ToSet(t) = {}
      BY <1>6
    <3>. QED BY <1>6, <3>1, JoinLists
  <2>3. Transfer(drainable, q, d, u, t, k, Queue, u, y, j)
    BY <1>1, <1>6, <2>2 DEF Transfer
  <2>4. before = At(Queue, u, j) /\ before # At(Queue, u, k) /\ Splice(before, t[1], At(Queue, u, k))
    BY <1>1, <1>6, <1>7, <1>9, <2>1
  <2> HIDE DEF e
  <2>. QED BY <1>1, <1>2, <1>3, <1>4, <2>3, <2>4, SpliceAdvances
<1>. QED BY <1>8, <1>9

\* A drain: the item and all behind it go to the end of the drain.
LEMMA DrainAdvances ==
  ASSUME ListInv, ListInv', CourseInv, lock = Nobody, drainable, SpanInv',
         UNCHANGED <<drainable, ptr>>,
         NEW i, i = GetHead \/ (i \in Items /\ pc[i] = "in" /\ index[i] = drainIdx),
         Splice(Drain, i, Queue)
  PROVE  Advances
<1>1. PICK q, d : /\ Lists(ptr, q, d) /\ ToSet(q) \cup ToSet(d) = Placed
                  /\ \A j \in ToSet(d) : index[j] # drainIdx
  BY FreeLists
<1>2. /\ ItemSeq(q) /\ ItemSeq(d) /\ Len(d) \in Nat /\ ToSet(q) \cap ToSet(d) = {}
      /\ stores = << >>
  BY <1>1 DEF Lists, Rings, ItemSeq, ListInv, LockGuards
<1>3. i \in ToSet(q) \cup {Queue}
  BY <1>1, DrainedIsQueued
<1>4. CASE i = Queue
  <2>1. stores' = << >>
    BY <1>4 DEF Splice, SpliceAt
  <2>. QED BY <1>1, <1>2, <2>1, NothingMoves
<1>5. CASE i \in ToSet(q)
  <2>1. PICK u, t : Joined(q, u, t, Len(u) + 1) /\ t # << >> /\ t[1] = i
    BY <1>2, <1>5, CutTail
  <2> DEFINE k == Len(u) + 1
             j == Len(d) + 1
  <2>2. /\ k \in Int /\ j \in Int /\ j \in 1 .. Len(d) + 1 /\ ItemSeq(t)
        /\ ToSet(d) \cap ToSet(t) = {}
    BY <1>2, <2>1 DEF Joined, ItemSeq
  <2>3. At(Queue, u, k) = Queue /\ At(Drain, d, j) = Drain
    BY <1>2, <2>1 DEF At, Joined, ItemSeq
  <2>4. PICK y : Joined(y, d, t, j)
    BY <1>2, <2>2, JoinLists
  <2>5. Transfer(drainable, q, d, u, t, k, Drain, d, y, j)
    BY <2>1, <2>2, <2>4 DEF Transfer
  <2> HIDE DEF k, j
  <2>6. PICK before : /\ before = At(Drain, d, j) /\ before # At(Queue, u, k)
                      /\ Splice(before, t[1], At(Queue, u, k))
    BY <2>1, <2>3, NodesApart
  <2>7. /\ ListInv /\ ListInv' /\ CourseInv /\ stores = << >> /\ UNCHANGED <<drainable, ptr>>
        /\ SpanInv' /\ Lists(ptr, q, d)
    BY <1>1, <1>2
  <2>. QED BY ONLY <2>5, <2>6, <2>7, SpliceAdvances
<1>. QED BY <1>3, <1>4, <1>5

\* The three ways to start a drain.
LEMMA DrainsAdvance ==
  ASSUME ListInv, ListInv', CourseInv, SpliceAll \/ \E i \in Items : SafeDrain(i) \/ FinishDraining(i)
  PROVE  Advances
<1>1. CASE SpliceAll
  <2>1. /\ lock = Nobody /\ lock' = Splicer /\ drainable /\ pc' = [pc EXCEPT ![Splicer] = "drained"]
        /\ Splice(Drain, GetHead, Queue) /\ UNCHANGED <<drainable, ptr>>
    BY <1>1 DEF SpliceAll, Goto, Lock
  <2>. QED BY <2>1, ItemsAreThreads, SpliceSpan, DrainAdvances
<1>2. ASSUME NEW i \in Items, SafeDrain(i) \/ FinishDraining(i) PROVE Advances
  <2>1. PICK to \in {"drain", "drained"} :
             /\ lock = Nobody /\ lock' = i /\ drainable
             /\ pc[i] = "in" /\ pc' = [pc EXCEPT ![i] = to]
             /\ i = GetHead \/ index[i] = drainIdx
             /\ Splice(Drain, i, Queue) /\ UNCHANGED <<drainable, ptr>>
    BY <1>2 DEF SafeDrain, FinishDraining, DrainFrom, Drains, Goto, Lock
  <2>. QED BY <2>1, ItemsAreThreads, SpliceSpan, DrainAdvances
<1>. QED BY <1>1, <1>2

\* The splice is over: in finish the item is unlinked.
LEMMA DrainedAdvances ==
  ASSUME ListInv, ListInv', CourseInv, NEW t \in Threads, Drained(t)
  PROVE  Advances
<1>1. stores = << >> /\ span' = << >> /\ UNCHANGED <<drainable, ptr>>
  BY DEF Drained
<1>2. PICK g, q, d : Picture(g, q, d)
  BY DEF ListInv
<1>3. Lists(ptr, q, d) /\ SpanInv'
  BY <1>1, <1>2, NothingToStore DEF ListInv, TypeOK, Ptrs, Picture, SpanInv
<1>4. CASE Goto(t, "drain", "finish") /\ stores' = Unlink(ptr, t)
  <2>1. t \in ToSet(q) \cup ToSet(d)
    <3>1. pc[t] = "drain" /\ t # Splicer
      BY <1>4 DEF Goto, ListInv, LockGuards
    <3>2. t \in Placed
      BY <3>1 DEF Threads, Placed
    <3>. QED BY <1>2, <3>2 DEF Picture
  <2>. QED BY <1>1, <1>3, <1>4, <2>1, UnlinkAdvances
<1>5. CASE stores' = << >>
  BY <1>1, <1>3, <1>5, NothingMoves
<1>. QED BY <1>1, <1>4, <1>5 DEF Drained

\* Unlinking the item that is finished.
LEMMA FinishAdvances ==
  ASSUME ListInv, ListInv', CourseInv, NEW i \in Items, Finish(i)
  PROVE  Advances
<1>1. /\ pc[i] = "in" /\ lock = Nobody /\ stores' = Unlink(ptr, i)
      /\ UNCHANGED <<drainable, ptr, span>>
  BY DEF Finish, Goto, Lock
<1>2. PICK q, d : Lists(ptr, q, d) /\ ToSet(q) \cup ToSet(d) = Placed
  BY <1>1, FreeLists
<1>3. i \in ToSet(q) \cup ToSet(d) /\ stores = << >> /\ span' = << >>
  BY <1>1, <1>2 DEF Placed, ListInv, LockGuards, CourseInv, SpanInv
<1>. QED BY <1>1, <1>2, <1>3, UnlinkAdvances

\* One step per action.
LEMMA StepAdvances == ASSUME ListInv, ListInv', CourseInv, [Next]_vars PROVE Advances
<1>1. CASE Store
  BY <1>1, StoreAdvances
<1>2. CASE SpliceAll
  BY <1>2, DrainsAdvance
<1>3. ASSUME NEW i \in Items, EnqueueReturn(i) \/ MoveReturn(i) \/ FinishReturn(i) PROVE Advances
  BY <1>3, ReturnAdvances
<1>4. ASSUME NEW i \in Items, Enqueue(i) \/ \E before \in Nodes : EnqueueBefore(i, before)
      PROVE  Advances
  BY <1>4, EnqueueAdvances
<1>5. ASSUME NEW i \in Items, SafeDrain(i) \/ FinishDraining(i) PROVE Advances
  BY <1>5, DrainsAdvance
<1>6. ASSUME NEW i \in Items, Finish(i) PROVE Advances
  BY <1>6, FinishAdvances
<1>7. ASSUME NEW i \in Items, NEW before \in Nodes, Move(i, before) PROVE Advances
  BY <1>7, MoveAdvances
<1>8. ASSUME NEW i \in Items, NEW j \in Items, NEW before \in Nodes, EnqueueChain(i, j, before)
      PROVE  Advances
  BY <1>8, ChainAdvances
<1>9. ASSUME NEW t \in Threads, Drained(t) PROVE Advances
  BY <1>9, DrainedAdvances
<1>10. CASE UNCHANGED vars
  BY <1>10 DEF vars, Advances, CourseInv, SpanInv, Viewed, Moves
<1>. QED BY <1>1, <1>2, <1>3, <1>4, <1>5, <1>6, <1>7, <1>8, <1>9, <1>10 DEF Next

\* At first two empty lists are seen.
LEMMA InitCourseInv == Init => CourseInv /\ Viewed = View(<< >>, << >>, << >>)
<1> SUFFICES ASSUME Init PROVE CourseInv /\ Viewed = View(<< >>, << >>, << >>)
  OBVIOUS
<1>1. ListInv /\ stores = << >> /\ span = << >>
  BY InitListInv DEF Init
<1>2. PICK q, d : Lists(ptr, q, d) /\ ToSet(q) \cup ToSet(d) = Placed
  <2>1. lock = Nobody
    BY DEF Init
  <2>. QED BY <1>1, <2>1, FreeLists
<1>3. q = << >> /\ d = << >>
  <2>1. Placed = {}
    BY DEF Init, Placed, Threads
  <2>. QED BY <1>2, <2>1, ListIndices DEF Lists, Rings, ItemSeq
<1>4. ~IsMoving(<< >>, 0)
  BY DEF IsMoving
<1>5. Shows(<< >>, ptr, View(<< >>, << >>, << >>), 0)
  BY <1>1, <1>2, <1>3, <1>4, AllStored
<1>6. Viewed = View(<< >>, << >>, << >>)
  <2>1. Len(stores) = 0
    BY <1>1
  <2>. QED BY <1>1, <1>5, <2>1, SeenIs DEF Viewed
<1>. QED BY <1>1, <1>5, <1>6, CourseEnds DEF CourseInv, SpanInv

\* The part of a sequence from a to b.
LEMMA PartIs ==
  ASSUME NEW s \in Seq(Items), NEW a \in 1 .. Len(s) + 1, NEW b \in a - 1 .. Len(s)
  PROVE  /\ SubSeq(s, a, b) \in Seq(Items) /\ Len(SubSeq(s, a, b)) = b - a + 1
         /\ \A i \in 1 .. b - a + 1 : SubSeq(s, a, b)[i] = s[a + i - 1]
<1>1. \A i \in a .. b : s[i] \in Items
  OBVIOUS
<1>. QED BY <1>1, SubSeqProperties

\* What is put into a sequence, in terms of its parts.
LEMMA JoinedIs ==
  ASSUME NEW s, NEW u, NEW t, NEW k, Joined(s, u, t, k)
  PROVE  s = Abstract!Inserted(u, t, k)
<1> DEFINE a == SubSeq(u, 1, k - 1)
           b == SubSeq(u, k, Len(u))
           c == a \o t
<1>1. /\ s \in Seq(Items) /\ u \in Seq(Items) /\ t \in Seq(Items)
      /\ Len(s) \in Nat /\ Len(u) \in Nat /\ Len(t) \in Nat
      /\ k \in 1 .. Len(u) + 1 /\ Len(s) = Len(u) + Len(t)
  BY DEF Joined, ItemSeq
<1>2. /\ a \in Seq(Items) /\ Len(a) = k - 1 /\ \A i \in 1 .. k - 1 : a[i] = u[i]
  <2>1. 1 \in 1 .. Len(u) + 1 /\ k - 1 \in 1 - 1 .. Len(u) /\ k - 1 - 1 + 1 = k - 1
    BY <1>1
  <2>2. \A i \in 1 .. k - 1 : 1 + i - 1 = i
    OBVIOUS
  <2>. QED BY <1>1, <2>1, <2>2, PartIs
<1>3. /\ b \in Seq(Items) /\ Len(b) = Len(u) - k + 1
      /\ \A i \in 1 .. Len(u) - k + 1 : b[i] = u[k + i - 1]
  BY <1>1, PartIs
<1> HIDE DEF a, b
<1>4. /\ c \in Seq(Items) /\ Len(c) = k - 1 + Len(t)
      /\ \A i \in 1 .. k - 1 + Len(t) : c[i] = IF i <= k - 1 THEN a[i] ELSE t[i - (k - 1)]
  <2>1. /\ c \in Seq(Items) /\ Len(c) = Len(a) + Len(t)
        /\ \A i \in 1 .. Len(a) + Len(t) : c[i] = IF i <= Len(a) THEN a[i] ELSE t[i - Len(a)]
    BY <1>1, <1>2, ConcatProperties
  <2> HIDE DEF c
  <2>. QED BY <1>2, <2>1
<1> HIDE DEF c
<1> DEFINE r == c \o b
<1>5. /\ r \in Seq(Items) /\ Len(r) = Len(s)
      /\ \A i \in 1 .. Len(s) : r[i] = IF i <= k - 1 + Len(t) THEN c[i]
                                              ELSE b[i - (k - 1 + Len(t))]
  <2>1. Len(c) + Len(b) = Len(s)
    BY <1>1, <1>3, <1>4
  <2>. QED BY <1>1, <1>3, <1>4, <2>1, ConcatProperties
<1> HIDE DEF r
<1>6. ASSUME NEW i \in 1 .. Len(s) PROVE s[i] = r[i]
  <2>1. CASE i <= k - 1
    <3>1. i \in 1 .. k - 1 /\ i <= k - 1 + Len(t) /\ i \in 1 .. k - 1 + Len(t)
      BY <1>1, <2>1
    <3>. QED BY <1>2, <1>4, <1>5, <2>1, <3>1 DEF Joined
  <2>2. CASE i > k - 1 /\ i <= k - 1 + Len(t)
    <3> DEFINE n == i - (k - 1)
    <3>1. n \in 1 .. Len(t) /\ k - 1 + n = i /\ i \in 1 .. k - 1 + Len(t) /\ ~(i <= k - 1)
      BY <1>1, <2>2
    <3>2. r[i] = t[n]
      BY <1>4, <1>5, <3>1
    <3> HIDE DEF n
    <3>. QED BY <3>1, <3>2 DEF Joined
  <2>3. CASE i > k - 1 + Len(t)
    <3> DEFINE n == i - (k - 1 + Len(t))
    <3>1. /\ n \in 1 .. Len(u) - k + 1 /\ ~(i <= k - 1 + Len(t))
          /\ k + n - 1 \in k .. Len(u) /\ Len(t) + (k + n - 1) = i
      BY <1>1, <2>3
    <3>2. r[i] = b[n]
      BY <1>5, <3>1
    <3> HIDE DEF n
    <3>. QED BY <1>3, <3>1, <3>2 DEF Joined
  <2>. QED BY <1>1, <2>1, <2>2, <2>3
<1>7. s = r
  BY <1>1, <1>5, <1>6, SeqEqual
<1>. QED BY <1>7 DEF a, b, c, r, Abstract!Inserted

\* What is left of a sequence when one item is taken from it.
LEMMA TakenIs ==
  ASSUME NEW s, NEW u, NEW t, NEW k, Joined(s, u, t, k), Len(t) = 1
  PROVE  k \in DOMAIN s /\ u = RemoveAt(s, k) /\ t = << s[k] >>
<1> DEFINE a == SubSeq(s, 1, k - 1)
           b == SubSeq(s, k + 1, Len(s))
<1>1. /\ s \in Seq(Items) /\ u \in Seq(Items) /\ t \in Seq(Items)
      /\ Len(s) \in Nat /\ Len(u) \in Nat /\ Len(s) = Len(u) + 1
      /\ k \in 1 .. Len(u) + 1 /\ k \in 1 .. Len(s)
  BY DEF Joined, ItemSeq
<1>2. /\ a \in Seq(Items) /\ Len(a) = k - 1 /\ \A i \in 1 .. k - 1 : a[i] = s[i]
  <2>1. 1 \in 1 .. Len(s) + 1 /\ k - 1 \in 1 - 1 .. Len(s) /\ k - 1 - 1 + 1 = k - 1
    BY <1>1
  <2>2. \A i \in 1 .. k - 1 : 1 + i - 1 = i
    OBVIOUS
  <2>. QED BY <1>1, <2>1, <2>2, PartIs
<1>3. /\ b \in Seq(Items) /\ Len(b) = Len(s) - k
      /\ \A i \in 1 .. Len(s) - k : b[i] = s[k + i]
  <2>1. k + 1 \in 1 .. Len(s) + 1 /\ Len(s) \in k + 1 - 1 .. Len(s) /\ Len(s) - (k + 1) + 1 = Len(s) - k
    BY <1>1
  <2>2. \A i \in 1 .. Len(s) - k : k + 1 + i - 1 = k + i
    BY <1>1
  <2>. QED BY <1>1, <2>1, <2>2, PartIs
<1> HIDE DEF a, b
<1> DEFINE r == a \o b
<1>4. /\ r \in Seq(Items) /\ Len(r) = Len(u)
      /\ \A i \in 1 .. Len(u) : r[i] = IF i <= k - 1 THEN a[i] ELSE b[i - (k - 1)]
  <2>1. Len(a) + Len(b) = Len(u)
    BY <1>1, <1>2, <1>3
  <2>. QED BY <1>2, <1>3, <2>1, ConcatProperties
<1> HIDE DEF r
<1>5. ASSUME NEW i \in 1 .. Len(u) PROVE u[i] = r[i]
  <2>1. CASE i <= k - 1
    <3>1. i \in 1 .. k - 1
      BY <2>1
    <3>. QED BY <1>2, <1>4, <2>1, <3>1 DEF Joined
  <2>2. CASE i > k - 1
    <3>1. /\ i \in k .. Len(u) /\ i - (k - 1) \in 1 .. Len(s) - k /\ k + (i - (k - 1)) = 1 + i
          /\ ~(i <= k - 1)
      BY <1>1, <2>2
    <3>2. r[i] = s[1 + i]
      BY <1>3, <1>4, <3>1
    <3>. QED BY <3>1, <3>2 DEF Joined
  <2>. QED BY <1>1, <2>1, <2>2
<1>6. u = r
  BY <1>1, <1>4, <1>5, SeqEqual
<1>7. t = << s[k] >>
  <2>1. 1 \in 1 .. Len(t) /\ k - 1 + 1 = k
    BY <1>1
  <2>2. s[k] = t[1]
    BY <2>1 DEF Joined
  <2>3. t = << t[1] >>
    BY <1>1
  <2>. QED BY <2>2, <2>3
<1>8. k \in DOMAIN s
  BY <1>1
<1>. QED BY <1>6, <1>7, <1>8 DEF RemoveAt, a, b, r

\* A sequence with others at its end.
LEMMA TailIs ==
  ASSUME NEW s, NEW u, NEW t, Joined(s, u, t, Len(u) + 1)
  PROVE  /\ s = u \o t /\ IsPrefix(u, s)
         /\ u = SubSeq(s, 1, Len(u) + 1 - 1) /\ t = SubSeq(s, Len(u) + 1, Len(s))
         /\ t # << >> => Len(u) + 1 \in DOMAIN s
<1> DEFINE a == SubSeq(s, 1, Len(u))
           b == SubSeq(s, Len(u) + 1, Len(s))
<1>1. /\ s \in Seq(Items) /\ u \in Seq(Items) /\ t \in Seq(Items)
      /\ Len(s) \in Nat /\ Len(u) \in Nat /\ Len(t) \in Nat /\ Len(s) = Len(u) + Len(t)
      /\ \A i \in 1 .. Len(u) : s[i] = u[i]
      /\ \A i \in 1 .. Len(t) : s[Len(u) + i] = t[i]
  <2>1. Len(u) \in Nat
    BY DEF Joined, ItemSeq
  <2>2. Len(u) + 1 - 1 = Len(u)
    BY <2>1
  <2>. QED BY <2>1, <2>2 DEF Joined, ItemSeq
<1>2. u = a
  <2>1. 1 \in 1 .. Len(s) + 1 /\ Len(u) \in 1 - 1 .. Len(s) /\ Len(u) - 1 + 1 = Len(u)
    BY <1>1
  <2>2. \A i \in 1 .. Len(u) : 1 + i - 1 = i
    OBVIOUS
  <2>3. a \in Seq(Items) /\ Len(a) = Len(u) /\ \A i \in 1 .. Len(u) : a[i] = s[i]
    BY <1>1, <2>1, <2>2, PartIs
  <2> HIDE DEF a
  <2>. QED BY <1>1, <2>3, SeqEqual
<1>3. t = b
  <2>1. /\ Len(u) + 1 \in 1 .. Len(s) + 1 /\ Len(s) \in Len(u) + 1 - 1 .. Len(s)
        /\ Len(s) - (Len(u) + 1) + 1 = Len(t)
    BY <1>1
  <2>2. \A i \in 1 .. Len(t) : Len(u) + 1 + i - 1 = Len(u) + i
    BY <1>1
  <2>3. b \in Seq(Items) /\ Len(b) = Len(t) /\ \A i \in 1 .. Len(t) : b[i] = s[Len(u) + i]
    BY <1>1, <2>1, <2>2, PartIs
  <2> HIDE DEF b
  <2>. QED BY <1>1, <2>3, SeqEqual
<1>4. s = u \o t
  <2>1. /\ u \o t \in Seq(Items) /\ Len(u \o t) = Len(s)
        /\ \A i \in 1 .. Len(s) : (u \o t)[i] = IF i <= Len(u) THEN u[i] ELSE t[i - Len(u)]
    BY <1>1, ConcatProperties
  <2>2. ASSUME NEW i \in 1 .. Len(s) PROVE s[i] = (u \o t)[i]
    <3>1. CASE i <= Len(u)
      BY <1>1, <2>1, <3>1
    <3>2. CASE i > Len(u)
      <4>1. i - Len(u) \in 1 .. Len(t) /\ Len(u) + (i - Len(u)) = i /\ ~(i <= Len(u))
        BY <1>1, <3>2
      <4>. QED BY <1>1, <2>1, <4>1
    <3>. QED BY <1>1, <3>1, <3>2
  <2>. QED BY <1>1, <2>1, <2>2, SeqEqual
<1>5. IsPrefix(u, s)
  <2>1. 1 \in 1 .. Len(u) + 1 /\ Len(u) \in 1 - 1 .. Len(u) /\ Len(u) - 1 + 1 = Len(u)
    BY <1>1
  <2>2. \A i \in 1 .. Len(u) : 1 + i - 1 = i
    OBVIOUS
  <2> DEFINE p == SubSeq(u, 1, Len(u))
  <2>3. p \in Seq(Items) /\ Len(p) = Len(u) /\ \A i \in 1 .. Len(u) : p[i] = u[i]
    BY <1>1, <2>1, <2>2, PartIs
  <2> HIDE DEF p
  <2>4. p = u
    BY <1>1, <2>3, SeqEqual
  <2>5. Len(u) <= Len(s)
    BY <1>1
  <2>. QED BY <1>2, <2>4, <2>5 DEF IsPrefix, p
<1>6. Len(u) + 1 - 1 = Len(u) /\ (t # << >> => Len(u) + 1 \in DOMAIN s)
  <2>1. t # << >> => Len(t) > 0
    BY <1>1
  <2>2. t # << >> => Len(u) + 1 \in 1 .. Len(s)
    BY <1>1, <2>1
  <2>. QED BY <1>1, <2>2
<1>. QED BY <1>2, <1>3, <1>4, <1>5, <1>6

\* What is seen are the variables of DrainSpec, before a step and after it.
LEMMA ViewedIs ==
  /\ Viewed.queue = Backward(ptr, Queue, NumItems)
  /\ Viewed.drain = Backward(ptr, Drain, NumItems) /\ Viewed.moving = Moving
  /\ Viewed'.queue = Backward(ptr, Queue, NumItems)'
  /\ Viewed'.drain = Backward(ptr, Drain, NumItems)' /\ Viewed'.moving = Moving'
BY DEF Viewed, Seen, View, Moving

\* The operators on sequences are those of DrainSpec.
LEMMA SameOperators ==
  /\ \A s : Abstract!ToSet(s) = ToSet(s)
  /\ \A s, t : Abstract!IsPrefix(s, t) = IsPrefix(s, t)
  /\ \A s, k : Abstract!RemoveAt(s, k) = RemoveAt(s, k)
BY DEF ToSet, IsPrefix, RemoveAt, Abstract!ToSet, Abstract!IsPrefix, Abstract!RemoveAt

\* An item that comes in, or two, were not there.
LEMMA AddsMapped == ASSUME drainable' = drainable, Adds(drainable, Viewed, Viewed') PROVE Abstract!Add
<1> DEFINE v == Viewed
           w == Viewed'
<1>v. /\ v.queue = Backward(ptr, Queue, NumItems) /\ v.drain = Backward(ptr, Drain, NumItems)
      /\ v.moving = Moving
      /\ w.queue = Backward(ptr, Queue, NumItems)' /\ w.drain = Backward(ptr, Drain, NumItems)'
      /\ w.moving = Moving'
  BY ViewedIs
<1> HIDE DEF v, w
<1>1. PICK t, k : /\ Len(t) \in {1, 2} /\ Joined(w.queue, v.queue, t, k)
                  /\ ToSet(t) \cap (ToSet(v.drain) \cup ToSet(v.moving)) = {}
                  /\ drainable => k = Len(v.queue) + 1
                  /\ w.drain = v.drain /\ w.moving = v.moving
  BY DEF Adds, v, w
<1>2. /\ t \in Seq(Items) /\ k \in 1 .. Len(v.queue) + 1
      /\ \A a \in 1 .. Len(t) : t[a] \in Items \ (ToSet(v.queue) \cup ToSet(v.drain) \cup ToSet(v.moving))
      /\ \A a, b \in 1 .. Len(t) : t[a] = t[b] => a = b
  <2>1. t \in Seq(Items) /\ IsInjective(t) /\ k \in 1 .. Len(v.queue) + 1
        /\ ToSet(v.queue) \cap ToSet(t) = {}
    BY <1>1 DEF Joined, ItemSeq
  <2>2. \A a \in 1 .. Len(t) : t[a] \in ToSet(t) /\ t[a] \in Items
    BY <2>1, ListIndices
  <2>. QED BY <1>1, <2>1, <2>2, ListIndices
<1>3. w.queue = Abstract!Inserted(v.queue, t, k)
  BY <1>1, JoinedIs
<1>p. drainable => IsPrefix(v.queue, w.queue)
  <2>1. drainable => Joined(w.queue, v.queue, t, Len(v.queue) + 1)
    BY <1>1
  <2>. QED BY <2>1, TailIs
<1> DEFINE Known == ToSet(v.queue) \cup ToSet(v.drain) \cup ToSet(v.moving)
<1>4. \E i \in Items \ Known, n \in 1 .. Len(v.queue) + 1 :
        \/ w.queue = Abstract!Inserted(v.queue, << i >>, n)
        \/ \E j \in Items \ (Known \cup {i}) : w.queue = Abstract!Inserted(v.queue, << i, j >>, n)
  <2>1. CASE Len(t) = 1
    <3>1. t = << t[1] >> /\ 1 \in 1 .. Len(t)
      BY <1>2, <2>1
    <3>. QED BY <1>2, <1>3, <3>1
  <2>2. CASE Len(t) = 2
    <3>1. t = << t[1], t[2] >> /\ 1 \in 1 .. Len(t) /\ 2 \in 1 .. Len(t)
      BY <1>2, <2>2
    <3>2. t[1] \in Items \ Known /\ t[2] \in Items \ (Known \cup {t[1]})
      BY <1>2, <3>1
    <3>. QED BY <1>2, <1>3, <3>1, <3>2
  <2>. QED BY <1>1, <2>1, <2>2
<1>. QED BY <1>1, <1>p, <1>4, <1>v, SameOperators DEF Abstract!Add, Abstract!Known

\* An item that goes leaves the others in their order.
LEMMA TakesMapped == ASSUME drainable' = drainable, Takes(Viewed, Viewed') PROVE Abstract!Take
<1> DEFINE v == Viewed
           w == Viewed'
<1>v. /\ v.queue = Backward(ptr, Queue, NumItems) /\ v.drain = Backward(ptr, Drain, NumItems)
      /\ v.moving = Moving
      /\ w.queue = Backward(ptr, Queue, NumItems)' /\ w.drain = Backward(ptr, Drain, NumItems)'
      /\ w.moving = Moving'
  BY ViewedIs
<1> HIDE DEF v, w
<1>1. \/ (\E k \in DOMAIN v.queue : w.queue = RemoveAt(v.queue, k)) /\ w.drain = v.drain
      \/ (\E k \in DOMAIN v.drain : w.drain = RemoveAt(v.drain, k)) /\ w.queue = v.queue
  BY TakenIs DEF Takes, v, w
<1>2. w.moving = v.moving
  BY DEF Takes, v, w
<1>. QED BY <1>1, <1>2, <1>v, SameOperators DEF Abstract!Take

\* What is cut out is the end of a drainable queue, or one item.
LEMMA CutsMapped == ASSUME drainable' = drainable, Cuts(drainable, Viewed, Viewed') PROVE Abstract!Cut
<1> DEFINE v == Viewed
           w == Viewed'
<1>v. /\ v.queue = Backward(ptr, Queue, NumItems) /\ v.drain = Backward(ptr, Drain, NumItems)
      /\ v.moving = Moving
      /\ w.queue = Backward(ptr, Queue, NumItems)' /\ w.drain = Backward(ptr, Drain, NumItems)'
      /\ w.moving = Moving'
  BY ViewedIs
<1> HIDE DEF v, w
<1>1. PICK k : /\ v.moving = << >> /\ w.moving # << >> /\ Joined(v.queue, w.queue, w.moving, k)
               /\ IF drainable THEN k = Len(w.queue) + 1 ELSE Len(w.moving) = 1
               /\ w.drain = v.drain
  BY DEF Cuts, v, w
<1>2. \E n \in DOMAIN v.queue :
        IF drainable THEN /\ w.queue = SubSeq(v.queue, 1, n - 1)
                          /\ w.moving = SubSeq(v.queue, n, Len(v.queue))
                     ELSE w.queue = RemoveAt(v.queue, n) /\ w.moving = << v.queue[n] >>
  <2>1. CASE drainable
    <3>1. Joined(v.queue, w.queue, w.moving, Len(w.queue) + 1)
      BY <1>1, <2>1
    <3>2. w.moving # << >>
      BY <1>1
    <3>3. /\ w.queue = SubSeq(v.queue, 1, Len(w.queue) + 1 - 1)
          /\ w.moving = SubSeq(v.queue, Len(w.queue) + 1, Len(v.queue))
          /\ Len(w.queue) + 1 \in DOMAIN v.queue
      BY ONLY <3>1, <3>2, TailIs
    <3> DEFINE n == Len(w.queue) + 1
    <3>4. n = Len(w.queue) + 1
      OBVIOUS
    <3> HIDE DEF n
    <3>5. /\ n \in DOMAIN v.queue /\ w.queue = SubSeq(v.queue, 1, n - 1)
          /\ w.moving = SubSeq(v.queue, n, Len(v.queue))
      BY ONLY <3>3, <3>4
    <3>. QED BY <2>1, <3>5
  <2>2. CASE ~drainable
    BY <1>1, <2>2, TakenIs
  <2>. QED BY <2>1, <2>2
<1>. QED BY <1>1, <1>2, <1>v, SameOperators DEF Abstract!Cut

\* What was cut out arrives at the end of the drain, or in the queue.
LEMMA JoinsMapped == ASSUME drainable' = drainable, Joins(drainable, Viewed, Viewed') PROVE Abstract!Join
<1> DEFINE v == Viewed
           w == Viewed'
<1>v. /\ v.queue = Backward(ptr, Queue, NumItems) /\ v.drain = Backward(ptr, Drain, NumItems)
      /\ v.moving = Moving
      /\ w.queue = Backward(ptr, Queue, NumItems)' /\ w.drain = Backward(ptr, Drain, NumItems)'
      /\ w.moving = Moving'
  BY ViewedIs
<1> HIDE DEF v, w
<1>1. PICK k : /\ v.moving # << >> /\ w.moving = << >>
               /\ IF drainable THEN /\ Joined(w.drain, v.drain, v.moving, k) /\ k = Len(v.drain) + 1
                                    /\ w.queue = v.queue
                               ELSE Joined(w.queue, v.queue, v.moving, k) /\ w.drain = v.drain
  BY DEF Joins, v, w
<1>2. IF drainable THEN w.drain = v.drain \o v.moving /\ w.queue = v.queue
      ELSE /\ \E n \in 1 .. Len(v.queue) + 1 : w.queue = Abstract!Inserted(v.queue, v.moving, n)
           /\ w.drain = v.drain
  <2>1. CASE drainable
    <3>1. Joined(w.drain, v.drain, v.moving, Len(v.drain) + 1) /\ w.queue = v.queue
      BY <1>1, <2>1
    <3>2. w.drain = v.drain \o v.moving
      BY <3>1, TailIs
    <3>. QED BY <2>1, <3>1, <3>2
  <2>2. CASE ~drainable
    <3>1. k \in 1 .. Len(v.queue) + 1
      BY <1>1, <2>2 DEF Joined
    <3>. QED BY <1>1, <2>2, <3>1, JoinedIs
  <2>. QED BY <2>1, <2>2
<1>. QED BY <1>1, <1>2, <1>v DEF Abstract!Join

(* Whatever store an operation is at, the previous pointers, which are read  *)
(* without the lock, show two sequences without a common item, and a store   *)
(* changes them as DrainSpec allows or not at all: items come in together    *)
(* and at one place, leave one at a time, and are moved, one within a plain  *)
(* queue, or the whole end of the work list to the end of the drain.  None   *)
(* is lost, doubled or overtaken (_llisttmpl.h, linkat, unlink and splice;   *)
(* completion.h, unsafedrain__locked).                                       *)
THEOREM DrainableQueueKeepsPromise == Spec => AbstractSpec
<1>1. Init => ListInv /\ CourseInv /\ Abstract!Init
  <2> SUFFICES ASSUME Init PROVE ListInv /\ CourseInv /\ Abstract!Init
    OBVIOUS
  <2>1. Viewed.queue = << >> /\ Viewed.drain = << >> /\ Viewed.moving = << >>
    BY InitCourseInv DEF View
  <2>2. Abstract!Init
    BY <2>1, ViewedIs DEF Abstract!Init, Init
  <2>. QED BY <2>2, InitListInv, InitCourseInv
<1>2. ListInv /\ CourseInv /\ [Next]_vars => ListInv' /\ CourseInv' /\ [Abstract!Next]_(Abstract!vars)
  <2> SUFFICES ASSUME ListInv, CourseInv, [Next]_vars
               PROVE  ListInv' /\ CourseInv' /\ [Abstract!Next]_(Abstract!vars)
    OBVIOUS
  <2>1. ListInv'
    BY StepListInv
  <2>2. CourseInv' /\ drainable' = drainable /\ Moves(drainable, Viewed, Viewed')
    BY <2>1, StepAdvances DEF Advances
  <2>3. CASE Viewed' = Viewed
    <3>1. /\ Backward(ptr, Queue, NumItems)' = Backward(ptr, Queue, NumItems)
          /\ Backward(ptr, Drain, NumItems)' = Backward(ptr, Drain, NumItems)
          /\ Moving' = Moving
      BY <2>3, ViewedIs
    <3>. QED BY <2>1, <2>2, <3>1 DEF Abstract!vars
  <2>4. CASE Adds(drainable, Viewed, Viewed')
    BY <2>1, <2>2, <2>4, AddsMapped DEF Abstract!Next
  <2>5. CASE Takes(Viewed, Viewed')
    BY <2>1, <2>2, <2>5, TakesMapped DEF Abstract!Next
  <2>6. CASE Cuts(drainable, Viewed, Viewed')
    BY <2>1, <2>2, <2>6, CutsMapped DEF Abstract!Next
  <2>7. CASE Joins(drainable, Viewed, Viewed')
    BY <2>1, <2>2, <2>7, JoinsMapped DEF Abstract!Next
  <2>. QED BY <2>2, <2>3, <2>4, <2>5, <2>6, <2>7 DEF Moves
<1>. QED BY <1>1, <1>2, PTL DEF Spec, AbstractSpec, Abstract!Spec
=============================================================================
