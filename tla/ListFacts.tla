----------------------------- MODULE ListFacts -----------------------------
(***************************************************************************)
(* What appending, removing, taking the head and concatenating do to the   *)
(* items of a list that holds each item once.                              *)
(***************************************************************************)
EXTENDS SequencesExt, SequenceTheorems, WellFoundedInduction, TLAPS

LEMMA ListIndices ==
  ASSUME NEW S, NEW s \in Seq(S)
  PROVE  /\ ToSet(s) \subseteq S
         /\ \A i \in 1 .. Len(s) : s[i] \in ToSet(s)
         /\ \A x \in ToSet(s) : \E i \in 1 .. Len(s) : s[i] = x
         /\ IsInjective(s) <=> \A i, j \in 1 .. Len(s) : s[i] = s[j] => i = j
BY DEF ToSet, IsInjective

LEMMA EmptyList ==
  ASSUME NEW S
  PROVE  /\ << >> \in Seq(S) /\ ToSet(<< >>) = {} /\ IsInjective(<< >>)
         /\ \A s \in Seq(S) : s # << >> => Head(s) \in ToSet(s) /\ s[Len(s)] \in ToSet(s)
<1>1. << >> \in Seq(S) /\ Len(<< >>) = 0
  OBVIOUS
<1>2. ToSet(<< >>) = {} /\ IsInjective(<< >>)
  BY DOMAIN << >> = {} DEF ToSet, IsInjective
<1>3. ASSUME NEW s \in Seq(S), s # << >>
      PROVE  Head(s) \in ToSet(s) /\ s[Len(s)] \in ToSet(s)
  <2>1. 1 \in 1 .. Len(s) /\ Len(s) \in 1 .. Len(s) /\ Head(s) = s[1]
    BY <1>3
  <2>. QED BY <2>1, ListIndices
<1>. QED BY <1>1, <1>2, <1>3

LEMMA AppendToList ==
  ASSUME NEW S, NEW s \in Seq(S), NEW x \in S
  PROVE  /\ Append(s, x) \in Seq(S)
         /\ ToSet(Append(s, x)) = ToSet(s) \cup {x}
         /\ IsInjective(s) /\ x \notin ToSet(s) => IsInjective(Append(s, x))
<1> DEFINE t == Append(s, x)
<1>1. /\ t \in Seq(S) /\ Len(t) = Len(s) + 1
      /\ t[Len(s) + 1] = x
      /\ \A i \in 1 .. Len(s) : t[i] = s[i]
  BY AppendProperties
<1>0. Len(s) \in Nat
  OBVIOUS
<1>. HIDE DEF t
<1>2. ToSet(t) \subseteq ToSet(s) \cup {x}
  BY <1>0, <1>1, ListIndices
<1>3. ToSet(s) \cup {x} \subseteq ToSet(t)
  <2>1. Len(s) + 1 \in 1 .. Len(t) /\ \A i \in 1 .. Len(s) : i \in 1 .. Len(t)
    BY <1>0, <1>1
  <2>2. x \in ToSet(t) /\ \A i \in 1 .. Len(s) : s[i] \in ToSet(t)
    BY <1>1, <2>1, ListIndices
  <2>. QED BY <2>2, ListIndices
<1>4. IsInjective(s) /\ x \notin ToSet(s) => IsInjective(t)
  BY <1>0, <1>1, ListIndices
<1>. QED BY <1>1, <1>2, <1>3, <1>4 DEF t

LEMMA ConcatLists ==
  ASSUME NEW S, NEW s \in Seq(S), NEW t \in Seq(S)
  PROVE  /\ s \o t \in Seq(S)
         /\ ToSet(s \o t) = ToSet(s) \cup ToSet(t)
         /\ IsInjective(s) /\ IsInjective(t) /\ ToSet(s) \cap ToSet(t) = {}
              => IsInjective(s \o t)
<1> DEFINE u == s \o t
<1>1. /\ u \in Seq(S) /\ Len(u) = Len(s) + Len(t)
      /\ \A i \in 1 .. Len(s) + Len(t) : u[i] = IF i <= Len(s) THEN s[i] ELSE t[i - Len(s)]
  BY ConcatProperties
<1>0. Len(s) \in Nat /\ Len(t) \in Nat
  OBVIOUS
<1>. HIDE DEF u
<1>2. ASSUME NEW x \in ToSet(u) PROVE x \in ToSet(s) \cup ToSet(t)
  <2>1. PICK i \in 1 .. Len(u) : u[i] = x
    BY <1>1, ListIndices
  <2>2. CASE i <= Len(s)
    <3>1. i \in 1 .. Len(s) /\ x = s[i]
      BY <1>0, <1>1, <2>1, <2>2
    <3>. QED BY <3>1, ListIndices
  <2>3. CASE i > Len(s)
    <3>1. i - Len(s) \in 1 .. Len(t) /\ x = t[i - Len(s)]
      BY <1>0, <1>1, <2>1, <2>3
    <3>. QED BY <3>1, ListIndices
  <2>. QED BY <1>0, <2>2, <2>3
<1>3. ASSUME NEW i \in 1 .. Len(s) PROVE s[i] = u[i] /\ i \in 1 .. Len(u)
  BY <1>0, <1>1
<1>4. ASSUME NEW i \in 1 .. Len(t) PROVE i + Len(s) \in 1 .. Len(u) /\ t[i] = u[i + Len(s)]
  <2>1. i + Len(s) \in 1 .. Len(s) + Len(t) /\ ~(i + Len(s) <= Len(s)) /\ (i + Len(s)) - Len(s) = i
    BY <1>0
  <2>. QED BY <1>1, <2>1
<1>5. ToSet(s) \subseteq ToSet(u)
  BY <1>1, <1>3, ListIndices
<1>6. ASSUME NEW x \in ToSet(t) PROVE x \in ToSet(u)
  <2>1. PICK i \in 1 .. Len(t) : t[i] = x
    BY ListIndices
  <2>. QED BY <1>1, <1>4, <2>1, ListIndices
<1>7. ASSUME IsInjective(s), IsInjective(t), ToSet(s) \cap ToSet(t) = {}
      PROVE  IsInjective(u)
  <2> SUFFICES ASSUME NEW i \in 1 .. Len(u), NEW j \in 1 .. Len(u), u[i] = u[j]
               PROVE  i = j
    BY <1>1, ListIndices
  <2>1. CASE i <= Len(s) /\ j <= Len(s)
    <3>1. i \in 1 .. Len(s) /\ j \in 1 .. Len(s) /\ s[i] = s[j]
      BY <1>0, <1>1, <2>1
    <3>. QED BY <3>1, <1>7, ListIndices
  <2>2. CASE i > Len(s) /\ j > Len(s)
    <3>1. i - Len(s) \in 1 .. Len(t) /\ j - Len(s) \in 1 .. Len(t) /\ t[i - Len(s)] = t[j - Len(s)]
      BY <1>0, <1>1, <2>2
    <3>2. i - Len(s) = j - Len(s)
      BY <3>1, <1>7, ListIndices
    <3>. QED BY <3>2, <1>0, <1>1
  <2>3. CASE i <= Len(s) /\ j > Len(s)
    <3>1. i \in 1 .. Len(s) /\ j - Len(s) \in 1 .. Len(t) /\ s[i] = t[j - Len(s)]
      BY <1>0, <1>1, <2>3
    <3>. QED BY <3>1, <1>7, ListIndices
  <2>4. CASE i > Len(s) /\ j <= Len(s)
    <3>1. j \in 1 .. Len(s) /\ i - Len(s) \in 1 .. Len(t) /\ s[j] = t[i - Len(s)]
      BY <1>0, <1>1, <2>4
    <3>. QED BY <3>1, <1>7, ListIndices
  <2>. QED BY <1>0, <1>1, <2>1, <2>2, <2>3, <2>4
<1>. QED BY <1>1, <1>2, <1>5, <1>6, <1>7 DEF u

LEMMA SplitInjective ==
  ASSUME NEW S, NEW s \in Seq(S), NEW t \in Seq(S), IsInjective(s \o t)
  PROVE  IsInjective(s) /\ IsInjective(t) /\ ToSet(s) \cap ToSet(t) = {}
<1> DEFINE u == s \o t
<1>1. /\ u \in Seq(S) /\ Len(u) = Len(s) + Len(t)
      /\ \A i \in 1 .. Len(s) + Len(t) : u[i] = IF i <= Len(s) THEN s[i] ELSE t[i - Len(s)]
  BY ConcatProperties
<1>0. Len(s) \in Nat /\ Len(t) \in Nat /\ IsInjective(u)
  OBVIOUS
<1>. HIDE DEF u
<1>2. ASSUME NEW i \in 1 .. Len(s) PROVE s[i] = u[i] /\ i \in 1 .. Len(u)
  BY <1>0, <1>1
<1>3. ASSUME NEW i \in 1 .. Len(t) PROVE i + Len(s) \in 1 .. Len(u) /\ t[i] = u[i + Len(s)]
  <2>1. i + Len(s) \in 1 .. Len(s) + Len(t) /\ ~(i + Len(s) <= Len(s)) /\ (i + Len(s)) - Len(s) = i
    BY <1>0
  <2>. QED BY <1>1, <2>1
<1>4. \A i, j \in 1 .. Len(u) : u[i] = u[j] => i = j
  BY <1>0, <1>1, ListIndices
<1>5. IsInjective(s)
  BY <1>2, <1>4, ListIndices
<1>6. IsInjective(t)
  <2> SUFFICES ASSUME NEW i \in 1 .. Len(t), NEW j \in 1 .. Len(t), t[i] = t[j] PROVE i = j
    BY ListIndices
  <2>1. i + Len(s) = j + Len(s)
    BY <1>3, <1>4
  <2>. QED BY <1>0, <2>1
<1>7. ASSUME NEW x \in ToSet(s), x \in ToSet(t) PROVE FALSE
  <2>1. PICK i \in 1 .. Len(s) : s[i] = x
    BY ListIndices
  <2>2. PICK j \in 1 .. Len(t) : t[j] = x
    BY <1>7, ListIndices
  <2>3. i = j + Len(s)
    BY <1>2, <1>3, <1>4, <2>1, <2>2
  <2>. QED BY <1>0, <2>3
<1>. QED BY <1>5, <1>6, <1>7

LEMMA RemoveFromList ==
  ASSUME NEW S, NEW s \in Seq(S), NEW x, IsInjective(s)
  PROVE  /\ RemoveFirst(s, x) \in Seq(S)
         /\ ToSet(RemoveFirst(s, x)) = ToSet(s) \ {x}
         /\ IsInjective(RemoveFirst(s, x))
<1>0. Len(s) \in Nat
  OBVIOUS
<1>1. CASE x \notin ToSet(s)
  <2>1. ~\E i \in 1 .. Len(s) : s[i] = x
    BY <1>1, ListIndices
  <2>2. RemoveFirst(s, x) = s
    BY <2>1 DEF RemoveFirst
  <2>. QED BY <1>1, <2>2
<1>2. CASE x \in ToSet(s)
  <2>1. PICK k \in 1 .. Len(s) : s[k] = x
    BY <1>2, ListIndices
  <2>2. { i \in 1 .. Len(s) : s[i] = x } = {k}
    BY <2>1, ListIndices
  <2>3. Min({k}) = k
    BY <2>1, <1>0 DEF Min
  <2>4. SelectInSeq(s, LAMBDA v : v = x) = k
    BY <2>2, <2>3 DEF SelectInSeq
  <2> DEFINE a == SubSeq(s, 1, k - 1)
             b == SubSeq(s, k + 1, Len(s))
  <2>5. RemoveFirst(s, x) = a \o b
    BY <2>1, <2>4 DEF RemoveFirst, RemoveAt
  <2>6. /\ a \in Seq(S) /\ Len(a) = k - 1
        /\ \A i \in 1 .. k - 1 : a[i] = s[i]
    BY <1>0, <2>1, SubSeqProperties
  <2>7. /\ b \in Seq(S) /\ Len(b) = Len(s) - k
        /\ \A i \in 1 .. Len(s) - k : b[i] = s[k + i]
    BY <1>0, <2>1, SubSeqProperties
  <2>. HIDE DEF a, b
  <2>8. ASSUME NEW v \in ToSet(a) PROVE \E i \in 1 .. k - 1 : s[i] = v
    BY <2>6, ListIndices
  <2>9. ASSUME NEW v \in ToSet(b) PROVE \E i \in k + 1 .. Len(s) : s[i] = v
    <3>1. PICK i \in 1 .. Len(b) : b[i] = v
      BY <2>7, ListIndices
    <3>2. k + i \in k + 1 .. Len(s) /\ s[k + i] = v
      BY <3>1, <2>7, <2>1, <1>0
    <3>. QED BY <3>2
  <2>10. IsInjective(a)
    BY <1>0, <2>1, <2>6, ListIndices
  <2>11. IsInjective(b)
    <3> SUFFICES ASSUME NEW i \in 1 .. Len(b), NEW j \in 1 .. Len(b), b[i] = b[j]
                 PROVE  i = j
      BY <2>7, ListIndices
    <3>1. k + i \in 1 .. Len(s) /\ k + j \in 1 .. Len(s) /\ s[k + i] = s[k + j]
      BY <1>0, <2>1, <2>7
    <3>2. k + i = k + j
      BY <3>1, ListIndices
    <3>. QED BY <3>2, <1>0, <2>1, <2>7
  <2>12. ToSet(a) \cap ToSet(b) = {}
    <3> SUFFICES ASSUME NEW v \in ToSet(a), v \in ToSet(b) PROVE FALSE
      OBVIOUS
    <3>1. PICK i \in 1 .. k - 1 : s[i] = v
      BY <2>8
    <3>2. PICK j \in k + 1 .. Len(s) : s[j] = v
      BY <2>9
    <3>. QED BY <1>0, <2>1, <3>1, <3>2, ListIndices
  <2>13. ToSet(a) \cup ToSet(b) \subseteq ToSet(s) \ {x}
    <3>1. ASSUME NEW i \in 1 .. Len(s), i # k PROVE s[i] \in ToSet(s) \ {x}
      BY <2>1, <3>1, ListIndices
    <3>2. ToSet(a) \subseteq ToSet(s) \ {x}
      BY <1>0, <2>1, <2>8, <3>1
    <3>3. ToSet(b) \subseteq ToSet(s) \ {x}
      BY <1>0, <2>1, <2>9, <3>1
    <3>. QED BY <3>2, <3>3
  <2>14. ASSUME NEW v \in ToSet(s), v # x PROVE v \in ToSet(a) \cup ToSet(b)
    <3>1. PICK i \in 1 .. Len(s) : s[i] = v
      BY ListIndices
    <3>2. CASE i < k
      <4>1. i \in 1 .. Len(a) /\ a[i] = v
        BY <1>0, <2>1, <2>6, <3>1, <3>2
      <4>. QED BY <4>1, <2>6, ListIndices
    <3>3. CASE i > k
      <4>1. i - k \in 1 .. Len(b) /\ b[i - k] = v
        BY <1>0, <2>1, <2>7, <3>1, <3>3
      <4>. QED BY <4>1, <2>7, ListIndices
    <3>. QED BY <1>0, <2>1, <2>14, <3>1, <3>2, <3>3
  <2>. QED BY <2>5, <2>6, <2>7, <2>10, <2>11, <2>12, <2>13, <2>14, ConcatLists
<1>. QED BY <1>1, <1>2

LEMMA HeadAndTail ==
  ASSUME NEW S, NEW s \in Seq(S), s # << >>, IsInjective(s)
  PROVE  /\ Head(s) = s[1] /\ Tail(s) \in Seq(S) /\ IsInjective(Tail(s))
         /\ ToSet(s) = {s[1]} \cup ToSet(Tail(s)) /\ s[1] \notin ToSet(Tail(s))
<1> DEFINE t == Tail(s)
<1>1. Len(s) \in Nat /\ Len(s) # 0 /\ Head(s) = s[1]
  OBVIOUS
<1>2. t \in Seq(S) /\ Len(t) = Len(s) - 1 /\ \A i \in 1 .. Len(s) - 1 : t[i] = s[i + 1]
  BY HeadTailProperties
<1>. HIDE DEF t
<1>3. ASSUME NEW i \in 1 .. Len(t) PROVE i + 1 \in 1 .. Len(s) /\ i + 1 # 1 /\ t[i] = s[i + 1]
  BY <1>1, <1>2
<1>4. IsInjective(t)
  <2> SUFFICES ASSUME NEW i \in 1 .. Len(t), NEW j \in 1 .. Len(t), t[i] = t[j]
               PROVE  i = j
    BY <1>2, ListIndices
  <2>1. i + 1 = j + 1
    BY <1>3, ListIndices
  <2>. QED BY <1>2, <2>1
<1>5. ToSet(t) \subseteq ToSet(s) \ {s[1]}
  <2> SUFFICES ASSUME NEW x \in ToSet(t) PROVE x \in ToSet(s) /\ x # s[1]
    OBVIOUS
  <2>1. PICK i \in 1 .. Len(t) : t[i] = x
    BY <1>2, ListIndices
  <2>2. 1 \in 1 .. Len(s)
    BY <1>1
  <2>. QED BY <1>3, <2>1, <2>2, ListIndices
<1>6. ToSet(s) \subseteq {s[1]} \cup ToSet(t)
  <2> SUFFICES ASSUME NEW x \in ToSet(s), x # s[1] PROVE x \in ToSet(t)
    OBVIOUS
  <2>1. PICK i \in 1 .. Len(s) : s[i] = x
    BY ListIndices
  <2>2. i - 1 \in 1 .. Len(t) /\ (i - 1) + 1 = i
    BY <1>1, <1>2, <2>1
  <2>3. t[i - 1] = x
    BY <1>2, <2>1, <2>2
  <2>. QED BY <1>2, <2>2, <2>3, ListIndices
<1>7. s[1] \in ToSet(s)
  BY <1>1, ListIndices
<1>. QED BY <1>1, <1>2, <1>4, <1>5, <1>6, <1>7 DEF t

LEMMA LeastIndex ==
  ASSUME NEW I, I \subseteq Nat, I # {}
  PROVE  Min(I) \in I
<1>1. PICK x \in I : \A y \in I : ~ (<<y, x>> \in OpToRel(<, Nat))
  BY NatLessThanWellFounded, WFMin
<1>2. \A y \in I : x <= y
  <2> SUFFICES ASSUME NEW y \in I, y < x PROVE FALSE
    OBVIOUS
  <2>1. <<y, x>> \in OpToRel(<, Nat)
    BY DEF OpToRel
  <2>. QED BY <1>1, <2>1
<1>. QED BY <1>2 DEF Min

LEMMA RemoveTyped ==
  ASSUME NEW S, NEW s \in Seq(S), NEW e
  PROVE  RemoveFirst(s, e) \in Seq(S)
<1>1. ASSUME NEW i \in 1 .. Len(s), s[i] = e PROVE RemoveFirst(s, e) \in Seq(S)
  <2> DEFINE I == { j \in 1 .. Len(s) : s[j] = e }
             k == SelectInSeq(s, LAMBDA v : v = e)
  <2>1. I # {} /\ I \subseteq Nat
    BY <1>1
  <2>2. Min(I) \in I
    BY <2>1, LeastIndex
  <2>5. k = Min(I)
    BY <2>1 DEF SelectInSeq
  <2>6. k \in 1 .. Len(s)
    BY <2>2, <2>5
  <2>3. RemoveFirst(s, e) = SubSeq(s, 1, k - 1) \o SubSeq(s, k + 1, Len(s))
    BY <1>1 DEF RemoveFirst, RemoveAt
  <2>. HIDE DEF k, I
  <2>4. SubSeq(s, 1, k - 1) \in Seq(S) /\ SubSeq(s, k + 1, Len(s)) \in Seq(S)
    BY <2>6, SubSeqProperties
  <2>. QED BY <2>3, <2>4
<1>2. CASE ~\E i \in 1 .. Len(s) : s[i] = e
  BY <1>2 DEF RemoveFirst
<1>. QED BY <1>1, <1>2
=============================================================================
