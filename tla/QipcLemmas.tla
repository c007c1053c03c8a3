----------------------------- MODULE QipcLemmas -----------------------------
(***************************************************************************)
(* Facts about numbers and sequences that the proofs about Qipc rest on.   *)
(***************************************************************************)
EXTENDS Integers, Sequences, SequencesExt, SequenceTheorems,
        WellFoundedInduction, TLAPS

\* Every nonempty set of natural numbers has a least element.
LEMMA LeastExists ==
    ASSUME NEW S \in SUBSET Nat, S # {}
    PROVE  \E x \in S : \A y \in S : x <= y
<1> DEFINE Less == {ss \in Nat \X Nat : ss[1] < ss[2]}
<1>1. OpToRel(<, Nat) = Less
  BY DEF OpToRel
<1>2. IsWellFoundedOn(Less, Nat)
  BY <1>1, NatLessThanWellFounded
<1> HIDE DEF Less
<1>3. PICK x \in S : \A y \in S : ~(<<y, x>> \in Less)
  BY <1>2, WFMin
<1>4. ASSUME NEW y \in S
      PROVE  x <= y
  <2>1. ~(<<y, x>> \in Less) /\ x \in Nat /\ y \in Nat
    BY <1>3
  <2> QED
    BY <2>1 DEF Less
<1> QED
  BY <1>4

\* Every nonempty set of numbers from 1 to n has a greatest element.
LEMMA GreatestExists ==
    ASSUME NEW n \in Nat, NEW S \in SUBSET (1 .. n), S # {}
    PROVE  \E x \in S : \A y \in S : y <= x
<1> DEFINE T == {k \in Nat : n - k \in S}
<1>1. T # {}
  <2>1. PICK s \in S : TRUE
    OBVIOUS
  <2>2. s \in 1 .. n
    BY <2>1
  <2>3. n - s \in Nat /\ n - (n - s) = s
    BY <2>2, SMT
  <2> QED
    BY <2>1, <2>3
<1>2. PICK k \in T : \A l \in T : k <= l
  BY <1>1, LeastExists
<1>3. n - k \in S
  OBVIOUS
<1>4. ASSUME NEW y \in S
      PROVE  y <= n - k
  <2>1. y \in 1 .. n
    OBVIOUS
  <2>2. n - y \in Nat /\ n - (n - y) = y
    BY <2>1, SMT
  <2>3. n - y \in T
    BY <2>2
  <2> QED
    BY <1>2, <2>1, <2>3, SMT
<1> QED
  BY <1>3, <1>4

\* Min of a nonempty set of natural numbers is its least element.
LEMMA MinProperty ==
    ASSUME NEW S \in SUBSET Nat, S # {}
    PROVE  Min(S) \in S /\ \A y \in S : Min(S) <= y
BY LeastExists DEF Min

\* RemoveAt takes one element out and moves the later ones up.
LEMMA RemoveAtProperties ==
    ASSUME NEW T, NEW s \in Seq(T), NEW i \in 1 .. Len(s)
    PROVE  /\ RemoveAt(s, i) \in Seq(T)
           /\ Len(RemoveAt(s, i)) = Len(s) - 1
           /\ \A k \in 1 .. Len(s) - 1 :
                 RemoveAt(s, i)[k] = IF k < i THEN s[k] ELSE s[k + 1]
<1> DEFINE a == SubSeq(s, 1, i - 1)
           b == SubSeq(s, i + 1, Len(s))
<1>0. Len(s) \in Nat /\ i \in Nat /\ 1 <= i /\ i <= Len(s)
  BY LenProperties
<1>1. /\ a \in Seq(T) /\ Len(a) = i - 1
      /\ \A k \in 1 .. i - 1 : a[k] = s[k]
  <2>1. \A k \in 1 .. i - 1 : s[k] \in T
    BY <1>0, ElementOfSeq
  <2>2. 1 \in Int /\ i - 1 \in Int
    BY <1>0
  <2> HIDE DEF a
  <2>3. /\ a \in Seq(T)
        /\ Len(a) = IF 1 <= i - 1 THEN (i - 1) - 1 + 1 ELSE 0
        /\ \A k \in 1 .. (i - 1) - 1 + 1 : a[k] = s[1 + k - 1]
    BY <2>1, <2>2, SubSeqProperties DEF a
  <2> QED
    BY <1>0, <2>3, SMT
<1>2. /\ b \in Seq(T) /\ Len(b) = Len(s) - i
      /\ \A k \in 1 .. Len(s) - i : b[k] = s[i + k]
  <2>1. \A k \in i + 1 .. Len(s) : s[k] \in T
    BY <1>0, ElementOfSeq
  <2>2. i + 1 \in Int /\ Len(s) \in Int
    BY <1>0
  <2> HIDE DEF b
  <2>3. /\ b \in Seq(T)
        /\ Len(b) = IF i + 1 <= Len(s) THEN Len(s) - (i + 1) + 1 ELSE 0
        /\ \A k \in 1 .. Len(s) - (i + 1) + 1 : b[k] = s[(i + 1) + k - 1]
    BY <2>1, <2>2, SubSeqProperties DEF b
  <2> QED
    BY <1>0, <2>3, SMT
<1> HIDE DEF a, b
<1>3. RemoveAt(s, i) = a \o b
  BY DEF RemoveAt, a, b
<1>4. /\ a \o b \in Seq(T) /\ Len(a \o b) = Len(a) + Len(b)
      /\ \A k \in 1 .. Len(a) + Len(b) :
            (a \o b)[k] = IF k <= Len(a) THEN a[k] ELSE b[k - Len(a)]
  BY <1>1, <1>2, ConcatProperties
<1>5. ASSUME NEW k \in 1 .. Len(s) - 1
      PROVE  (a \o b)[k] = IF k < i THEN s[k] ELSE s[k + 1]
  <2>1. CASE k < i
    <3>1. k \in 1 .. Len(a) + Len(b) /\ k <= Len(a) /\ k \in 1 .. i - 1
      BY <1>0, <1>1, <1>2, <2>1, SMT
    <3> QED
      BY <1>1, <1>4, <2>1, <3>1
  <2>2. CASE ~(k < i)
    <3>1. /\ k \in 1 .. Len(a) + Len(b) /\ ~(k <= Len(a))
          /\ k - Len(a) \in 1 .. Len(s) - i /\ i + (k - Len(a)) = k + 1
      BY <1>0, <1>1, <1>2, <2>2, SMT
    <3> QED
      BY <1>2, <1>4, <2>2, <3>1
  <2> QED
    BY <2>1, <2>2
<1> QED
  BY <1>0, <1>1, <1>2, <1>3, <1>4, <1>5, SMT


-----------------------------------------------------------------------------
(* Induction over the turns of a loop, with a set for the induction        *)
(* hypothesis, and the existence of the loop's run.                        *)

LEMMA TurnInduction ==
    ASSUME NEW n \in Nat, NEW P, 0 \in P,
           \A i \in 1 .. n : i - 1 \in P => i \in P
    PROVE  n \in P
<1> DEFINE Missing == {i \in 0 .. n : i \notin P}
<1> SUFFICES ASSUME n \notin P PROVE FALSE
  OBVIOUS
<1>1. Missing \in SUBSET Nat /\ Missing # {}
  OBVIOUS
<1>2. PICK i \in Missing : \A j \in Missing : i <= j
  BY <1>1, LeastExists
<1>3. i \in 1 .. n
  <2>1. i \in 0 .. n /\ i \notin P
    OBVIOUS
  <2>2. i # 0
    BY <2>1
  <2> QED
    BY <2>1, <2>2, SMT
<1>4. i - 1 \notin P
  BY <1>3
<1>5. i - 1 \in 0 .. n
  BY <1>3, SMT
<1>6. i <= i - 1
  BY <1>2, <1>4, <1>5
<1> QED
  BY <1>3, <1>6, SMT

\* f is the run of a loop of n turns from b, whose i-th turn is g[i].
IsRun(f, S, n, b, g) ==
    /\ f \in [0 .. n -> S]
    /\ f[0] = b
    /\ \A i \in 1 .. n : f[i] = g[i][f[i - 1]]

\* A loop whose turns map states of S to states of S has a run.
LEMMA RunExists ==
    ASSUME NEW S, NEW n \in Nat, NEW b \in S, NEW g \in [1 .. n -> [S -> S]]
    PROVE  \E f : IsRun(f, S, n, b, g)
<1> DEFINE P == {k \in 0 .. n : \E f : IsRun(f, S, k, b, g)}
<1>1. 0 \in P
  <2>1. IsRun([i \in 0 .. 0 |-> b], S, 0, b, g)
    BY DEF IsRun
  <2>2. 0 \in 0 .. n
    OBVIOUS
  <2> QED
    BY <2>1, <2>2
<1>2. ASSUME NEW k \in 1 .. n, k - 1 \in P
      PROVE  k \in P
  <2>1. PICK f : IsRun(f, S, k - 1, b, g)
    BY <1>2
  <2> DEFINE h == [i \in 0 .. k |-> IF i = k THEN g[k][f[k - 1]] ELSE f[i]]
  <2>2. h \in [0 .. k -> S]
    <3>1. ASSUME NEW i \in 0 .. k, i # k
          PROVE  f[i] \in S
      <4>1. i \in 0 .. k - 1
        BY <3>1, SMT
      <4> QED
        BY <2>1, <4>1 DEF IsRun
    <3>2. f[k - 1] \in S
      BY <2>1 DEF IsRun
    <3> QED
      BY <3>1, <3>2
  <2>3. h[0] = b
    BY <2>1 DEF IsRun
  <2>4. ASSUME NEW i \in 1 .. k
        PROVE  h[i] = g[i][h[i - 1]]
    <3>1. i - 1 \in 0 .. k /\ i - 1 # k /\ i \in 0 .. k
      BY SMT
    <3>2. h[i - 1] = f[i - 1]
      BY <3>1
    <3>3. CASE i = k
      BY <3>1, <3>2, <3>3
    <3>4. CASE i # k
      <4>1. i \in 1 .. k - 1
        BY <3>4, SMT
      <4>2. h[i] = f[i]
        BY <3>1, <3>4
      <4> QED
        BY <2>1, <3>2, <4>1, <4>2 DEF IsRun
    <3> QED
      BY <3>3, <3>4
  <2> HIDE DEF h
  <2>5. IsRun(h, S, k, b, g)
    BY <2>2, <2>3, <2>4 DEF IsRun
  <2>6. k \in 0 .. n
    OBVIOUS
  <2> QED
    BY <2>5, <2>6
<1> HIDE DEF P
<1>3. n \in P
  BY <1>1, <1>2, TurnInduction
<1> QED
  BY <1>3 DEF P

\* Whatever function satisfies a loop's recursive equation stays in S.
LEMMA LoopStays ==
    ASSUME NEW S, NEW n \in Nat, NEW b \in S, NEW g \in [1 .. n -> [S -> S]],
           NEW acc,
           acc[0] = b,
           \A i \in 1 .. n : acc[i - 1] \in S => acc[i] = g[i][acc[i - 1]]
    PROVE  acc[n] \in S
<1> DEFINE P == {i \in 0 .. n : acc[i] \in S}
<1>1. 0 \in P
  OBVIOUS
<1>2. ASSUME NEW i \in 1 .. n, i - 1 \in P
      PROVE  i \in P
  BY <1>2
<1> HIDE DEF P
<1>3. n \in P
  BY <1>1, <1>2, TurnInduction
<1> QED
  BY <1>3 DEF P

=============================================================================
