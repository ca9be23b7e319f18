--------------------------- MODULE SequenceLemmas ---------------------------
(***************************************************************************)
(* Facts on numbers, sets and sequences that several proofs need: least and*)
(* greatest numbers, what removing, inserting and taking the last element  *)
(* do to a sequence, and induction and recursion over numbers.             *)
(***************************************************************************)
EXTENDS Naturals, Sequences, SequencesExt, FiniteSets, FiniteSetsExt,
        FiniteSetTheorems, SequenceTheorems, WellFoundedInduction, TLAPS

\* A set of numbers has a least one: the smaller of two intervals is a proper
\* subset, and that order is well-founded.
LEMMA LeastNumber ==
  ASSUME NEW S \in SUBSET Nat, S # {}
  PROVE  Min(S) \in S /\ \A x \in S : Min(S) <= x
<1> DEFINE T == {0 .. x : x \in S}
<1> DEFINE R == StrictSubsetOrdering(Nat)
<1>1. T \subseteq FiniteSubsetsOf(Nat) /\ T # {}
  <2>1. ASSUME NEW x \in S PROVE 0 .. x \in SUBSET Nat /\ IsFiniteSet(0 .. x)
    <3>1. x \in Int /\ 0 \in Int
      OBVIOUS
    <3>2. IsFiniteSet(0 .. x)
      BY <3>1, FS_Interval
    <3> QED
      BY <3>2
  <2> QED
    BY <2>1 DEF FiniteSubsetsOf
<1>2. IsWellFoundedOn(R, FiniteSubsetsOf(Nat))
  BY FS_StrictSubsetOrderingWellFounded
<1>3. \E I \in T : \A J \in T : ~ (<<J, I>> \in R)
  <2> HIDE DEF T, R
  <2> QED
    BY <1>1, <1>2, WFMin
<1>4. PICK x \in S : \A y \in S : ~ (<<0 .. y, 0 .. x>> \in R)
  <2> HIDE DEF R
  <2> QED
    BY <1>3
<1>5. \A y \in S : x <= y
  <2> HIDE DEF R
  <2> SUFFICES ASSUME NEW y \in S, y < x PROVE FALSE
    <3>1. \A y \in S : y \in Nat /\ x \in Nat
      OBVIOUS
    <3> QED
      BY <3>1
  <2>1. 0 .. y \subseteq 0 .. x /\ x \in 0 .. x /\ x \notin 0 .. y
    OBVIOUS
  <2>2. <<0 .. y, 0 .. x>> \in R
    BY <2>1 DEF R, StrictSubsetOrdering
  <2> QED
    BY <1>4, <2>2
<1> QED
  BY <1>5 DEF Min

\* ... and a greatest one, if it has a bound.
LEMMA GreatestNumber ==
  ASSUME NEW n \in Nat, NEW S \in SUBSET (0 .. n), S # {}
  PROVE  \E x \in S : \A y \in S : y <= x
<1> DEFINE U == {m \in Nat : \A y \in S : y <= m}
<1>1. U \in SUBSET Nat /\ U # {}
  <2>1. n \in U
    OBVIOUS
  <2> QED
    BY <2>1
<1>2. PICK m \in U : \A x \in U : m <= x
  <2> HIDE DEF U
  <2> QED
    BY <1>1, LeastNumber
<1>3. m \in S
  <2> SUFFICES ASSUME m \notin S PROVE FALSE
    OBVIOUS
  <2>1. \A y \in S : y \in Nat /\ y < m
    BY <1>2
  <2>2. m \in Nat /\ m > 0
    <3>1. PICK y \in S : y \in Nat /\ y < m
      BY <2>1
    <3> QED
      BY <1>2, <3>1
  <2>3. m - 1 \in U
    BY <2>1, <2>2
  <2> QED
    BY <1>2, <2>2, <2>3
<1> QED
  BY <1>2, <1>3

\* Removing an element, and inserting one (splice).
LEMMA Removing ==
  ASSUME NEW S, NEW s \in Seq(S), NEW i \in 1 .. Len(s)
  PROVE  /\ RemoveAt(s, i) \in Seq(S) /\ Len(RemoveAt(s, i)) = Len(s) - 1
         /\ \A k \in 1 .. Len(s) - 1 : RemoveAt(s, i)[k] = IF k < i THEN s[k] ELSE s[k + 1]
<1> DEFINE a == SubSeq(s, 1, i - 1)
<1> DEFINE b == SubSeq(s, i + 1, Len(s))
<1> DEFINE c == RemoveAt(s, i)
<1> DEFINE n == Len(s)
<1>1. n \in Nat /\ i \in 1 .. n
  OBVIOUS
<1>2. a \in Seq(S) /\ Len(a) = i - 1 /\ \A k \in 1 .. i - 1 : a[k] = s[k]
  BY <1>1, SubSeqProperties
<1>3. b \in Seq(S) /\ Len(b) = n - i /\ \A k \in 1 .. n - i : b[k] = s[i + k]
  BY <1>1, SubSeqProperties
<1>4. c = a \o b
  BY DEF RemoveAt
<1> HIDE DEF a, b, c, n
<1>5. c \in Seq(S) /\ Len(c) = n - 1
  <2>1. c \in Seq(S) /\ Len(c) = Len(a) + Len(b)
    BY <1>2, <1>3, <1>4, ConcatProperties
  <2> QED
    BY <1>1, <1>2, <1>3, <2>1
<1>6. \A k \in 1 .. n - 1 : c[k] = IF k <= Len(a) THEN a[k] ELSE b[k - Len(a)]
  BY <1>1, <1>2, <1>3, <1>4, ConcatProperties
<1>7. ASSUME NEW k \in 1 .. n - 1, k < i PROVE c[k] = s[k]
  BY <1>1, <1>2, <1>6, <1>7
<1>8. ASSUME NEW k \in 1 .. n - 1, ~ (k < i) PROVE c[k] = s[k + 1]
  <2>1. k - (i - 1) \in 1 .. n - i /\ i + (k - (i - 1)) = k + 1 /\ ~ (k <= i - 1)
    BY <1>1, <1>8
  <2>2. c[k] = b[k - (i - 1)]
    BY <1>2, <1>6, <2>1
  <2> QED
    BY <1>3, <2>1, <2>2
<1> QED
  BY <1>5, <1>7, <1>8 DEF c, n

LEMMA Inserting ==
  ASSUME NEW S, NEW s \in Seq(S), NEW i \in 1 .. Len(s), NEW e \in S
  PROVE  /\ InsertAt(s, i, e) \in Seq(S) /\ Len(InsertAt(s, i, e)) = Len(s) + 1
         /\ \A k \in 1 .. Len(s) + 1 :
              InsertAt(s, i, e)[k] = IF k < i THEN s[k] ELSE IF k = i THEN e ELSE s[k - 1]
<1> DEFINE a == SubSeq(s, 1, i - 1)
<1> DEFINE ae == a \o <<e>>
<1> DEFINE b == SubSeq(s, i, Len(s))
<1> DEFINE c == InsertAt(s, i, e)
<1> DEFINE n == Len(s)
<1>1. n \in Nat /\ i \in 1 .. n
  OBVIOUS
<1>2. a \in Seq(S) /\ Len(a) = i - 1 /\ \A k \in 1 .. i - 1 : a[k] = s[k]
  BY <1>1, SubSeqProperties
<1>3. b \in Seq(S) /\ Len(b) = n - i + 1 /\ \A k \in 1 .. n - i + 1 : b[k] = s[i + k - 1]
  BY <1>1, SubSeqProperties
<1>4. ae \in Seq(S) /\ Len(ae) = i /\ (\A k \in 1 .. i - 1 : ae[k] = s[k]) /\ ae[i] = e
  <2>1. <<e>> \in Seq(S) /\ Len(<<e>>) = 1 /\ <<e>>[1] = e
    OBVIOUS
  <2> HIDE DEF a
  <2>2. ae \in Seq(S) /\ Len(ae) = i
    BY <1>1, <1>2, <2>1, ConcatProperties
  <2>3. \A k \in 1 .. i : ae[k] = IF k <= Len(a) THEN a[k] ELSE <<e>>[k - Len(a)]
    BY <1>1, <1>2, <2>1, ConcatProperties
  <2>4. \A k \in 1 .. i - 1 : ae[k] = s[k]
    <3> HIDE DEF ae
    <3> QED
      BY <1>1, <1>2, <2>3
  <2>5. ae[i] = e
    <3>1. i \in 1 .. i /\ ~ (i <= i - 1) /\ i - (i - 1) = 1
      BY <1>1
    <3> HIDE DEF ae
    <3> QED
      BY <1>2, <2>1, <2>3, <3>1
  <2> QED
    BY <2>2, <2>4, <2>5
<1>5. c = ae \o b
  BY DEF InsertAt
<1> HIDE DEF a, ae, b, c, n
<1>6. c \in Seq(S) /\ Len(c) = n + 1
  <2>1. c \in Seq(S) /\ Len(c) = Len(ae) + Len(b)
    BY <1>3, <1>4, <1>5, ConcatProperties
  <2> QED
    BY <1>1, <1>3, <1>4, <2>1
<1>7. \A k \in 1 .. n + 1 : c[k] = IF k <= Len(ae) THEN ae[k] ELSE b[k - Len(ae)]
  BY <1>1, <1>3, <1>4, <1>5, ConcatProperties
<1>8. ASSUME NEW k \in 1 .. n + 1, k <= i PROVE c[k] = IF k < i THEN s[k] ELSE IF k = i THEN e ELSE s[k - 1]
  BY <1>1, <1>4, <1>7, <1>8
<1>9. ASSUME NEW k \in 1 .. n + 1, ~ (k <= i) PROVE c[k] = s[k - 1]
  <2>1. k - i \in 1 .. n - i + 1 /\ i + (k - i) - 1 = k - 1
    BY <1>1, <1>9
  <2>2. c[k] = b[k - i]
    BY <1>4, <1>7, <1>9
  <2> QED
    BY <1>3, <2>1, <2>2
<1> QED
  BY <1>1, <1>6, <1>8, <1>9 DEF c, n

\* The last element of a sequence, and what is before it.
LEMMA Innermost ==
  ASSUME NEW S, NEW s \in Seq(S), s # << >>
  PROVE  /\ Len(s) \in Nat \ {0} /\ Last(s) = s[Len(s)] /\ Last(s) \in S
         /\ Front(s) \in Seq(S) /\ Len(Front(s)) = Len(s) - 1
         /\ \A k \in 1 .. Len(s) - 1 : Front(s)[k] = s[k]
<1>1. Len(s) \in Nat \ {0} /\ Last(s) = s[Len(s)] /\ Last(s) \in S
  BY DEF Last
<1>2. Len(s) - 1 \in Int /\ 1 \in Int /\ \A k \in 1 .. Len(s) - 1 : s[k] \in S
  BY <1>1
<1>3. /\ Front(s) \in Seq(S)
      /\ Len(Front(s)) = IF 1 <= Len(s) - 1 THEN Len(s) - 1 - 1 + 1 ELSE 0
      /\ \A k \in 1 .. Len(s) - 1 - 1 + 1 : Front(s)[k] = s[1 + k - 1]
  BY <1>2, SubSeqProperties DEF Front
<1>4. Len(s) - 1 - 1 + 1 = Len(s) - 1 /\ (IF 1 <= Len(s) - 1 THEN Len(s) - 1 - 1 + 1 ELSE 0) = Len(s) - 1
  <2>1. PICK n \in Nat \ {0} : n = Len(s)
    BY <1>1
  <2>2. n - 1 - 1 + 1 = n - 1 /\ (1 <= n - 1 \/ n - 1 = 0)
    OBVIOUS
  <2> QED
    BY <2>1, <2>2
<1>5. \A k \in 1 .. Len(s) - 1 : 1 + k - 1 = k
  BY <1>1
<1> QED
  BY <1>1, <1>3, <1>4, <1>5

\* A set of which any two elements are equal.
LEMMA AtMostOne ==
  ASSUME NEW P, \A j, k \in P : j = k
  PROVE  Cardinality(P) = IF P = {} THEN 0 ELSE 1
<1>1. CASE P = {}
  BY <1>1, FS_EmptySet
<1>2. CASE P # {}
  <2>1. PICK k \in P : P = {k}
    BY <1>2
  <2> QED
    BY <1>2, <2>1, FS_Singleton
<1> QED
  BY <1>1, <1>2

-----------------------------------------------------------------------------
(***************************************************************************)
(* Induction and recursion over numbers, with sets and functions in place  *)
(* of predicates and operators.                                            *)
(***************************************************************************)
\* Counting up to n, with a set in place of a predicate.
LEMMA CountingUp ==
  ASSUME NEW n \in Nat, NEW P, 0 \in P, \A k \in 1 .. n : k - 1 \in P => k \in P
  PROVE  \A k \in 0 .. n : k \in P
<1> DEFINE S == {k \in 0 .. n : k \notin P}
<1>1. SUFFICES ASSUME S # {} PROVE FALSE
  OBVIOUS
<1>2. S \in SUBSET Nat
  OBVIOUS
<1>3. Min(S) \in S /\ \A x \in S : Min(S) <= x
  BY <1>1, <1>2, LeastNumber
<1>4. PICK x \in S : \A y \in S : x <= y
  BY <1>3
<1>5. x \in 1 .. n
  BY <1>4
<1>6. x - 1 \in 0 .. n /\ x - 1 \notin S
  BY <1>4, <1>5
<1> QED
  BY <1>4, <1>5, <1>6

\* A finite set of numbers has a greatest one.
LEMMA FiniteIsBounded ==
  ASSUME NEW S \in SUBSET Nat, IsFiniteSet(S), S # {}
  PROVE  Max(S) \in S /\ \A y \in S : Max(S) >= y
<1>1. PICK n \in Nat : ExistsSurjection(1 .. n, S)
  BY FS_NatSurjection
<1>2. PICK f \in Surjection(1 .. n, S) : TRUE
  BY <1>1 DEF ExistsSurjection
<1>3. f \in [1 .. n -> S] /\ \A y \in S : \E k \in 1 .. n : f[k] = y
  BY <1>2 DEF Surjection
<1> DEFINE P == {k \in 0 .. n : \E m \in Nat : \A j \in 1 .. k : f[j] <= m}
<1>4. 0 \in P
  <2>1. \A j \in 1 .. 0 : f[j] <= 0
    OBVIOUS
  <2>2. 0 \in Nat /\ 0 \in 0 .. n
    OBVIOUS
  <2> QED
    BY <2>1, <2>2
<1>5. ASSUME NEW k \in 1 .. n, k - 1 \in P PROVE k \in P
  <2>1. PICK m \in Nat : \A j \in 1 .. k - 1 : f[j] <= m
    BY <1>5
  <2>2. f[k] \in Nat
    BY <1>3
  <2>3. m + f[k] \in Nat /\ \A j \in 1 .. k : j \in 1 .. k - 1 \/ j = k
    BY <2>2
  <2>4. \A j \in 1 .. k - 1 : f[j] \in Nat
    <3>1. \A j \in 1 .. k - 1 : j \in 1 .. n
      OBVIOUS
    <3> QED
      BY <1>3, <3>1
  <2>5. \A j \in 1 .. k : f[j] <= m + f[k]
    BY <2>1, <2>2, <2>3, <2>4
  <2>6. k \in 0 .. n
    OBVIOUS
  <2> QED
    BY <2>3, <2>5, <2>6
<1>6. n \in P
  <2>1. \A k \in 0 .. n : k \in P
    <3> HIDE DEF P
    <3> QED
      BY <1>4, <1>5, CountingUp
  <2>2. n \in 0 .. n
    OBVIOUS
  <2> QED
    BY <2>1, <2>2
<1>7. PICK m \in Nat : \A j \in 1 .. n : f[j] <= m
  BY <1>6
<1>8. S \in SUBSET (0 .. m)
  BY <1>3, <1>7
<1>9. PICK x \in S : \A y \in S : y <= x
  BY <1>8, GreatestNumber
<1>10. x \in S /\ \A y \in S : x >= y
  BY <1>9
<1> QED
  BY <1>10 DEF Max

\* A function that starts with a and goes on by h.
RunsOn(f, n, S, a, h) == f \in [0 .. n -> S] /\ f[0] = a /\ \A k \in 1 .. n : f[k] = h[k][f[k - 1]]

LEMMA RunningOn ==
  ASSUME NEW n \in Nat, NEW S, NEW a \in S, NEW h \in [1 .. n -> [S -> S]]
  PROVE  \E f : RunsOn(f, n, S, a, h)
<1> DEFINE P == {m \in 0 .. n : \E f : RunsOn(f, m, S, a, h)}
<1>1. 0 \in P
  <2> DEFINE f == [k \in 0 .. 0 |-> a]
  <2>1. f \in [0 .. 0 -> S] /\ f[0] = a
    OBVIOUS
  <2> HIDE DEF f
  <2>2. RunsOn(f, 0, S, a, h)
    BY <2>1 DEF RunsOn
  <2>3. 0 \in 0 .. n
    OBVIOUS
  <2> QED
    BY <2>2, <2>3
<1>2. ASSUME NEW m \in 1 .. n, m - 1 \in P PROVE m \in P
  <2>0. PICK f : RunsOn(f, m - 1, S, a, h)
    BY <1>2
  <2>1. f \in [0 .. m - 1 -> S] /\ f[0] = a /\ \A k \in 1 .. m - 1 : f[k] = h[k][f[k - 1]]
    BY <2>0 DEF RunsOn
  <2> DEFINE g == [k \in 0 .. m |-> IF k = m THEN h[m][f[m - 1]] ELSE f[k]]
  <2>2. f[m - 1] \in S /\ h[m][f[m - 1]] \in S
    BY <2>1
  <2>3. g \in [0 .. m -> S]
    BY <2>1, <2>2
  <2>4. g[0] = a
    BY <2>1
  <2>5. ASSUME NEW k \in 1 .. m PROVE g[k] = h[k][g[k - 1]]
    <3>1. k - 1 \in 0 .. m /\ k - 1 # m
      OBVIOUS
    <3>2. g[k - 1] = f[k - 1]
      BY <3>1
    <3>3. CASE k = m
      BY <3>2, <3>3
    <3>4. CASE k # m
      <4>1. k \in 1 .. m - 1
        BY <3>4
      <4>2. g[k] = f[k]
        BY <3>4
      <4> QED
        BY <2>1, <3>2, <4>1, <4>2
    <3> QED
      BY <3>3, <3>4
  <2> HIDE DEF g
  <2>6. RunsOn(g, m, S, a, h)
    BY <2>3, <2>4, <2>5 DEF RunsOn
  <2> QED
    BY <2>6
<1>3. \A m \in 0 .. n : m \in P
  <2> HIDE DEF P
  <2> QED
    BY <1>1, <1>2, CountingUp
<1> QED
  BY <1>3

\* A function of depth that goes on deeper by h, which does not look deeper
\* below the depth m.
GoesDeeper(F, T, h) == F \in [Nat -> T] /\ \A d \in Nat : F[d] = h[d][F[d + 1]]

LEMMA GoingDeeper ==
  ASSUME NEW m \in Nat, NEW T, NEW e \in T, NEW h \in [Nat -> [T -> T]],
         \A d \in Nat : d > m => \A t \in T : h[d][t] = h[d][e]
  PROVE  \E F : GoesDeeper(F, T, h)
<1> DEFINE n == m + 1
<1> DEFINE up == [k \in 1 .. n |-> [t \in T |-> h[n - k][t]]]
<1>1. n \in Nat /\ h[n][e] \in T
  OBVIOUS
<1>2. \A k \in 1 .. n : n - k \in Nat /\ \A t \in T : up[k][t] = h[n - k][t] /\ up[k][t] \in T
  OBVIOUS
<1>3. PICK f \in [0 .. n -> T] : f[0] = h[n][e] /\ \A k \in 1 .. n : f[k] = up[k][f[k - 1]]
  <2>1. PICK b \in T : b = h[n][e]
    BY <1>1
  <2>2. up \in [1 .. n -> [T -> T]]
    BY <1>2
  <2> HIDE DEF up, n
  <2>3. \E f : RunsOn(f, n, T, b, up)
    BY <1>1, <2>2, RunningOn
  <2> QED
    BY <2>1, <2>3 DEF RunsOn
<1> DEFINE F == [d \in Nat |-> IF d > n THEN h[d][e] ELSE f[n - d]]
<1>4. F \in [Nat -> T]
  <2> SUFFICES ASSUME NEW d \in Nat PROVE (IF d > n THEN h[d][e] ELSE f[n - d]) \in T
    OBVIOUS
  <2>1. CASE d > n
    BY <2>1
  <2>2. CASE ~ (d > n)
    <3>1. n - d \in 0 .. n
      BY <2>2
    <3> QED
      BY <1>3, <2>2, <3>1
  <2> QED
    BY <2>1, <2>2
<1>5. ASSUME NEW d \in Nat PROVE F[d] = h[d][F[d + 1]]
  <2>1. d + 1 \in Nat /\ F[d + 1] \in T
    BY <1>4
  <2>2. CASE d > n
    BY <2>1, <2>2
  <2>3. CASE d = n
    <3>1. F[d] = h[d][e]
      BY <1>3, <2>3
    <3> HIDE DEF F
    <3> QED
      BY <2>1, <2>3, <3>1
  <2>4. CASE d < n
    <3>1. n - d \in 1 .. n /\ n - (n - d) = d /\ n - (d + 1) = (n - d) - 1
      BY <2>4
    <3>2. F[d] = f[n - d]
      BY <2>4
    <3>3. F[d + 1] = f[(n - d) - 1]
      BY <2>4, <3>1
    <3>4. f[n - d] = up[n - d][f[(n - d) - 1]]
      BY <1>3, <3>1
    <3>5. up[n - d][F[d + 1]] = h[d][F[d + 1]]
      <4> HIDE DEF up, F
      <4> QED
        BY <1>2, <2>1, <3>1
    <3> HIDE DEF F, up
    <3> QED
      BY <3>2, <3>3, <3>4, <3>5
  <2> QED
    BY <2>2, <2>3, <2>4
<1> HIDE DEF F
<1>6. GoesDeeper(F, T, h)
  BY <1>4, <1>5 DEF GoesDeeper
<1> QED
  BY <1>6
=============================================================================
