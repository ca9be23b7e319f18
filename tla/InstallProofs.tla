--------------------------- MODULE InstallProofs ---------------------------
(***************************************************************************)
(* Proofs about the package manager.  package.json, the lockfile and       *)
(* node_modules tell the same story after every npm command that ran alone,*)
(* for any packages, versions, commands, kills and failures: a command that*)
(* runs alone finds and leaves the files as nobody else writes them.  And a*)
(* plan of the resolver, for any registry and in whatever order it answers,*)
(* is final when it is handed out, and leaves nothing out.  Versions are   *)
(* totally ordered, and a comparator of a range allows an interval of them.*)
(***************************************************************************)
EXTENDS Install, Resolver, VersionRanges, SequenceLemmas

(***************************************************************************)
(* Versions and ranges.                                                    *)
(***************************************************************************)
\* The first place where two sequences differ.
LEMMA DifferIs ==
  ASSUME NEW S, NEW a \in Seq(S), NEW b \in Seq(S)
  PROVE  LET k == SV!Differ(a, b)
             len == IF Len(a) < Len(b) THEN Len(a) ELSE Len(b) IN
         /\ k \in 1 .. len + 1
         /\ \A j \in 1 .. k - 1 : a[j] = b[j]
         /\ k <= len => a[k] # b[k]
<1> DEFINE len == IF Len(a) < Len(b) THEN Len(a) ELSE Len(b)
<1> DEFINE there == {i \in 1 .. len : a[i] # b[i]}
<1> DEFINE k == SV!Differ(a, b)
<1>1. len \in Nat /\ there \in SUBSET Nat
  OBVIOUS
<1>2. k = IF there = {} THEN len + 1 ELSE CHOOSE i \in there : \A j \in there : i <= j
  BY DEF SV!Differ
<1> SUFFICES k \in 1 .. len + 1 /\ (\A j \in 1 .. k - 1 : a[j] = b[j]) /\ (k <= len => a[k] # b[k])
  OBVIOUS
<1> HIDE DEF len, k
<1>0. len \in Nat /\ \A i \in 1 .. len : i \in Nat /\ (i \in there <=> a[i] # b[i])
  BY <1>1
<1>3. CASE there = {}
  <2> HIDE DEF there
  <2>1. k = len + 1
    BY <1>2, <1>3
  <2>2. \A i \in 1 .. len : a[i] = b[i]
    BY <1>0, <1>3
  <2> QED
    BY <1>0, <2>1, <2>2
<1>4. CASE there # {}
  <2>1. \E i \in there : \A j \in there : i <= j
    <3> HIDE DEF there
    <3>1. Min(there) \in there /\ \A j \in there : Min(there) <= j
      BY <1>1, <1>4, LeastNumber
    <3> QED
      BY <3>1
  <2>2. k \in there /\ \A j \in there : k <= j
    <3> HIDE DEF there
    <3> QED
      BY <1>2, <1>4, <2>1
  <2>3. k \in 1 .. len /\ a[k] # b[k]
    BY <2>2
  <2>4. \A j \in 1 .. k - 1 : j \in 1 .. len /\ ~ (k <= j)
    BY <1>0, <2>3
  <2>5. \A j \in 1 .. k - 1 : a[j] = b[j]
    <3> HIDE DEF there
    <3> QED
      BY <1>0, <2>2, <2>4
  <2> QED
    BY <1>0, <2>3, <2>5
<1> QED
  BY <1>3, <1>4

\* It is the only such place.
LEMMA DifferOnly ==
  ASSUME NEW S, NEW a \in Seq(S), NEW b \in Seq(S), NEW k \in Nat \ {0},
         k <= Len(a) + 1, k <= Len(b) + 1, \A j \in 1 .. k - 1 : a[j] = b[j],
         k <= Len(a) /\ k <= Len(b) => a[k] # b[k]
  PROVE  SV!Differ(a, b) = k
<1> DEFINE d == SV!Differ(a, b)
<1> DEFINE len == IF Len(a) < Len(b) THEN Len(a) ELSE Len(b)
<1>1. /\ d \in 1 .. len + 1
      /\ \A j \in 1 .. d - 1 : a[j] = b[j]
      /\ d <= len => a[d] # b[d]
  BY DifferIs
<1>2. len \in Nat /\ k \in 1 .. len + 1 /\ (k <= len => a[k] # b[k])
  OBVIOUS
<1> HIDE DEF d, len
<1>3. ~ (d < k)
  <2>1. d < k => d \in 1 .. k - 1 /\ d <= len
    BY <1>1, <1>2
  <2> QED
    BY <1>1, <2>1
<1>4. ~ (k < d)
  <2>1. k < d => k \in 1 .. d - 1 /\ k <= len
    BY <1>1, <1>2
  <2> QED
    BY <1>1, <1>2, <2>1
<1> QED
  BY <1>1, <1>2, <1>3, <1>4 DEF d

\* Identifiers are ordered: numbers first, each kind by its rank.
LEMMA IdsAreOrdered ==
  ASSUME NEW a \in Ids, NEW b \in Ids
  PROVE  /\ SV!CompareIds(a, b) \in -1 .. 1
         /\ SV!CompareIds(a, b) = - SV!CompareIds(b, a)
         /\ SV!CompareIds(a, b) = 0 => a = b
         /\ SV!CompareIds(a, b) < 0 <=> \/ a.numeric /\ ~ b.numeric
                                        \/ a.numeric = b.numeric /\ a.rank < b.rank
BY DEF SV!CompareIds, SV!Sign, Ids

IdBefore(a, b) == SV!CompareIds(a, b) < 0

LEMMA IdsGoOn ==
  ASSUME NEW a \in Ids, NEW b \in Ids, NEW c \in Ids, IdBefore(a, b), IdBefore(b, c)
  PROVE  IdBefore(a, c)
BY IdsAreOrdered DEF IdBefore, Ids

\* Prerelease a comes before b: with the same identifiers up to a place, where b goes
\* on and a has ended or has a smaller one; any comes before none.
BeforeAt(a, b, k) ==
  /\ k <= Len(a) + 1 /\ k <= Len(b)
  /\ \A j \in 1 .. k - 1 : a[j] = b[j]
  /\ k <= Len(a) => IdBefore(a[k], b[k])
PreBefore(a, b) ==
  a # << >> /\ (b = << >> \/ \E k \in Nat \ {0} : BeforeAt(a, b, k))

LEMMA PreIs ==
  ASSUME NEW a \in Seq(Ids), NEW b \in Seq(Ids)
  PROVE  /\ SV!ComparePre(a, b) \in -1 .. 1
         /\ SV!ComparePre(a, b) = - SV!ComparePre(b, a)
         /\ SV!ComparePre(a, b) = 0 => a = b
         /\ SV!ComparePre(a, b) < 0 <=> PreBefore(a, b)
<1>1. CASE a = << >> \/ b = << >>
  <2>1. SV!ComparePre(a, b) = IF a = << >> THEN IF b = << >> THEN 0 ELSE 1 ELSE -1
    BY <1>1 DEF SV!ComparePre
  <2>2. SV!ComparePre(b, a) = IF b = << >> THEN IF a = << >> THEN 0 ELSE 1 ELSE -1
    BY <1>1 DEF SV!ComparePre
  <2> QED
    BY <1>1, <2>1, <2>2 DEF PreBefore
<1>2. CASE a # << >> /\ b # << >>
  <2> DEFINE k == SV!Differ(a, b)
  <2> DEFINE m == Len(a)
  <2> DEFINE n == Len(b)
  <2>1. /\ k \in Nat \ {0} /\ m \in Nat /\ n \in Nat /\ k <= m + 1 /\ k <= n + 1
        /\ k = m + 1 \/ k = n + 1 \/ (k <= m /\ k <= n)
        /\ \A j \in 1 .. k - 1 : a[j] = b[j]
        /\ k <= m /\ k <= n => a[k] # b[k]
    BY DifferIs
  <2>2. SV!Differ(b, a) = k
    <3> HIDE DEF k
    <3> QED
      BY <2>1, DifferOnly
  <2>3. /\ SV!ComparePre(a, b) = IF k <= m /\ k <= n THEN SV!CompareIds(a[k], b[k]) ELSE SV!Sign(m - n)
        /\ SV!ComparePre(b, a) = IF k <= n /\ k <= m THEN SV!CompareIds(b[k], a[k]) ELSE SV!Sign(n - m)
    BY <1>2, <2>2 DEF SV!ComparePre
  <2> HIDE DEF k
  <2>4. k <= m /\ k <= n => a[k] \in Ids /\ b[k] \in Ids
    BY <2>1
  <2>5. /\ SV!Sign(m - n) \in -1 .. 1 /\ SV!Sign(m - n) = - SV!Sign(n - m)
        /\ SV!Sign(m - n) = 0 <=> m = n
        /\ SV!Sign(m - n) < 0 <=> m < n
    BY <2>1 DEF SV!Sign
  <2>6. SV!ComparePre(a, b) \in -1 .. 1 /\ SV!ComparePre(a, b) = - SV!ComparePre(b, a)
    <3>1. CASE k <= m /\ k <= n
      BY <2>3, <2>4, <3>1, IdsAreOrdered
    <3>2. CASE ~ (k <= m /\ k <= n)
      BY <2>1, <2>3, <2>5, <3>2
    <3> QED
      BY <3>1, <3>2
  <2>7. ASSUME SV!ComparePre(a, b) = 0 PROVE a = b
    <3>1. ~ (k <= m /\ k <= n)
      BY <2>1, <2>3, <2>4, <2>7, IdsAreOrdered
    <3>2. m = n
      BY <2>3, <2>5, <2>7, <3>1
    <3>3. \A j \in 1 .. m : a[j] = b[j]
      BY <2>1, <3>1, <3>2
    <3> QED
      BY <3>2, <3>3
  <2>8. ASSUME SV!ComparePre(a, b) < 0 PROVE PreBefore(a, b)
    <3>1. BeforeAt(a, b, k)
      <4>1. CASE k <= m /\ k <= n
        BY <2>1, <2>3, <2>8, <4>1 DEF BeforeAt, IdBefore
      <4>2. CASE ~ (k <= m /\ k <= n)
        <5>1. m < n
          BY <2>3, <2>5, <2>8, <4>2
        <5> QED
          BY <2>1, <4>2, <5>1 DEF BeforeAt
      <4> QED
        BY <4>1, <4>2
    <3> QED
      BY <1>2, <2>1, <3>1 DEF PreBefore
  <2>9. ASSUME PreBefore(a, b) PROVE SV!ComparePre(a, b) < 0
    <3>1. PICK i \in Nat \ {0} : BeforeAt(a, b, i)
      BY <1>2, <2>9 DEF PreBefore
    <3>2. i <= m + 1 /\ i <= n /\ (\A j \in 1 .. i - 1 : a[j] = b[j]) /\ (i <= m => IdBefore(a[i], b[i]))
      BY <3>1 DEF BeforeAt
    <3>3. i <= m => a[i] # b[i]
      <4>1. i <= m => a[i] \in Ids /\ b[i] \in Ids
        BY <2>1, <3>2
      <4> QED
        BY <3>2, <4>1, IdsAreOrdered DEF IdBefore
    <3>4. i = k
      <4>1. i <= n + 1
        BY <2>1, <3>2
      <4> QED
        BY <3>2, <3>3, <4>1, DifferOnly DEF k
    <3>5. CASE k <= m
      BY <2>3, <3>2, <3>4, <3>5 DEF IdBefore
    <3>6. CASE ~ (k <= m)
      BY <2>1, <2>3, <2>5, <3>2, <3>4, <3>6
    <3> QED
      BY <3>5, <3>6
  <2> QED
    BY <2>6, <2>7, <2>8, <2>9
<1> QED
  BY <1>1, <1>2

LEMMA PreGoesOn ==
  ASSUME NEW a \in Seq(Ids), NEW b \in Seq(Ids), NEW c \in Seq(Ids), PreBefore(a, b), PreBefore(b, c)
  PROVE  PreBefore(a, c)
<1>1. CASE c = << >>
  BY <1>1 DEF PreBefore
<1>2. CASE c # << >>
  <2>1. a # << >> /\ b # << >>
    BY DEF PreBefore
  <2>2. PICK i \in Nat \ {0} : BeforeAt(a, b, i)
    BY <2>1 DEF PreBefore
  <2>3. PICK k \in Nat \ {0} : BeforeAt(b, c, k)
    BY <1>2 DEF PreBefore
  <2>4. Len(a) \in Nat /\ Len(b) \in Nat /\ Len(c) \in Nat
    OBVIOUS
  <2>5. /\ i <= Len(a) + 1 /\ i <= Len(b)
        /\ \A j \in 1 .. i - 1 : a[j] = b[j]
        /\ i <= Len(a) => IdBefore(a[i], b[i])
    BY <2>2 DEF BeforeAt
  <2>6. /\ k <= Len(b) + 1 /\ k <= Len(c)
        /\ \A j \in 1 .. k - 1 : b[j] = c[j]
        /\ k <= Len(b) => IdBefore(b[k], c[k])
    BY <2>3 DEF BeforeAt
  <2>7. CASE i < k
    <3>1. b[i] = c[i] /\ \A j \in 1 .. i - 1 : a[j] = c[j]
      BY <2>4, <2>5, <2>6, <2>7
    <3>2. BeforeAt(a, c, i)
      BY <2>4, <2>5, <2>6, <2>7, <3>1 DEF BeforeAt
    <3> QED
      BY <2>1, <3>2 DEF PreBefore
  <2>8. CASE k < i
    <3>1. a[k] = b[k] /\ \A j \in 1 .. k - 1 : a[j] = c[j]
      BY <2>4, <2>5, <2>6, <2>8
    <3>2. BeforeAt(a, c, k)
      BY <2>4, <2>5, <2>6, <2>8, <3>1 DEF BeforeAt
    <3> QED
      BY <2>1, <3>2 DEF PreBefore
  <2>9. CASE i = k
    <3>1. \A j \in 1 .. i - 1 : a[j] = c[j]
      BY <2>5, <2>6, <2>9
    <3>2. i <= Len(a) => IdBefore(a[i], c[i])
      <4>1. i <= Len(a) => a[i] \in Ids /\ b[i] \in Ids /\ c[i] \in Ids
        BY <2>4, <2>5, <2>6, <2>9
      <4> QED
        BY <2>5, <2>6, <2>9, <4>1, IdsGoOn
    <3>3. BeforeAt(a, c, i)
      BY <2>4, <2>5, <2>6, <2>9, <3>1, <3>2 DEF BeforeAt
    <3> QED
      BY <2>1, <3>3 DEF PreBefore
  <2> QED
    BY <2>7, <2>8, <2>9
<1> QED
  BY <1>1, <1>2

\* compareParsed, number by number.
LEMMA CompareIs ==
  ASSUME NEW v \in VersionType, NEW w \in VersionType
  PROVE  /\ \A k \in 1 .. 3 : v.n[k] \in Nat /\ w.n[k] \in Nat
         /\ SV!Compare(v, w) = IF v.n[1] # w.n[1] THEN SV!Sign(v.n[1] - w.n[1])
                               ELSE IF v.n[2] # w.n[2] THEN SV!Sign(v.n[2] - w.n[2])
                               ELSE IF v.n[3] # w.n[3] THEN SV!Sign(v.n[3] - w.n[3])
                               ELSE SV!ComparePre(v.pre, w.pre)
<1> DEFINE k == SV!Differ(v.n, w.n)
<1>1. v.n \in Seq(Nat) /\ w.n \in Seq(Nat) /\ Len(v.n) = 3 /\ Len(w.n) = 3
  BY DEF VersionType
<1>2. \A i \in 1 .. 3 : v.n[i] \in Nat /\ w.n[i] \in Nat
  BY <1>1
<1>3. k \in 1 .. 4 /\ (\A j \in 1 .. k - 1 : v.n[j] = w.n[j]) /\ (k <= 3 => v.n[k] # w.n[k])
  <2>1. LET len == IF Len(v.n) < Len(w.n) THEN Len(v.n) ELSE Len(w.n) IN
        k \in 1 .. len + 1 /\ (\A j \in 1 .. k - 1 : v.n[j] = w.n[j]) /\ (k <= len => v.n[k] # w.n[k])
    <3> DEFINE f == v.n
    <3> DEFINE g == w.n
    <3>1. f \in Seq(Nat) /\ g \in Seq(Nat)
      BY <1>1
    <3> HIDE DEF f, g
    <3>2. LET d == SV!Differ(f, g)
              len == IF Len(f) < Len(g) THEN Len(f) ELSE Len(g) IN
          d \in 1 .. len + 1 /\ (\A j \in 1 .. d - 1 : f[j] = g[j]) /\ (d <= len => f[d] # g[d])
      BY <3>1, DifferIs
    <3> QED
      BY <3>2 DEF f, g
  <2> HIDE DEF k
  <2> QED
    BY <1>1, <2>1
<1>4. SV!Compare(v, w) = IF k <= 3 THEN SV!Sign(v.n[k] - w.n[k]) ELSE SV!ComparePre(v.pre, w.pre)
  BY DEF SV!Compare
<1> HIDE DEF k
<1>5. k = 1 \/ k = 2 \/ k = 3 \/ k = 4
  BY <1>3
<1>6. CASE k = 1
  <2>1. v.n[1] # w.n[1]
    BY <1>3, <1>6
  <2> QED
    BY <1>4, <1>6, <2>1, <1>2
<1>7. CASE k = 2
  <2>1. v.n[1] = w.n[1] /\ v.n[2] # w.n[2]
    BY <1>3, <1>7
  <2> QED
    BY <1>4, <1>7, <2>1, <1>2
<1>8. CASE k = 3
  <2>1. v.n[1] = w.n[1] /\ v.n[2] = w.n[2] /\ v.n[3] # w.n[3]
    BY <1>3, <1>8
  <2> QED
    BY <1>4, <1>8, <2>1, <1>2
<1>9. CASE k = 4
  <2>1. v.n[1] = w.n[1] /\ v.n[2] = w.n[2] /\ v.n[3] = w.n[3]
    BY <1>3, <1>9
  <2> QED
    BY <1>4, <1>9, <2>1, <1>2
<1> QED
  BY <1>2, <1>5, <1>6, <1>7, <1>8, <1>9

\* Versions are totally ordered.
LEMMA VersionsAreOrdered ==
  ASSUME NEW u \in VersionType, NEW v \in VersionType, NEW w \in VersionType
  PROVE  /\ SV!Compare(v, u) \in -1 .. 1
         /\ SV!Compare(v, u) = - SV!Compare(u, v)
         /\ SV!Compare(v, u) = 0 => u = v
         /\ SV!Compare(v, u) < 0 /\ SV!Compare(u, w) < 0 => SV!Compare(v, w) < 0
<1>1. /\ u.pre \in Seq(Ids) /\ v.pre \in Seq(Ids) /\ w.pre \in Seq(Ids)
      /\ u.n \in Seq(Nat) /\ v.n \in Seq(Nat) /\ Len(u.n) = 3 /\ Len(v.n) = 3
  BY DEF VersionType
<1>2. \A i \in 1 .. 3 : u.n[i] \in Nat /\ v.n[i] \in Nat /\ w.n[i] \in Nat
  BY CompareIs
<1> DEFINE p(a, b) == SV!ComparePre(a, b)
<1>3. /\ p(v.pre, u.pre) \in -1 .. 1 /\ p(v.pre, u.pre) = - p(u.pre, v.pre)
      /\ p(v.pre, u.pre) = 0 => v.pre = u.pre
  BY <1>1, PreIs
<1>4. p(v.pre, u.pre) < 0 /\ p(u.pre, w.pre) < 0 => p(v.pre, w.pre) < 0
  BY <1>1, PreIs, PreGoesOn
<1> DEFINE q(a, b) == IF a.n[1] # b.n[1] THEN SV!Sign(a.n[1] - b.n[1])
                      ELSE IF a.n[2] # b.n[2] THEN SV!Sign(a.n[2] - b.n[2])
                      ELSE IF a.n[3] # b.n[3] THEN SV!Sign(a.n[3] - b.n[3])
                      ELSE p(a.pre, b.pre)
<1>5. /\ SV!Compare(v, u) = q(v, u) /\ SV!Compare(u, v) = q(u, v)
      /\ SV!Compare(u, w) = q(u, w) /\ SV!Compare(v, w) = q(v, w)
  BY CompareIs
<1> HIDE DEF p
<1>6. q(v, u) \in -1 .. 1 /\ q(v, u) = - q(u, v)
  BY <1>2, <1>3 DEF SV!Sign
<1>7. ASSUME q(v, u) = 0 PROVE u = v
  <2>1. u.n[1] = v.n[1] /\ u.n[2] = v.n[2] /\ u.n[3] = v.n[3] /\ p(v.pre, u.pre) = 0
    BY <1>2, <1>7 DEF SV!Sign
  <2>2. \A i \in 1 .. 3 : u.n[i] = v.n[i]
    <3>1. \A i \in 1 .. 3 : i = 1 \/ i = 2 \/ i = 3
      OBVIOUS
    <3> QED
      BY <2>1, <3>1
  <2>3. u.n = v.n
    <3> DEFINE f == u.n
    <3> DEFINE g == v.n
    <3>1. f \in Seq(Nat) /\ g \in Seq(Nat) /\ Len(f) = 3 /\ Len(g) = 3 /\ \A i \in 1 .. 3 : f[i] = g[i]
      BY <1>1, <2>2
    <3> HIDE DEF f, g
    <3>2. f = g
      BY <3>1
    <3> QED
      BY <3>2 DEF f, g
  <2>4. u.pre = v.pre
    BY <1>3, <2>1 DEF p
  <2>5. u = [n |-> u.n, pre |-> u.pre] /\ v = [n |-> v.n, pre |-> v.pre]
    BY DEF VersionType
  <2> QED
    BY <2>3, <2>4, <2>5
<1>8. q(v, u) < 0 /\ q(u, w) < 0 => q(v, w) < 0
  BY <1>2, <1>4 DEF SV!Sign
<1> QED
  BY <1>5, <1>6, <1>7, <1>8

\* maxSatisfying, after the first k versions of the list.
Fits(v, range) == SV!Satisfies(v, range)
IsBest(x, list, range, k) ==
  IF \E j \in 1 .. k : Fits(list[j], range)
  THEN /\ \E j \in 1 .. k : x = list[j] /\ Fits(list[j], range)
       /\ \A j \in 1 .. k : Fits(list[j], range) => SV!Compare(list[j], x) <= 0
  ELSE x = SV!None

LEMMA BestGoesOn ==
  ASSUME NEW list \in Seq(VersionType), NEW range, NEW k \in 1 .. Len(list), NEW x,
         IsBest(x, list, range, k - 1)
  PROVE  IsBest(IF Fits(list[k], range) /\ (x = SV!None \/ SV!Better(list[k], x)) THEN list[k] ELSE x,
                list, range, k)
<1> DEFINE v == list[k]
<1> DEFINE fits(j) == Fits(list[j], range)
<1>1. k \in Nat \ {0} /\ v \in VersionType /\ \A j \in 1 .. k : list[j] \in VersionType
  OBVIOUS
<1>2. \A j : j \in 1 .. k <=> j \in 1 .. k - 1 \/ j = k
  BY <1>1
<1>3. \A u \in VersionType : u # SV!None
  <2>1. Len(SV!None.n) = 0
    BY DEF SV!None
  <2>2. \A u \in VersionType : Len(u.n) = 3
    BY DEF VersionType
  <2>3. ASSUME NEW u \in VersionType, u = SV!None PROVE FALSE
    <3>1. u.n = SV!None.n
      BY <2>3
    <3>2. Len(u.n) = 0
      BY <2>1, <3>1
    <3>3. Len(u.n) = 3 /\ 0 # 3
      BY <2>2
    <3> QED
      BY <3>2, <3>3, Zenon
  <2> QED
    BY <2>3
<1>4. SV!Compare(v, v) = 0
  <2>1. SV!Compare(v, v) \in -1 .. 1 /\ SV!Compare(v, v) = - SV!Compare(v, v)
    BY <1>1, VersionsAreOrdered
  <2> QED
    BY <2>1
<1>5. CASE ~ fits(k)
  <2>1. IsBest(x, list, range, k)
    <3> HIDE DEF v
    <3> QED
      BY <1>2, <1>5 DEF IsBest
  <2> QED
    BY <1>5, <2>1
<1>6. CASE fits(k) /\ \A j \in 1 .. k - 1 : ~ fits(j)
  <2>1. x = SV!None
    BY <1>6 DEF IsBest
  <2>2. IsBest(v, list, range, k)
    <3>1. \A j \in 1 .. k : fits(j) => j = k
      BY <1>2, <1>6
    <3>2. k \in 1 .. k
      BY <1>1
    <3> QED
      BY <1>4, <1>6, <3>1, <3>2 DEF IsBest
  <2> QED
    BY <1>6, <2>1, <2>2
<1>7. CASE fits(k) /\ \E j \in 1 .. k - 1 : fits(j)
  <2>1. /\ \E j \in 1 .. k - 1 : x = list[j] /\ fits(j)
        /\ \A j \in 1 .. k - 1 : fits(j) => SV!Compare(list[j], x) <= 0
    BY <1>7 DEF IsBest
  <2>2. x \in VersionType
    BY <1>1, <1>2, <2>1
  <2>3. x # SV!None /\ k \in 1 .. k
    BY <1>1, <1>3, <2>2
  <2>4. SV!Compare(v, x) \in -1 .. 1 /\ SV!Compare(v, x) = - SV!Compare(x, v) /\ SV!Compare(x, v) \in -1 .. 1
    BY <1>1, <2>2, VersionsAreOrdered
  <2>5. CASE SV!Better(v, x)
    <3>1. SV!Compare(x, v) < 0
      BY <2>4, <2>5 DEF SV!Better
    <3>2. ASSUME NEW j \in 1 .. k, fits(j) PROVE SV!Compare(list[j], v) <= 0
      <4>1. CASE j = k
        BY <1>4, <4>1
      <4>2. CASE j \in 1 .. k - 1
        <5>1. list[j] \in VersionType /\ SV!Compare(list[j], x) <= 0
          BY <1>1, <2>1, <3>2, <4>2
        <5>2. SV!Compare(list[j], x) \in -1 .. 1 /\ (SV!Compare(list[j], x) = 0 => x = list[j])
          BY <2>2, <5>1, VersionsAreOrdered
        <5>3. CASE SV!Compare(list[j], x) = 0
          BY <2>4, <3>1, <5>2, <5>3
        <5>4. CASE SV!Compare(list[j], x) < 0
          <6>1. SV!Compare(list[j], v) < 0
            BY <1>1, <2>2, <3>1, <5>1, <5>4, VersionsAreOrdered
          <6>2. SV!Compare(list[j], v) \in -1 .. 1
            BY <1>1, <5>1, VersionsAreOrdered
          <6> QED
            BY <6>1, <6>2
        <5> QED
          BY <5>1, <5>2, <5>3, <5>4
      <4> QED
        BY <1>2, <4>1, <4>2
    <3>3. IsBest(v, list, range, k)
      <4>1. \E j \in 1 .. k : v = list[j] /\ fits(j)
        BY <1>7, <2>3
      <4> HIDE DEF v
      <4> QED
        BY <3>2, <4>1 DEF IsBest
    <3> QED
      BY <1>7, <2>5, <3>3
  <2>6. CASE ~ SV!Better(v, x)
    <3>1. SV!Compare(v, x) <= 0
      BY <2>4, <2>6 DEF SV!Better
    <3>2. \A j \in 1 .. k : fits(j) => SV!Compare(list[j], x) <= 0
      BY <1>2, <2>1, <3>1
    <3>3. \E j \in 1 .. k : x = list[j] /\ fits(j)
      BY <1>2, <2>1
    <3>4. IsBest(x, list, range, k)
      BY <3>2, <3>3 DEF IsBest
    <3> QED
      BY <2>3, <2>6, <3>4
  <2> QED
    BY <2>5, <2>6
<1> QED
  BY <1>5, <1>6, <1>7

\* ... so it returns the highest version that satisfies the range.
LEMMA BestIsKept ==
  ASSUME NEW list \in Seq(VersionType), NEW range
  PROVE  IsBest(SV!MaxSatisfying(list, range), list, range, Len(list))
<1> DEFINE n == Len(list)
<1> DEFINE S == VersionType \cup {SV!None}
<1> DEFINE none == SV!None
<1> DEFINE step(x, k) == IF Fits(list[k], range) /\ (x = none \/ SV!Better(list[k], x)) THEN list[k] ELSE x
<1> DEFINE h == [k \in 1 .. n |-> [x \in S |-> step(x, k)]]
<1> DEFINE W == SV!BestSoFar(list, range)
<1> DEFINE Def(g) == [k \in 0 .. n |-> IF k = 0 THEN none ELSE step(g[k - 1], k)]
<1>1. n \in Nat /\ none \in S /\ \A k \in 1 .. n : list[k] \in S
  OBVIOUS
<1>2. W = CHOOSE g : g = Def(g)
  BY DEF SV!BestSoFar, Fits
<1>3. SV!MaxSatisfying(list, range) = W[n]
  BY DEF SV!MaxSatisfying
<1>4. \A k \in 1 .. n : \A x \in S : step(x, k) \in S
  BY <1>1
<1> HIDE DEF n, S, none, step, W
<1>5. h \in [1 .. n -> [S -> S]]
  BY <1>4
<1>6. PICK f : RunsOn(f, n, S, none, h)
  <2> HIDE DEF h
  <2> QED
    BY <1>1, <1>5, RunningOn
<1>7. /\ f \in [0 .. n -> S] /\ f[0] = none
      /\ \A k \in 1 .. n : f[k] = step(f[k - 1], k)
  <2>1. f \in [0 .. n -> S] /\ f[0] = none /\ \A k \in 1 .. n : f[k] = h[k][f[k - 1]]
    BY <1>6 DEF RunsOn
  <2>2. ASSUME NEW k \in 1 .. n PROVE f[k] = step(f[k - 1], k)
    <3>1. k - 1 \in 0 .. n
      BY <1>1
    <3>2. f[k - 1] \in S
      BY <2>1, <3>1
    <3> QED
      BY <2>1, <3>2
  <2> QED
    BY <2>1, <2>2
<1>8. f = Def(f)
  BY <1>1, <1>7
<1>9. W = Def(W)
  <2> HIDE DEF Def
  <2> QED
    BY <1>2, <1>8
<1>10. W[0] = none /\ \A k \in 1 .. n : W[k] = step(W[k - 1], k)
  BY <1>1, <1>9
<1> DEFINE best(k) == IsBest(W[k], list, range, k)
<1> DEFINE P == {k \in 0 .. n : best(k)}
<1>11. 0 \in P
  <2>1. 0 \in 0 .. n
    BY <1>1
  <2>2. best(0)
    BY <1>10 DEF IsBest, none
  <2> QED
    BY <2>1, <2>2
<1>12. ASSUME NEW k \in 1 .. n, k - 1 \in P PROVE k \in P
  <2>1. best(k - 1) /\ k \in 0 .. n /\ k \in 1 .. Len(list)
    BY <1>1, <1>12 DEF n
  <2> DEFINE x == W[k - 1]
  <2>2. IsBest(x, list, range, k - 1)
    BY <2>1
  <2> HIDE DEF x
  <2>3. IsBest(step(x, k), list, range, k)
    BY <2>1, <2>2, BestGoesOn DEF step, none
  <2>4. W[k] = step(x, k)
    BY <1>10 DEF x
  <2>5. best(k)
    BY <2>3, <2>4
  <2> QED
    BY <2>1, <2>5
<1>13. \A k \in 0 .. n : k \in P
  <2> HIDE DEF P
  <2> QED
    BY <1>1, <1>11, <1>12, CountingUp
<1>14. n \in 0 .. n
  BY <1>1
<1> QED
  BY <1>3, <1>13, <1>14 DEF n

\* The numbers of a comparator are those before its first wildcard.
Numbers(p, g) ==
  /\ SV!Given(p) = 1 .. g /\ SV!HowMany(p) = g
  /\ g <= Len(p) /\ \A k \in 1 .. g : p[k] \in Nat
  /\ g < Len(p) => p[g + 1] = SV!Wild

LEMMA NumbersAre ==
  ASSUME NEW p \in Seq(Nat \cup {SV!Wild})
  PROVE  \E g \in 0 .. Len(p) : Numbers(p, g)
<1> DEFINE n == Len(p)
<1> DEFINE S == {g \in 0 .. n : \A j \in 1 .. g : p[j] # SV!Wild}
<1>1. n \in Nat /\ SV!Wild \notin Nat /\ \A j \in 1 .. n : p[j] \in Nat \cup {SV!Wild}
  BY DEF SV!Wild
<1>2. S \in SUBSET (0 .. n) /\ 0 \in S
  BY <1>1
<1>3. PICK g \in S : \A y \in S : y <= g
  <2> HIDE DEF S, n
  <2> QED
    BY <1>1, <1>2, GreatestNumber
<1>4. g \in 0 .. n /\ g \in Nat /\ \A j \in 1 .. g : p[j] # SV!Wild
  BY <1>1, <1>3
<1>5. g < n => p[g + 1] = SV!Wild
  <2> SUFFICES ASSUME g < n, p[g + 1] # SV!Wild PROVE FALSE
    OBVIOUS
  <2>1. \A j \in 1 .. g + 1 : p[j] # SV!Wild
    <3>1. \A j \in 1 .. g + 1 : j \in 1 .. g \/ j = g + 1
      BY <1>4
    <3> QED
      BY <1>4, <3>1
  <2>2. g + 1 \in S
    BY <1>1, <1>4, <2>1
  <2> QED
    BY <1>3, <1>4, <2>2
<1>6. SV!Given(p) = 1 .. g
  <2>1. ASSUME NEW k \in 1 .. g PROVE k \in SV!Given(p)
    BY <1>1, <1>4 DEF SV!Given
  <2>2. ASSUME NEW k \in SV!Given(p) PROVE k \in 1 .. g
    <3>1. k \in 1 .. n /\ \A j \in 1 .. k : p[j] # SV!Wild
      BY DEF SV!Given
    <3>2. k \in S
      BY <1>1, <3>1
    <3> QED
      BY <1>3, <1>4, <3>1, <3>2
  <2> QED
    BY <2>1, <2>2
<1>7. SV!HowMany(p) = g
  <2>1. \A k \in 0 .. n : SV!Given(p) = 1 .. k => k = g
    <3>1. ASSUME NEW k \in 0 .. n, SV!Given(p) = 1 .. k PROVE k = g
      <4>1. \A j \in Nat : j \in 1 .. k <=> j \in 1 .. g
        BY <1>6, <3>1
      <4>2. k \in Nat /\ (k # 0 => k \in 1 .. k) /\ (g # 0 => g \in 1 .. g)
        BY <1>1, <1>4
      <4> QED
        BY <1>4, <4>1, <4>2
    <3> QED
      BY <3>1
  <2>2. SV!HowMany(p) = CHOOSE k \in 0 .. n : SV!Given(p) = 1 .. k
    BY DEF SV!HowMany
  <2> HIDE DEF n
  <2> QED
    BY <1>4, <1>6, <2>1, <2>2
<1>8. \A k \in 1 .. g : p[k] \in Nat
  BY <1>1, <1>4
<1>9. Numbers(p, g)
  BY <1>4, <1>5, <1>6, <1>7, <1>8 DEF Numbers
<1> QED
  BY <1>4, <1>9

\* Three numbers, compared one by one.
Threes == {s \in Seq(Nat) : Len(s) = 3}
InOrder(a, b) ==
  IF a[1] # b[1] THEN SV!Sign(a[1] - b[1])
  ELSE IF a[2] # b[2] THEN SV!Sign(a[2] - b[2]) ELSE SV!Sign(a[3] - b[3])

LEMMA ReleasesCompare ==
  ASSUME NEW v \in VersionType, NEW n \in Threes, v.pre = << >>
  PROVE  /\ SV!Compare(v, SV!Release(n)) = InOrder(v.n, n)
         /\ \A k \in 1 .. 3 : v.n[k] \in Nat /\ n[k] \in Nat
<1> DEFINE w == SV!Release(n)
<1>1. w \in VersionType /\ w.n = n /\ w.pre = << >>
  BY DEF SV!Release, VersionType, Threes
<1>2. SV!ComparePre(v.pre, w.pre) = 0
  BY <1>1 DEF SV!ComparePre
<1>3. (\A k \in 1 .. 3 : v.n[k] \in Nat /\ w.n[k] \in Nat)
      /\ SV!Compare(v, w) = IF v.n[1] # w.n[1] THEN SV!Sign(v.n[1] - w.n[1])
                            ELSE IF v.n[2] # w.n[2] THEN SV!Sign(v.n[2] - w.n[2])
                            ELSE IF v.n[3] # w.n[3] THEN SV!Sign(v.n[3] - w.n[3])
                            ELSE SV!ComparePre(v.pre, w.pre)
  BY <1>1, CompareIs
<1> HIDE DEF w
<1>4. SV!Compare(v, w) = InOrder(v.n, w.n)
  <2>1. v.n[3] \in Nat /\ w.n[3] \in Nat
    BY <1>3
  <2>2. v.n[3] = w.n[3] => SV!Sign(v.n[3] - w.n[3]) = 0
    BY <2>1 DEF SV!Sign
  <2> QED
    BY <1>2, <1>3, <2>2 DEF InOrder
<1> QED
  BY <1>1, <1>3, <1>4 DEF w

\* What is missing is 0.
LEMMA PaddedIs ==
  ASSUME NEW n \in Seq(Nat)
  PROVE  /\ SV!Padded(n) \in Threes
         /\ \A k \in 1 .. 3 : SV!Padded(n)[k] = IF k <= Len(n) THEN n[k] ELSE 0
<1> DEFINE f == SV!Padded(n)
<1>1. \A k \in 1 .. 3 : f[k] = IF k <= Len(n) THEN n[k] ELSE 0
  BY DEF SV!Padded
<1>2. f \in [1 .. 3 -> Nat]
  BY DEF SV!Padded
<1>3. f \in Seq(Nat) /\ Len(f) = 3
  <2> HIDE DEF f
  <2>1. f \in Seq(Nat)
    <3>1. Seq(Nat) = UNION {[1 .. m -> Nat] : m \in Nat}
      BY SeqDef
    <3> QED
      BY <1>2, <3>1
  <2>2. DOMAIN f = 1 .. 3
    BY <1>2
  <2> QED
    BY <2>1, <2>2
<1> QED
  BY <1>1, <1>3 DEF Threes

\* The bound behind all versions that begin with these numbers.
LEMMA AfterIs ==
  ASSUME NEW n \in Seq(Nat), Len(n) \in 1 .. 3
  PROVE  /\ SV!After(n) \in Threes
         /\ SV!After(n)[1] = IF Len(n) = 1 THEN n[1] + 1 ELSE n[1]
         /\ SV!After(n)[2] = IF Len(n) = 1 THEN 0 ELSE IF Len(n) = 2 THEN n[2] + 1 ELSE n[2]
         /\ SV!After(n)[3] = IF Len(n) = 3 THEN n[3] + 1 ELSE 0
<1>0. \A k \in 1 .. Len(n) : n[k] \in Nat
  OBVIOUS
<1>1. \A a, b, c \in Nat : <<a, b, c>> \in Threes
  BY DEF Threes
<1>2. CASE Len(n) = 1
  <2>1. n[1] \in Nat
    BY <1>0, <1>2
  <2>2. SV!After(n) = <<n[1] + 1, 0, 0>>
    BY <1>2 DEF SV!After
  <2> QED
    BY <1>1, <1>2, <2>1, <2>2
<1>3. CASE Len(n) = 2
  <2>1. n[1] \in Nat /\ n[2] \in Nat
    BY <1>0, <1>3
  <2>2. SV!After(n) = <<n[1], n[2] + 1, 0>>
    BY <1>3 DEF SV!After
  <2> QED
    BY <1>1, <1>3, <2>1, <2>2
<1>4. CASE Len(n) = 3
  <2>1. n[1] \in Nat /\ n[2] \in Nat /\ n[3] \in Nat
    BY <1>0, <1>4
  <2>2. SV!After(n) = <<n[1], n[2], n[3] + 1>>
    BY <1>4 DEF SV!After
  <2> QED
    BY <1>1, <1>4, <2>1, <2>2
<1> QED
  BY <1>2, <1>3, <1>4

\* compareToRange looks at the numbers the comparator gives.
LEMMA RangeCompares ==
  ASSUME NEW v \in VersionType, NEW c \in ComparatorType, v.pre = << >>, c.pre = << >>,
         NEW g \in 0 .. Len(c.parts), Numbers(c.parts, g)
  PROVE  SV!CompareToRange(v, c) =
           IF g >= 1 /\ v.n[1] # c.parts[1] THEN SV!Sign(v.n[1] - c.parts[1])
           ELSE IF g >= 2 /\ v.n[2] # c.parts[2] THEN SV!Sign(v.n[2] - c.parts[2])
           ELSE IF g >= 3 /\ v.n[3] # c.parts[3] THEN SV!Sign(v.n[3] - c.parts[3]) ELSE 0
<1> DEFINE a == v.n
<1> DEFINE p == c.parts
<1> DEFINE k == SV!Differ(a, p)
<1>1. /\ a \in Seq(Nat) /\ Len(a) = 3 /\ p \in Seq(Nat \cup {SV!Wild}) /\ Len(p) \in 1 .. 3
      /\ \A j \in 1 .. 3 : a[j] \in Nat
  BY DEF VersionType, ComparatorType
<1>2. /\ SV!Given(p) = 1 .. g /\ (3 \in SV!Given(p) <=> g = 3)
      /\ \A j \in 1 .. g : p[j] \in Nat
      /\ g < Len(p) => p[g + 1] = SV!Wild
  <2>1. SV!Given(p) = 1 .. g
    BY DEF Numbers
  <2>2. 3 \in 1 .. g <=> g = 3
    <3> DEFINE len == Len(p)
    <3>1. len \in 1 .. 3 /\ g \in 0 .. len
      BY <1>1
    <3> HIDE DEF len
    <3> QED
      BY <3>1
  <2> QED
    BY <2>1, <2>2 DEF Numbers
<1>3. SV!CompareToRange(v, c) = IF g = 3 THEN SV!Compare(v, [n |-> p, pre |-> c.pre])
                                ELSE IF k \in 1 .. g THEN SV!Sign(a[k] - p[k]) ELSE 0
  <2>1. SV!CompareToRange(v, c) = IF 3 \in SV!Given(p) THEN SV!Compare(v, [n |-> p, pre |-> c.pre])
                                  ELSE IF k \in SV!Given(p) THEN SV!Sign(a[k] - p[k]) ELSE 0
    BY DEF SV!CompareToRange
  <2> HIDE DEF a, p, k
  <2> QED
    BY <1>2, <2>1
<1>4. g = 0 \/ g = 1 \/ g = 2 \/ g = 3
  <2> DEFINE len == Len(p)
  <2>1. len \in 1 .. 3 /\ g \in 0 .. len
    BY <1>1
  <2> HIDE DEF len
  <2> QED
    BY <2>1
<1>5. CASE g = 3
  <2>1. Len(p) = 3 /\ \A j \in 1 .. 3 : p[j] \in Nat
    BY <1>1, <1>2, <1>5
  <2>2. p \in Seq(Nat)
    <3> HIDE DEF p
    <3>1. p = [j \in 1 .. 3 |-> p[j]]
      BY <1>1, <2>1
    <3>2. p \in [1 .. 3 -> Nat]
      BY <2>1, <3>1
    <3>3. Seq(Nat) = UNION {[1 .. m -> Nat] : m \in Nat}
      BY SeqDef
    <3> QED
      BY <3>2, <3>3
  <2>3. p \in Threes
    BY <2>1, <2>2 DEF Threes
  <2>4. [n |-> p, pre |-> c.pre] = SV!Release(p)
    BY DEF SV!Release
  <2>5. SV!CompareToRange(v, c) = InOrder(a, p)
    <3> HIDE DEF p, a
    <3>1. SV!Compare(v, SV!Release(p)) = InOrder(v.n, p)
      BY <2>3, ReleasesCompare
    <3> QED
      BY <1>3, <1>5, <2>4, <3>1 DEF a
  <2>6. a[3] \in Nat /\ p[3] \in Nat
    BY <1>1, <2>1
  <2>7. a[3] = p[3] => SV!Sign(a[3] - p[3]) = 0
    BY <2>6 DEF SV!Sign
  <2> QED
    BY <1>5, <2>5, <2>7 DEF InOrder
<1>6. CASE g # 3
  <2>1. /\ k \in 1 .. Len(p) + 1
        /\ \A j \in 1 .. k - 1 : a[j] = p[j]
        /\ k <= Len(p) => a[k] # p[k]
    <3>0. a \in Seq(Int) /\ p \in Seq(Int)
      <4>1. SV!Wild \in Int /\ Nat \subseteq Int
        BY DEF SV!Wild
      <4> QED
        BY <1>1, <4>1, SeqMonotonic
    <3> HIDE DEF a, p, k
    <3>1. LET d == SV!Differ(a, p)
              len == IF Len(a) < Len(p) THEN Len(a) ELSE Len(p) IN
          d \in 1 .. len + 1 /\ (\A j \in 1 .. d - 1 : a[j] = p[j]) /\ (d <= len => a[d] # p[d])
      BY <3>0, DifferIs
    <3>2. (IF Len(a) < Len(p) THEN Len(a) ELSE Len(p)) = Len(p)
      BY <1>1
    <3> QED
      BY <3>1, <3>2 DEF k
  <2>2. SV!CompareToRange(v, c) = IF k \in 1 .. g THEN SV!Sign(a[k] - p[k]) ELSE 0
    BY <1>3, <1>6
  <2> HIDE DEF a, p, k
  <2>3. CASE k \in 1 .. g
    <3>1. k = 1 \/ k = 2
      BY <1>4, <1>6, <2>3
    <3>2. CASE k = 1
      <4>1. a[1] # p[1] /\ g >= 1
        BY <1>1, <2>1, <2>3, <3>2
      <4> QED
        BY <2>2, <2>3, <3>2, <4>1 DEF a, p
    <3>3. CASE k = 2
      <4>1. a[1] = p[1] /\ a[2] # p[2] /\ g >= 2
        BY <1>1, <2>1, <2>3, <3>3 DEF p
      <4> QED
        BY <2>2, <2>3, <3>3, <4>1 DEF a, p
    <3> QED
      BY <3>1, <3>2, <3>3
  <2>4. CASE k \notin 1 .. g
    <3>1. ASSUME NEW j \in 1 .. g PROVE a[j] = p[j]
      <4> DEFINE len == Len(p)
      <4>1. k \in 1 .. len + 1 /\ len \in 1 .. 3
        BY <1>1, <2>1
      <4> HIDE DEF len
      <4>2. j \in 1 .. k - 1
        BY <1>4, <2>4, <4>1
      <4> QED
        BY <2>1, <4>2
    <3>2. (g >= 1 => a[1] = p[1]) /\ (g >= 2 => a[2] = p[2]) /\ ~ (g >= 3)
      BY <1>4, <1>6, <3>1
    <3> QED
      BY <2>2, <2>4, <3>2 DEF a, p
  <2> QED
    BY <2>3, <2>4
<1> QED
  BY <1>5, <1>6

\* The numbers given, and what an interval begins with.
LEMMA GivenAre ==
  ASSUME NEW p \in Seq(Nat \cup {SV!Wild}), NEW g \in 0 .. Len(p), Numbers(p, g), NEW m \in 0 .. g
  PROVE  /\ SubSeq(p, 1, m) \in Seq(Nat) /\ Len(SubSeq(p, 1, m)) = m
         /\ \A k \in 1 .. m : SubSeq(p, 1, m)[k] = p[k]
         /\ SubSeq(p, 1, SV!HowMany(p)) = SubSeq(p, 1, g)
<1> DEFINE s == SubSeq(p, 1, m)
<1>1. g \in Nat /\ m \in Nat /\ m <= g /\ g <= Len(p) /\ \A k \in 1 .. g : p[k] \in Nat
  BY DEF Numbers
<1>2. s = [k \in 1 .. m |-> p[k]]
  BY <1>1
<1>3. s \in [1 .. m -> Nat]
  <2>1. \A k \in 1 .. m : k \in 1 .. g
    BY <1>1
  <2> QED
    BY <1>1, <1>2, <2>1
<1>4. s \in Seq(Nat)
  <2>1. Seq(Nat) = UNION {[1 .. i -> Nat] : i \in Nat}
    BY SeqDef
  <2> HIDE DEF s
  <2> QED
    BY <1>1, <1>3, <2>1
<1>5. Len(s) = m /\ \A k \in 1 .. m : s[k] = p[k]
  BY <1>1, <1>2
<1> QED
  BY <1>4, <1>5 DEF Numbers

LEMMA WithinIs ==
  ASSUME NEW v \in VersionType, v.pre = << >>, NEW a \in Threes, NEW b \in Threes
  PROVE  /\ SV!Within(v, [from |-> a, before |-> b]) <=> InOrder(v.n, a) >= 0 /\ InOrder(v.n, b) < 0
         /\ SV!Within(v, [from |-> a, before |-> SV!NoEnd]) <=> InOrder(v.n, a) >= 0
<1>1. SV!Compare(v, SV!Release(a)) = InOrder(v.n, a) /\ SV!Compare(v, SV!Release(b)) = InOrder(v.n, b)
  BY ReleasesCompare
<1>2. b # SV!NoEnd
  BY DEF Threes, SV!NoEnd
<1> QED
  BY <1>1, <1>2 DEF SV!Within

\* The first numbers of three.
LEMMA FirstNumbers ==
  ASSUME NEW a \in Threes, NEW m \in 1 .. 3
  PROVE  /\ SubSeq(a, 1, m) \in Seq(Nat) /\ Len(SubSeq(a, 1, m)) = m
         /\ \A k \in 1 .. m : SubSeq(a, 1, m)[k] = a[k]
         /\ \A b \in Threes : SubSeq(a, 1, m) = SubSeq(b, 1, m) <=> \A k \in 1 .. m : a[k] = b[k]
<1> DEFINE s(b) == SubSeq(b, 1, m)
<1>1. \A b \in Threes : s(b) = [k \in 1 .. m |-> b[k]] /\ Len(s(b)) = m
  BY DEF Threes
<1>2. ASSUME NEW b \in Threes, NEW k \in 1 .. m PROVE b[k] \in Nat
  <2>1. b \in Seq(Nat) /\ Len(b) = 3
    BY DEF Threes
  <2>2. k \in 1 .. Len(b)
    BY <2>1
  <2> QED
    BY <2>1, <2>2, ElementOfSeq
<1>3. s(a) \in [1 .. m -> Nat] /\ m \in Nat
  <2>1. \A k \in 1 .. m : a[k] \in Nat
    BY <1>2
  <2>2. s(a) = [k \in 1 .. m |-> a[k]]
    BY <1>1
  <2> HIDE DEF s
  <2> QED
    BY <2>1, <2>2
<1>4. s(a) \in Seq(Nat)
  <2>1. Seq(Nat) = UNION {[1 .. i -> Nat] : i \in Nat}
    BY SeqDef
  <2> HIDE DEF s
  <2> QED
    BY <1>3, <2>1
<1>5. ASSUME NEW b \in Threes PROVE s(a) = s(b) <=> \A k \in 1 .. m : a[k] = b[k]
  <2> HIDE DEF s
  <2>1. s(a) = [k \in 1 .. m |-> a[k]] /\ s(b) = [k \in 1 .. m |-> b[k]]
    BY <1>1
  <2> QED
    BY <2>1
<1>6. \A k \in 1 .. m : s(a)[k] = a[k]
  <2> HIDE DEF s
  <2> QED
    BY <1>1
<1> QED
  BY <1>1, <1>4, <1>5, <1>6

\* What the comments say of a comparator with g numbers, once its bounds are known.
LEMMA BoundsAre ==
  ASSUME NEW v \in VersionType, NEW c \in ComparatorType, v.pre = << >>, c.pre = << >>, Plain(c),
         NEW g \in 0 .. Len(c.parts), Numbers(c.parts, g)
  PROVE  LET p == c.parts
             given == SubSeq(p, 1, g)
             first == SV!Padded(given) IN
         /\ g \in 0 .. 3 /\ (g = 0 => c.op = SV!Bare)
         /\ \A k \in 1 .. 3 : v.n[k] \in Nat /\ (k <= g => p[k] \in Nat)
         /\ given \in Seq(Nat) /\ Len(given) = g /\ \A k \in 1 .. 3 : k <= g => given[k] = p[k]
         /\ first \in Threes /\ \A k \in 1 .. 3 : first[k] = IF k <= g THEN p[k] ELSE 0
         /\ SV!Filled(c) = SV!Release(first)
         /\ SubSeq(p, 1, SV!HowMany(p)) = given
<1> DEFINE p == c.parts
<1> DEFINE given == SubSeq(p, 1, g)
<1> DEFINE first == SV!Padded(given)
<1>1. /\ p \in Seq(Nat \cup {SV!Wild}) /\ Len(p) \in 1 .. 3 /\ \A k \in 1 .. 3 : v.n[k] \in Nat
  BY DEF VersionType, ComparatorType
<1>2. g \in 0 .. 3 /\ g <= Len(p) /\ g \in 0 .. g
  <2> DEFINE len == Len(p)
  <2>1. len \in 1 .. 3 /\ g \in 0 .. len
    BY <1>1
  <2>2. g \in 0 .. 3 /\ g <= len /\ g \in 0 .. g
    <3> HIDE DEF len
    <3> QED
      BY <2>1
  <2> QED
    BY <2>2
<1>3. /\ \A k \in 1 .. 3 : k <= g => p[k] \in Nat
      /\ g < Len(p) => p[g + 1] = SV!Wild
      /\ \A k \in 1 .. Len(p) : k > g => p[k] = SV!Wild
  <2>1. (\A k \in 1 .. g : p[k] \in Nat) /\ (g < Len(p) => p[g + 1] = SV!Wild)
    BY DEF Numbers
  <2>2. \A i, k \in 1 .. Len(p) : i < k /\ p[i] = SV!Wild => p[k] = SV!Wild
    BY DEF Plain
  <2> HIDE DEF p
  <2>3. ASSUME NEW k \in 1 .. Len(p), k > g PROVE p[k] = SV!Wild
    <3>1. g + 1 \in 1 .. Len(p) /\ g < Len(p) /\ (k = g + 1 \/ g + 1 < k)
      BY <1>1, <1>2, <2>3
    <3> QED
      BY <2>1, <2>2, <3>1
  <2> QED
    BY <1>2, <2>1, <2>3
<1>4. g = 0 => c.op = SV!Bare
  BY <1>1, <1>3 DEF Plain
<1>5. /\ given \in Seq(Nat) /\ Len(given) = g /\ \A k \in 1 .. g : given[k] = p[k]
      /\ SubSeq(p, 1, SV!HowMany(p)) = given
  <2> HIDE DEF p
  <2> QED
    BY <1>1, <1>2, GivenAre DEF p
<1>6. \A k \in 1 .. 3 : k <= g => given[k] = p[k]
  <2> HIDE DEF given, p
  <2> QED
    BY <1>2, <1>5
<1>7. first \in Threes /\ \A k \in 1 .. 3 : first[k] = IF k <= g THEN p[k] ELSE 0
  <2> HIDE DEF given
  <2>1. first \in Threes /\ \A k \in 1 .. 3 : first[k] = IF k <= Len(given) THEN given[k] ELSE 0
    BY <1>5, PaddedIs
  <2> QED
    BY <1>5, <1>6, <2>1
<1>8. SV!Filled(c) = SV!Release(first)
  <2> DEFINE r == [k \in 1 .. 3 |-> IF k <= Len(p) /\ p[k] # SV!Wild THEN p[k] ELSE 0]
  <2>1. SV!Filled(c) = [n |-> r, pre |-> << >>]
    BY DEF SV!Filled
  <2>2. first = [k \in 1 .. 3 |-> IF k <= Len(given) THEN given[k] ELSE 0]
    BY DEF SV!Padded
  <2>3. ASSUME NEW k \in 1 .. 3
        PROVE (IF k <= Len(p) /\ p[k] # SV!Wild THEN p[k] ELSE 0) = IF k <= Len(given) THEN given[k] ELSE 0
    <3> HIDE DEF p, given
    <3>1. CASE k <= g
      <4>1. k <= Len(p) /\ p[k] # SV!Wild /\ k <= Len(given) /\ given[k] = p[k]
        BY <1>1, <1>2, <1>3, <1>5, <1>6, <3>1 DEF SV!Wild
      <4> QED
        BY <4>1
    <3>2. CASE k > g
      <4>1. ~ (k <= Len(given)) /\ (k <= Len(p) => p[k] = SV!Wild)
        BY <1>1, <1>2, <1>3, <1>5, <3>2
      <4> QED
        BY <4>1
    <3> QED
      BY <1>2, <3>1, <3>2
  <2>4. r = first
    <3> HIDE DEF p, given, first
    <3> QED
      BY <2>2, <2>3
  <2> QED
    BY <2>1, <2>4 DEF SV!Release
<1> QED
  BY <1>1, <1>2, <1>3, <1>4, <1>5, <1>6, <1>7, <1>8

\* How a comparator looks at three numbers x when it gives the first g of p.
Along(x, p, g) ==
  IF g >= 1 /\ x[1] # p[1] THEN SV!Sign(x[1] - p[1])
  ELSE IF g >= 2 /\ x[2] # p[2] THEN SV!Sign(x[2] - p[2])
  ELSE IF g >= 3 /\ x[3] # p[3] THEN SV!Sign(x[3] - p[3]) ELSE 0

\* That is where x lies among the versions that begin with these numbers: before the
\* first of them, among them, or from the first one after them on.
BeginWith(x, p, g, a, n) ==
  /\ x \in Threes /\ p \in Seq(Int) /\ g \in 0 .. 3 /\ \A k \in 1 .. 3 : k <= g => p[k] \in Nat
  /\ a \in Threes /\ \A k \in 1 .. 3 : a[k] = IF k <= g THEN p[k] ELSE 0
  /\ n \in Seq(Nat) /\ Len(n) = g /\ \A k \in 1 .. 3 : k <= g => n[k] = p[k]

LEMMA LastNumber ==
  ASSUME NEW x1 \in Nat, NEW x2 \in Nat, NEW x3 \in Nat, NEW p1 \in Nat, NEW p2 \in Nat, NEW p3 \in Nat
  PROVE  (IF x1 # p1 THEN SV!Sign(x1 - p1) ELSE IF x2 # p2 THEN SV!Sign(x2 - p2) ELSE SV!Sign(x3 - (p3 + 1))) < 0
         <=> (IF x1 # p1 THEN SV!Sign(x1 - p1) ELSE IF x2 # p2 THEN SV!Sign(x2 - p2)
              ELSE IF x3 # p3 THEN SV!Sign(x3 - p3) ELSE 0) <= 0
BY DEF SV!Sign

LEMMA AlongIsBetween ==
  ASSUME NEW x, NEW p, NEW g, NEW a, NEW n, BeginWith(x, p, g, a, n)
  PROVE  /\ Along(x, p, g) \in -1 .. 1
         /\ InOrder(x, a) >= 0 <=> Along(x, p, g) >= 0
         /\ g # 0 => SV!After(n) \in Threes /\ (InOrder(x, SV!After(n)) < 0 <=> Along(x, p, g) <= 0)
<1>0. /\ x \in Threes /\ p \in Seq(Int) /\ g \in 0 .. 3 /\ \A k \in 1 .. 3 : k <= g => p[k] \in Nat
      /\ a \in Threes /\ \A k \in 1 .. 3 : a[k] = IF k <= g THEN p[k] ELSE 0
      /\ n \in Seq(Nat) /\ Len(n) = g /\ \A k \in 1 .. 3 : k <= g => n[k] = p[k]
  BY DEF BeginWith
<1>1. x[1] \in Nat /\ x[2] \in Nat /\ x[3] \in Nat
  <2>1. x \in Seq(Nat) /\ Len(x) = 3
    BY <1>0 DEF Threes
  <2>2. 1 \in 1 .. 3 /\ 2 \in 1 .. 3 /\ 3 \in 1 .. 3
    OBVIOUS
  <2> QED
    BY <2>1, <2>2, ElementOfSeq
<1>2. g \in {0, 1, 2, 3}
  BY <1>0
<1>3. /\ a[1] = IF g >= 1 THEN p[1] ELSE 0
      /\ a[2] = IF g >= 2 THEN p[2] ELSE 0
      /\ a[3] = IF g >= 3 THEN p[3] ELSE 0
      /\ g >= 1 => p[1] \in Nat /\ n[1] = p[1]
      /\ g >= 2 => p[2] \in Nat /\ n[2] = p[2]
      /\ g >= 3 => p[3] \in Nat /\ n[3] = p[3]
  BY <1>0
<1>4. Along(x, p, g) \in -1 .. 1
  BY <1>1, <1>2, <1>3 DEF Along, SV!Sign
<1>5. InOrder(x, a) >= 0 <=> Along(x, p, g) >= 0
  BY <1>1, <1>2, <1>3 DEF Along, InOrder, SV!Sign
<1>6. ASSUME g # 0 PROVE SV!After(n) \in Threes /\ (InOrder(x, SV!After(n)) < 0 <=> Along(x, p, g) <= 0)
  <2> DEFINE b == SV!After(n)
  <2>1. /\ b \in Threes
        /\ b[1] = IF g = 1 THEN n[1] + 1 ELSE n[1]
        /\ b[2] = IF g = 1 THEN 0 ELSE IF g = 2 THEN n[2] + 1 ELSE n[2]
        /\ b[3] = IF g = 3 THEN n[3] + 1 ELSE 0
    <3>1. Len(n) \in 1 .. 3
      BY <1>0, <1>2, <1>6
    <3>2. /\ b \in Threes
          /\ b[1] = IF Len(n) = 1 THEN n[1] + 1 ELSE n[1]
          /\ b[2] = IF Len(n) = 1 THEN 0 ELSE IF Len(n) = 2 THEN n[2] + 1 ELSE n[2]
          /\ b[3] = IF Len(n) = 3 THEN n[3] + 1 ELSE 0
      BY <1>0, <3>1, AfterIs
    <3> HIDE DEF b
    <3> QED
      BY <1>0, <3>2
  <2> HIDE DEF b
  <2>2. InOrder(x, b) < 0 <=> Along(x, p, g) <= 0
    <3>1. CASE g = 1
      BY <1>1, <1>3, <2>1, <3>1 DEF Along, InOrder, SV!Sign
    <3>2. CASE g = 2
      <4>1. Along(x, p, g) = IF x[1] # p[1] THEN SV!Sign(x[1] - p[1])
                            ELSE IF x[2] # p[2] THEN SV!Sign(x[2] - p[2]) ELSE 0
        BY <3>2 DEF Along
      <4>2. InOrder(x, b) = IF x[1] # b[1] THEN SV!Sign(x[1] - b[1])
                            ELSE IF x[2] # b[2] THEN SV!Sign(x[2] - b[2]) ELSE SV!Sign(x[3] - b[3])
        BY DEF InOrder
      <4> QED
        BY <1>1, <1>3, <2>1, <3>2, <4>1, <4>2 DEF SV!Sign
    <3>3. CASE g = 3
      <4>1. Along(x, p, g) = IF x[1] # p[1] THEN SV!Sign(x[1] - p[1])
                            ELSE IF x[2] # p[2] THEN SV!Sign(x[2] - p[2])
                            ELSE IF x[3] # p[3] THEN SV!Sign(x[3] - p[3]) ELSE 0
        BY <3>3 DEF Along
      <4>2. InOrder(x, b) = IF x[1] # b[1] THEN SV!Sign(x[1] - b[1])
                            ELSE IF x[2] # b[2] THEN SV!Sign(x[2] - b[2]) ELSE SV!Sign(x[3] - b[3])
        BY DEF InOrder
      <4>3. /\ p[1] \in Nat /\ p[2] \in Nat /\ p[3] \in Nat
            /\ b[1] = p[1] /\ b[2] = p[2] /\ b[3] = p[3] + 1
        BY <1>3, <2>1, <3>3
      <4> QED
        BY <1>1, <4>1, <4>2, <4>3, LastNumber
    <3> QED
      BY <1>2, <1>6, <3>1, <3>2, <3>3
  <2> QED
    BY <2>1, <2>2 DEF b
<1> QED
  BY <1>4, <1>5, <1>6

LEMMA OrderIs ==
  ASSUME NEW a \in Threes, NEW b \in Threes
  PROVE  /\ InOrder(a, b) \in -1 .. 1
         /\ \A k \in 1 .. 3 : a[k] \in Nat /\ b[k] \in Nat
<1>1. \A s \in Threes : \A k \in 1 .. 3 : s[k] \in Nat
  <2> SUFFICES ASSUME NEW s \in Threes, NEW k \in 1 .. 3 PROVE s[k] \in Nat
    OBVIOUS
  <2>1. s \in Seq(Nat) /\ Len(s) = 3
    BY DEF Threes
  <2> QED
    BY <2>1, ElementOfSeq
<1>2. \A k \in 1 .. 3 : a[k] \in Nat /\ b[k] \in Nat
  BY <1>1
<1>3. InOrder(a, b) \in -1 .. 1
  <2>1. a[1] \in Nat /\ a[2] \in Nat /\ a[3] \in Nat /\ b[1] \in Nat /\ b[2] \in Nat /\ b[3] \in Nat
    BY <1>2
  <2> QED
    BY <2>1 DEF InOrder, SV!Sign
<1> QED
  BY <1>2, <1>3

\* The first numbers of some.
LEMMA PrefixIs ==
  ASSUME NEW n \in Seq(Nat), NEW m \in 0 .. Len(n)
  PROVE  /\ SubSeq(n, 1, m) \in Seq(Nat) /\ Len(SubSeq(n, 1, m)) = m
         /\ \A k \in 1 .. m : SubSeq(n, 1, m)[k] = n[k]
<1> DEFINE s == SubSeq(n, 1, m)
<1>1. m \in Nat /\ m <= Len(n) /\ Len(n) \in Nat
  OBVIOUS
<1>2. s = [k \in 1 .. m |-> n[k]] /\ Len(s) = m
  BY <1>1
<1>3. \A k \in 1 .. m : n[k] \in Nat
  BY <1>1, ElementOfSeq
<1>4. s \in [1 .. m -> Nat] /\ \A k \in 1 .. m : s[k] = n[k]
  <2> HIDE DEF s
  <2> QED
    BY <1>2, <1>3
<1>5. s \in Seq(Nat)
  <2>1. Seq(Nat) = UNION {[1 .. i -> Nat] : i \in Nat}
    BY SeqDef
  <2> HIDE DEF s
  <2> QED
    BY <1>1, <1>4, <2>1
<1> QED
  BY <1>2, <1>4, <1>5

\* Ranges are intervals, operator by operator.
LEMMA RangeIsInterval ==
  ASSUME NEW v \in VersionType, NEW c \in ComparatorType, v.pre = << >>, c.pre = << >>, Plain(c)
  PROVE  SV!SatisfiesComparator(v, c) <=> SV!Within(v, SV!Interval(c))
<1> DEFINE p == c.parts
<1> DEFINE x == v.n
<1> DEFINE zero == <<0, 0, 0>>
<1>1. p \in Seq(Nat \cup {SV!Wild}) /\ x \in Threes
  BY DEF VersionType, ComparatorType, Threes
<1>0. p \in Seq(Int)
  <2>1. Nat \cup {SV!Wild} \subseteq Int
    BY DEF SV!Wild
  <2> QED
    BY <1>1, <2>1, SeqMonotonic
<1>2. PICK g \in 0 .. Len(p) : Numbers(p, g)
  BY <1>1, NumbersAre
<1> DEFINE given == SubSeq(p, 1, g)
<1> DEFINE first == SV!Padded(given)
<1> DEFINE next == SV!After(given)
<1>3. /\ g \in 0 .. 3 /\ (g = 0 => c.op = SV!Bare)
      /\ \A k \in 1 .. 3 : x[k] \in Nat /\ (k <= g => p[k] \in Nat)
      /\ given \in Seq(Nat) /\ Len(given) = g /\ \A k \in 1 .. 3 : k <= g => given[k] = p[k]
      /\ first \in Threes /\ \A k \in 1 .. 3 : first[k] = IF k <= g THEN p[k] ELSE 0
      /\ SV!Filled(c) = SV!Release(first)
      /\ SubSeq(p, 1, SV!HowMany(p)) = given
  BY <1>2, BoundsAre
<1>4. SV!CompareToRange(v, c) = Along(x, p, g)
  BY <1>2, RangeCompares DEF Along
<1>5. SV!Given(p) = 1 .. g
  BY <1>2 DEF Numbers
<1> DEFINE ctr == Along(x, p, g)
<1>6. /\ ctr \in -1 .. 1
      /\ InOrder(x, first) >= 0 <=> ctr >= 0
      /\ g # 0 => next \in Threes /\ (InOrder(x, next) < 0 <=> ctr <= 0)
  <2> HIDE DEF p, x, given, first
  <2>1. g \in 0 .. 3 /\ x \in Threes /\ first \in Threes /\ given \in Seq(Nat) /\ Len(given) = g
    BY <1>1, <1>3
  <2>2. \A k \in 1 .. 3 : k <= g => p[k] \in Nat
    BY <1>3
  <2>3. \A k \in 1 .. 3 : first[k] = IF k <= g THEN p[k] ELSE 0
    BY <1>3
  <2>4. \A k \in 1 .. 3 : k <= g => given[k] = p[k]
    BY <1>3
  <2>5. /\ Along(x, p, g) \in -1 .. 1
        /\ InOrder(x, first) >= 0 <=> Along(x, p, g) >= 0
        /\ g # 0 => SV!After(given) \in Threes /\ (InOrder(x, SV!After(given)) < 0 <=> Along(x, p, g) <= 0)
    <3> HIDE DEF ctr, next, zero
    <3> QED
      <4>1. BeginWith(x, p, g, first, given)
        BY <1>0, <2>1, <2>2, <2>3, <2>4 DEF BeginWith
      <4> QED
        BY <4>1, AlongIsBetween
  <2> QED
    BY <2>5
<1>7. zero \in Threes /\ InOrder(x, zero) >= 0
  <2>1. x[1] \in Nat /\ x[2] \in Nat /\ x[3] \in Nat
    BY <1>3
  <2> HIDE DEF x
  <2> QED
    BY <2>1 DEF Threes, InOrder, SV!Sign
<1>8. c.op \in {SV!Bare, "=", ">", ">=", "<", "<=", "~", "^"}
  BY DEF ComparatorType
<1>9. /\ \A b \in Threes : InOrder(x, b) \in -1 .. 1
      /\ \A a, b \in Threes : SV!Within(v, [from |-> a, before |-> b]) <=> InOrder(x, a) >= 0 /\ InOrder(x, b) < 0
      /\ \A a \in Threes : SV!Within(v, [from |-> a, before |-> SV!NoEnd]) <=> InOrder(x, a) >= 0
  BY <1>1, OrderIs, WithinIs
<1>10. CASE c.op = ">="
  <2>1. SV!SatisfiesComparator(v, c) <=> ctr >= 0
    BY <1>4, <1>10 DEF SV!SatisfiesComparator, SV!Bare
  <2>2. SV!Interval(c) = [from |-> SV!Padded(SubSeq(p, 1, SV!HowMany(p))), before |-> SV!NoEnd]
    BY <1>10 DEF SV!Interval, SV!Bare
  <2>3. SV!Interval(c) = [from |-> first, before |-> SV!NoEnd]
    BY <1>3, <2>2
  <2> HIDE DEF ctr, x, first
  <2> QED
    BY <1>3, <1>6, <1>9, <2>1, <2>3
<1>11. CASE c.op = "<="
  <2>1. SV!SatisfiesComparator(v, c) <=> ctr <= 0
    BY <1>4, <1>11 DEF SV!SatisfiesComparator, SV!Bare
  <2>2. SV!Interval(c) = [from |-> zero, before |-> SV!After(SubSeq(p, 1, SV!HowMany(p)))]
    BY <1>11 DEF SV!Interval, SV!Bare
  <2>3. SV!Interval(c) = [from |-> zero, before |-> next] /\ g # 0
    BY <1>3, <1>11, <2>2 DEF SV!Bare
  <2> HIDE DEF ctr, x, next, zero
  <2> QED
    BY <1>6, <1>7, <1>9, <2>1, <2>3
<1>12. CASE c.op = ">"
  <2>1. SV!SatisfiesComparator(v, c) <=> ctr > 0
    BY <1>4, <1>12 DEF SV!SatisfiesComparator, SV!Bare
  <2>2. SV!Interval(c) = [from |-> SV!After(SubSeq(p, 1, SV!HowMany(p))), before |-> SV!NoEnd]
    BY <1>12 DEF SV!Interval, SV!Bare
  <2>3. SV!Interval(c) = [from |-> next, before |-> SV!NoEnd] /\ g # 0
    BY <1>3, <1>12, <2>2 DEF SV!Bare
  <2> HIDE DEF ctr, x, next
  <2> QED
    BY <1>6, <1>9, <2>1, <2>3
<1>13. CASE c.op = "<"
  <2>1. SV!SatisfiesComparator(v, c) <=> ctr < 0
    BY <1>4, <1>13 DEF SV!SatisfiesComparator, SV!Bare
  <2>2. SV!Interval(c) = [from |-> zero, before |-> SV!Padded(SubSeq(p, 1, SV!HowMany(p)))]
    BY <1>13 DEF SV!Interval, SV!Bare
  <2>3. SV!Interval(c) = [from |-> zero, before |-> first]
    BY <1>3, <2>2
  <2> HIDE DEF ctr, x, first, zero
  <2> QED
    BY <1>3, <1>6, <1>7, <1>9, <2>1, <2>3
<1>14. CASE c.op = "="
  <2>1. SV!SatisfiesComparator(v, c) <=> ctr = 0
    BY <1>4, <1>14 DEF SV!SatisfiesComparator, SV!Bare
  <2>2. LET some == SubSeq(p, 1, SV!HowMany(p)) IN
        SV!Interval(c) = [from |-> SV!Padded(some), before |-> SV!After(some)]
    BY <1>14 DEF SV!Interval, SV!Bare
  <2>3. SV!Interval(c) = [from |-> first, before |-> next] /\ g # 0
    BY <1>3, <1>14, <2>2 DEF SV!Bare
  <2> HIDE DEF ctr, x, first, next
  <2> QED
    BY <1>3, <1>6, <1>9, <2>1, <2>3
<1>15. CASE c.op = SV!Bare
  <2>1. SV!SatisfiesComparator(v, c) <=> IF 3 \in SV!Given(p) THEN ctr = 0 ELSE SV!SatisfiesX(v, c)
    BY <1>4, <1>15 DEF SV!SatisfiesComparator, SV!Bare
  <2>2. SV!SatisfiesX(v, c) <=> \A k \in 1 .. g : x[k] = p[k]
    BY <1>5 DEF SV!SatisfiesX
  <2>3. (\A k \in 1 .. g : x[k] = p[k]) <=> ctr = 0
    <3>1. (\A k \in 1 .. g : x[k] = p[k])
          <=> (g >= 1 => x[1] = p[1]) /\ (g >= 2 => x[2] = p[2]) /\ (g >= 3 => x[3] = p[3])
      <4> HIDE DEF x, p
      <4>1. \A k \in 1 .. g : k = 1 \/ k = 2 \/ k = 3
        BY <1>3
      <4> QED
        BY <1>3, <4>1
    <3> HIDE DEF x, p
    <3>2. /\ x[1] \in Nat /\ x[2] \in Nat /\ x[3] \in Nat
          /\ g >= 1 => p[1] \in Nat
          /\ g >= 2 => p[2] \in Nat
          /\ g >= 3 => p[3] \in Nat
      BY <1>3
    <3>3. g = 0 \/ g = 1 \/ g = 2 \/ g = 3
      BY <1>3
    <3>4. CASE g = 0
      BY <3>1, <3>4 DEF Along
    <3>5. CASE g = 1
      BY <3>1, <3>2, <3>5 DEF Along, SV!Sign
    <3>6. CASE g = 2
      BY <3>1, <3>2, <3>6 DEF Along, SV!Sign
    <3>7. CASE g = 3
      BY <3>1, <3>2, <3>7 DEF Along, SV!Sign
    <3> QED
      BY <3>3, <3>4, <3>5, <3>6, <3>7
  <2>4. SV!SatisfiesComparator(v, c) <=> ctr = 0
    BY <2>1, <2>2, <2>3
  <2>5. LET some == SubSeq(p, 1, SV!HowMany(p)) IN
        SV!Interval(c) = [from |-> SV!Padded(some), before |-> SV!After(some)]
    BY <1>15 DEF SV!Interval, SV!Bare
  <2>6. SV!Interval(c) = [from |-> first, before |-> next]
    BY <1>3, <2>5
  <2>7. CASE g = 0
    <3>1. next = SV!NoEnd
      BY <1>3, <2>7 DEF SV!After
    <3>2. ctr = 0
      BY <2>7 DEF Along
    <3> HIDE DEF ctr, x, first, next
    <3> QED
      BY <1>3, <1>6, <1>9, <2>4, <2>6, <3>1, <3>2
  <2>8. CASE g # 0
    <3> HIDE DEF ctr, x, first, next
    <3> QED
      BY <1>3, <1>6, <1>9, <2>4, <2>6, <2>8
  <2> QED
    BY <2>7, <2>8
<1>16. CASE c.op = "~"
  <2> DEFINE t == IF g > 2 THEN 2 ELSE g
  <2> DEFINE short == SubSeq(given, 1, t)
  <2> DEFINE end == SV!After(short)
  <2>1. SV!SatisfiesComparator(v, c) <=>
          p[1] = x[1] /\ (2 \in SV!Given(p) => x[2] = p[2]) /\ (3 \in SV!Given(p) => x[3] >= p[3])
    BY <1>16 DEF SV!SatisfiesComparator, SV!SatisfiesTilde, SV!Bare
  <2>2. LET some == SubSeq(p, 1, SV!HowMany(p)) IN
        SV!Interval(c) = [from |-> SV!Padded(some),
                          before |-> SV!After(SubSeq(some, 1, IF Len(some) > 2 THEN 2 ELSE Len(some)))]
    BY <1>16 DEF SV!Interval, SV!Bare
  <2>3. SV!Interval(c) = [from |-> first, before |-> end] /\ g # 0
    BY <1>3, <1>16, <2>2 DEF SV!Bare
  <2>4. t \in 0 .. g /\ t \in 0 .. 3 /\ t # 0 /\ t <= g
    BY <1>3, <2>3
  <2>5. short \in Seq(Nat) /\ Len(short) = t /\ \A k \in 1 .. 3 : k <= t => short[k] = p[k]
    <3> HIDE DEF given, t
    <3>1. short \in Seq(Nat) /\ Len(short) = t /\ \A k \in 1 .. t : short[k] = given[k]
      BY <1>3, <2>4, PrefixIs
    <3> HIDE DEF p, short
    <3>2. \A k \in 1 .. 3 : k <= t => k <= g /\ k \in 1 .. t
      BY <1>3, <2>4
    <3> QED
      BY <1>3, <3>1, <3>2
  <2>6. end \in Threes /\ (InOrder(x, end) < 0 <=> Along(x, p, t) <= 0)
    <3> DEFINE a == SV!Padded(short)
    <3>1. a \in Threes /\ \A k \in 1 .. 3 : a[k] = IF k <= t THEN p[k] ELSE 0
      <4> HIDE DEF short, t
      <4>1. a \in Threes /\ \A k \in 1 .. 3 : a[k] = IF k <= Len(short) THEN short[k] ELSE 0
        BY <2>5, PaddedIs
      <4> HIDE DEF a, p
      <4> QED
        BY <2>5, <4>1
    <3> HIDE DEF a, p, x, short, t
    <3>2. \A k \in 1 .. 3 : k <= t => p[k] \in Nat
      <4>1. \A k \in 1 .. 3 : k <= t => k <= g
        BY <1>3, <2>4
      <4> QED
        BY <1>3, <4>1
    <3>3. \A k \in 1 .. 3 : k <= t => short[k] = p[k]
      BY <2>5
    <3>4. BeginWith(x, p, t, a, short)
      BY <1>0, <1>1, <2>4, <2>5, <3>1, <3>2, <3>3 DEF BeginWith
    <3> QED
      BY <2>4, <3>4, AlongIsBetween
  <2>7. SV!SatisfiesComparator(v, c) <=> ctr >= 0 /\ Along(x, p, t) <= 0
    <3>1. SV!SatisfiesComparator(v, c) <=>
            p[1] = x[1] /\ (g >= 2 => x[2] = p[2]) /\ (g >= 3 => x[3] >= p[3])
      <4>1. (2 \in 1 .. g <=> g >= 2) /\ (3 \in 1 .. g <=> g >= 3)
        BY <1>3
      <4> QED
        BY <1>5, <2>1, <4>1
    <3> HIDE DEF x, p
    <3>2. /\ x[1] \in Nat /\ x[2] \in Nat /\ x[3] \in Nat
          /\ p[1] \in Nat
          /\ g >= 2 => p[2] \in Nat
          /\ g >= 3 => p[3] \in Nat
      BY <1>3, <2>3
    <3>3. g = 1 \/ g = 2 \/ g = 3
      BY <1>3, <2>3
    <3>4. CASE g = 1
      BY <3>1, <3>2, <3>4 DEF Along, SV!Sign
    <3>5. CASE g = 2
      BY <3>1, <3>2, <3>5 DEF Along, SV!Sign
    <3>6. CASE g = 3
      BY <3>1, <3>2, <3>6 DEF Along, SV!Sign
    <3> QED
      BY <3>3, <3>4, <3>5, <3>6
  <2> HIDE DEF ctr, x, first, end, t
  <2> QED
    BY <1>3, <1>6, <1>9, <2>3, <2>6, <2>7
<1>17. CASE c.op = "^"
  <2> DEFINE kept == IF first[1] # 0 THEN 1 ELSE IF first[2] # 0 THEN 2 ELSE 3
  <2> DEFINE short == SubSeq(first, 1, kept)
  <2> DEFINE end == SV!After(short)
  <2>1. SV!SatisfiesComparator(v, c) <=>
          p[1] # SV!Wild /\ SubSeq(x, 1, kept) = short /\ SV!Compare(v, SV!Release(first)) >= 0
    <3> DEFINE r == SV!Filled(c)
    <3> DEFINE q == IF r.n[1] # 0 THEN 1 ELSE IF r.n[2] # 0 THEN 2 ELSE 3
    <3>1. SV!SatisfiesComparator(v, c) <=>
            p[1] # SV!Wild /\ SubSeq(x, 1, q) = SubSeq(r.n, 1, q) /\ SV!Compare(v, r) >= 0
      BY <1>17 DEF SV!SatisfiesComparator, SV!SatisfiesCaret, SV!Bare
    <3>2. r = SV!Release(first) /\ r.n = first
      BY <1>3 DEF SV!Release
    <3> HIDE DEF r, first
    <3> QED
      BY <3>1, <3>2
  <2>2. LET f == SV!Padded(SubSeq(p, 1, SV!HowMany(p)))
            m == IF f[1] # 0 THEN 1 ELSE IF f[2] # 0 THEN 2 ELSE 3 IN
        SV!Interval(c) = [from |-> f, before |-> SV!After(SubSeq(f, 1, m))]
    BY <1>17 DEF SV!Interval, SV!Bare
  <2>3. SV!Interval(c) = [from |-> first, before |-> end] /\ g # 0
    BY <1>3, <1>17, <2>2 DEF SV!Bare
  <2>4. kept \in 1 .. 3
    <3> HIDE DEF first
    <3> QED
      OBVIOUS
  <2>5. /\ short \in Seq(Nat) /\ Len(short) = kept /\ \A k \in 1 .. kept : short[k] = first[k]
        /\ SubSeq(x, 1, kept) = short <=> \A k \in 1 .. kept : x[k] = first[k]
    <3> HIDE DEF first, kept, x
    <3>1. /\ short \in Seq(Nat) /\ Len(short) = kept /\ \A k \in 1 .. kept : short[k] = first[k]
          /\ \A b \in Threes : short = SubSeq(b, 1, kept) <=> \A k \in 1 .. kept : first[k] = b[k]
      BY <1>3, <2>4, FirstNumbers
    <3> HIDE DEF short
    <3> QED
      BY <1>1, <3>1
  <2>6. /\ x[1] \in Nat /\ x[2] \in Nat /\ x[3] \in Nat
        /\ first[1] \in Nat /\ first[2] \in Nat /\ first[3] \in Nat
    <3> HIDE DEF x, first
    <3> QED
      BY <1>1, <1>3, OrderIs
  <2>7. end \in Threes /\ (InOrder(x, end) < 0 <=> Along(x, first, kept) <= 0)
    <3> DEFINE a == SV!Padded(short)
    <3>1. a \in Threes /\ \A k \in 1 .. 3 : a[k] = IF k <= Len(short) THEN short[k] ELSE 0
      <4> HIDE DEF short
      <4> QED
        BY <2>5, PaddedIs
    <3> HIDE DEF a, first, x, short, kept
    <3>2. \A k \in 1 .. 3 : k <= kept => short[k] = first[k]
      <4>1. \A k \in 1 .. 3 : k <= kept => k \in 1 .. kept
        BY <2>4
      <4> QED
        BY <2>5, <4>1
    <3>3. \A k \in 1 .. 3 : a[k] = IF k <= kept THEN first[k] ELSE 0
      BY <2>5, <3>1, <3>2
    <3>4. \A k \in 1 .. 3 : k <= kept => first[k] \in Nat
      BY <1>3, OrderIs
    <3>5. kept \in 0 .. 3 /\ kept # 0
      BY <2>4
    <3>6. first \in Seq(Int)
      <4>1. first \in Seq(Nat) /\ Nat \subseteq Int
        BY <1>3 DEF Threes
      <4> QED
        BY <4>1, SeqMonotonic
    <3>7. BeginWith(x, first, kept, a, short)
      BY <1>1, <2>5, <3>1, <3>2, <3>3, <3>4, <3>5, <3>6 DEF BeginWith
    <3> QED
      BY <3>5, <3>7, AlongIsBetween
  <2>8. (\A k \in 1 .. kept : x[k] = first[k]) /\ InOrder(x, first) >= 0
        <=> InOrder(x, first) >= 0 /\ Along(x, first, kept) <= 0
    <3>1. (\A k \in 1 .. kept : x[k] = first[k])
          <=> x[1] = first[1] /\ (kept >= 2 => x[2] = first[2]) /\ (kept >= 3 => x[3] = first[3])
      <4> HIDE DEF x, first, kept
      <4>1. /\ \A k \in 1 .. kept : k = 1 \/ k = 2 \/ k = 3
            /\ 1 \in 1 .. kept /\ (kept >= 2 => 2 \in 1 .. kept) /\ (kept >= 3 => 3 \in 1 .. kept)
            /\ \A k \in 1 .. kept : (k = 2 => kept >= 2) /\ (k = 3 => kept >= 3)
        BY <2>4
      <4> QED
        BY <4>1
    <3> HIDE DEF x, first
    <3>2. CASE first[1] # 0
      <4>1. kept = 1
        BY <3>2
      <4> HIDE DEF kept
      <4> QED
        BY <2>6, <3>1, <4>1 DEF Along, InOrder, SV!Sign
    <3>3. CASE first[1] = 0 /\ first[2] # 0
      <4>1. kept = 2
        BY <3>3
      <4> HIDE DEF kept
      <4> QED
        BY <2>6, <3>1, <3>3, <4>1 DEF Along, InOrder, SV!Sign
    <3>4. CASE first[1] = 0 /\ first[2] = 0
      <4>1. kept = 3
        BY <3>4
      <4> HIDE DEF kept
      <4> QED
        BY <2>6, <3>1, <3>4, <4>1 DEF Along, InOrder, SV!Sign
    <3> QED
      BY <3>2, <3>3, <3>4
  <2>9. p[1] # SV!Wild
    <3> HIDE DEF p
    <3> QED
      BY <1>3, <2>3 DEF SV!Wild
  <2>10. SV!Compare(v, SV!Release(first)) = InOrder(x, first)
    <3> HIDE DEF first
    <3> QED
      BY <1>3, ReleasesCompare
  <2>11. SV!SatisfiesComparator(v, c) <=> InOrder(x, first) >= 0 /\ InOrder(x, end) < 0
    <3> HIDE DEF x, first, kept, short, end, p
    <3> QED
      BY <2>1, <2>5, <2>7, <2>8, <2>9, <2>10
  <2> HIDE DEF x, first, end
  <2> QED
    BY <1>3, <1>9, <2>3, <2>7, <2>11
<1> QED
  BY <1>8, <1>10, <1>11, <1>12, <1>13, <1>14, <1>15, <1>16, <1>17

\* The best of three.
LEMMA BestOfThree ==
  ASSUME NEW c, NEW u \in VersionType, NEW v \in VersionType, NEW w \in VersionType
  PROVE  LET best == SV!MaxSatisfying(<<v, u, w>>, {{c}})
             fit == {x \in {v, u, w} : SV!SatisfiesComparator(x, c)}
         IN  IF fit = {} THEN best = SV!None
             ELSE best \in fit /\ \A x \in fit : SV!Compare(x, best) <= 0
<1> DEFINE range == {{c}}
<1> DEFINE list == <<v, u, w>>
<1> DEFINE best == SV!MaxSatisfying(list, range)
<1> DEFINE fit == {x \in {v, u, w} : SV!SatisfiesComparator(x, c)}
<1>1. list \in Seq(VersionType) /\ Len(list) = 3
  OBVIOUS
<1>2. list[1] = v /\ list[2] = u /\ list[3] = w
  OBVIOUS
<1>3. \A x : Fits(x, range) <=> SV!SatisfiesComparator(x, c)
  BY DEF Fits, SV!Satisfies
<1>4. IsBest(best, list, range, 3)
  <2> HIDE DEF list, range
  <2> QED
    BY <1>1, BestIsKept
<1>5. \A x : x \in fit <=> \E j \in 1 .. 3 : x = list[j] /\ Fits(list[j], range)
  <2>1. \A j \in 1 .. 3 : j = 1 \/ j = 2 \/ j = 3
    OBVIOUS
  <2>2. 1 \in 1 .. 3 /\ 2 \in 1 .. 3 /\ 3 \in 1 .. 3
    OBVIOUS
  <2> HIDE DEF list, range
  <2> QED
    BY <1>2, <1>3, <2>1, <2>2
<1> HIDE DEF list, range, best, fit
<1>6. IF fit = {} THEN best = SV!None
      ELSE best \in fit /\ \A x \in fit : SV!Compare(x, best) <= 0
  BY <1>4, <1>5 DEF IsBest
<1> QED
  BY <1>6 DEF list, range, best, fit

\* Ranges are intervals of the order of versions, whichever versions and comparators
\* there are (semver.ts).
THEOREM VersionsStayInRanges == VersionsSpec => []VersionsInRanges
<1> DEFINE Inv == asked \in [version : SomeVersions, comparator : SomeComparators]
<1>1. VersionsInit => Inv
  BY DEF VersionsInit
<1>2. Inv /\ [UNCHANGED asked]_asked => Inv'
  OBVIOUS
<1>3. Inv => VersionsInRanges
  <2> SUFFICES ASSUME Inv PROVE VersionsInRanges
    OBVIOUS
  <2> DEFINE v == asked.version
  <2> DEFINE c == asked.comparator
  <2>1. v \in SomeVersions /\ v \in VersionType /\ c \in ComparatorType /\ SomeVersions \subseteq VersionType
    BY VersionsAssumption
  <2>2. RangesMeanIntervals
    <3> HIDE DEF v, c
    <3>1. v.pre = << >> /\ c.pre = << >> /\ Plain(c) =>
            (SV!SatisfiesComparator(v, c) <=> SV!Within(v, SV!Interval(c)))
      BY <2>1, RangeIsInterval
    <3> QED
      BY <3>1 DEF RangesMeanIntervals, v, c
  <2>3. VersionsOrdered
    <3> SUFFICES ASSUME NEW u \in SomeVersions, NEW w \in SomeVersions
                 PROVE  /\ SV!Compare(v, u) = - SV!Compare(u, v) /\ (SV!Compare(v, u) = 0 => u = v)
                        /\ SV!Compare(v, u) < 0 /\ SV!Compare(u, w) < 0 => SV!Compare(v, w) < 0
                        /\ LET best == SV!MaxSatisfying(<<v, u, w>>, {{c}})
                               fit == {x \in {v, u, w} : SV!SatisfiesComparator(x, c)}
                           IN  IF fit = {} THEN best = SV!None
                               ELSE best \in fit /\ \A x \in fit : SV!Compare(x, best) <= 0
      BY DEF VersionsOrdered
    <3> HIDE DEF v, c
    <3>1. u \in VersionType /\ w \in VersionType
      BY <2>1
    <3>2. /\ SV!Compare(v, u) = - SV!Compare(u, v) /\ (SV!Compare(v, u) = 0 => u = v)
          /\ SV!Compare(v, u) < 0 /\ SV!Compare(u, w) < 0 => SV!Compare(v, w) < 0
      BY <2>1, <3>1, VersionsAreOrdered
    <3>3. LET best == SV!MaxSatisfying(<<v, u, w>>, {{c}})
              fit == {x \in {v, u, w} : SV!SatisfiesComparator(x, c)}
          IN  IF fit = {} THEN best = SV!None
              ELSE best \in fit /\ \A x \in fit : SV!Compare(x, best) <= 0
      BY <2>1, <3>1, BestOfThree
    <3> QED
      BY <3>2, <3>3
  <2> QED
    BY <2>2, <2>3 DEF VersionsInRanges
<1> QED
  BY <1>1, <1>2, <1>3, PTL DEF VersionsSpec

(***************************************************************************)
(* The commands and the files.                                             *)
(***************************************************************************)
States == {"idle", "metadata", "resolve", "resolveStale", "packages", "scripts", "spawn", "done", "killed"}
Commands ==
  [op : {"none", "install", "npx", "uninstall"}, name : SUBSET Packages, pc : States,
   deps : SUBSET Packages, plan : Versions, pkg : [Packages -> {"skip", "fetch", "failed", "half", "done"}],
   jsonFirst : [Packages -> BOOLEAN], left : SUBSET Scripted, code : 0 .. 1,
   found : Versions, alone : BOOLEAN]

ProjectTypes ==
  /\ latest \in [Packages -> 1 .. MaxVersion] /\ lock \in Versions
  /\ packageJson \subseteq Packages /\ bins \subseteq Packages /\ torn \subseteq Packages
  /\ modules \in [Packages -> [json : 0 .. MaxVersion, rest : 0 .. MaxVersion]]
  /\ cmd \in [Cmds -> Commands] /\ scripts \in [Cmds -> SUBSET Scripted]
  /\ kills \in 0 .. MaxKills /\ fails \in 0 .. MaxFails

Working(s) == s.pc \notin {"idle", "done", "killed"}
Half(s, n) == s.pc = "packages" /\ s.pkg[n] = "half"

\* What a lockfile, or a plan, lists has what it needs in it.
Closed(v) == \A n \in Packages : v[n] # 0 => \A m \in Needs[n] : v[m] # 0
Plans == Closed(lock) /\ \A c \in Cmds : Closed(cmd[c].plan)

\* Only a command in the phase of scripts waits for one, and for no other with it.
OneScript == \A c \in Cmds : /\ scripts[c] # {} => cmd[c].pc = "scripts"
                             /\ \A j, k \in scripts[c] : j = k

\* A package that is not torn is written by one command at most, and is whole, or half
\* written in the version that command plans.
Whole(cs, ms, tn) ==
  \A n \in Packages \ tn :
    /\ \A c, d \in Cmds : Half(cs[c], n) /\ Half(cs[d], n) => c = d
    /\ (\A c \in Cmds : ~ Half(cs[c], n)) => ms[n].json = ms[n].rest
    /\ \A c \in Cmds : Half(cs[c], n) =>
         IF cs[c].jsonFirst[n] THEN ms[n].json = cs[c].plan[n] ELSE ms[n].rest = cs[c].plan[n]

\* A command that is to reproduce the lockfile it found.
Reproduces(s) == s.op = "install" /\ s.name = {} /\ s.found # NoVersions /\ \A n \in s.deps : s.found[n] # 0

\* What a command that runs alone has made of the lockfile, package.json and
\* node_modules by where it is.
LockFollows(s, lk) ==
  /\ s.pc \in {"metadata", "resolve", "resolveStale", "packages"} => lk = s.found
  /\ Reproduces(s) => /\ s.pc \notin {"metadata", "resolve", "resolveStale"} /\ lk = s.found
                      /\ s.pc = "packages" => s.plan = s.found
  /\ s.op = "install" /\ s.pc = "packages" => \A n \in s.name : s.plan[n] # 0
  /\ s.op = "install" /\ s.pc \in {"scripts", "done"} => \A n \in s.name : lk[n] # 0
  /\ s.op = "install" => s.pc # "spawn"
JsonFollows(s, pj) ==
  /\ s.op = "install" /\ s.pc \in {"resolve", "resolveStale", "packages", "scripts", "done"} => s.name \subseteq pj
  /\ s.op = "install" /\ s.pc \in {"resolve", "resolveStale"} => s.name \subseteq s.deps
ModulesFollow(s, ms) ==
  /\ s.pc = "metadata" => \A n \in Packages : s.plan[n] = 0
  /\ s.pc \in {"packages", "scripts", "spawn", "done"} =>
       \A n \in Packages : s.plan[n] # 0 /\ s.pkg[n] \in {"skip", "done"} => ms[n].json = s.plan[n]
  /\ s.pc = "packages" =>
       \A n \in Packages : s.pkg[n] = "half" =>
         IF s.jsonFirst[n] THEN ms[n].json = s.plan[n] ELSE ms[n].rest = s.plan[n]
  /\ s.pc \in {"scripts", "spawn", "done"} =>
       \A n \in Packages : s.plan[n] # 0 => s.pkg[n] \in {"skip", "done", "failed"}
Followed(s, lk, pj, ms) == LockFollows(s, lk) /\ JsonFollows(s, pj) /\ ModulesFollow(s, ms)

Alone(cs, lk, pj, ms) ==
  \A c \in Cmds : cs[c].alone /\ cs[c].pc \notin {"idle", "killed"} =>
    /\ \A d \in Cmds : d # c => ~ Working(cs[d])
    /\ Working(cs[c]) \/ cs[c].code = 0 => Followed(cs[c], lk, pj, ms)

ProjectInv ==
  /\ ProjectTypes /\ Plans /\ OneScript /\ Whole(cmd, modules, torn)
  /\ Alone(cmd, lock, packageJson, modules)

-----------------------------------------------------------------------------
(***************************************************************************)
(* What the steps of a command have in common.                             *)
(***************************************************************************)
LEMMA StateTypes ==
  ASSUME ProjectTypes, NEW c \in Cmds
  PROVE  /\ cmd \in [Cmds -> Commands] /\ cmd[c] \in Commands
         /\ cmd[c].op \in {"none", "install", "npx", "uninstall"} /\ cmd[c].name \subseteq Packages /\ cmd[c].pc \in States
         /\ cmd[c].deps \subseteq Packages /\ cmd[c].plan \in Versions
         /\ cmd[c].pkg \in [Packages -> {"skip", "fetch", "failed", "half", "done"}]
         /\ cmd[c].jsonFirst \in [Packages -> BOOLEAN] /\ cmd[c].left \subseteq Scripted
         /\ cmd[c].code \in 0 .. 1 /\ cmd[c].found \in Versions /\ cmd[c].alone \in BOOLEAN
<1>1. cmd \in [Cmds -> Commands]
  BY DEF ProjectTypes
<1>2. cmd[c] \in Commands
  BY <1>1
<1> QED
  BY <1>1, <1>2 DEF Commands

LEMMA UnderWayIsWorking ==
  ASSUME NEW c \in Cmds
  PROVE  UnderWay(c) <=> Working(cmd[c])
BY DEF UnderWay, Working

\* A step of a command is a step of no other.
LEMMA CmdMoves ==
  ASSUME ProjectTypes, NEW c \in Cmds, NEW s \in Commands, CmdGoes(c, s)
  PROVE  /\ cmd' \in [Cmds -> Commands] /\ cmd'[c] = s
         /\ \A d \in Cmds : d # c => cmd'[d] = cmd[d]
BY DEF CmdGoes, ProjectTypes

\* Who runs alone is not disturbed by the steps of others: there are none.
LEMMA AloneMoves ==
  ASSUME NEW cs \in [Cmds -> Commands], NEW ds \in [Cmds -> Commands], NEW c \in Cmds,
         NEW lk, NEW pj, NEW ms, NEW lk2, NEW pj2, NEW ms2,
         Alone(cs, lk, pj, ms), Working(cs[c]), \A d \in Cmds : d # c => ds[d] = cs[d],
         ds[c].alone = cs[c].alone,
         Followed(cs[c], lk, pj, ms) /\ ds[c].pc # "killed" /\ (Working(ds[c]) \/ ds[c].code = 0)
           => Followed(ds[c], lk2, pj2, ms2)
  PROVE  Alone(ds, lk2, pj2, ms2)
<1> SUFFICES ASSUME NEW e \in Cmds, ds[e].alone, ds[e].pc \notin {"idle", "killed"}
             PROVE  /\ \A d \in Cmds : d # e => ~ Working(ds[d])
                    /\ (Working(ds[e]) \/ ds[e].code = 0) => Followed(ds[e], lk2, pj2, ms2)
  BY DEF Alone
<1>1. e = c
  <2> SUFFICES ASSUME e # c PROVE FALSE
    OBVIOUS
  <2>1. ds[e] = cs[e]
    OBVIOUS
  <2>2. cs[e].alone /\ cs[e].pc \notin {"idle", "killed"}
    BY <2>1
  <2> QED
    BY <2>2 DEF Alone
<1>2. cs[c].alone /\ cs[c].pc \notin {"idle", "killed"}
  BY <1>1 DEF Working
<1>3. (\A d \in Cmds : d # c => ~ Working(cs[d])) /\ Followed(cs[c], lk, pj, ms)
  BY <1>2 DEF Alone
<1>4. \A d \in Cmds : d # e => ~ Working(ds[d])
  BY <1>1, <1>3 DEF Working
<1> QED
  BY <1>1, <1>3, <1>4

\* As long as nothing is written, packages stay whole or half written by the same.
LEMMA WholeStays ==
  ASSUME NEW cs \in [Cmds -> Commands], NEW ds \in [Cmds -> Commands], NEW ms, NEW tn, NEW tn2,
         Whole(cs, ms, tn), tn \subseteq tn2,
         \A d \in Cmds, n \in Packages \ tn2 :
           /\ Half(ds[d], n) <=> Half(cs[d], n)
           /\ Half(cs[d], n) => ds[d].jsonFirst[n] = cs[d].jsonFirst[n] /\ ds[d].plan[n] = cs[d].plan[n]
  PROVE  Whole(ds, ms, tn2)
<1> SUFFICES ASSUME NEW n \in Packages \ tn2
             PROVE  /\ \A c, d \in Cmds : Half(ds[c], n) /\ Half(ds[d], n) => c = d
                    /\ (\A c \in Cmds : ~ Half(ds[c], n)) => ms[n].json = ms[n].rest
                    /\ \A c \in Cmds : Half(ds[c], n) =>
                         IF ds[c].jsonFirst[n] THEN ms[n].json = ds[c].plan[n] ELSE ms[n].rest = ds[c].plan[n]
  BY DEF Whole
<1>1. n \in Packages \ tn
  OBVIOUS
<1>2. \A c, d \in Cmds : Half(cs[c], n) /\ Half(cs[d], n) => c = d
  BY <1>1 DEF Whole
<1>3. (\A c \in Cmds : ~ Half(cs[c], n)) => ms[n].json = ms[n].rest
  BY <1>1 DEF Whole
<1>4. \A c \in Cmds : Half(cs[c], n) =>
         IF cs[c].jsonFirst[n] THEN ms[n].json = cs[c].plan[n] ELSE ms[n].rest = cs[c].plan[n]
  BY <1>1 DEF Whole
<1> QED
  BY <1>2, <1>3, <1>4

\* What a lockfile is written from has what it needs in it.
LEMMA ResolvedIsClosed ==
  ASSUME ProjectTypes, NEW deps \in SUBSET Packages
  PROVE  /\ Resolved(deps) \in Versions /\ Closed(Resolved(deps))
         /\ \A n \in deps : Resolved(deps)[n] # 0
<1>1. \A n \in Packages : latest[n] \in 1 .. MaxVersion /\ latest[n] # 0
  BY InstallAssumption DEF ProjectTypes
<1>2. Resolved(deps) \in Versions
  <2>1. \A n \in Packages : latest[n] \in 0 .. MaxVersion /\ 0 \in 0 .. MaxVersion
    BY <1>1, InstallAssumption
  <2> QED
    BY <2>1 DEF Resolved, Versions
<1>3. \A n \in Packages : Resolved(deps)[n] # 0 <=> \E d \in deps : n \in Needs[d]
  BY <1>1 DEF Resolved
<1>4. Closed(Resolved(deps))
  <2> SUFFICES ASSUME NEW n \in Packages, Resolved(deps)[n] # 0, NEW m \in Needs[n]
               PROVE  Resolved(deps)[m] # 0
    BY DEF Closed
  <2>1. PICK d \in deps : n \in Needs[d]
    BY <1>3
  <2>2. m \in Needs[d] /\ m \in Packages
    BY <2>1, InstallAssumption
  <2> QED
    BY <1>3, <2>2
<1>5. \A n \in deps : n \in Packages /\ n \in Needs[n]
  BY InstallAssumption
<1> QED
  BY <1>2, <1>3, <1>4, <1>5

LEMMA NoVersionsTyped == NoVersions \in Versions /\ Closed(NoVersions) /\ \A n \in Packages : NoVersions[n] = 0
<1>1. 0 \in 0 .. MaxVersion
  BY InstallAssumption
<1> QED
  BY <1>1 DEF NoVersions, Versions, Closed

LEMMA IdleTyped == Idle \in Commands
<1>1. 0 \in 0 .. 1
  OBVIOUS
<1>2. NoVersions \in Versions
  BY NoVersionsTyped
<1>3. [n \in Packages |-> "skip"] \in [Packages -> {"skip", "fetch", "failed", "half", "done"}]
  OBVIOUS
<1>4. [n \in Packages |-> TRUE] \in [Packages -> BOOLEAN]
  OBVIOUS
<1> QED
  BY <1>1, <1>2, <1>3, <1>4 DEF Idle, Commands, States

LEMMA CmdActs ==
  ASSUME ProjectInv, NEW c \in Cmds, NEW s \in Commands, CmdGoes(c, s), Working(cmd[c]), s.alone = cmd[c].alone,
         Followed(cmd[c], lock, packageJson, modules) /\ s.pc # "killed" /\ (Working(s) \/ s.code = 0)
           => Followed(s, lock', packageJson', modules')
  PROVE  Alone(cmd', lock', packageJson', modules')
<1>1. ProjectTypes /\ Alone(cmd, lock, packageJson, modules)
  BY DEF ProjectInv
<1>2. cmd \in [Cmds -> Commands]
  BY <1>1 DEF ProjectTypes
<1>3. cmd' \in [Cmds -> Commands] /\ cmd'[c] = s /\ \A d \in Cmds : d # c => cmd'[d] = cmd[d]
  BY <1>1, CmdMoves
<1> DEFINE ds == cmd'
           lk2 == lock'
           pj2 == packageJson'
           ms2 == modules'
<1>4. ds \in [Cmds -> Commands] /\ (\A d \in Cmds : d # c => ds[d] = cmd[d]) /\ ds[c].alone = cmd[c].alone
  BY <1>3
<1>5. Followed(cmd[c], lock, packageJson, modules) /\ ds[c].pc # "killed" /\ (Working(ds[c]) \/ ds[c].code = 0)
        => Followed(ds[c], lk2, pj2, ms2)
  BY <1>3
<1> HIDE DEF ds, lk2, pj2, ms2
<1>6. Alone(ds, lk2, pj2, ms2)
  BY <1>1, <1>2, <1>4, <1>5, AloneMoves
<1> QED
  BY <1>6 DEF ds, lk2, pj2, ms2

\* A step of a command that writes nothing in node_modules and starts or ends no
\* package leaves them whole.
LEMMA WholeActs ==
  ASSUME ProjectInv, NEW c \in Cmds, NEW s \in Commands, CmdGoes(c, s), modules' = modules, torn \subseteq torn',
         \A n \in Packages : n \notin torn' =>
           /\ Half(s, n) <=> Half(cmd[c], n)
           /\ Half(s, n) => s.jsonFirst[n] = cmd[c].jsonFirst[n] /\ s.plan[n] = cmd[c].plan[n]
  PROVE  Whole(cmd', modules', torn')
<1>1. ProjectTypes /\ Whole(cmd, modules, torn)
  BY DEF ProjectInv
<1>2. cmd \in [Cmds -> Commands]
  BY <1>1 DEF ProjectTypes
<1>3. cmd' \in [Cmds -> Commands] /\ cmd'[c] = s /\ \A d \in Cmds : d # c => cmd'[d] = cmd[d]
  BY <1>1, CmdMoves
<1> DEFINE ds == cmd'
           tn2 == torn'
<1>4. \A d \in Cmds, n \in Packages \ tn2 :
        /\ Half(ds[d], n) <=> Half(cmd[d], n)
        /\ Half(cmd[d], n) => ds[d].jsonFirst[n] = cmd[d].jsonFirst[n] /\ ds[d].plan[n] = cmd[d].plan[n]
  <2> SUFFICES ASSUME NEW d \in Cmds, NEW n \in Packages \ tn2
               PROVE  /\ Half(ds[d], n) <=> Half(cmd[d], n)
                      /\ Half(cmd[d], n) => ds[d].jsonFirst[n] = cmd[d].jsonFirst[n] /\ ds[d].plan[n] = cmd[d].plan[n]
    OBVIOUS
  <2>1. CASE d = c
    BY <1>3, <2>1
  <2>2. CASE d # c
    BY <1>3, <2>2
  <2> QED
    BY <2>1, <2>2
<1>5. ds \in [Cmds -> Commands] /\ torn \subseteq tn2
  BY <1>3
<1> HIDE DEF ds, tn2
<1>6. Whole(ds, modules, tn2)
  BY <1>1, <1>2, <1>4, <1>5, WholeStays
<1> QED
  BY <1>6 DEF ds, tn2

LEMMA PlansStay ==
  ASSUME ProjectInv, NEW c \in Cmds, NEW s \in Commands, CmdGoes(c, s), Closed(s.plan), lock' = lock \/ lock' = cmd[c].plan
  PROVE  Plans'
<1>1. ProjectTypes /\ Plans
  BY DEF ProjectInv
<1>2. cmd'[c] = s /\ \A d \in Cmds : d # c => cmd'[d] = cmd[d]
  BY <1>1, CmdMoves
<1>3. Closed(lock) /\ \A d \in Cmds : Closed(cmd[d].plan)
  BY <1>1 DEF Plans
<1>4. \A d \in Cmds : Closed(cmd'[d].plan)
  <2> SUFFICES ASSUME NEW d \in Cmds PROVE Closed(cmd'[d].plan)
    OBVIOUS
  <2>1. CASE d = c
    BY <1>2, <2>1
  <2>2. CASE d # c
    BY <1>2, <1>3, <2>2
  <2> QED
    BY <2>1, <2>2
<1>5. Closed(lock')
  <2>1. CASE lock' = lock
    BY <1>3, <2>1
  <2>2. CASE lock' = cmd[c].plan
    BY <1>3, <2>2
  <2> QED
    BY <2>1, <2>2
<1> QED
  BY <1>4, <1>5 DEF Plans

LEMMA ScriptsStay ==
  ASSUME ProjectInv, NEW c \in Cmds, NEW s \in Commands, CmdGoes(c, s), scripts' = scripts,
         cmd[c].pc # "scripts" \/ s.pc = "scripts"
  PROVE  OneScript'
<1>1. ProjectTypes /\ OneScript
  BY DEF ProjectInv
<1>2. cmd'[c] = s /\ \A d \in Cmds : d # c => cmd'[d] = cmd[d]
  BY <1>1, CmdMoves
<1> SUFFICES ASSUME NEW d \in Cmds
             PROVE  (scripts[d] # {} => cmd'[d].pc = "scripts") /\ \A j, k \in scripts[d] : j = k
  BY DEF OneScript
<1>3. (scripts[d] # {} => cmd[d].pc = "scripts") /\ \A j, k \in scripts[d] : j = k
  BY <1>1 DEF OneScript
<1>4. CASE d = c
  BY <1>2, <1>3, <1>4
<1>5. CASE d # c
  BY <1>2, <1>3, <1>5
<1> QED
  BY <1>4, <1>5

LEMMA CmdTyped ==
  ASSUME NEW s \in Commands, NEW v \in Versions, NEW b \in BOOLEAN
  PROVE  [s EXCEPT !.found = v, !.alone = b] \in Commands /\ [s EXCEPT !.found = v, !.alone = b].alone = b
BY DEF Commands

\* A command that starts: those under way no longer run alone, and it does only if
\* there are none.
LEMMA NewCommand ==
  ASSUME ProjectTypes, NEW c \in Cmds, NEW s \in Commands, Starts(c, s)
  PROVE  /\ cmd[c].pc = "idle" /\ cmd' \in [Cmds -> Commands]
         /\ LET t == [s EXCEPT !.found = lock, !.alone = cmd'[c].alone] IN t \in Commands /\ cmd'[c] = t
         /\ cmd'[c].alone => \A d \in Cmds : d # c => ~ Working(cmd'[d])
         /\ \A d \in Cmds : d # c =>
              /\ cmd'[d].alone = FALSE /\ cmd'[d].pc = cmd[d].pc
              /\ Working(cmd[d]) => cmd'[d] = [cmd[d] EXCEPT !.alone = FALSE]
              /\ cmd'[d].plan \in {cmd[d].plan, NoVersions}
<1> DEFINE others == {d \in Cmds \ {c} : UnderWay(d)}
<1> DEFINE t == [s EXCEPT !.found = lock, !.alone = (others = {})]
<1>1. /\ cmd[c].pc = "idle"
      /\ cmd' = [d \in Cmds |-> IF d = c THEN t
                                ELSE IF UnderWay(d) THEN [cmd[d] EXCEPT !.alone = FALSE]
                                ELSE [Idle EXCEPT !.pc = cmd[d].pc, !.alone = FALSE]]
  BY DEF Starts
<1>2. t \in Commands /\ t.alone = (others = {})
  <2>1. lock \in Versions /\ (others = {}) \in BOOLEAN
    BY DEF ProjectTypes
  <2> DEFINE b == (others = {})
  <2> HIDE DEF others
  <2>2. b \in BOOLEAN
    BY <2>1
  <2> HIDE DEF b
  <2>3. lock \in Versions
    BY <2>1
  <2>4. [s EXCEPT !.found = lock, !.alone = b] \in Commands /\ [s EXCEPT !.found = lock, !.alone = b].alone = b
    BY <2>2, <2>3, CmdTyped
  <2> QED
    BY <2>4 DEF b
<1>3. \A d \in Cmds : cmd[d] \in Commands /\ cmd[d].pc \in States
  BY StateTypes
<1>4. \A d \in Cmds : [cmd[d] EXCEPT !.alone = FALSE] \in Commands
  <2> SUFFICES ASSUME NEW d \in Cmds PROVE [cmd[d] EXCEPT !.alone = FALSE] \in Commands
    OBVIOUS
  <2>1. cmd[d] \in Commands
    BY <1>3
  <2> QED
    BY <2>1 DEF Commands
<1>5. \A d \in Cmds : [Idle EXCEPT !.pc = cmd[d].pc, !.alone = FALSE] \in Commands
  <2> SUFFICES ASSUME NEW d \in Cmds PROVE [Idle EXCEPT !.pc = cmd[d].pc, !.alone = FALSE] \in Commands
    OBVIOUS
  <2>1. cmd[d].pc \in States
    BY <1>3
  <2> QED
    BY <2>1, IdleTyped DEF Commands
<1>6. cmd'[c] = t
  BY <1>1
<1>7. \A d \in Cmds : d # c => cmd'[d] = IF UnderWay(d) THEN [cmd[d] EXCEPT !.alone = FALSE]
                                          ELSE [Idle EXCEPT !.pc = cmd[d].pc, !.alone = FALSE]
  BY <1>1
<1>8. cmd' \in [Cmds -> Commands]
  <2> HIDE DEF t
  <2> QED
    BY <1>1, <1>2, <1>4, <1>5
<1>9. \A d \in Cmds : d # c =>
        /\ cmd'[d].alone = FALSE /\ cmd'[d].pc = cmd[d].pc
        /\ Working(cmd[d]) => cmd'[d] = [cmd[d] EXCEPT !.alone = FALSE]
        /\ cmd'[d].plan \in {cmd[d].plan, NoVersions}
  <2> SUFFICES ASSUME NEW d \in Cmds, d # c
               PROVE  /\ cmd'[d].alone = FALSE /\ cmd'[d].pc = cmd[d].pc
                      /\ Working(cmd[d]) => cmd'[d] = [cmd[d] EXCEPT !.alone = FALSE]
                      /\ cmd'[d].plan \in {cmd[d].plan, NoVersions}
    OBVIOUS
  <2>1. UnderWay(d) <=> Working(cmd[d])
    BY UnderWayIsWorking
  <2>2. CASE UnderWay(d)
    <3>1. cmd'[d] = [cmd[d] EXCEPT !.alone = FALSE] /\ cmd[d] \in Commands
      BY <1>3, <1>7, <2>2
    <3> QED
      BY <3>1 DEF Commands
  <2>3. CASE ~ UnderWay(d)
    <3>1. cmd'[d] = [Idle EXCEPT !.pc = cmd[d].pc, !.alone = FALSE]
      BY <1>7, <2>3
    <3>2. cmd'[d].alone = FALSE /\ cmd'[d].pc = cmd[d].pc /\ cmd'[d].plan = NoVersions
      BY <3>1 DEF Idle
    <3> QED
      BY <2>1, <2>3, <3>1, <3>2
  <2> QED
    BY <2>2, <2>3
<1>10. cmd'[c].alone => \A d \in Cmds : d # c => ~ Working(cmd'[d])
  <2> SUFFICES ASSUME others = {}, NEW d \in Cmds, d # c PROVE ~ Working(cmd'[d])
    BY <1>2, <1>6
  <2>1. ~ UnderWay(d)
    OBVIOUS
  <2>2. cmd'[d].pc = cmd[d].pc
    BY <1>9
  <2> QED
    BY <2>1, <2>2, UnderWayIsWorking DEF Working
<1>11. LET r == [s EXCEPT !.found = lock, !.alone = cmd'[c].alone] IN r \in Commands /\ cmd'[c] = r
  BY <1>2, <1>6
<1> QED
  BY <1>1, <1>8, <1>9, <1>10, <1>11

LEMMA Started ==
  ASSUME ProjectInv, NEW c \in Cmds, NEW s \in Commands, Starts(c, s), Closed(s.plan), \A n \in Packages : ~ Half(s, n),
         lock' = lock, scripts' = scripts,
         LET t == [s EXCEPT !.found = lock, !.alone = cmd'[c].alone] IN
           Followed(t, lock', packageJson', modules')
  PROVE  /\ cmd' \in [Cmds -> Commands] /\ Plans' /\ OneScript'
         /\ Alone(cmd', lock', packageJson', modules')
         /\ modules' = modules /\ torn' = torn => Whole(cmd', modules', torn')
         /\ \A d \in Cmds, n \in Packages :
              /\ Half(cmd'[d], n) <=> Half(cmd[d], n)
              /\ Half(cmd[d], n) => cmd'[d].jsonFirst[n] = cmd[d].jsonFirst[n] /\ cmd'[d].plan[n] = cmd[d].plan[n]
<1>1. ProjectTypes /\ Plans /\ OneScript /\ Whole(cmd, modules, torn) /\ cmd \in [Cmds -> Commands]
  BY DEF ProjectInv, ProjectTypes
<1> DEFINE t == [s EXCEPT !.found = lock, !.alone = cmd'[c].alone]
<1>2. /\ cmd[c].pc = "idle" /\ cmd' \in [Cmds -> Commands] /\ t \in Commands /\ cmd'[c] = t
      /\ cmd'[c].alone => \A d \in Cmds : d # c => ~ Working(cmd'[d])
      /\ \A d \in Cmds : d # c =>
              /\ cmd'[d].alone = FALSE /\ cmd'[d].pc = cmd[d].pc
              /\ Working(cmd[d]) => cmd'[d] = [cmd[d] EXCEPT !.alone = FALSE]
              /\ cmd'[d].plan \in {cmd[d].plan, NoVersions}
  BY <1>1, NewCommand
<1>3. t.pc = s.pc /\ t.plan = s.plan /\ t.pkg = s.pkg
  BY DEF Commands
<1>4. \A d \in Cmds, n \in Packages :
        /\ Half(cmd'[d], n) <=> Half(cmd[d], n)
        /\ Half(cmd[d], n) => cmd'[d].jsonFirst[n] = cmd[d].jsonFirst[n] /\ cmd'[d].plan[n] = cmd[d].plan[n]
  <2> SUFFICES ASSUME NEW d \in Cmds, NEW n \in Packages
               PROVE  /\ Half(cmd'[d], n) <=> Half(cmd[d], n)
                      /\ Half(cmd[d], n) => cmd'[d].jsonFirst[n] = cmd[d].jsonFirst[n] /\ cmd'[d].plan[n] = cmd[d].plan[n]
    OBVIOUS
  <2>1. CASE d = c
    <3>1. ~ Half(cmd'[d], n)
      <4> HIDE DEF t
      <4>1. cmd'[d].pc = s.pc /\ cmd'[d].pkg = s.pkg
        BY <1>2, <1>3, <2>1
      <4>2. ~ Half(s, n)
        OBVIOUS
      <4> QED
        BY <4>1, <4>2 DEF Half
    <3> QED
      BY <1>2, <2>1, <3>1 DEF Half
  <2>2. CASE d # c /\ Working(cmd[d])
    <3>1. cmd'[d] = [cmd[d] EXCEPT !.alone = FALSE] /\ cmd[d] \in Commands
      BY <1>1, <1>2, <2>2
    <3>2. cmd'[d].pc = cmd[d].pc /\ cmd'[d].pkg = cmd[d].pkg /\ cmd'[d].jsonFirst = cmd[d].jsonFirst /\ cmd'[d].plan = cmd[d].plan
      BY <3>1 DEF Commands
    <3> QED
      BY <3>2 DEF Half
  <2>3. CASE d # c /\ ~ Working(cmd[d])
    BY <1>2, <2>3 DEF Half, Working
  <2> QED
    BY <2>1, <2>2, <2>3
<1>5. Plans'
  <2>1. Closed(lock) /\ \A d \in Cmds : Closed(cmd[d].plan)
    BY <1>1 DEF Plans
  <2>2. \A d \in Cmds : Closed(cmd'[d].plan)
    <3> SUFFICES ASSUME NEW d \in Cmds PROVE Closed(cmd'[d].plan)
      OBVIOUS
    <3>1. CASE d = c
      BY <1>2, <1>3, <3>1
    <3>2. CASE d # c
      BY <1>2, <2>1, <3>2, NoVersionsTyped
    <3> QED
      BY <3>1, <3>2
  <2> QED
    BY <2>1, <2>2 DEF Plans
<1>6. OneScript'
  <2> SUFFICES ASSUME NEW d \in Cmds
               PROVE  (scripts[d] # {} => cmd'[d].pc = "scripts") /\ \A j, k \in scripts[d] : j = k
    BY DEF OneScript
  <2>1. (scripts[d] # {} => cmd[d].pc = "scripts") /\ \A j, k \in scripts[d] : j = k
    BY <1>1 DEF OneScript
  <2> QED
    BY <1>2, <2>1
<1>7. Alone(cmd', lock', packageJson', modules')
  <2> SUFFICES ASSUME NEW e \in Cmds, cmd'[e].alone, cmd'[e].pc \notin {"idle", "killed"}
               PROVE  /\ \A d \in Cmds : d # e => ~ Working(cmd'[d])
                      /\ (Working(cmd'[e]) \/ cmd'[e].code = 0) => Followed(cmd'[e], lock', packageJson', modules')
    BY DEF Alone
  <2>1. e = c
    BY <1>2
  <2>2. Followed(cmd'[c], lock', packageJson', modules')
    <3>1. Followed(t, lock', packageJson', modules')
      OBVIOUS
    <3> HIDE DEF t
    <3> QED
      BY <1>2, <3>1
  <2> QED
    BY <1>2, <2>1, <2>2
<1>8. ASSUME modules' = modules, torn' = torn PROVE Whole(cmd', modules', torn')
  <2> DEFINE ds == cmd'
  <2>1. ds \in [Cmds -> Commands] /\ torn \subseteq torn
    BY <1>2
  <2>2. \A d \in Cmds, n \in Packages \ torn :
          /\ Half(ds[d], n) <=> Half(cmd[d], n)
          /\ Half(cmd[d], n) => ds[d].jsonFirst[n] = cmd[d].jsonFirst[n] /\ ds[d].plan[n] = cmd[d].plan[n]
    BY <1>4
  <2> HIDE DEF ds
  <2>3. Whole(ds, modules, torn)
    BY <1>1, <2>1, <2>2, WholeStays
  <2> QED
    BY <1>8, <2>3 DEF ds
<1> QED
  BY <1>2, <1>4, <1>5, <1>6, <1>7, <1>8

-----------------------------------------------------------------------------
(***************************************************************************)
(* The commands as they start.                                             *)
(***************************************************************************)
LEMMA CalledTyped ==
  ASSUME NEW op \in {"none", "install", "npx", "uninstall"}, NEW names \in SUBSET Packages
  PROVE  /\ Called(op, names) \in Commands
         /\ Called(op, names).op = op /\ Called(op, names).name = names /\ Called(op, names).pc = "idle"
         /\ Called(op, names).plan = NoVersions /\ Called(op, names).code = 0
<1>1. Idle \in Commands
  BY IdleTyped
<1>2. Called(op, names) \in Commands
  BY <1>1 DEF Called, Commands
<1>3. Idle.pc = "idle" /\ Idle.plan = NoVersions /\ Idle.code = 0
  BY DEF Idle
<1>4. Called(op, names).op = op /\ Called(op, names).name = names
  BY <1>1 DEF Called, Commands
<1>5. Called(op, names).pc = Idle.pc /\ Called(op, names).plan = Idle.plan /\ Called(op, names).code = Idle.code
  BY <1>1 DEF Called, Commands
<1> QED
  BY <1>2, <1>3, <1>4, <1>5

LEMMA FetchingTyped ==
  ASSUME NEW plan \in Versions
  PROVE  /\ Fetching(plan) \in [Packages -> {"skip", "fetch", "failed", "half", "done"}]
         /\ \A n \in Packages : /\ Fetching(plan)[n] \in {"skip", "fetch"}
                                /\ plan[n] # 0 /\ Fetching(plan)[n] = "skip" => modules[n].json = plan[n]
BY DEF Fetching, Installed

LEMMA InstallingTyped ==
  ASSUME NEW s \in Commands, NEW deps \in SUBSET Packages, NEW plan \in Versions
  PROVE  LET p == Installing(s, deps, plan) IN
           /\ p \in Commands /\ p.op = s.op /\ p.name = s.name /\ p.code = s.code /\ p.alone = s.alone /\ p.found = s.found
           /\ p.pc = "packages" /\ p.deps = deps /\ p.plan = plan /\ p.pkg = Fetching(plan)
<1>1. Fetching(plan) \in [Packages -> {"skip", "fetch", "failed", "half", "done"}]
  BY FetchingTyped
<1> QED
  BY <1>1 DEF Installing, Commands, States

LEMMA ProceedingTyped ==
  ASSUME ProjectTypes, NEW s \in Commands, NEW named \in BOOLEAN, NEW deps \in SUBSET Packages
  PROVE  LET p == Proceeding(s, named, deps) IN
           /\ p \in Commands /\ p.op = s.op /\ p.name = s.name /\ p.code = s.code /\ p.alone = s.alone /\ p.found = s.found
           /\ p.deps = deps
           /\ \/ deps = {} /\ p.pc = "done" /\ p.plan = s.plan /\ p.pkg = s.pkg
              \/ /\ ~ named /\ LockfileValid(deps)
                 /\ p.pc = "packages" /\ p.plan = lock /\ p.pkg = Fetching(lock)
              \/ /\ named \/ ~ LockfileValid(deps)
                 /\ p.pc \in {"resolve", "resolveStale"} /\ p.plan = s.plan /\ p.pkg = s.pkg
<1> DEFINE p == Proceeding(s, named, deps)
<1>1. CASE deps = {}
  <2>1. p = [s EXCEPT !.pc = "done", !.deps = deps]
    BY <1>1 DEF Proceeding
  <2> HIDE DEF p
  <2>2. p \in Commands /\ p.op = s.op /\ p.name = s.name /\ p.code = s.code /\ p.alone = s.alone /\ p.found = s.found
    BY <2>1 DEF Commands, States
  <2>3. p.deps = deps /\ p.pc = "done" /\ p.plan = s.plan /\ p.pkg = s.pkg
    BY <2>1 DEF Commands
  <2> QED
    BY <1>1, <2>2, <2>3 DEF p
<1>2. CASE deps # {} /\ UsesLockfile(named, deps)
  <2>1. p = Installing(s, deps, lock)
    BY <1>2 DEF Proceeding
  <2>2. lock \in Versions
    BY DEF ProjectTypes
  <2> HIDE DEF p
  <2>3. p \in Commands /\ p.op = s.op /\ p.name = s.name /\ p.code = s.code /\ p.alone = s.alone /\ p.found = s.found
    BY <2>1, <2>2, InstallingTyped
  <2>4. p.pc = "packages" /\ p.deps = deps /\ p.plan = lock /\ p.pkg = Fetching(lock)
    BY <2>1, <2>2, InstallingTyped
  <2>5. ~ named /\ LockfileValid(deps)
    BY <1>2 DEF UsesLockfile
  <2> QED
    BY <2>3, <2>4, <2>5 DEF p
<1>3. CASE deps # {} /\ ~ UsesLockfile(named, deps)
  <2> DEFINE q == IF ~ named /\ lock # NoVersions THEN "resolveStale" ELSE "resolve"
  <2>1. p = [s EXCEPT !.pc = q, !.deps = deps]
    BY <1>3 DEF Proceeding
  <2>2. q \in {"resolve", "resolveStale"}
    OBVIOUS
  <2> HIDE DEF p, q
  <2>3. p \in Commands /\ p.op = s.op /\ p.name = s.name /\ p.code = s.code /\ p.alone = s.alone /\ p.found = s.found
    BY <2>1, <2>2 DEF Commands, States
  <2>4. p.deps = deps /\ p.pc = q /\ p.plan = s.plan /\ p.pkg = s.pkg
    BY <2>1, <2>2 DEF Commands
  <2>5. named \/ ~ LockfileValid(deps)
    BY <1>3 DEF UsesLockfile
  <2> QED
    BY <2>2, <2>3, <2>4, <2>5 DEF p
<1> QED
  BY <1>1, <1>2, <1>3

LEMMA StartFields ==
  ASSUME NEW s \in Commands, NEW b, ProjectTypes
  PROVE  LET t == [s EXCEPT !.found = lock, !.alone = b] IN
           /\ t.op = s.op /\ t.name = s.name /\ t.pc = s.pc /\ t.deps = s.deps /\ t.plan = s.plan /\ t.pkg = s.pkg
           /\ t.found = lock
BY DEF Commands

LEMMA InstallKeeps ==
  ASSUME ProjectInv, NEW c \in Cmds, Install(c)
  PROVE  ProjectInv'
<1> DEFINE s == Proceeding(Called("install", {}), FALSE, packageJson)
<1>1. ProjectTypes /\ Plans
  BY DEF ProjectInv
<1>2. Called("install", {}) \in Commands /\ Called("install", {}).op = "install" /\ Called("install", {}).name = {}
      /\ Called("install", {}).plan = NoVersions
  BY CalledTyped
<1>3. /\ s \in Commands /\ s.op = "install" /\ s.name = {} /\ s.deps = packageJson
      /\ \/ packageJson = {} /\ s.pc = "done" /\ s.plan = NoVersions
         \/ LockfileValid(packageJson) /\ s.pc = "packages" /\ s.plan = lock /\ s.pkg = Fetching(lock)
         \/ ~ LockfileValid(packageJson) /\ s.pc \in {"resolve", "resolveStale"} /\ s.plan = NoVersions
  <2> DEFINE a == Called("install", {})
  <2>1. a \in Commands /\ packageJson \in SUBSET Packages
    BY <1>1, <1>2 DEF ProjectTypes
  <2> HIDE DEF a
  <2>2. LET p == Proceeding(a, FALSE, packageJson) IN
          /\ p \in Commands /\ p.op = a.op /\ p.name = a.name /\ p.deps = packageJson
          /\ \/ packageJson = {} /\ p.pc = "done" /\ p.plan = a.plan
             \/ LockfileValid(packageJson) /\ p.pc = "packages" /\ p.plan = lock /\ p.pkg = Fetching(lock)
             \/ ~ LockfileValid(packageJson) /\ p.pc \in {"resolve", "resolveStale"} /\ p.plan = a.plan
    BY <1>1, <2>1, ProceedingTyped
  <2>3. s = Proceeding(a, FALSE, packageJson)
    BY DEF a
  <2>4. a.op = "install" /\ a.name = {} /\ a.plan = NoVersions
    BY <1>2 DEF a
  <2> HIDE DEF s
  <2> QED
    BY <2>2, <2>3, <2>4
<1>4. /\ Starts(c, s) /\ latest' = latest /\ packageJson' = packageJson /\ lock' = lock /\ modules' = modules
      /\ bins' = bins /\ scripts' = scripts /\ kills' = kills /\ fails' = fails /\ torn' = torn
  BY DEF Install, files
<1> HIDE DEF s
<1>5. lock \in Versions /\ Closed(lock) /\ Closed(NoVersions)
  BY <1>1, NoVersionsTyped DEF ProjectTypes, Plans
<1>6. Closed(s.plan)
  BY <1>3, <1>5
<1>7. \A n \in Packages : ~ Half(s, n)
  <2>1. \A n \in Packages : Fetching(lock)[n] \in {"skip", "fetch"}
    BY <1>5, FetchingTyped
  <2> QED
    BY <1>3, <2>1 DEF Half
<1> DEFINE t == [s EXCEPT !.found = lock, !.alone = cmd'[c].alone]
<1>8. t.op = "install" /\ t.name = {} /\ t.pc = s.pc /\ t.deps = packageJson /\ t.plan = s.plan /\ t.pkg = s.pkg /\ t.found = lock
  BY <1>1, <1>3, StartFields
<1>9. Followed(t, lock, packageJson, modules)
  <2> HIDE DEF t
  <2>1. Reproduces(t) => s.pc \notin {"resolve", "resolveStale"}
    <3> SUFFICES ASSUME Reproduces(t) PROVE LockfileValid(packageJson)
      BY <1>3
    <3>1. lock # NoVersions /\ \A n \in packageJson : lock[n] # 0
      BY <1>8 DEF Reproduces
    <3> QED
      BY <1>1, <3>1 DEF LockfileValid, Listed, ProjectTypes
  <2>2. LockFollows(t, lock)
    BY <1>3, <1>8, <2>1 DEF LockFollows
  <2>3. JsonFollows(t, packageJson)
    BY <1>8 DEF JsonFollows
  <2>4. ModulesFollow(t, modules)
    <3>1. s.pc \in {"packages", "scripts", "spawn", "done"} =>
            \A n \in Packages : s.plan[n] # 0 /\ s.pkg[n] \in {"skip", "done"} => modules[n].json = s.plan[n]
      <4>1. \A n \in Packages : /\ Fetching(lock)[n] \in {"skip", "fetch"}
                                /\ lock[n] # 0 /\ Fetching(lock)[n] = "skip" => modules[n].json = lock[n]
        BY <1>5, FetchingTyped
      <4> QED
        BY <1>3, <4>1, NoVersionsTyped
    <3>2. s.pc \in {"scripts", "spawn", "done"} => \A n \in Packages : s.plan[n] = 0
      BY <1>3, NoVersionsTyped
    <3>3. s.pc # "metadata" /\ (s.pc = "packages" => \A n \in Packages : s.pkg[n] # "half")
      <4>1. \A n \in Packages : Fetching(lock)[n] \in {"skip", "fetch"}
        BY <1>5, FetchingTyped
      <4> QED
        BY <1>3, <4>1, NoVersionsTyped
    <3> QED
      BY <1>8, <3>1, <3>2, <3>3 DEF ModulesFollow
  <2> QED
    BY <2>2, <2>3, <2>4 DEF Followed
<1>10. Followed(t, lock', packageJson', modules')
  BY <1>4, <1>9
<1>11. /\ cmd' \in [Cmds -> Commands] /\ Plans' /\ OneScript'
       /\ Alone(cmd', lock', packageJson', modules') /\ Whole(cmd', modules', torn')
  BY <1>3, <1>4, <1>6, <1>7, <1>10, Started
<1>12. ProjectTypes'
  BY <1>1, <1>4, <1>11 DEF ProjectTypes
<1> QED
  BY <1>11, <1>12 DEF ProjectInv

\* A command that starts with no plan yet.
LEMMA PlainStart ==
  ASSUME ProjectInv, NEW c \in Cmds, NEW s \in Commands, Starts(c, s), lock' = lock, scripts' = scripts,
         s.plan = NoVersions, s.pc \in {"metadata", "spawn", "done"}, s.op = "install" => s.pc = "metadata" /\ s.name # {}
  PROVE  /\ cmd' \in [Cmds -> Commands] /\ Plans' /\ OneScript'
         /\ Alone(cmd', lock', packageJson', modules')
         /\ modules' = modules /\ torn' = torn => Whole(cmd', modules', torn')
         /\ \A d \in Cmds, n \in Packages : Half(cmd'[d], n) <=> Half(cmd[d], n)
         /\ \A d \in Cmds, n \in Packages :
              Half(cmd[d], n) => cmd'[d].jsonFirst[n] = cmd[d].jsonFirst[n] /\ cmd'[d].plan[n] = cmd[d].plan[n]
<1>1. ProjectTypes
  BY DEF ProjectInv
<1> DEFINE t == [s EXCEPT !.found = lock, !.alone = cmd'[c].alone]
<1>2. t.op = s.op /\ t.name = s.name /\ t.pc = s.pc /\ t.plan = NoVersions /\ t.found = lock
  BY <1>1, StartFields
<1>3. Followed(t, lock', packageJson', modules')
  <2> HIDE DEF t
  <2>1. ~ Reproduces(t)
    BY <1>2 DEF Reproduces
  <2>2. LockFollows(t, lock')
    BY <1>2, <2>1 DEF LockFollows
  <2>3. JsonFollows(t, packageJson')
    BY <1>2 DEF JsonFollows
  <2>4. \A n \in Packages : t.plan[n] = 0
    BY <1>2, NoVersionsTyped
  <2>5. ModulesFollow(t, modules')
    BY <1>2, <2>4 DEF ModulesFollow
  <2> QED
    BY <2>2, <2>3, <2>5 DEF Followed
<1>4. Closed(s.plan) /\ \A n \in Packages : ~ Half(s, n)
  BY NoVersionsTyped DEF Half
<1> QED
  BY <1>3, <1>4, Started

LEMMA InstallNamedKeeps ==
  ASSUME ProjectInv, NEW c \in Cmds, NEW n \in Packages, InstallNamed(c, n)
  PROVE  ProjectInv'
<1> DEFINE a == Called("install", {n})
           s == [a EXCEPT !.pc = "metadata", !.deps = packageJson]
<1>1. ProjectTypes
  BY DEF ProjectInv
<1>2. a \in Commands /\ a.op = "install" /\ a.name = {n} /\ a.plan = NoVersions
  BY CalledTyped
<1>3. /\ Starts(c, s) /\ latest' = latest /\ packageJson' = packageJson /\ lock' = lock /\ modules' = modules
      /\ bins' = bins /\ scripts' = scripts /\ kills' = kills /\ fails' = fails /\ torn' = torn
  BY DEF InstallNamed, files
<1>4. s \in Commands /\ s.op = "install" /\ s.name # {} /\ s.plan = NoVersions /\ s.pc = "metadata"
  <2>1. packageJson \in SUBSET Packages
    BY <1>1 DEF ProjectTypes
  <2> HIDE DEF a
  <2> QED
    BY <1>2, <2>1 DEF Commands, States
<1> HIDE DEF s
<1>5. /\ cmd' \in [Cmds -> Commands] /\ Plans' /\ OneScript'
      /\ Alone(cmd', lock', packageJson', modules') /\ Whole(cmd', modules', torn')
  BY <1>3, <1>4, PlainStart
<1>6. ProjectTypes'
  BY <1>1, <1>3, <1>5 DEF ProjectTypes
<1> QED
  BY <1>5, <1>6 DEF ProjectInv

LEMMA NpxKeeps ==
  ASSUME ProjectInv, NEW c \in Cmds, NEW n \in Packages, Npx(c, n)
  PROVE  ProjectInv'
<1> DEFINE a == Called("npx", {n})
           s == IF n \in bins /\ modules[n].rest # 0 THEN [a EXCEPT !.pc = "spawn"]
                ELSE [a EXCEPT !.pc = "metadata", !.deps = packageJson]
<1>1. ProjectTypes
  BY DEF ProjectInv
<1>2. a \in Commands /\ a.op = "npx" /\ a.plan = NoVersions
  BY CalledTyped
<1>3. /\ Starts(c, s) /\ latest' = latest /\ packageJson' = packageJson /\ lock' = lock /\ modules' = modules
      /\ bins' = bins /\ scripts' = scripts /\ kills' = kills /\ fails' = fails /\ torn' = torn
  BY DEF Npx, files
<1>4. s \in Commands /\ s.op = "npx" /\ s.plan = NoVersions /\ s.pc \in {"metadata", "spawn"}
  <2>1. packageJson \in SUBSET Packages
    BY <1>1 DEF ProjectTypes
  <2> HIDE DEF a
  <2>2. CASE n \in bins /\ modules[n].rest # 0
    BY <1>2, <2>2 DEF Commands, States
  <2>3. CASE ~ (n \in bins /\ modules[n].rest # 0)
    BY <1>2, <2>1, <2>3 DEF Commands, States
  <2> QED
    BY <2>2, <2>3
<1> HIDE DEF s
<1>5. /\ cmd' \in [Cmds -> Commands] /\ Plans' /\ OneScript'
      /\ Alone(cmd', lock', packageJson', modules') /\ Whole(cmd', modules', torn')
  BY <1>3, <1>4, PlainStart
<1>6. ProjectTypes'
  BY <1>1, <1>3, <1>5 DEF ProjectTypes
<1> QED
  BY <1>5, <1>6 DEF ProjectInv

LEMMA TornTyped ==
  ASSUME NEW n \in Packages, torn \subseteq Packages
  PROVE  /\ Torn(n) \subseteq Packages /\ torn \subseteq Torn(n) /\ Torn(n) \subseteq torn \cup {n}
         /\ n \notin Torn(n) => \A d \in Cmds : ~ Half(cmd[d], n)
BY DEF Torn, Halfway, Half

LEMMA RemovedTyped ==
  ASSUME NEW n \in Packages, torn \subseteq Packages
  PROVE  /\ Removed(n) \subseteq Packages /\ torn \subseteq Removed(n) \cup {n}
         /\ n \notin Removed(n) => \A d \in Cmds : ~ Half(cmd[d], n)
BY DEF Removed, Halfway, Half

LEMMA UninstallKeeps ==
  ASSUME ProjectInv, NEW c \in Cmds, NEW n \in Packages, Uninstall(c, n)
  PROVE  ProjectInv'
<1> DEFINE a == Called("uninstall", {n})
           s == [a EXCEPT !.pc = "done"]
<1>1. ProjectTypes /\ Whole(cmd, modules, torn)
  BY DEF ProjectInv
<1>2. a \in Commands /\ a.op = "uninstall" /\ a.plan = NoVersions
  BY CalledTyped
<1>3. /\ Starts(c, s) /\ latest' = latest /\ packageJson' = packageJson \ {n} /\ lock' = lock
      /\ modules' = [modules EXCEPT ![n] = Missing] /\ torn' = Removed(n)
      /\ bins' = bins /\ scripts' = scripts /\ kills' = kills /\ fails' = fails
  BY DEF Uninstall
<1>4. s \in Commands /\ s.op = "uninstall" /\ s.plan = NoVersions /\ s.pc = "done"
  <2> HIDE DEF a
  <2> QED
    BY <1>2 DEF Commands, States
<1> HIDE DEF s
<1>5. /\ cmd' \in [Cmds -> Commands] /\ Plans' /\ OneScript'
      /\ Alone(cmd', lock', packageJson', modules')
  BY <1>3, <1>4, PlainStart
<1>6. /\ \A d \in Cmds, m \in Packages : Half(cmd'[d], m) <=> Half(cmd[d], m)
      /\ \A d \in Cmds, m \in Packages :
              Half(cmd[d], m) => cmd'[d].jsonFirst[m] = cmd[d].jsonFirst[m] /\ cmd'[d].plan[m] = cmd[d].plan[m]
  BY <1>3, <1>4, PlainStart
<1>7. torn \subseteq Packages /\ Removed(n) \subseteq Packages /\ torn \subseteq Removed(n) \cup {n}
      /\ (n \notin Removed(n) => \A d \in Cmds : ~ Half(cmd[d], n))
  BY <1>1, RemovedTyped DEF ProjectTypes
<1>8. modules \in [Packages -> [json : 0 .. MaxVersion, rest : 0 .. MaxVersion]]
  BY <1>1 DEF ProjectTypes
<1>9. Missing \in [json : 0 .. MaxVersion, rest : 0 .. MaxVersion] /\ Missing.json = Missing.rest
  <2>1. 0 \in 0 .. MaxVersion
    BY InstallAssumption
  <2> QED
    BY <2>1 DEF Missing
<1>10. Whole(cmd', modules', torn')
  <2> SUFFICES ASSUME NEW m \in Packages, m \notin torn'
               PROVE  /\ \A d, e \in Cmds : Half(cmd'[d], m) /\ Half(cmd'[e], m) => d = e
                      /\ (\A d \in Cmds : ~ Half(cmd'[d], m)) => modules'[m].json = modules'[m].rest
                      /\ \A d \in Cmds : Half(cmd'[d], m) =>
                           IF cmd'[d].jsonFirst[m] THEN modules'[m].json = cmd'[d].plan[m]
                           ELSE modules'[m].rest = cmd'[d].plan[m]
    BY DEF Whole
  <2>1. m # n => m \notin torn
    BY <1>3, <1>7
  <2>2. CASE m = n
    <3>1. \A d \in Cmds : ~ Half(cmd'[d], m)
      BY <1>3, <1>6, <1>7, <2>2
    <3>2. modules'[m] = Missing
      BY <1>3, <1>8, <2>2
    <3> QED
      BY <1>9, <3>1, <3>2
  <2>3. CASE m # n
    <3>1. modules'[m] = modules[m]
      BY <1>3, <1>8, <2>3
    <3>2. /\ \A d, e \in Cmds : Half(cmd[d], m) /\ Half(cmd[e], m) => d = e
          /\ (\A d \in Cmds : ~ Half(cmd[d], m)) => modules[m].json = modules[m].rest
          /\ \A d \in Cmds : Half(cmd[d], m) =>
                           IF cmd[d].jsonFirst[m] THEN modules[m].json = cmd[d].plan[m]
                           ELSE modules[m].rest = cmd[d].plan[m]
      BY <1>1, <2>1, <2>3 DEF Whole
    <3> QED
      BY <1>6, <3>1, <3>2
  <2> QED
    BY <2>2, <2>3
<1>11. ProjectTypes'
  <2>1. modules' \in [Packages -> [json : 0 .. MaxVersion, rest : 0 .. MaxVersion]]
    BY <1>3, <1>8, <1>9
  <2> QED
    BY <1>1, <1>3, <1>5, <1>7, <2>1 DEF ProjectTypes
<1> QED
  BY <1>5, <1>10, <1>11 DEF ProjectInv

-----------------------------------------------------------------------------
(***************************************************************************)
(* The commands as they go on.                                             *)
(***************************************************************************)
LEMMA NamedArrivesKeeps ==
  ASSUME ProjectInv, NEW c \in Cmds, NamedArrives(c)
  PROVE  ProjectInv'
<1> DEFINE deps == cmd[c].deps \cup cmd[c].name
           s == Proceeding(cmd[c], TRUE, deps)
<1>1. ProjectTypes /\ Plans
  BY DEF ProjectInv
<1>2. cmd[c] \in Commands /\ cmd[c].deps \subseteq Packages /\ cmd[c].name \subseteq Packages
  BY <1>1, StateTypes
<1>3. /\ cmd[c].pc = "metadata" /\ packageJson' = deps /\ CmdGoes(c, s)
      /\ latest' = latest /\ lock' = lock /\ modules' = modules /\ bins' = bins /\ scripts' = scripts
      /\ kills' = kills /\ fails' = fails /\ torn' = torn
  BY DEF NamedArrives, Written
<1>4. deps \in SUBSET Packages
  BY <1>2
<1>5. /\ s \in Commands /\ s.op = cmd[c].op /\ s.name = cmd[c].name /\ s.alone = cmd[c].alone /\ s.found = cmd[c].found
      /\ s.deps = deps /\ s.plan = cmd[c].plan /\ s.pkg = cmd[c].pkg
      /\ (deps = {} /\ s.pc = "done") \/ s.pc \in {"resolve", "resolveStale"}
  <2> HIDE DEF deps
  <2>1. LET p == Proceeding(cmd[c], TRUE, deps) IN
           /\ p \in Commands /\ p.op = cmd[c].op /\ p.name = cmd[c].name /\ p.alone = cmd[c].alone /\ p.found = cmd[c].found
           /\ p.deps = deps
           /\ \/ deps = {} /\ p.pc = "done" /\ p.plan = cmd[c].plan /\ p.pkg = cmd[c].pkg
              \/ p.pc \in {"resolve", "resolveStale"} /\ p.plan = cmd[c].plan /\ p.pkg = cmd[c].pkg
    BY <1>1, <1>2, <1>4, ProceedingTyped
  <2> QED
    BY <2>1
<1> HIDE DEF s
<1>6. ASSUME Followed(cmd[c], lock, packageJson, modules) PROVE Followed(s, lock', packageJson', modules')
  <2>1. LockFollows(cmd[c], lock)
    BY <1>6 DEF Followed
  <2>2. lock = s.found /\ ~ Reproduces(cmd[c])
    BY <1>3, <1>5, <2>1 DEF LockFollows
  <2>3. ~ Reproduces(s)
    BY <1>5, <2>2 DEF Reproduces
  <2>4. s.pc = "done" => s.name = {}
    BY <1>5
  <2>5. LockFollows(s, lock')
    BY <1>3, <1>5, <2>2, <2>3, <2>4 DEF LockFollows
  <2>6. JsonFollows(s, packageJson')
    BY <1>3, <1>5 DEF JsonFollows
  <2>7. ModulesFollow(s, modules')
    <3>1. s.pc # "metadata" /\ s.pc \notin {"packages", "scripts", "spawn"}
      BY <1>5
    <3>2. \A n \in Packages : s.plan[n] = 0
      BY <1>3, <1>5, <1>6 DEF Followed, ModulesFollow
    <3> QED
      BY <3>1, <3>2 DEF ModulesFollow
  <2> QED
    BY <2>5, <2>6, <2>7 DEF Followed

<1>7. Working(cmd[c])
  BY <1>3 DEF Working
<1>8. Alone(cmd', lock', packageJson', modules')
  BY <1>3, <1>5, <1>6, <1>7, CmdActs
<1>9. \A n \in Packages : ~ Half(s, n) /\ ~ Half(cmd[c], n)
  BY <1>3, <1>5 DEF Half
<1>10. Whole(cmd', modules', torn')
  BY <1>3, <1>5, <1>9, WholeActs
<1>11. Closed(s.plan)
  BY <1>1, <1>5 DEF Plans
<1>12. Plans'
  BY <1>3, <1>5, <1>11, PlansStay
<1>13. OneScript'
  BY <1>3, <1>5, ScriptsStay
<1>14. cmd' \in [Cmds -> Commands]
  BY <1>1, <1>3, <1>5, CmdMoves
<1>15. ProjectTypes'
  BY <1>1, <1>3, <1>4, <1>14 DEF ProjectTypes
<1> QED
  BY <1>8, <1>10, <1>12, <1>13, <1>15 DEF ProjectInv

\* A step that writes no file and plans nothing.
LEMMA QuietStep ==
  ASSUME ProjectInv, NEW c \in Cmds, NEW s \in Commands, CmdGoes(c, s), Working(cmd[c]),
         s.alone = cmd[c].alone, s.plan = cmd[c].plan,
         latest' = latest, packageJson' = packageJson, lock' = lock, modules' = modules, bins' = bins,
         scripts' = scripts, kills' = kills, fails' \in 0 .. MaxFails, torn' = torn,
         cmd[c].pc # "scripts" \/ s.pc = "scripts",
         \A n \in Packages : /\ Half(s, n) <=> Half(cmd[c], n)
                             /\ Half(s, n) => s.jsonFirst[n] = cmd[c].jsonFirst[n],
         Followed(cmd[c], lock, packageJson, modules) /\ (Working(s) \/ s.code = 0)
           => Followed(s, lock, packageJson, modules)
  PROVE  ProjectInv'
<1>1. ProjectTypes /\ Plans
  BY DEF ProjectInv
<1>2. Alone(cmd', lock', packageJson', modules')
  <2>1. Followed(cmd[c], lock, packageJson, modules) /\ s.pc # "killed" /\ (Working(s) \/ s.code = 0)
           => Followed(s, lock', packageJson', modules')
    OBVIOUS
  <2> QED
    BY <2>1, CmdActs
<1>3. Whole(cmd', modules', torn')
  BY WholeActs
<1>4. Closed(s.plan)
  BY <1>1 DEF Plans
<1>5. Plans'
  BY <1>4, PlansStay
<1>6. OneScript'
  BY ScriptsStay
<1>7. cmd' \in [Cmds -> Commands]
  BY <1>1, CmdMoves
<1>8. ProjectTypes'
  BY <1>1, <1>7 DEF ProjectTypes
<1> QED
  BY <1>2, <1>3, <1>5, <1>6, <1>8 DEF ProjectInv

LEMMA RegistryFailsKeeps ==
  ASSUME ProjectInv, NEW c \in Cmds, RegistryFails(c)
  PROVE  ProjectInv'
<1>1. ProjectTypes
  BY DEF ProjectInv
<1>2. cmd[c] \in Commands /\ cmd[c].pkg \in [Packages -> {"skip", "fetch", "failed", "half", "done"}]
  BY <1>1, StateTypes
<1>3. /\ latest' = latest /\ packageJson' = packageJson /\ lock' = lock /\ modules' = modules /\ bins' = bins
      /\ scripts' = scripts /\ kills' = kills /\ torn' = torn
  BY DEF RegistryFails, files
<1>4. fails' \in 0 .. MaxFails
  BY <1>1, InstallAssumption DEF RegistryFails, ProjectTypes
<1>5. CASE cmd[c].pc \in {"metadata", "resolve"} /\ CmdGoes(c, [cmd[c] EXCEPT !.pc = "done", !.code = 1])
  <2> DEFINE s == [cmd[c] EXCEPT !.pc = "done", !.code = 1]
  <2>1. s \in Commands /\ s.alone = cmd[c].alone /\ s.plan = cmd[c].plan /\ s.pc = "done" /\ s.code = 1
    <3>1. 1 \in 0 .. 1
      OBVIOUS
    <3> QED
      BY <1>2, <3>1 DEF Commands, States
  <2>2. CmdGoes(c, s) /\ cmd[c].pc \in {"metadata", "resolve"}
    BY <1>5
  <2> HIDE DEF s
  <2>3. Working(cmd[c]) /\ ~ (Working(s) \/ s.code = 0)
    BY <2>1, <2>2 DEF Working
  <2>4. \A n \in Packages : ~ Half(s, n) /\ ~ Half(cmd[c], n)
    BY <2>1, <2>2 DEF Half
  <2> QED
    BY <1>3, <1>4, <2>1, <2>2, <2>3, <2>4, QuietStep
<1>6. CASE cmd[c].pc = "resolveStale" /\ CmdGoes(c, [cmd[c] EXCEPT !.pc = "resolve"])
  <2> DEFINE s == [cmd[c] EXCEPT !.pc = "resolve"]
  <2>1. s \in Commands /\ s.alone = cmd[c].alone /\ s.plan = cmd[c].plan /\ s.pc = "resolve"
    BY <1>2 DEF Commands, States
  <2>2. /\ s.op = cmd[c].op /\ s.name = cmd[c].name /\ s.deps = cmd[c].deps /\ s.found = cmd[c].found /\ s.pkg = cmd[c].pkg
    BY <1>2 DEF Commands
  <2>3. CmdGoes(c, s) /\ cmd[c].pc = "resolveStale"
    BY <1>6
  <2> HIDE DEF s
  <2>4. Working(cmd[c])
    BY <2>3 DEF Working
  <2>5. \A n \in Packages : ~ Half(s, n) /\ ~ Half(cmd[c], n)
    BY <2>1, <2>3 DEF Half
  <2>6. ASSUME Followed(cmd[c], lock, packageJson, modules) PROVE Followed(s, lock, packageJson, modules)
    <3>1. LockFollows(s, lock)
      BY <2>1, <2>2, <2>3, <2>6 DEF Followed, LockFollows, Reproduces
    <3>2. JsonFollows(s, packageJson)
      BY <2>1, <2>2, <2>3, <2>6 DEF Followed, JsonFollows
    <3>3. ModulesFollow(s, modules)
      BY <2>1 DEF ModulesFollow
    <3> QED
      BY <3>1, <3>2, <3>3 DEF Followed
  <2> QED
    BY <1>3, <1>4, <2>1, <2>3, <2>4, <2>5, <2>6, QuietStep
<1>7. ASSUME NEW n \in Packages, cmd[c].pc = "packages", cmd[c].pkg[n] = "fetch",
             CmdGoes(c, [cmd[c] EXCEPT !.pkg[n] = "failed"])
      PROVE  ProjectInv'
  <2> DEFINE pkg == [cmd[c].pkg EXCEPT ![n] = "failed"]
             s == [cmd[c] EXCEPT !.pkg = pkg]
  <2>1. CmdGoes(c, s) /\ pkg \in [Packages -> {"skip", "fetch", "failed", "half", "done"}]
    BY <1>2, <1>7
  <2>2. \A m \in Packages : m # n => pkg[m] = cmd[c].pkg[m]
    BY <1>2
  <2>3. pkg[n] = "failed"
    BY <1>2
  <2> HIDE DEF pkg
  <2>4. s \in Commands /\ s.alone = cmd[c].alone /\ s.plan = cmd[c].plan /\ s.pc = cmd[c].pc /\ s.pkg = pkg
    BY <1>2, <2>1 DEF Commands
  <2>5. /\ s.op = cmd[c].op /\ s.name = cmd[c].name /\ s.deps = cmd[c].deps /\ s.found = cmd[c].found
        /\ s.jsonFirst = cmd[c].jsonFirst
    BY <1>2 DEF Commands
  <2> HIDE DEF s
  <2>6. Working(cmd[c])
    BY <1>7 DEF Working
  <2>7. \A m \in Packages : Half(s, m) <=> Half(cmd[c], m)
    BY <1>7, <2>2, <2>3, <2>4 DEF Half
  <2>8. \A m \in Packages : Half(s, m) => s.jsonFirst[m] = cmd[c].jsonFirst[m]
    BY <2>5
  <2>9. ASSUME Followed(cmd[c], lock, packageJson, modules) PROVE Followed(s, lock, packageJson, modules)
    <3>1. LockFollows(s, lock)
      BY <2>4, <2>5, <2>9 DEF Followed, LockFollows, Reproduces
    <3>2. JsonFollows(s, packageJson)
      BY <2>4, <2>5, <2>9 DEF Followed, JsonFollows
    <3>3. ModulesFollow(s, modules)
      <4>1. \A m \in Packages : /\ s.pkg[m] \in {"skip", "done"} => cmd[c].pkg[m] \in {"skip", "done"}
                                /\ s.pkg[m] = "half" => cmd[c].pkg[m] = "half"
        BY <2>2, <2>3, <2>4
      <4> QED
        BY <1>7, <2>4, <2>5, <2>9, <4>1 DEF Followed, ModulesFollow
    <3> QED
      BY <3>1, <3>2, <3>3 DEF Followed
  <2> QED
    BY <1>3, <1>4, <1>7, <2>1, <2>4, <2>6, <2>7, <2>8, <2>9, QuietStep
<1> QED
  BY <1>5, <1>6, <1>7 DEF RegistryFails

LEMMA ResolveArrivesKeeps ==
  ASSUME ProjectInv, NEW c \in Cmds, ResolveArrives(c)
  PROVE  ProjectInv'
<1> DEFINE plan == Resolved(cmd[c].deps)
           s == Installing(cmd[c], cmd[c].deps, plan)
<1>1. ProjectTypes
  BY DEF ProjectInv
<1>2. cmd[c] \in Commands /\ cmd[c].deps \in SUBSET Packages
  BY <1>1, StateTypes
<1>3. /\ cmd[c].pc \in {"resolve", "resolveStale"} /\ CmdGoes(c, s)
      /\ latest' = latest /\ packageJson' = packageJson /\ lock' = lock /\ modules' = modules /\ bins' = bins
      /\ scripts' = scripts /\ kills' = kills /\ fails' = fails /\ torn' = torn
  BY DEF ResolveArrives, files
<1>4. plan \in Versions /\ Closed(plan) /\ \A n \in cmd[c].deps : plan[n] # 0
  BY <1>1, <1>2, ResolvedIsClosed
<1> HIDE DEF plan
<1>5. /\ s \in Commands /\ s.op = cmd[c].op /\ s.name = cmd[c].name /\ s.alone = cmd[c].alone /\ s.found = cmd[c].found
      /\ s.pc = "packages" /\ s.deps = cmd[c].deps /\ s.plan = plan /\ s.pkg = Fetching(plan)
  BY <1>2, <1>4, InstallingTyped
<1> HIDE DEF s
<1>6. \A n \in Packages : /\ Fetching(plan)[n] \in {"skip", "fetch"}
                          /\ plan[n] # 0 /\ Fetching(plan)[n] = "skip" => modules[n].json = plan[n]
  BY <1>4, FetchingTyped
<1>7. ASSUME Followed(cmd[c], lock, packageJson, modules) PROVE Followed(s, lock', packageJson', modules')
  <2>1. lock = s.found /\ ~ Reproduces(cmd[c])
    BY <1>3, <1>5, <1>7 DEF Followed, LockFollows
  <2>2. ~ Reproduces(s)
    BY <1>5, <2>1 DEF Reproduces
  <2>3. s.op = "install" => s.name \subseteq s.deps /\ s.name \subseteq packageJson
    BY <1>3, <1>5, <1>7 DEF Followed, JsonFollows
  <2>4. s.op = "install" => \A n \in s.name : s.plan[n] # 0
    BY <1>4, <1>5, <2>3
  <2>5. LockFollows(s, lock')
    BY <1>3, <1>5, <2>1, <2>2, <2>4 DEF LockFollows
  <2>6. JsonFollows(s, packageJson')
    BY <1>3, <1>5, <2>3 DEF JsonFollows
  <2>7. ModulesFollow(s, modules')
    BY <1>3, <1>5, <1>6 DEF ModulesFollow
  <2> QED
    BY <2>5, <2>6, <2>7 DEF Followed
<1>8. Working(cmd[c])
  BY <1>3 DEF Working
<1>9. Alone(cmd', lock', packageJson', modules')
  BY <1>3, <1>5, <1>7, <1>8, CmdActs
<1>10. \A n \in Packages : ~ Half(s, n) /\ ~ Half(cmd[c], n)
  BY <1>3, <1>5, <1>6 DEF Half
<1>11. Whole(cmd', modules', torn')
  BY <1>3, <1>5, <1>10, WholeActs
<1>12. Plans'
  BY <1>3, <1>4, <1>5, PlansStay
<1>13. OneScript'
  BY <1>3, <1>5, ScriptsStay
<1>14. cmd' \in [Cmds -> Commands]
  BY <1>1, <1>3, <1>5, CmdMoves
<1>15. ProjectTypes'
  BY <1>1, <1>3, <1>14 DEF ProjectTypes
<1> QED
  BY <1>9, <1>11, <1>12, <1>13, <1>15 DEF ProjectInv

LEMMA UnpackFirstKeeps ==
  ASSUME ProjectInv, NEW c \in Cmds, NEW n \in Packages, NEW jsonFirst \in BOOLEAN, UnpackFirst(c, n, jsonFirst)
  PROVE  ProjectInv'
<1> DEFINE pkg == [cmd[c].pkg EXCEPT ![n] = "half"]
           first == [cmd[c].jsonFirst EXCEPT ![n] = jsonFirst]
           s == [cmd[c] EXCEPT !.pkg = pkg, !.jsonFirst = first]
<1>1. ProjectTypes /\ Plans /\ Whole(cmd, modules, torn)
  BY DEF ProjectInv
<1>2. /\ cmd[c] \in Commands /\ cmd[c].pkg \in [Packages -> {"skip", "fetch", "failed", "half", "done"}]
      /\ cmd[c].jsonFirst \in [Packages -> BOOLEAN] /\ cmd[c].plan \in Versions
  BY <1>1, StateTypes
<1>3. /\ cmd[c].pc = "packages" /\ cmd[c].pkg[n] = "fetch" /\ torn' = Torn(n)
      /\ modules' = IF jsonFirst THEN [modules EXCEPT ![n].json = cmd[c].plan[n]]
                    ELSE [modules EXCEPT ![n].rest = cmd[c].plan[n]]
      /\ latest' = latest /\ packageJson' = packageJson /\ lock' = lock /\ bins' = bins /\ scripts' = scripts
      /\ kills' = kills /\ fails' = fails
  BY DEF UnpackFirst, RestOf
<1>4. CmdGoes(c, s)
  BY DEF UnpackFirst
<1>5. /\ pkg \in [Packages -> {"skip", "fetch", "failed", "half", "done"}] /\ pkg[n] = "half"
      /\ \A m \in Packages : m # n => pkg[m] = cmd[c].pkg[m]
  BY <1>2
<1>6. /\ first \in [Packages -> BOOLEAN] /\ first[n] = jsonFirst
      /\ \A m \in Packages : m # n => first[m] = cmd[c].jsonFirst[m]
  BY <1>2
<1> HIDE DEF pkg, first
<1>7. s \in Commands /\ s.alone = cmd[c].alone /\ s.plan = cmd[c].plan /\ s.pc = cmd[c].pc /\ s.pkg = pkg /\ s.jsonFirst = first
  BY <1>2, <1>5, <1>6 DEF Commands
<1>8. s.op = cmd[c].op /\ s.name = cmd[c].name /\ s.deps = cmd[c].deps /\ s.found = cmd[c].found
  BY <1>2 DEF Commands
<1> HIDE DEF s
<1>9. torn \subseteq Packages /\ Torn(n) \subseteq Packages /\ torn \subseteq Torn(n)
      /\ (n \notin Torn(n) => \A d \in Cmds : ~ Half(cmd[d], n))
  BY <1>1, TornTyped DEF ProjectTypes
<1>10. modules \in [Packages -> [json : 0 .. MaxVersion, rest : 0 .. MaxVersion]] /\ cmd[c].plan[n] \in 0 .. MaxVersion
  BY <1>1, <1>2 DEF ProjectTypes, Versions
<1>11. /\ modules' \in [Packages -> [json : 0 .. MaxVersion, rest : 0 .. MaxVersion]]
       /\ \A m \in Packages : m # n => modules'[m] = modules[m]
       /\ IF jsonFirst THEN modules'[n].json = cmd[c].plan[n] ELSE modules'[n].rest = cmd[c].plan[n]
  <2>1. CASE jsonFirst
    BY <1>3, <1>10, <2>1
  <2>2. CASE ~ jsonFirst
    BY <1>3, <1>10, <2>2
  <2> QED
    BY <2>1, <2>2
<1>12. ASSUME Followed(cmd[c], lock, packageJson, modules) PROVE Followed(s, lock', packageJson', modules')
  <2>1. LockFollows(s, lock')
    BY <1>3, <1>7, <1>8, <1>12 DEF Followed, LockFollows, Reproduces
  <2>2. JsonFollows(s, packageJson')
    BY <1>3, <1>7, <1>8, <1>12 DEF Followed, JsonFollows
  <2>3. ModulesFollow(s, modules')
    <3>1. ASSUME NEW m \in Packages, s.plan[m] # 0, s.pkg[m] \in {"skip", "done"}
          PROVE  modules'[m].json = s.plan[m]
      <4>1. m # n
        BY <1>5, <1>7, <3>1
      <4>2. cmd[c].pkg[m] \in {"skip", "done"} /\ cmd[c].plan[m] # 0 /\ modules'[m] = modules[m]
        BY <1>3, <1>5, <1>7, <1>9, <1>11, <3>1, <4>1
      <4>3. modules[m].json = cmd[c].plan[m]
        BY <1>3, <1>12, <4>2 DEF Followed, ModulesFollow
      <4> QED
        BY <1>7, <4>2, <4>3
    <3>2. ASSUME NEW m \in Packages, s.pkg[m] = "half"
          PROVE  IF s.jsonFirst[m] THEN modules'[m].json = s.plan[m] ELSE modules'[m].rest = s.plan[m]
      <4>1. CASE m = n
        BY <1>6, <1>7, <1>11, <4>1
      <4>2. CASE m # n
        <5>1. /\ cmd[c].pkg[m] = "half" /\ modules'[m] = modules[m]
              /\ s.jsonFirst[m] = cmd[c].jsonFirst[m] /\ s.plan[m] = cmd[c].plan[m]
          BY <1>5, <1>6, <1>7, <1>11, <3>2, <4>2
        <5>2. IF cmd[c].jsonFirst[m] THEN modules[m].json = cmd[c].plan[m] ELSE modules[m].rest = cmd[c].plan[m]
          BY <1>3, <1>12, <5>1 DEF Followed, ModulesFollow
        <5> QED
          BY <5>1, <5>2
      <4> QED
        BY <4>1, <4>2
    <3> QED
      BY <1>3, <1>7, <3>1, <3>2 DEF ModulesFollow
  <2> QED
    BY <2>1, <2>2, <2>3 DEF Followed
<1>13. Working(cmd[c])
  BY <1>3 DEF Working
<1>14. Alone(cmd', lock', packageJson', modules')
  BY <1>4, <1>7, <1>12, <1>13, CmdActs
<1>15. cmd' \in [Cmds -> Commands] /\ cmd'[c] = s /\ \A d \in Cmds : d # c => cmd'[d] = cmd[d]
  BY <1>1, <1>4, <1>7, CmdMoves
<1>16. Whole(cmd', modules', torn')
  <2> SUFFICES ASSUME NEW m \in Packages, m \notin torn'
               PROVE  /\ \A d, e \in Cmds : Half(cmd'[d], m) /\ Half(cmd'[e], m) => d = e
                      /\ (\A d \in Cmds : ~ Half(cmd'[d], m)) => modules'[m].json = modules'[m].rest
                      /\ \A d \in Cmds : Half(cmd'[d], m) =>
                           IF cmd'[d].jsonFirst[m] THEN modules'[m].json = cmd'[d].plan[m]
                           ELSE modules'[m].rest = cmd'[d].plan[m]
    BY DEF Whole
  <2>1. m \notin torn
    BY <1>3, <1>9
  <2>2. CASE m = n
    <3>1. \A d \in Cmds : d # c => ~ Half(cmd'[d], m)
      BY <1>3, <1>9, <1>15, <2>2
    <3>2. Half(cmd'[c], m)
      BY <1>3, <1>5, <1>7, <1>15, <2>2 DEF Half
    <3>3. cmd'[c].jsonFirst[m] = jsonFirst /\ cmd'[c].plan[m] = cmd[c].plan[n]
      BY <1>6, <1>7, <1>15, <2>2
    <3>4. IF cmd'[c].jsonFirst[m] THEN modules'[m].json = cmd'[c].plan[m] ELSE modules'[m].rest = cmd'[c].plan[m]
      BY <1>11, <2>2, <3>3
    <3> QED
      BY <3>1, <3>2, <3>4
  <2>3. CASE m # n
    <3>1. modules'[m] = modules[m]
      BY <1>11, <2>3
    <3>2. /\ \A d, e \in Cmds : Half(cmd[d], m) /\ Half(cmd[e], m) => d = e
          /\ (\A d \in Cmds : ~ Half(cmd[d], m)) => modules[m].json = modules[m].rest
          /\ \A d \in Cmds : Half(cmd[d], m) =>
                           IF cmd[d].jsonFirst[m] THEN modules[m].json = cmd[d].plan[m]
                           ELSE modules[m].rest = cmd[d].plan[m]
      BY <1>1, <2>1 DEF Whole
    <3>3. \A d \in Cmds : Half(cmd'[d], m) <=> Half(cmd[d], m)
      BY <1>5, <1>7, <1>15, <2>3 DEF Half
    <3>4. \A d \in Cmds : cmd'[d].jsonFirst[m] = cmd[d].jsonFirst[m] /\ cmd'[d].plan[m] = cmd[d].plan[m]
      BY <1>6, <1>7, <1>15, <2>3
    <3> QED
      BY <3>1, <3>2, <3>3, <3>4
  <2> QED
    BY <2>2, <2>3
<1>17. Closed(s.plan)
  BY <1>1, <1>7 DEF Plans
<1>18. Plans'
  BY <1>3, <1>4, <1>7, <1>17, PlansStay
<1>19. OneScript'
  BY <1>3, <1>4, <1>7, ScriptsStay
<1>20. ProjectTypes'
  BY <1>1, <1>3, <1>9, <1>11, <1>15 DEF ProjectTypes
<1> QED
  BY <1>14, <1>16, <1>18, <1>19, <1>20 DEF ProjectInv

LEMMA UnpackSecondKeeps ==
  ASSUME ProjectInv, NEW c \in Cmds, NEW n \in Packages, UnpackSecond(c, n)
  PROVE  ProjectInv'
<1> DEFINE pkg == [cmd[c].pkg EXCEPT ![n] = "done"]
           s == [cmd[c] EXCEPT !.pkg = pkg]
<1>1. ProjectTypes /\ Plans /\ Whole(cmd, modules, torn) /\ Alone(cmd, lock, packageJson, modules)
  BY DEF ProjectInv
<1>2. /\ cmd[c] \in Commands /\ cmd[c].pkg \in [Packages -> {"skip", "fetch", "failed", "half", "done"}]
      /\ cmd[c].jsonFirst \in [Packages -> BOOLEAN] /\ cmd[c].plan \in Versions
  BY <1>1, StateTypes
<1>3. /\ cmd[c].pc = "packages" /\ cmd[c].pkg[n] = "half" /\ torn' = IF cmd[c].alone THEN torn \ {n} ELSE torn
      /\ modules' = IF cmd[c].jsonFirst[n] THEN [modules EXCEPT ![n].rest = cmd[c].plan[n]]
                    ELSE [modules EXCEPT ![n].json = cmd[c].plan[n]]
      /\ latest' = latest /\ packageJson' = packageJson /\ lock' = lock /\ bins' = bins /\ scripts' = scripts
      /\ kills' = kills /\ fails' = fails
  BY DEF UnpackSecond, RestOf, Mended
<1>4. CmdGoes(c, s)
  BY DEF UnpackSecond
<1>5. /\ pkg \in [Packages -> {"skip", "fetch", "failed", "half", "done"}] /\ pkg[n] = "done"
      /\ \A m \in Packages : m # n => pkg[m] = cmd[c].pkg[m]
  BY <1>2
<1> HIDE DEF pkg
<1>6. s \in Commands /\ s.alone = cmd[c].alone /\ s.plan = cmd[c].plan /\ s.pc = cmd[c].pc /\ s.pkg = pkg
  BY <1>2, <1>5 DEF Commands
<1>7. /\ s.op = cmd[c].op /\ s.name = cmd[c].name /\ s.deps = cmd[c].deps /\ s.found = cmd[c].found
      /\ s.jsonFirst = cmd[c].jsonFirst
  BY <1>2 DEF Commands
<1> HIDE DEF s
<1>8. Half(cmd[c], n)
  BY <1>3 DEF Half
<1>9. modules \in [Packages -> [json : 0 .. MaxVersion, rest : 0 .. MaxVersion]] /\ cmd[c].plan[n] \in 0 .. MaxVersion
  BY <1>1, <1>2 DEF ProjectTypes, Versions
<1>10. /\ modules' \in [Packages -> [json : 0 .. MaxVersion, rest : 0 .. MaxVersion]]
       /\ \A m \in Packages : m # n => modules'[m] = modules[m]
       /\ (IF cmd[c].jsonFirst[n] THEN modules[n].json = cmd[c].plan[n] ELSE modules[n].rest = cmd[c].plan[n])
             => modules'[n].json = cmd[c].plan[n] /\ modules'[n].rest = cmd[c].plan[n]
  <2>1. CASE cmd[c].jsonFirst[n]
    BY <1>3, <1>9, <2>1
  <2>2. CASE ~ cmd[c].jsonFirst[n]
    BY <1>3, <1>9, <2>2
  <2> QED
    BY <2>1, <2>2
\* It is known to be half written by this command unless it is torn, and also then if
\* the command has run alone all the time.
<1>20. cmd[c].alone => Followed(cmd[c], lock, packageJson, modules) /\ \A d \in Cmds : d # c => ~ Working(cmd[d])
  BY <1>1, <1>3 DEF Alone, Working
<1>21. Followed(cmd[c], lock, packageJson, modules) \/ n \notin torn
         => IF cmd[c].jsonFirst[n] THEN modules[n].json = cmd[c].plan[n] ELSE modules[n].rest = cmd[c].plan[n]
  <2>1. CASE Followed(cmd[c], lock, packageJson, modules)
    BY <1>3, <2>1 DEF Followed, ModulesFollow
  <2>2. CASE n \notin torn
    BY <1>1, <1>8, <2>2 DEF Whole
  <2> QED
    BY <2>1, <2>2
<1>22. (Followed(cmd[c], lock, packageJson, modules) => modules'[n].json = cmd[c].plan[n])
       /\ (n \notin torn' => modules'[n].json = modules'[n].rest)
  BY <1>3, <1>10, <1>20, <1>21
<1>11. ASSUME Followed(cmd[c], lock, packageJson, modules) PROVE Followed(s, lock', packageJson', modules')
  <2>1. LockFollows(s, lock')
    BY <1>3, <1>6, <1>7, <1>11 DEF Followed, LockFollows, Reproduces
  <2>2. JsonFollows(s, packageJson')
    BY <1>3, <1>6, <1>7, <1>11 DEF Followed, JsonFollows
  <2>3. ModulesFollow(s, modules')
    <3>1. ASSUME NEW m \in Packages, s.plan[m] # 0, s.pkg[m] \in {"skip", "done"}
          PROVE  modules'[m].json = s.plan[m]
      <4>1. CASE m = n
        BY <1>6, <1>11, <1>22, <4>1
      <4>2. CASE m # n
        <5>1. cmd[c].pkg[m] \in {"skip", "done"} /\ cmd[c].plan[m] # 0 /\ modules'[m] = modules[m]
          BY <1>3, <1>5, <1>6, <1>10, <3>1, <4>2
        <5>2. modules[m].json = cmd[c].plan[m]
          BY <1>3, <1>11, <5>1 DEF Followed, ModulesFollow
        <5> QED
          BY <1>6, <5>1, <5>2
      <4> QED
        BY <4>1, <4>2
    <3>2. ASSUME NEW m \in Packages, s.pkg[m] = "half"
          PROVE  IF s.jsonFirst[m] THEN modules'[m].json = s.plan[m] ELSE modules'[m].rest = s.plan[m]
      <4>1. m # n /\ cmd[c].pkg[m] = "half" /\ modules'[m] = modules[m]
        BY <1>5, <1>6, <1>10, <3>2
      <4>2. IF cmd[c].jsonFirst[m] THEN modules[m].json = cmd[c].plan[m] ELSE modules[m].rest = cmd[c].plan[m]
        BY <1>3, <1>11, <4>1 DEF Followed, ModulesFollow
      <4> QED
        BY <1>6, <1>7, <4>1, <4>2
    <3> QED
      BY <1>3, <1>6, <3>1, <3>2 DEF ModulesFollow
  <2> QED
    BY <2>1, <2>2, <2>3 DEF Followed
<1>12. Working(cmd[c])
  BY <1>3 DEF Working
<1>13. Alone(cmd', lock', packageJson', modules')
  BY <1>4, <1>6, <1>11, <1>12, CmdActs
<1>14. cmd' \in [Cmds -> Commands] /\ cmd'[c] = s /\ \A d \in Cmds : d # c => cmd'[d] = cmd[d]
  BY <1>1, <1>4, <1>6, CmdMoves
<1>15. Whole(cmd', modules', torn')
  <2> SUFFICES ASSUME NEW m \in Packages, m \notin torn'
               PROVE  /\ \A d, e \in Cmds : Half(cmd'[d], m) /\ Half(cmd'[e], m) => d = e
                      /\ (\A d \in Cmds : ~ Half(cmd'[d], m)) => modules'[m].json = modules'[m].rest
                      /\ \A d \in Cmds : Half(cmd'[d], m) =>
                           IF cmd'[d].jsonFirst[m] THEN modules'[m].json = cmd'[d].plan[m]
                           ELSE modules'[m].rest = cmd'[d].plan[m]
    BY DEF Whole
  <2>1. m \notin torn \/ (m = n /\ cmd[c].alone)
    BY <1>3
  <2>2. m \notin torn =>
        /\ \A d, e \in Cmds : Half(cmd[d], m) /\ Half(cmd[e], m) => d = e
        /\ (\A d \in Cmds : ~ Half(cmd[d], m)) => modules[m].json = modules[m].rest
        /\ \A d \in Cmds : Half(cmd[d], m) =>
                         IF cmd[d].jsonFirst[m] THEN modules[m].json = cmd[d].plan[m]
                         ELSE modules[m].rest = cmd[d].plan[m]
    BY <1>1 DEF Whole
  <2>3. CASE m = n
    <3>1. \A d \in Cmds : d # c => ~ Half(cmd'[d], m)
      <4>1. CASE m \notin torn
        BY <1>8, <1>14, <2>2, <2>3, <4>1
      <4>2. CASE cmd[c].alone
        BY <1>14, <1>20, <4>2 DEF Half, Working
      <4> QED
        BY <2>1, <4>1, <4>2
    <3>2. ~ Half(cmd'[c], m)
      BY <1>3, <1>5, <1>6, <1>14, <2>3 DEF Half
    <3>3. modules'[m].json = modules'[m].rest
      BY <1>22, <2>3
    <3> QED
      BY <3>1, <3>2, <3>3
  <2>4. CASE m # n
    <3>1. modules'[m] = modules[m]
      BY <1>10, <2>4
    <3>2. \A d \in Cmds : Half(cmd'[d], m) <=> Half(cmd[d], m)
      BY <1>5, <1>6, <1>14, <2>4 DEF Half
    <3>3. \A d \in Cmds : cmd'[d].jsonFirst[m] = cmd[d].jsonFirst[m] /\ cmd'[d].plan[m] = cmd[d].plan[m]
      BY <1>6, <1>7, <1>14
    <3> QED
      BY <2>1, <2>2, <2>4, <3>1, <3>2, <3>3
  <2> QED
    BY <2>3, <2>4
<1>16. Closed(s.plan)
  BY <1>1, <1>6 DEF Plans
<1>17. Plans'
  BY <1>3, <1>4, <1>6, <1>16, PlansStay
<1>18. OneScript'
  BY <1>3, <1>4, <1>6, ScriptsStay
<1>19. ProjectTypes'
  <2>1. torn' \subseteq Packages
    BY <1>1, <1>3 DEF ProjectTypes
  <2> QED
    BY <1>1, <1>3, <1>10, <1>14, <2>1 DEF ProjectTypes
<1> QED
  BY <1>13, <1>15, <1>17, <1>18, <1>19 DEF ProjectInv

\* What a tarball leaves when it cannot be unpacked to the end.
LEMMA UnpackFailsKeeps ==
  ASSUME ProjectInv, NEW c \in Cmds, NEW n \in Packages, UnpackFails(c, n)
  PROVE  ProjectInv'
<1> DEFINE pkg == [cmd[c].pkg EXCEPT ![n] = "failed"]
           s == [cmd[c] EXCEPT !.pkg = pkg]
<1>1. ProjectTypes /\ Plans
  BY DEF ProjectInv
<1>2. cmd[c] \in Commands /\ cmd[c].pkg \in [Packages -> {"skip", "fetch", "failed", "half", "done"}]
  BY <1>1, StateTypes
<1>3. /\ cmd[c].pc = "packages" /\ cmd[c].pkg[n] = "half" /\ torn' = torn \cup {n}
      /\ latest' = latest /\ packageJson' = packageJson /\ lock' = lock /\ modules' = modules /\ bins' = bins
      /\ scripts' = scripts /\ kills' = kills
  BY DEF UnpackFails, files
<1>4. fails' \in 0 .. MaxFails
  BY <1>1, InstallAssumption DEF UnpackFails, ProjectTypes
<1>5. CmdGoes(c, s)
  BY DEF UnpackFails
<1>6. /\ pkg \in [Packages -> {"skip", "fetch", "failed", "half", "done"}] /\ pkg[n] = "failed"
      /\ \A m \in Packages : m # n => pkg[m] = cmd[c].pkg[m]
  BY <1>2
<1> HIDE DEF pkg
<1>7. s \in Commands /\ s.alone = cmd[c].alone /\ s.plan = cmd[c].plan /\ s.pc = cmd[c].pc /\ s.pkg = pkg
  BY <1>2, <1>6 DEF Commands
<1>8. /\ s.op = cmd[c].op /\ s.name = cmd[c].name /\ s.deps = cmd[c].deps /\ s.found = cmd[c].found
      /\ s.jsonFirst = cmd[c].jsonFirst
  BY <1>2 DEF Commands
<1> HIDE DEF s
<1>9. ASSUME Followed(cmd[c], lock, packageJson, modules) PROVE Followed(s, lock', packageJson', modules')
  <2>1. LockFollows(s, lock')
    BY <1>3, <1>7, <1>8, <1>9 DEF Followed, LockFollows, Reproduces
  <2>2. JsonFollows(s, packageJson')
    BY <1>3, <1>7, <1>8, <1>9 DEF Followed, JsonFollows
  <2>3. ModulesFollow(s, modules')
    <3>1. \A m \in Packages : /\ s.pkg[m] \in {"skip", "done"} => cmd[c].pkg[m] \in {"skip", "done"}
                              /\ s.pkg[m] = "half" => cmd[c].pkg[m] = "half"
      BY <1>6, <1>7
    <3> QED
      BY <1>3, <1>7, <1>8, <1>9, <3>1 DEF Followed, ModulesFollow
  <2> QED
    BY <2>1, <2>2, <2>3 DEF Followed
<1>10. Working(cmd[c])
  BY <1>3 DEF Working
<1>11. Alone(cmd', lock', packageJson', modules')
  BY <1>5, <1>7, <1>9, <1>10, CmdActs
<1>12. \A m \in Packages : m \notin torn' =>
           /\ Half(s, m) <=> Half(cmd[c], m)
           /\ Half(s, m) => s.jsonFirst[m] = cmd[c].jsonFirst[m] /\ s.plan[m] = cmd[c].plan[m]
  BY <1>3, <1>6, <1>7, <1>8 DEF Half
<1>13. torn \subseteq torn' /\ torn' \subseteq Packages
  BY <1>1, <1>3 DEF ProjectTypes
<1>14. Whole(cmd', modules', torn')
  BY <1>3, <1>5, <1>7, <1>12, <1>13, WholeActs
<1>15. Closed(s.plan)
  BY <1>1, <1>7 DEF Plans
<1>16. Plans'
  BY <1>3, <1>5, <1>7, <1>15, PlansStay
<1>17. OneScript'
  BY <1>3, <1>5, <1>7, ScriptsStay
<1>18. cmd' \in [Cmds -> Commands]
  BY <1>1, <1>5, <1>7, CmdMoves
<1>19. ProjectTypes'
  BY <1>1, <1>3, <1>4, <1>13, <1>18 DEF ProjectTypes
<1> QED
  BY <1>11, <1>14, <1>16, <1>17, <1>19 DEF ProjectInv

LEMMA PackagesDoneKeeps ==
  ASSUME ProjectInv, NEW c \in Cmds, PackagesDone(c)
  PROVE  ProjectInv'
<1> DEFINE left == PlannedBy(c) \cap Scripted
           s == [cmd[c] EXCEPT !.pc = "scripts", !.left = left]
<1>1. ProjectTypes /\ Plans
  BY DEF ProjectInv
<1>2. cmd[c] \in Commands /\ cmd[c].plan \in Versions
  BY <1>1, StateTypes
<1>3. /\ cmd[c].pc = "packages" /\ \A n \in Packages : cmd[c].pkg[n] \in {"skip", "done", "failed"}
      /\ lock' = cmd[c].plan /\ bins' = bins \cup PlannedBy(c) /\ CmdGoes(c, s)
      /\ latest' = latest /\ packageJson' = packageJson /\ modules' = modules /\ scripts' = scripts
      /\ kills' = kills /\ fails' = fails /\ torn' = torn
  BY DEF PackagesDone, Locked
<1>4. left \in SUBSET Scripted /\ PlannedBy(c) \subseteq Packages
  BY DEF PlannedBy
<1> HIDE DEF left
<1>5. s \in Commands /\ s.alone = cmd[c].alone /\ s.plan = cmd[c].plan /\ s.pc = "scripts" /\ s.pkg = cmd[c].pkg
  BY <1>2, <1>4 DEF Commands, States
<1>6. s.op = cmd[c].op /\ s.name = cmd[c].name /\ s.deps = cmd[c].deps /\ s.found = cmd[c].found
  BY <1>2 DEF Commands
<1> HIDE DEF s
<1>7. ASSUME Followed(cmd[c], lock, packageJson, modules) PROVE Followed(s, lock', packageJson', modules')
  <2>1. LockFollows(s, lock')
    <3>1. Reproduces(s) => lock' = s.found
      BY <1>3, <1>6, <1>7 DEF Followed, LockFollows, Reproduces
    <3>2. s.op = "install" => \A n \in s.name : lock'[n] # 0
      BY <1>3, <1>6, <1>7 DEF Followed, LockFollows
    <3> QED
      BY <1>5, <3>1, <3>2 DEF LockFollows
  <2>2. JsonFollows(s, packageJson')
    BY <1>3, <1>5, <1>6, <1>7 DEF Followed, JsonFollows
  <2>3. ModulesFollow(s, modules')
    <3>1. \A n \in Packages : s.plan[n] # 0 /\ s.pkg[n] \in {"skip", "done"} => modules[n].json = s.plan[n]
      BY <1>3, <1>5, <1>7 DEF Followed, ModulesFollow
    <3>2. \A n \in Packages : s.pkg[n] \in {"skip", "done", "failed"}
      BY <1>3, <1>5
    <3> QED
      BY <1>3, <1>5, <3>1, <3>2 DEF ModulesFollow
  <2> QED
    BY <2>1, <2>2, <2>3 DEF Followed
<1>8. Working(cmd[c])
  BY <1>3 DEF Working
<1>9. Alone(cmd', lock', packageJson', modules')
  BY <1>3, <1>5, <1>7, <1>8, CmdActs
<1>10. \A n \in Packages : ~ Half(s, n) /\ ~ Half(cmd[c], n)
  BY <1>3, <1>5 DEF Half
<1>11. Whole(cmd', modules', torn')
  BY <1>3, <1>5, <1>10, WholeActs
<1>12. Closed(s.plan)
  BY <1>1, <1>5 DEF Plans
<1>13. Plans'
  BY <1>3, <1>5, <1>12, PlansStay
<1>14. OneScript'
  BY <1>3, <1>5, ScriptsStay
<1>15. cmd' \in [Cmds -> Commands]
  BY <1>1, <1>3, <1>5, CmdMoves
<1>16. ProjectTypes'
  BY <1>1, <1>2, <1>3, <1>4, <1>15 DEF ProjectTypes
<1> QED
  BY <1>9, <1>11, <1>13, <1>14, <1>16 DEF ProjectInv

LEMMA StartScriptKeeps ==
  ASSUME ProjectInv, NEW c \in Cmds, NEW n \in Packages, StartScript(c, n)
  PROVE  ProjectInv'
<1> DEFINE left == cmd[c].left \ {n}
           s == [cmd[c] EXCEPT !.left = left]
<1>1. ProjectTypes /\ Plans /\ OneScript
  BY DEF ProjectInv
<1>2. cmd[c] \in Commands /\ cmd[c].left \subseteq Scripted
  BY <1>1, StateTypes
<1>3. /\ cmd[c].pc = "scripts" /\ n \in cmd[c].left /\ scripts[c] = {}
      /\ scripts' = [scripts EXCEPT ![c] = IF HasJson(n) THEN @ \cup {n} ELSE @]
      /\ latest' = latest /\ packageJson' = packageJson /\ lock' = lock /\ modules' = modules /\ bins' = bins
      /\ kills' = kills /\ fails' = fails /\ torn' = torn
  BY DEF StartScript, NextScript, files
<1>4. left \in SUBSET Scripted
  BY <1>2
<1>5. CmdGoes(c, s)
  <2>1. [cmd[c] EXCEPT !.left = @ \ {n}] = s
    OBVIOUS
  <2> QED
    BY <2>1 DEF StartScript
<1> HIDE DEF left
<1>6. s \in Commands /\ s.alone = cmd[c].alone /\ s.plan = cmd[c].plan /\ s.pc = "scripts" /\ s.pkg = cmd[c].pkg
  BY <1>2, <1>3, <1>4 DEF Commands
<1>7. s.op = cmd[c].op /\ s.name = cmd[c].name /\ s.deps = cmd[c].deps /\ s.found = cmd[c].found
  BY <1>2 DEF Commands
<1> HIDE DEF s
<1>8. ASSUME Followed(cmd[c], lock, packageJson, modules) PROVE Followed(s, lock', packageJson', modules')
  <2>1. LockFollows(s, lock')
    BY <1>3, <1>6, <1>7, <1>8 DEF Followed, LockFollows, Reproduces
  <2>2. JsonFollows(s, packageJson')
    BY <1>3, <1>6, <1>7, <1>8 DEF Followed, JsonFollows
  <2>3. ModulesFollow(s, modules')
    BY <1>3, <1>6, <1>8 DEF Followed, ModulesFollow
  <2> QED
    BY <2>1, <2>2, <2>3 DEF Followed
<1>9. Working(cmd[c])
  BY <1>3 DEF Working
<1>10. Alone(cmd', lock', packageJson', modules')
  BY <1>5, <1>6, <1>8, <1>9, CmdActs
<1>11. \A m \in Packages : ~ Half(s, m) /\ ~ Half(cmd[c], m)
  BY <1>3, <1>6 DEF Half
<1>12. Whole(cmd', modules', torn')
  BY <1>3, <1>5, <1>6, <1>11, WholeActs
<1>13. Closed(s.plan)
  BY <1>1, <1>6 DEF Plans
<1>14. Plans'
  BY <1>3, <1>5, <1>6, <1>13, PlansStay
<1>15. cmd' \in [Cmds -> Commands] /\ cmd'[c] = s /\ \A d \in Cmds : d # c => cmd'[d] = cmd[d]
  BY <1>1, <1>5, <1>6, CmdMoves
<1>16. /\ scripts' \in [Cmds -> SUBSET Scripted] /\ scripts'[c] \subseteq {n}
       /\ \A d \in Cmds : d # c => scripts'[d] = scripts[d]
  <2>1. scripts \in [Cmds -> SUBSET Scripted] /\ n \in Scripted
    BY <1>1, <1>2, <1>3 DEF ProjectTypes
  <2>2. CASE HasJson(n)
    BY <1>3, <2>1, <2>2
  <2>3. CASE ~ HasJson(n)
    BY <1>3, <2>1, <2>3
  <2> QED
    BY <2>2, <2>3
<1>17. OneScript'
  <2> SUFFICES ASSUME NEW d \in Cmds
               PROVE  (scripts'[d] # {} => cmd'[d].pc = "scripts") /\ \A j, k \in scripts'[d] : j = k
    BY DEF OneScript
  <2>1. (scripts[d] # {} => cmd[d].pc = "scripts") /\ \A j, k \in scripts[d] : j = k
    BY <1>1 DEF OneScript
  <2>2. CASE d = c
    BY <1>6, <1>15, <1>16, <2>2
  <2>3. CASE d # c
    BY <1>15, <1>16, <2>1, <2>3
  <2> QED
    BY <2>2, <2>3
<1>18. ProjectTypes'
  BY <1>1, <1>3, <1>15, <1>16 DEF ProjectTypes
<1> QED
  BY <1>10, <1>12, <1>14, <1>17, <1>18 DEF ProjectInv

\* Scripts that end, or are waited for no longer.
LEMMA FewerScripts ==
  ASSUME ProjectInv, NEW c \in Cmds, NEW rest \in SUBSET scripts[c], scripts' = [scripts EXCEPT ![c] = rest],
         UNCHANGED <<latest, files, cmd, kills, fails, torn>>
  PROVE  ProjectInv'
<1>1. ProjectTypes /\ Plans /\ OneScript /\ Whole(cmd, modules, torn) /\ Alone(cmd, lock, packageJson, modules)
  BY DEF ProjectInv
<1>2. /\ latest' = latest /\ packageJson' = packageJson /\ lock' = lock /\ modules' = modules /\ bins' = bins
      /\ cmd' = cmd /\ kills' = kills /\ fails' = fails /\ torn' = torn
  BY DEF files
<1>3. /\ scripts' \in [Cmds -> SUBSET Scripted]
      /\ \A d \in Cmds : scripts'[d] \subseteq scripts[d]
  BY <1>1 DEF ProjectTypes
<1>4. OneScript'
  <2> SUFFICES ASSUME NEW d \in Cmds
               PROVE  (scripts'[d] # {} => cmd'[d].pc = "scripts") /\ \A j, k \in scripts'[d] : j = k
    BY DEF OneScript
  <2>1. (scripts[d] # {} => cmd[d].pc = "scripts") /\ \A j, k \in scripts[d] : j = k
    BY <1>1 DEF OneScript
  <2> QED
    BY <1>2, <1>3, <2>1
<1>5. ProjectTypes'
  BY <1>1, <1>2, <1>3 DEF ProjectTypes
<1>6. Plans'
  BY <1>1, <1>2 DEF Plans
<1> QED
  BY <1>1, <1>2, <1>4, <1>5, <1>6 DEF ProjectInv

LEMMA ScriptsDoneKeeps ==
  ASSUME ProjectInv, NEW c \in Cmds, ScriptsDone(c)
  PROVE  ProjectInv'
<1> DEFINE pc == IF cmd[c].op = "npx" THEN "spawn" ELSE "done"
           s == [cmd[c] EXCEPT !.pc = pc]
<1>1. ProjectTypes /\ Plans /\ OneScript
  BY DEF ProjectInv
<1>2. cmd[c] \in Commands
  BY <1>1, StateTypes
<1>3. /\ cmd[c].pc = "scripts" /\ scripts[c] = {} /\ CmdGoes(c, s)
      /\ latest' = latest /\ packageJson' = packageJson /\ lock' = lock /\ modules' = modules /\ bins' = bins
      /\ scripts' = scripts /\ kills' = kills /\ fails' = fails /\ torn' = torn
  BY DEF ScriptsDone, AllRun, files
<1>4. pc \in {"spawn", "done"} /\ (cmd[c].op = "install" => pc = "done")
  OBVIOUS
<1> HIDE DEF pc
<1>5. s \in Commands /\ s.alone = cmd[c].alone /\ s.plan = cmd[c].plan /\ s.pc = pc /\ s.pkg = cmd[c].pkg
  BY <1>2, <1>4 DEF Commands, States
<1>6. s.op = cmd[c].op /\ s.name = cmd[c].name /\ s.deps = cmd[c].deps /\ s.found = cmd[c].found
  BY <1>2 DEF Commands
<1> HIDE DEF s
<1>7. ASSUME Followed(cmd[c], lock, packageJson, modules) PROVE Followed(s, lock', packageJson', modules')
  <2>1. LockFollows(s, lock')
    BY <1>3, <1>4, <1>5, <1>6, <1>7 DEF Followed, LockFollows, Reproduces
  <2>2. JsonFollows(s, packageJson')
    BY <1>3, <1>4, <1>5, <1>6, <1>7 DEF Followed, JsonFollows
  <2>3. ModulesFollow(s, modules')
    BY <1>3, <1>4, <1>5, <1>7 DEF Followed, ModulesFollow
  <2> QED
    BY <2>1, <2>2, <2>3 DEF Followed
<1>8. Working(cmd[c])
  BY <1>3 DEF Working
<1>9. Alone(cmd', lock', packageJson', modules')
  BY <1>3, <1>5, <1>7, <1>8, CmdActs
<1>10. \A m \in Packages : ~ Half(s, m) /\ ~ Half(cmd[c], m)
  BY <1>3, <1>4, <1>5 DEF Half
<1>11. Whole(cmd', modules', torn')
  BY <1>3, <1>5, <1>10, WholeActs
<1>12. Closed(s.plan)
  BY <1>1, <1>5 DEF Plans
<1>13. Plans'
  BY <1>3, <1>5, <1>12, PlansStay
<1>14. cmd' \in [Cmds -> Commands] /\ \A d \in Cmds : d # c => cmd'[d] = cmd[d]
  BY <1>1, <1>3, <1>5, CmdMoves
<1>15. OneScript'
  BY <1>1, <1>3, <1>14 DEF OneScript
<1>16. ProjectTypes'
  BY <1>1, <1>3, <1>14 DEF ProjectTypes
<1> QED
  BY <1>9, <1>11, <1>13, <1>15, <1>16 DEF ProjectInv

LEMMA SpawnKeeps ==
  ASSUME ProjectInv, NEW c \in Cmds, Spawn(c)
  PROVE  ProjectInv'
<1>1. ProjectTypes
  BY DEF ProjectInv
<1>2. cmd[c] \in Commands
  BY <1>1, StateTypes
<1>3. PICK code \in {0, 1} : CmdGoes(c, [cmd[c] EXCEPT !.pc = "done", !.code = code])
  BY DEF Spawn
<1>4. /\ cmd[c].pc = "spawn"
      /\ latest' = latest /\ packageJson' = packageJson /\ lock' = lock /\ modules' = modules /\ bins' = bins
      /\ scripts' = scripts /\ kills' = kills /\ fails' = fails /\ torn' = torn
  BY DEF Spawn, files
<1> DEFINE s == [cmd[c] EXCEPT !.pc = "done", !.code = code]
<1>5. s \in Commands /\ s.alone = cmd[c].alone /\ s.plan = cmd[c].plan /\ s.pc = "done" /\ s.pkg = cmd[c].pkg
  <2>1. code \in 0 .. 1
    OBVIOUS
  <2> QED
    BY <1>2, <2>1 DEF Commands, States
<1>6. s.op = cmd[c].op
  BY <1>2 DEF Commands
<1>7. CmdGoes(c, s)
  BY <1>3
<1> HIDE DEF s
<1>8. ASSUME Followed(cmd[c], lock, packageJson, modules) PROVE Followed(s, lock, packageJson, modules)
  <2>1. s.op # "install"
    BY <1>4, <1>6, <1>8 DEF Followed, LockFollows
  <2>2. LockFollows(s, lock)
    BY <1>5, <2>1 DEF LockFollows, Reproduces
  <2>3. JsonFollows(s, packageJson)
    BY <2>1 DEF JsonFollows
  <2>4. ModulesFollow(s, modules)
    BY <1>4, <1>5, <1>8 DEF Followed, ModulesFollow
  <2> QED
    BY <2>2, <2>3, <2>4 DEF Followed
<1>9. Working(cmd[c]) /\ fails' \in 0 .. MaxFails
  BY <1>1, <1>4 DEF Working, ProjectTypes
<1>10. \A n \in Packages : ~ Half(s, n) /\ ~ Half(cmd[c], n)
  BY <1>4, <1>5 DEF Half
<1> QED
  BY <1>4, <1>5, <1>7, <1>8, <1>9, <1>10, QuietStep

LEMMA KillKeeps ==
  ASSUME ProjectInv, NEW c \in Cmds, Kill(c)
  PROVE  ProjectInv'
<1> DEFINE s == [cmd[c] EXCEPT !.pc = "killed"]
<1>1. ProjectTypes /\ Plans /\ OneScript
  BY DEF ProjectInv
<1>2. cmd[c] \in Commands
  BY <1>1, StateTypes
<1>3. /\ UnderWay(c) /\ CmdGoes(c, s) /\ scripts' = [scripts EXCEPT ![c] = {}]
      /\ torn' = torn \cup {n \in Packages : Halfway(c, n)}
      /\ latest' = latest /\ packageJson' = packageJson /\ lock' = lock /\ modules' = modules /\ bins' = bins
      /\ fails' = fails
  BY DEF Kill, files
<1>4. kills' \in 0 .. MaxKills
  BY <1>1, InstallAssumption DEF Kill, ProjectTypes
<1>5. s \in Commands /\ s.alone = cmd[c].alone /\ s.plan = cmd[c].plan /\ s.pc = "killed"
  BY <1>2 DEF Commands, States
<1> HIDE DEF s
<1>6. Working(cmd[c])
  BY <1>3, UnderWayIsWorking
<1>7. Alone(cmd', lock', packageJson', modules')
  BY <1>3, <1>5, <1>6, CmdActs
<1>8. \A n \in Packages : n \notin torn' => ~ Half(s, n) /\ ~ Half(cmd[c], n)
  BY <1>3, <1>5 DEF Half, Halfway
<1>9. torn \subseteq torn'
  BY <1>3
<1>10. Whole(cmd', modules', torn')
  BY <1>3, <1>5, <1>8, <1>9, WholeActs
<1>11. Closed(s.plan)
  BY <1>1, <1>5 DEF Plans
<1>12. Plans'
  BY <1>3, <1>5, <1>11, PlansStay
<1>13. cmd' \in [Cmds -> Commands] /\ \A d \in Cmds : d # c => cmd'[d] = cmd[d]
  BY <1>1, <1>3, <1>5, CmdMoves
<1>14. /\ scripts' \in [Cmds -> SUBSET Scripted] /\ scripts'[c] = {}
       /\ \A d \in Cmds : d # c => scripts'[d] = scripts[d]
  BY <1>1, <1>3 DEF ProjectTypes
<1>15. OneScript'
  BY <1>1, <1>13, <1>14 DEF OneScript
<1>16. torn' \subseteq Packages
  BY <1>1, <1>3 DEF ProjectTypes
<1>17. ProjectTypes'
  BY <1>1, <1>3, <1>4, <1>13, <1>14, <1>16 DEF ProjectTypes
<1> QED
  BY <1>7, <1>10, <1>12, <1>15, <1>17 DEF ProjectInv

LEMMA PublishKeeps ==
  ASSUME ProjectInv, NEW n \in Packages, Publish(n)
  PROVE  ProjectInv'
<1>1. ProjectTypes /\ Plans /\ OneScript /\ Whole(cmd, modules, torn) /\ Alone(cmd, lock, packageJson, modules)
  BY DEF ProjectInv
<1>2. /\ packageJson' = packageJson /\ lock' = lock /\ modules' = modules /\ bins' = bins /\ cmd' = cmd
      /\ scripts' = scripts /\ kills' = kills /\ fails' = fails /\ torn' = torn
  BY DEF Publish, files
<1>3. latest' \in [Packages -> 1 .. MaxVersion]
  BY <1>1, InstallAssumption DEF Publish, ProjectTypes
<1>4. ProjectTypes'
  BY <1>1, <1>2, <1>3 DEF ProjectTypes
<1>5. Plans' /\ OneScript'
  BY <1>1, <1>2 DEF Plans, OneScript
<1> QED
  BY <1>1, <1>2, <1>4, <1>5 DEF ProjectInv

-----------------------------------------------------------------------------
(***************************************************************************)
(* The theorems.                                                           *)
(***************************************************************************)
LEMMA InstallBegins ==
  ASSUME InstallInit
  PROVE  ProjectInv
<1>1. /\ latest = [n \in Packages |-> 1] /\ packageJson \subseteq Packages /\ lock = NoVersions
      /\ modules = [n \in Packages |-> Missing] /\ bins = {} /\ cmd = [c \in Cmds |-> Idle]
      /\ scripts = [c \in Cmds |-> {}] /\ kills = 0 /\ fails = 0 /\ torn = {}
  BY DEF InstallInit
<1>2. NoVersions \in Versions /\ Closed(NoVersions) /\ Idle \in Commands
  BY NoVersionsTyped, IdleTyped
<1>3. Idle.pc = "idle" /\ Idle.plan = NoVersions
  BY DEF Idle
<1>4. 1 \in 1 .. MaxVersion /\ 0 \in 0 .. MaxVersion /\ 0 \in 0 .. MaxKills /\ 0 \in 0 .. MaxFails
  BY InstallAssumption
<1>5. Missing \in [json : 0 .. MaxVersion, rest : 0 .. MaxVersion] /\ Missing.json = Missing.rest
  BY <1>4 DEF Missing
<1>6. ProjectTypes
  BY <1>1, <1>2, <1>4, <1>5 DEF ProjectTypes
<1>7. Plans
  BY <1>1, <1>2, <1>3 DEF Plans
<1>8. OneScript
  BY <1>1 DEF OneScript
<1>9. Whole(cmd, modules, torn)
  BY <1>1, <1>3, <1>5 DEF Whole, Half
<1>10. Alone(cmd, lock, packageJson, modules)
  BY <1>1, <1>3 DEF Alone
<1> QED
  BY <1>6, <1>7, <1>8, <1>9, <1>10 DEF ProjectInv

LEMMA InstallSteps ==
  ASSUME ProjectInv, InstallNext
  PROVE  ProjectInv'
<1>1. ASSUME NEW n \in Packages, Publish(n) PROVE ProjectInv'
  BY <1>1, PublishKeeps
<1>2. ASSUME NEW c \in Cmds, Install(c) PROVE ProjectInv'
  BY <1>2, InstallKeeps
<1>3. ASSUME NEW c \in Cmds, CmdStep(c) PROVE ProjectInv'
  <2>1. CASE NamedArrives(c)
    BY <2>1, NamedArrivesKeeps
  <2>2. CASE RegistryFails(c)
    BY <2>2, RegistryFailsKeeps
  <2>3. CASE ResolveArrives(c)
    BY <2>3, ResolveArrivesKeeps
  <2>4. CASE PackagesDone(c)
    BY <2>4, PackagesDoneKeeps
  <2>5. CASE ScriptsDone(c)
    BY <2>5, ScriptsDoneKeeps
  <2>6. CASE Spawn(c)
    BY <2>6, SpawnKeeps
  <2>7. CASE ScriptTimesOut(c)
    <3>1. {} \in SUBSET scripts[c]
      OBVIOUS
    <3>2. scripts' = [scripts EXCEPT ![c] = {}] /\ UNCHANGED <<latest, files, cmd, kills, fails, torn>>
      BY <2>7 DEF ScriptTimesOut, TimedOut
    <3> QED
      BY <3>1, <3>2, FewerScripts
  <2>8. ASSUME NEW n \in Packages, UnpackSecond(c, n) PROVE ProjectInv'
    BY <2>8, UnpackSecondKeeps
  <2>9. ASSUME NEW n \in Packages, StartScript(c, n) PROVE ProjectInv'
    BY <2>9, StartScriptKeeps
  <2>11. ASSUME NEW n \in Packages, UnpackFails(c, n) PROVE ProjectInv'
    BY <2>11, UnpackFailsKeeps
  <2>10. ASSUME NEW n \in Packages, NEW jsonFirst \in BOOLEAN, UnpackFirst(c, n, jsonFirst) PROVE ProjectInv'
    BY <2>10, UnpackFirstKeeps
  <2> QED
    BY <1>3, <2>1, <2>2, <2>3, <2>4, <2>5, <2>6, <2>7, <2>8, <2>9, <2>10, <2>11 DEF CmdStep
<1>4. ASSUME NEW c \in Cmds, ScriptExits(c) PROVE ProjectInv'
  <2>1. PICK n \in scripts[c] : scripts' = [scripts EXCEPT ![c] = @ \ {n}]
    BY <1>4 DEF ScriptExits
  <2>2. UNCHANGED <<latest, files, cmd, kills, fails, torn>>
    BY <1>4 DEF ScriptExits
  <2> DEFINE rest == scripts[c] \ {n}
  <2>3. rest \in SUBSET scripts[c] /\ scripts' = [scripts EXCEPT ![c] = rest]
    BY <2>1
  <2> HIDE DEF rest
  <2> QED
    BY <2>2, <2>3, FewerScripts
<1>5. ASSUME NEW c \in Cmds, Kill(c) PROVE ProjectInv'
  BY <1>5, KillKeeps
<1>6. ASSUME NEW c \in Cmds, NEW n \in Packages, InstallNamed(c, n) PROVE ProjectInv'
  BY <1>6, InstallNamedKeeps
<1>7. ASSUME NEW c \in Cmds, NEW n \in Packages, Npx(c, n) PROVE ProjectInv'
  BY <1>7, NpxKeeps
<1>8. ASSUME NEW c \in Cmds, NEW n \in Packages, Uninstall(c, n) PROVE ProjectInv'
  BY <1>8, UninstallKeeps
<1> QED
  BY <1>1, <1>2, <1>3, <1>4, <1>5, <1>6, <1>7, <1>8 DEF InstallNext

\* The inductive invariant: what every lockfile and plan lists is closed, a package
\* that is not torn has one writer at most, and a command that runs alone finds the
\* files as it left them at its last await (commandInstall, cli.ts).
THEOREM ProjectInvariant == InstallSpec => []ProjectInv
<1>1. InstallInit => ProjectInv
  BY InstallBegins
<1>2. ProjectInv /\ [InstallNext]_installVars => ProjectInv'
  <2> SUFFICES ASSUME ProjectInv, [InstallNext]_installVars PROVE ProjectInv'
    OBVIOUS
  <2>1. CASE InstallNext
    BY <2>1, InstallSteps
  <2>2. CASE UNCHANGED installVars
    BY <2>2 DEF installVars, ProjectInv, ProjectTypes, Plans, OneScript
  <2> QED
    BY <2>1, <2>2
<1> QED
  BY <1>1, <1>2, PTL DEF InstallSpec

LEMMA InvariantAgrees ==
  ASSUME ProjectInv
  PROVE  ProjectAgrees
<1>1. ProjectTypes /\ Plans /\ OneScript /\ Whole(cmd, modules, torn) /\ Alone(cmd, lock, packageJson, modules)
  BY DEF ProjectInv
<1>2. InstallTypeOK
  <2>1. latest \in Versions
    <3>1. 1 .. MaxVersion \subseteq 0 .. MaxVersion
      OBVIOUS
    <3> QED
      BY <1>1, <3>1 DEF ProjectTypes, Versions
  <2>2. ASSUME NEW c \in Cmds
        PROVE  /\ cmd[c].pc \in {"idle", "metadata", "resolve", "resolveStale", "packages", "scripts", "spawn", "done", "killed"}
               /\ scripts[c] # {} => cmd[c].pc = "scripts"
               /\ cmd[c].plan \in Versions /\ cmd[c].left \subseteq Scripted
    <3>1. cmd[c].pc \in States /\ cmd[c].plan \in Versions /\ cmd[c].left \subseteq Scripted
      BY <1>1, StateTypes
    <3>2. scripts[c] # {} => cmd[c].pc = "scripts"
      BY <1>1 DEF OneScript
    <3> QED
      BY <3>1, <3>2 DEF States
  <2> QED
    BY <1>1, <2>1, <2>2 DEF ProjectTypes, InstallTypeOK
<1>3. LockIsClosed
  <2> SUFFICES ASSUME NEW n \in Listed, NEW m \in Needs[n] PROVE m \in Listed
    BY DEF LockIsClosed
  <2>1. n \in Packages /\ lock[n] # 0 /\ m \in Packages
    BY InstallAssumption DEF Listed
  <2>2. lock[m] # 0
    BY <1>1, <2>1 DEF Plans, Closed
  <2> QED
    BY <2>1, <2>2 DEF Listed
\* A command that has succeeded ran alone: the files are as it left them.
<1>4. ASSUME NEW c \in Cmds, Succeeded(c)
      PROVE  cmd[c].pc = "done" /\ (\A d \in Cmds : ~ Working(cmd[d])) /\ Followed(cmd[c], lock, packageJson, modules)
  <2>1. cmd[c].pc = "done" /\ cmd[c].code = 0 /\ cmd[c].alone
    BY <1>4 DEF Succeeded
  <2>2. (\A d \in Cmds : d # c => ~ Working(cmd[d])) /\ Followed(cmd[c], lock, packageJson, modules)
    BY <1>1, <2>1 DEF Alone
  <2> QED
    BY <2>1, <2>2 DEF Working
<1>5. InstallReproducesLock
  <2> SUFFICES ASSUME NEW c \in Cmds, Succeeded(c), cmd[c].op = "install", cmd[c].name = {}, cmd[c].found # NoVersions,
                      cmd[c].deps \subseteq {n \in Packages : cmd[c].found[n] # 0}
               PROVE  lock = cmd[c].found
    BY DEF InstallReproducesLock
  <2>1. Reproduces(cmd[c])
    BY DEF Reproduces
  <2> QED
    BY <1>4, <2>1 DEF Followed, LockFollows
<1>6. InstalledAsPlanned
  <2> SUFFICES ASSUME NEW c \in Cmds, NEW n \in Packages, Succeeded(c), cmd[c].plan[n] # 0, cmd[c].pkg[n] # "failed"
               PROVE  /\ modules[n].json = cmd[c].plan[n]
                      /\ n \notin torn => modules[n].rest = cmd[c].plan[n]
    BY DEF InstalledAsPlanned
  <2>1. cmd[c].pkg[n] \in {"skip", "done"}
    BY <1>4 DEF Followed, ModulesFollow
  <2>2. modules[n].json = cmd[c].plan[n]
    BY <1>4, <2>1 DEF Followed, ModulesFollow
  <2>3. \A d \in Cmds : ~ Half(cmd[d], n)
    BY <1>4 DEF Working, Half
  <2>4. n \notin torn => modules[n].json = modules[n].rest
    BY <1>1, <2>3 DEF Whole
  <2> QED
    BY <2>2, <2>4
<1>7. AskedForIsListed
  <2> SUFFICES ASSUME NEW c \in Cmds, Succeeded(c), cmd[c].op = "install", NEW n \in cmd[c].name
               PROVE  n \in packageJson /\ n \in Listed
    BY DEF AskedForIsListed
  <2>1. n \in packageJson
    BY <1>4 DEF Followed, JsonFollows
  <2>2. lock[n] # 0
    BY <1>4 DEF Followed, LockFollows
  <2>3. n \in Packages
    BY <1>1, StateTypes
  <2> QED
    BY <2>1, <2>2, <2>3 DEF Listed
<1>8. ScriptsInTurn
  <2> SUFFICES ASSUME NEW c \in Cmds PROVE Cardinality(scripts[c]) <= 1
    BY DEF ScriptsInTurn
  <2>1. \A j, k \in scripts[c] : j = k
    BY <1>1 DEF OneScript
  <2> QED
    BY <2>1, AtMostOne
<1> QED
  BY <1>2, <1>3, <1>5, <1>6, <1>7, <1>8 DEF ProjectAgrees

\* After every command that succeeds and ran alone the lockfile, package.json and
\* node_modules agree as far as ProjectAgrees says, however many others overlap before
\* and after it, whatever fails half-way and whoever is killed (commandInstall, cli.ts).
THEOREM ProjectDoesAgree == InstallSpec => []ProjectAgrees
<1>1. ProjectInv => ProjectAgrees
  BY InvariantAgrees
<1> QED
  BY <1>1, ProjectInvariant, PTL

-----------------------------------------------------------------------------
(***************************************************************************)
(* The resolver.                                                           *)
(***************************************************************************)
Dependents == {Root} \cup (Names \X Nat)
Nodes == [version : Nat, requiredBy : SUBSET Dependents]
ResolverCalls ==
  [dep : Dependencies, by : Dependents, parent : Nat, peer : BOOLEAN,
   pc : {"fetching", "children", "peers", "done"}, version : Nat, peers : Seq(Dependencies), failed : BOOLEAN]
PlanStates == [resolved : [Names -> Nodes], resolving : SUBSET Dependencies, calls : Seq(ResolverCalls)]

\* The keys being resolved are those of the calls under way, each of one only.
Open(s) == {k \in 1 .. Len(s.calls) : s.calls[k].pc # "done"}
Keyed(s) ==
  /\ s.resolving = {s.calls[k].dep : k \in Open(s)}
  /\ \A j, k \in Open(s) : s.calls[j].dep = s.calls[k].dep => j = k

\* A call c and its caller p: a caller that awaits peers, or is done, has no other
\* call under way, unless it has failed, and then none of the calls failed that matter.
Below(c, p) ==
  /\ p.pc # "fetching"
  /\ p.pc = "children" => ~ c.peer
  /\ p.pc = "peers" /\ ~ c.peer => c.pc = "done" /\ ~ c.failed
  /\ p.pc = "done" /\ ~ p.failed => c.pc = "done" /\ (c.failed => c.peer)
Nested(s) ==
  \A k \in 1 .. Len(s.calls) :
    LET c == s.calls[k] IN
    /\ c.parent < k
    /\ c.parent = 0 => ~ c.peer
    /\ c.parent # 0 => Below(c, s.calls[c.parent])
    /\ c.failed => c.pc = "done"

\* A call that has its answer has the best version, and its package is known.
Answered(s) ==
  \A k \in 1 .. Len(s.calls) :
    LET c == s.calls[k] IN
    /\ c.pc \in {"children", "peers"} \/ (c.pc = "done" /\ ~ c.failed) => c.version # 0
    /\ c.version # 0 => Matching(c.dep) # {} /\ c.version = Pick(c.dep) /\ Known(s.resolved, c.dep.name)

\* The version of a package is that of a call which resolved it.
Backed(s) ==
  \A n \in Names :
    /\ s.resolved[n].version = 0 => s.resolved[n] = NoNode
    /\ Known(s.resolved, n) =>
         \E k \in 1 .. Len(s.calls) :
           /\ s.calls[k].dep.name = n /\ s.calls[k].version # 0
           /\ s.calls[k].version = s.resolved[n].version

Tidy(s) == s \in PlanStates /\ Keyed(s) /\ Nested(s) /\ Answered(s) /\ Backed(s)

\* A dependency that is known, or that a call was made for.
SpokenFor(s, d) == Known(s.resolved, d.name) \/ \E k \in 1 .. Len(s.calls) : s.calls[k].dep = d
DepsSpokenFor(s) ==
  \A k \in 1 .. Len(s.calls) :
    s.calls[k].version # 0 =>
      \A d \in ToSet(Registry[s.calls[k].dep.name][s.calls[k].version].deps) : SpokenFor(s, d)

PlanInv ==
  /\ Tidy(Now) /\ DepsSpokenFor(Now)
  /\ wanted \in RootDeps /\ \A d \in ToSet(wanted) : SpokenFor(Now, d)
  /\ outcome \in {"pending", "planned", "failed"}
  /\ outcome = "planned" =>
       \A k \in 1 .. Len(calls) : calls[k].parent = 0 => calls[k].pc = "done" /\ ~ calls[k].failed

\* What the program goes on from s to t with: calls made by this parent are added,
\* those that are done stay as they are, what is known stays known.
Later(s, t, parent) ==
  /\ Len(s.calls) <= Len(t.calls)
  /\ \A k \in 1 .. Len(s.calls) :
       /\ t.calls[k].dep = s.calls[k].dep /\ t.calls[k].parent = s.calls[k].parent
       /\ s.calls[k].pc = "done" => t.calls[k] = s.calls[k]
  /\ \A k \in Len(s.calls) + 1 .. Len(t.calls) : t.calls[k].parent = parent
  /\ \A n \in Names : Known(s.resolved, n) => Known(t.resolved, n)
\* With the answers there are.
SameAnswers(s, t) ==
  \A k \in 1 .. Len(t.calls) : t.calls[k].version # 0 => k <= Len(s.calls) /\ t.calls[k].version = s.calls[k].version

-----------------------------------------------------------------------------
USE ResolverAssumption

\* The best version of a dependency is one that matches.
LEMMA PickIs ==
  ASSUME NEW d \in Dependencies, Matching(d) # {}
  PROVE  Pick(d) \in Matching(d) /\ Pick(d) \in Nat \ {0} /\ Pick(d) \in DOMAIN Registry[d.name]
<1>1. d.name \in Names
  BY DEF Dependencies
<1>2. IsFiniteSet(Matching(d)) /\ Matching(d) \subseteq Nat \ {0} /\ Matching(d) \subseteq DOMAIN Registry[d.name]
  BY <1>1, FS_Subset DEF Matching
<1>3. Matching(d) \in SUBSET Nat
  BY <1>2
<1>4. Max(Matching(d)) \in Matching(d)
  BY <1>2, <1>3, FiniteIsBounded
<1> QED
  BY <1>2, <1>4 DEF Pick

LEMMA StatesAre ==
  ASSUME NEW s \in PlanStates
  PROVE  /\ s.resolved \in [Names -> Nodes] /\ s.resolving \in SUBSET Dependencies
         /\ s.calls \in Seq(ResolverCalls) /\ Len(s.calls) \in Nat
         /\ \A k \in 1 .. Len(s.calls) : s.calls[k] \in ResolverCalls
BY DEF PlanStates

\* Who may make the call c.
MayCall(s, c) ==
  /\ c \in ResolverCalls /\ c.pc = "fetching" /\ c.version = 0 /\ ~ c.failed
  /\ \/ c.parent = 0 /\ ~ c.peer
     \/ /\ c.parent \in 1 .. Len(s.calls)
        /\ \/ s.calls[c.parent].pc = "children" /\ ~ c.peer
           \/ s.calls[c.parent].pc = "peers" /\ c.peer

LEMMA EnterKeeps ==
  ASSUME NEW s, Tidy(s), NEW c, MayCall(s, c)
  PROVE  LET t == Enter(s, c) IN
         /\ Tidy(t) /\ SpokenFor(t, c.dep)
         /\ Later(s, t, c.parent) /\ SameAnswers(s, t)
         /\ \A k \in 1 .. Len(s.calls) : t.calls[k] = s.calls[k]
<1> DEFINE t == Enter(s, c)
<1>0. /\ s \in PlanStates /\ c \in ResolverCalls /\ c.dep \in Dependencies /\ c.dep.name \in Names
      /\ c.by \in Dependents
  BY DEF Tidy, MayCall, ResolverCalls, Dependencies
<1>1. CASE Satisfied(s, c.dep)
  <2> DEFINE n == c.dep.name
  <2> DEFINE node == [s.resolved[n] EXCEPT !.requiredBy = @ \cup {c.by}]
  <2>0. s.resolved[n] \in Nodes /\ s.resolved \in [Names -> Nodes] /\ n \in Names
    BY <1>0, StatesAre
  <2>1. node \in Nodes /\ node.version = s.resolved[n].version
    BY <1>0, <2>0 DEF Nodes
  <2>2. t = [s EXCEPT !.resolved = [@ EXCEPT ![n] = node]]
    BY <1>1, <1>0, <2>0 DEF Enter
  <2>3. /\ t \in PlanStates /\ t.calls = s.calls /\ t.resolving = s.resolving
        /\ t.resolved = [s.resolved EXCEPT ![n] = node]
    <3> HIDE DEF node, n, t
    <3> QED
      BY <1>0, <2>0, <2>1, <2>2 DEF PlanStates
  <2>4. Known(s.resolved, n)
    BY <1>1 DEF Satisfied
  <2>5. s.resolved[n].version # 0
    BY <1>0, <2>4 DEF Tidy, Backed, Known
  <2> HIDE DEF node, n, t
  <2>6. \A m \in Names : /\ t.resolved[m].version = s.resolved[m].version
                         /\ Known(t.resolved, m) <=> Known(s.resolved, m)
                         /\ m # n => t.resolved[m] = s.resolved[m]
    <3> SUFFICES ASSUME NEW m \in Names
                 PROVE  /\ t.resolved[m].version = s.resolved[m].version
                        /\ Known(t.resolved, m) <=> Known(s.resolved, m)
                        /\ m # n => t.resolved[m] = s.resolved[m]
      OBVIOUS
    <3>1. CASE m = n
      <4>1. t.resolved[m] = node
        BY <2>0, <2>3, <3>1
      <4>2. node # NoNode
        BY <2>1, <2>5 DEF NoNode
      <4> QED
        BY <2>1, <2>4, <3>1, <4>1, <4>2 DEF Known
    <3>2. CASE m # n
      BY <2>0, <2>3, <3>2 DEF Known
    <3> QED
      BY <3>1, <3>2
  <2>7. Keyed(t)
    BY <2>3 DEF Tidy, Keyed, Open
  <2>8. Nested(t)
    BY <2>3 DEF Tidy, Nested
  <2>9. Answered(t)
    <3> SUFFICES ASSUME NEW k \in 1 .. Len(s.calls), s.calls[k].version # 0
                 PROVE  Known(s.resolved, s.calls[k].dep.name) => Known(t.resolved, s.calls[k].dep.name)
      BY <2>3 DEF Tidy, Answered
    <3>1. s.calls[k].dep.name \in Names
      BY <1>0, StatesAre DEF ResolverCalls, Dependencies
    <3> QED
      BY <2>6, <3>1
  <2>10. Backed(t)
    <3> SUFFICES ASSUME NEW m \in Names
                 PROVE  /\ t.resolved[m].version = 0 => t.resolved[m] = NoNode
                        /\ Known(t.resolved, m) =>
                             \E k \in 1 .. Len(t.calls) :
                               /\ t.calls[k].dep.name = m /\ t.calls[k].version # 0
                               /\ t.calls[k].version = t.resolved[m].version
      BY DEF Backed
    <3> QED
      BY <2>3, <2>5, <2>6 DEF Tidy, Backed
  <2>11. SpokenFor(t, c.dep)
    BY <2>4, <2>6, <2>0 DEF SpokenFor, n
  <2>12. Later(s, t, c.parent) /\ SameAnswers(s, t)
    BY <2>3, <2>6, <1>0, StatesAre DEF Later, SameAnswers
  <2> QED
    BY <2>3, <2>7, <2>8, <2>9, <2>10, <2>11, <2>12 DEF t, Tidy
<1>2. CASE ~ Satisfied(s, c.dep) /\ CallInFlight(s, c.dep)
  <2>1. t = s
    BY <1>2 DEF Enter
  <2>2. PICK k \in 1 .. Len(s.calls) : s.calls[k].dep = c.dep
    BY <1>2 DEF CallInFlight, Tidy, Keyed, Open
  <2>3. SpokenFor(s, c.dep)
    BY <2>2 DEF SpokenFor
  <2>4. Later(s, s, c.parent) /\ SameAnswers(s, s)
    BY <1>0, StatesAre DEF Later, SameAnswers
  <2> QED
    BY <2>1, <2>3, <2>4
<1>3. CASE ~ Satisfied(s, c.dep) /\ ~ CallInFlight(s, c.dep)
  <2> DEFINE m == Len(s.calls)
  <2>1. t = [s EXCEPT !.resolving = @ \cup {c.dep}, !.calls = Append(@, c)]
    BY <1>3 DEF Enter
  <2>2. /\ t.resolved = s.resolved /\ t.resolving = s.resolving \cup {c.dep}
        /\ t.calls = Append(s.calls, c)
    BY <1>0, <2>1 DEF PlanStates
  <2>3. t \in PlanStates
    <3>1. Append(s.calls, c) \in Seq(ResolverCalls) /\ s.resolving \cup {c.dep} \in SUBSET Dependencies
      BY <1>0, StatesAre
    <3> HIDE DEF t
    <3> QED
      BY <1>0, <2>1, <3>1 DEF PlanStates
  <2>4. /\ m \in Nat /\ Len(t.calls) = m + 1 /\ t.calls[m + 1] = c
        /\ \A k \in 1 .. m : t.calls[k] = s.calls[k]
    BY <1>0, <2>2, StatesAre
  <2> HIDE DEF t, m
  <2>5. 1 .. Len(t.calls) = 1 .. m \cup {m + 1} /\ m + 1 \notin 1 .. m
    BY <2>4
  <2>6. c.pc = "fetching" /\ c.version = 0 /\ ~ c.failed /\ c.dep \notin s.resolving
    BY <1>3 DEF MayCall, CallInFlight
  <2>7. Open(t) = Open(s) \cup {m + 1} /\ m + 1 \notin Open(s)
    BY <2>4, <2>5, <2>6 DEF Open, m
  <2>8. Keyed(t)
    <3>1. \A k \in Open(s) : t.calls[k] = s.calls[k] /\ t.calls[k].dep # c.dep
      BY <2>4, <2>6 DEF Tidy, Keyed, Open, m
    <3>2. t.calls[m + 1].dep = c.dep
      BY <2>4
    <3>3. {t.calls[k].dep : k \in Open(t)} = {s.calls[k].dep : k \in Open(s)} \cup {c.dep}
      BY <2>7, <3>1, <3>2
    <3>4. \A j, k \in Open(s) : t.calls[j].dep = t.calls[k].dep => j = k
      BY <3>1 DEF Tidy, Keyed
    <3>5. \A j, k \in Open(t) : t.calls[j].dep = t.calls[k].dep => j = k
      BY <2>7, <3>1, <3>2, <3>4
    <3>6. s.resolving = {s.calls[k].dep : k \in Open(s)}
      BY DEF Tidy, Keyed
    <3> QED
      BY <2>2, <3>3, <3>5, <3>6 DEF Keyed
  <2>9. Nested(t)
    <3> SUFFICES ASSUME NEW k \in 1 .. Len(t.calls)
                 PROVE  LET b == t.calls[k] IN
                        /\ b.parent < k
                        /\ b.parent = 0 => ~ b.peer
                        /\ b.parent # 0 => Below(b, t.calls[b.parent])
                        /\ b.failed => b.pc = "done"
      BY DEF Nested
    <3>1. CASE k \in 1 .. m
      <4>1. /\ s.calls[k].parent < k
            /\ s.calls[k].parent = 0 => ~ s.calls[k].peer
            /\ s.calls[k].parent # 0 => Below(s.calls[k], s.calls[s.calls[k].parent])
            /\ s.calls[k].failed => s.calls[k].pc = "done"
        BY <3>1 DEF Tidy, Nested, m
      <4>2. s.calls[k].parent \in Nat
        BY <1>0, <3>1, StatesAre DEF ResolverCalls, m
      <4>3. s.calls[k].parent # 0 => s.calls[k].parent \in 1 .. m
        BY <2>4, <3>1, <4>1, <4>2
      <4> QED
        BY <2>4, <3>1, <4>1, <4>3
    <3>2. CASE k = m + 1
      <4>1. t.calls[k] = c
        BY <2>4, <3>2
      <4>2. c.parent < m + 1 /\ (c.parent = 0 => ~ c.peer)
        BY <2>4 DEF MayCall, m
      <4>3. ASSUME c.parent # 0 PROVE Below(c, t.calls[c.parent])
        <5>1. /\ c.parent \in 1 .. m
              /\ \/ s.calls[c.parent].pc = "children" /\ ~ c.peer
                 \/ s.calls[c.parent].pc = "peers" /\ c.peer
          BY <4>3 DEF MayCall, m
        <5>2. t.calls[c.parent] = s.calls[c.parent]
          BY <2>4, <5>1
        <5> QED
          BY <5>1, <5>2 DEF Below
      <4> QED
        BY <2>6, <3>2, <4>1, <4>2, <4>3
    <3> QED
      BY <2>5, <3>1, <3>2
  <2>10. Answered(t)
    BY <2>2, <2>4, <2>5, <2>6 DEF Tidy, Answered, m
  <2>11. Backed(t)
    <3> SUFFICES ASSUME NEW n \in Names, Known(s.resolved, n)
                 PROVE  \E k \in 1 .. Len(t.calls) :
                               /\ t.calls[k].dep.name = n /\ t.calls[k].version # 0
                               /\ t.calls[k].version = s.resolved[n].version
      BY <2>2 DEF Tidy, Backed
    <3>1. PICK k \in 1 .. m : /\ s.calls[k].dep.name = n /\ s.calls[k].version # 0
                              /\ s.calls[k].version = s.resolved[n].version
      BY DEF Tidy, Backed, m
    <3> QED
      BY <2>4, <2>5, <3>1
  <2>12. SpokenFor(t, c.dep)
    BY <2>4, <2>5 DEF SpokenFor
  <2>13. Later(s, t, c.parent) /\ SameAnswers(s, t)
    <3>1. \A k \in 1 .. Len(t.calls) : t.calls[k].version # 0 => k <= m /\ t.calls[k].version = s.calls[k].version
      BY <2>4, <2>5, <2>6
    <3>2. \A k \in m + 1 .. Len(t.calls) : t.calls[k].parent = c.parent
      BY <2>4
    <3> QED
      BY <2>2, <2>4, <3>1, <3>2 DEF Later, SameAnswers, m
  <2> QED
    BY <2>3, <2>4, <2>8, <2>9, <2>10, <2>11, <2>12, <2>13 DEF t, Tidy, m
<1> QED
  BY <1>1, <1>2, <1>3

\* Calls are added, and no other changes.
Adds(s, t, parent) ==
  /\ Later(s, t, parent) /\ SameAnswers(s, t)
  /\ \A k \in 1 .. Len(s.calls) : t.calls[k] = s.calls[k]

LEMMA SpokenForStays ==
  ASSUME NEW s \in PlanStates, NEW t \in PlanStates, NEW parent, Later(s, t, parent),
         NEW d \in Dependencies, SpokenFor(s, d)
  PROVE  SpokenFor(t, d)
<1>1. d.name \in Names
  BY DEF Dependencies
<1>2. CASE Known(s.resolved, d.name)
  BY <1>1, <1>2 DEF Later, SpokenFor
<1>3. CASE ~ Known(s.resolved, d.name)
  <2>1. PICK k \in 1 .. Len(s.calls) : s.calls[k].dep = d
    BY <1>3 DEF SpokenFor
  <2>2. k \in 1 .. Len(t.calls) /\ t.calls[k].dep = d
    BY <2>1, StatesAre DEF Later
  <2> QED
    BY <2>2 DEF SpokenFor
<1> QED
  BY <1>2, <1>3

LEMMA AddsOn ==
  ASSUME NEW s \in PlanStates, NEW t \in PlanStates, NEW u \in PlanStates, NEW parent,
         Adds(s, t, parent), Adds(t, u, parent)
  PROVE  Adds(s, u, parent)
<1> DEFINE l == Len(s.calls)
<1> DEFINE m == Len(t.calls)
<1> DEFINE n == Len(u.calls)
<1>1. l \in Nat /\ m \in Nat /\ n \in Nat /\ l <= m /\ m <= n
  BY StatesAre DEF Adds, Later
<1>2. 1 .. l \subseteq 1 .. m /\ 1 .. m \subseteq 1 .. n
  BY <1>1
<1>3. /\ \A k \in 1 .. l : t.calls[k] = s.calls[k]
      /\ \A k \in 1 .. m : u.calls[k] = t.calls[k]
  BY DEF Adds
<1>4. \A k \in 1 .. l : u.calls[k] = s.calls[k]
  BY <1>2, <1>3
<1>5. ASSUME NEW k \in l + 1 .. n PROVE u.calls[k].parent = parent
  <2>1. CASE k <= m
    <3>1. k \in 1 .. m /\ k \in l + 1 .. m
      BY <1>1, <2>1
    <3>2. t.calls[k].parent = parent
      BY <3>1 DEF Adds, Later
    <3> QED
      BY <1>3, <3>1, <3>2
  <2>2. CASE ~ (k <= m)
    <3>1. k \in m + 1 .. n
      BY <1>1, <2>2
    <3> QED
      BY <3>1 DEF Adds, Later
  <2> QED
    BY <2>1, <2>2
<1>6. \A k \in Names : Known(s.resolved, k) => Known(u.resolved, k)
  BY DEF Adds, Later
<1>7. Later(s, u, parent)
  BY <1>1, <1>4, <1>5, <1>6 DEF Later
<1>8. ASSUME NEW k \in 1 .. n, u.calls[k].version # 0 PROVE k <= l /\ u.calls[k].version = s.calls[k].version
  <2>1. k <= m /\ u.calls[k].version = t.calls[k].version
    BY <1>8 DEF Adds, SameAnswers
  <2>2. k \in 1 .. m /\ t.calls[k].version # 0
    BY <1>1, <1>8, <2>1
  <2>3. k <= l /\ t.calls[k].version = s.calls[k].version
    BY <2>2 DEF Adds, SameAnswers
  <2> QED
    BY <2>1, <2>3
<1> QED
  BY <1>4, <1>7, <1>8 DEF Adds, SameAnswers

\* Who may make calls for dependencies.
Asks(s, parent) == parent = 0 \/ (parent \in 1 .. Len(s.calls) /\ s.calls[parent].pc = "children")

\* One call for a dependency.
LEMMA EnterOne ==
  ASSUME NEW s, Tidy(s), NEW d \in Dependencies, NEW by \in Dependents, NEW parent \in Nat, Asks(s, parent)
  PROVE  LET t == Enter(s, Call(d, by, parent, FALSE)) IN
         Tidy(t) /\ Asks(t, parent) /\ Adds(s, t, parent) /\ SpokenFor(t, d)
<1> DEFINE c == Call(d, by, parent, FALSE)
<1> DEFINE t == Enter(s, c)
<1>1. /\ c \in ResolverCalls /\ c.pc = "fetching" /\ c.version = 0 /\ ~ c.failed
      /\ c.parent = parent /\ ~ c.peer /\ c.dep = d
  BY DEF Call, ResolverCalls
<1>2. MayCall(s, c)
  BY <1>1 DEF MayCall, Asks
<1>3. /\ Tidy(t) /\ SpokenFor(t, c.dep)
      /\ Later(s, t, c.parent) /\ SameAnswers(s, t)
      /\ \A k \in 1 .. Len(s.calls) : t.calls[k] = s.calls[k]
  BY <1>2, EnterKeeps
<1> HIDE DEF t, c
<1>4. Adds(s, t, parent)
  BY <1>1, <1>3 DEF Adds
<1>5. s \in PlanStates /\ t \in PlanStates
  BY <1>3 DEF Tidy
<1>6. Asks(t, parent)
  BY <1>4, <1>5, StatesAre DEF Asks, Adds, Later
<1> QED
  BY <1>1, <1>3, <1>4, <1>6 DEF t, c

Entering(s, deps, by, parent) ==
  CHOOSE e : e = [i \in 0 .. Len(deps) |->
                    IF i = 0 THEN s ELSE Enter(e[i - 1], Call(deps[i], by, parent, FALSE))]

\* Promise.all: every dependency is spoken for.
LEMMA EnterAllKeeps ==
  ASSUME NEW s, Tidy(s), NEW deps \in Seq(Dependencies), NEW by \in Dependents, NEW parent \in Nat, Asks(s, parent)
  PROVE  LET t == EnterAll(s, deps, by, parent) IN
         Tidy(t) /\ Adds(s, t, parent) /\ \A d \in ToSet(deps) : SpokenFor(t, d)
<1> DEFINE n == Len(deps)
<1> DEFINE e == Entering(s, deps, by, parent)
<1> DEFINE T == {u \in PlanStates : Tidy(u) /\ Asks(u, parent)}
<1> DEFINE Go(u, k) == Enter(u, Call(deps[k], by, parent, FALSE))
<1> DEFINE h == [k \in 1 .. n |-> [u \in T |-> Go(u, k)]]
<1> DEFINE Def(g) == [i \in 0 .. n |-> IF i = 0 THEN s ELSE Go(g[i - 1], i)]
<1>1. n \in Nat /\ \A k \in 1 .. n : deps[k] \in Dependencies
  OBVIOUS
<1>2. s \in T
  BY DEF Tidy
<1>3. ASSUME NEW k \in 1 .. n, NEW u \in T
      PROVE  Go(u, k) \in T /\ Adds(u, Go(u, k), parent) /\ SpokenFor(Go(u, k), deps[k])
  <2>1. Tidy(u) /\ Asks(u, parent)
    OBVIOUS
  <2>2. /\ Tidy(Go(u, k)) /\ Asks(Go(u, k), parent)
        /\ Adds(u, Go(u, k), parent) /\ SpokenFor(Go(u, k), deps[k])
    BY <1>1, <2>1, EnterOne
  <2> HIDE DEF Go
  <2> QED
    BY <2>2 DEF Tidy
<1>4. e = CHOOSE g : g = Def(g)
  BY DEF Entering
<1>5. EnterAll(s, deps, by, parent) = e[n]
  BY DEF EnterAll, Entering
<1> HIDE DEF n, e, Go
<1>6. h \in [1 .. n -> [T -> T]]
  <2> HIDE DEF T
  <2> QED
    BY <1>3
<1>7. PICK f : RunsOn(f, n, T, s, h)
  <2> HIDE DEF h, T
  <2> QED
    BY <1>1, <1>2, <1>6, RunningOn
<1>8. f \in [0 .. n -> T] /\ f[0] = s /\ \A k \in 1 .. n : f[k] = Go(f[k - 1], k)
  <2>1. f \in [0 .. n -> T] /\ f[0] = s /\ \A k \in 1 .. n : f[k] = h[k][f[k - 1]]
    BY <1>7 DEF RunsOn
  <2>2. ASSUME NEW k \in 1 .. n PROVE f[k] = Go(f[k - 1], k)
    <3> HIDE DEF T
    <3>1. k - 1 \in 0 .. n
      BY <1>1
    <3>2. f[k - 1] \in T
      BY <2>1, <3>1
    <3> QED
      BY <2>1, <3>2
  <2> QED
    BY <2>1, <2>2
<1>9. f = Def(f)
  BY <1>1, <1>8
<1>10. e = Def(e)
  <2> HIDE DEF Def
  <2> QED
    BY <1>4, <1>9
<1>11. e[0] = s /\ \A k \in 1 .. n : e[k] = Go(e[k - 1], k)
  BY <1>1, <1>10
<1> HIDE DEF Def, h
<1> DEFINE P == {k \in 0 .. n : e[k] \in T /\ Adds(s, e[k], parent) /\ \A i \in 1 .. k : SpokenFor(e[k], deps[i])}
<1>12. 0 \in P
  <2>1. 0 \in 0 .. n /\ 1 .. 0 = {}
    BY <1>1
  <2>2. Adds(s, s, parent)
    BY <1>2, StatesAre DEF Adds, Later, SameAnswers
  <2> QED
    BY <1>2, <1>11, <2>1, <2>2
<1>13. ASSUME NEW k \in 1 .. n, k - 1 \in P PROVE k \in P
  <2>1. /\ e[k - 1] \in T /\ Adds(s, e[k - 1], parent) /\ \A i \in 1 .. k - 1 : SpokenFor(e[k - 1], deps[i])
        /\ k \in 0 .. n
    BY <1>1, <1>13
  <2>2. e[k] \in T /\ Adds(e[k - 1], e[k], parent) /\ SpokenFor(e[k], deps[k])
    BY <1>3, <1>11, <2>1
  <2>3. s \in PlanStates /\ e[k - 1] \in PlanStates /\ e[k] \in PlanStates
    BY <1>2, <2>1, <2>2
  <2>4. Adds(s, e[k], parent)
    BY <2>1, <2>2, <2>3, AddsOn
  <2>5. ASSUME NEW i \in 1 .. k PROVE SpokenFor(e[k], deps[i])
    <3>1. CASE i = k
      BY <2>2, <3>1
    <3>2. CASE i # k
      <4>1. i \in 1 .. k - 1 /\ i \in 1 .. n
        BY <1>1, <3>2
      <4>2. SpokenFor(e[k - 1], deps[i]) /\ deps[i] \in Dependencies /\ Later(e[k - 1], e[k], parent)
        BY <1>1, <2>1, <2>2, <4>1 DEF Adds
      <4> QED
        BY <2>3, <4>2, SpokenForStays
    <3> QED
      BY <3>1, <3>2
  <2> QED
    BY <2>1, <2>2, <2>4, <2>5
<1>14. \A k \in 0 .. n : k \in P
  <2> HIDE DEF P
  <2> QED
    BY <1>1, <1>12, <1>13, CountingUp
<1>15. e[n] \in T /\ Adds(s, e[n], parent) /\ \A i \in 1 .. n : SpokenFor(e[n], deps[i])
  <2>1. n \in 0 .. n
    BY <1>1
  <2> QED
    BY <1>14, <2>1
<1>16. \A d \in ToSet(deps) : SpokenFor(e[n], d)
  BY <1>15 DEF ToSet, n
<1> QED
  BY <1>5, <1>15, <1>16

-----------------------------------------------------------------------------
\* One call goes on, and has done nothing yet about the versions.
Goes(s, t, k, c) ==
  /\ k \in Open(s) /\ c \in ResolverCalls
  /\ c.dep = s.calls[k].dep /\ c.parent = s.calls[k].parent /\ c.peer = s.calls[k].peer
  /\ c.failed => c.pc = "done"
  /\ \A j \in 1 .. Len(s.calls) : s.calls[j].parent = k => Below(s.calls[j], c)
  /\ t \in PlanStates /\ t.calls = [s.calls EXCEPT ![k] = c]
  /\ t.resolving = IF c.pc = "done" THEN s.resolving \ {c.dep} ELSE s.resolving

LEMMA GoesKeeps ==
  ASSUME NEW s, Tidy(s), NEW t, NEW k, NEW c, Goes(s, t, k, c)
  PROVE  /\ Keyed(t) /\ Nested(t)
         /\ Len(t.calls) = Len(s.calls) /\ k \in 1 .. Len(s.calls)
         /\ \A j \in 1 .. Len(s.calls) : t.calls[j] = IF j = k THEN c ELSE s.calls[j]
<1> DEFINE n == Len(s.calls)
<1>1. s \in PlanStates /\ n \in Nat /\ k \in 1 .. n /\ \A j \in 1 .. n : s.calls[j] \in ResolverCalls
  BY StatesAre DEF Tidy, Goes, Open
<1>2. s.calls \in Seq(ResolverCalls) /\ t.calls = [s.calls EXCEPT ![k] = c] /\ c \in ResolverCalls
  BY <1>1, StatesAre DEF Goes
<1>3. Len(t.calls) = n /\ \A j \in 1 .. n : t.calls[j] = IF j = k THEN c ELSE s.calls[j]
  BY <1>1, <1>2
<1> HIDE DEF n
<1>4. s.calls[k].pc # "done" /\ c.dep = s.calls[k].dep /\ c.parent = s.calls[k].parent /\ c.peer = s.calls[k].peer
  BY DEF Goes, Open
<1>5. Keyed(t)
  <2>1. Open(s) = {j \in 1 .. n : s.calls[j].pc # "done"} /\ Open(t) = {j \in 1 .. n : t.calls[j].pc # "done"}
    BY <1>3 DEF Open, n
  <2>2. /\ s.resolving = {s.calls[j].dep : j \in Open(s)}
        /\ \A i, j \in Open(s) : s.calls[i].dep = s.calls[j].dep => i = j
    BY DEF Tidy, Keyed
  <2>3. \A j \in 1 .. n : t.calls[j].dep = s.calls[j].dep
    BY <1>3, <1>4
  <2>4. \A j \in 1 .. n : j # k => (j \in Open(t) <=> j \in Open(s))
    BY <1>3, <2>1
  <2>5. k \in Open(s)
    BY DEF Goes
  <2>6. Open(t) = IF c.pc = "done" THEN Open(s) \ {k} ELSE Open(s)
    BY <1>1, <1>3, <2>1, <2>4, <2>5
  <2>7. Open(s) \subseteq 1 .. n
    BY <2>1
  <2>8. \A i, j \in Open(t) : t.calls[i].dep = t.calls[j].dep => i = j
    BY <2>2, <2>3, <2>6, <2>7
  <2>9. {t.calls[j].dep : j \in Open(t)} = {s.calls[j].dep : j \in Open(t)}
    BY <2>3, <2>6, <2>7
  <2>10. CASE c.pc = "done"
    <3>1. t.resolving = s.resolving \ {s.calls[k].dep}
      BY <1>4, <2>10 DEF Goes
    <3>2. {s.calls[j].dep : j \in Open(s) \ {k}} = s.resolving \ {s.calls[k].dep}
      BY <2>2, <2>5
    <3> QED
      BY <2>6, <2>8, <2>9, <2>10, <3>1, <3>2 DEF Keyed
  <2>11. CASE c.pc # "done"
    BY <2>2, <2>6, <2>8, <2>9, <2>11 DEF Keyed, Goes
  <2> QED
    BY <2>10, <2>11
<1>6. Nested(t)
  <2> SUFFICES ASSUME NEW j \in 1 .. n
               PROVE  LET b == t.calls[j] IN
                      /\ b.parent < j
                      /\ b.parent = 0 => ~ b.peer
                      /\ b.parent # 0 => Below(b, t.calls[b.parent])
                      /\ b.failed => b.pc = "done"
    BY <1>3 DEF Nested
  <2>1. /\ s.calls[j].parent < j
        /\ s.calls[j].parent = 0 => ~ s.calls[j].peer
        /\ s.calls[j].parent # 0 => Below(s.calls[j], s.calls[s.calls[j].parent])
        /\ s.calls[j].failed => s.calls[j].pc = "done"
    BY DEF Tidy, Nested, n
  <2>2. s.calls[j].parent \in Nat
    BY <1>1 DEF ResolverCalls
  <2> DEFINE p == s.calls[j].parent
  <2>3. p # 0 => p \in 1 .. n /\ p # j
    BY <1>1, <2>1, <2>2
  <2>4. CASE j = k
    <3>1. t.calls[j] = c /\ c.parent = p
      BY <1>3, <1>4, <2>4
    <3>2. ASSUME p # 0 PROVE Below(c, t.calls[p])
      <4>1. t.calls[p] = s.calls[p]
        BY <1>3, <2>3, <2>4, <3>2
      <4>2. Below(s.calls[k], s.calls[p])
        BY <2>1, <2>4, <3>2
      <4> HIDE DEF p
      <4> QED
        BY <1>4, <4>1, <4>2 DEF Below
    <3>3. c.failed => c.pc = "done"
      BY DEF Goes
    <3>4. c.parent = 0 => ~ c.peer
      BY <1>4, <2>1, <2>4
    <3> QED
      BY <2>1, <3>1, <3>2, <3>3, <3>4
  <2>5. CASE j # k
    <3>1. t.calls[j] = s.calls[j]
      BY <1>3, <2>5
    <3>2. ASSUME p # 0 PROVE Below(s.calls[j], t.calls[p])
      <4>1. CASE p = k
        <5>1. t.calls[p] = c
          BY <1>3, <2>3, <3>2, <4>1
        <5>2. Below(s.calls[j], c)
          BY <4>1 DEF Goes, n
        <5> QED
          BY <5>1, <5>2
      <4>2. CASE p # k
        BY <1>3, <2>1, <2>3, <3>2, <4>2
      <4> QED
        BY <4>1, <4>2
    <3> QED
      BY <2>1, <3>1, <3>2
  <2> QED
    BY <2>4, <2>5
<1> QED
  BY <1>1, <1>3, <1>5, <1>6 DEF n

\* A call goes on with the answer it has, or leaves without one.
LEMMA GoesOnTidy ==
  ASSUME NEW s, Tidy(s), NEW t, NEW k, NEW c, Goes(s, t, k, c), NEW parent,
         t.resolved = s.resolved, c.version = s.calls[k].version,
         c.version # 0 \/ (c.pc = "done" /\ c.failed)
  PROVE  Tidy(t) /\ Later(s, t, parent) /\ SameAnswers(s, t)
<1> DEFINE n == Len(s.calls)
<1>1. /\ Keyed(t) /\ Nested(t)
      /\ Len(t.calls) = n /\ k \in 1 .. n
      /\ \A j \in 1 .. n : t.calls[j] = IF j = k THEN c ELSE s.calls[j]
  BY GoesKeeps
<1>2. n \in Nat /\ t \in PlanStates /\ c.dep = s.calls[k].dep /\ c.parent = s.calls[k].parent /\ s.calls[k].pc # "done"
  BY StatesAre DEF Tidy, Goes, Open
<1> HIDE DEF n
<1>3. \A j \in 1 .. n : /\ t.calls[j].dep = s.calls[j].dep /\ t.calls[j].version = s.calls[j].version
                        /\ t.calls[j].parent = s.calls[j].parent
                        /\ s.calls[j].pc = "done" => t.calls[j] = s.calls[j]
  BY <1>1, <1>2
<1>4. Answered(t)
  <2> SUFFICES ASSUME NEW j \in 1 .. n
               PROVE  LET b == t.calls[j] IN
                      /\ b.pc \in {"children", "peers"} \/ (b.pc = "done" /\ ~ b.failed) => b.version # 0
                      /\ b.version # 0 => Matching(b.dep) # {} /\ b.version = Pick(b.dep) /\ Known(s.resolved, b.dep.name)
    BY <1>1 DEF Answered
  <2>1. LET b == s.calls[j] IN
        /\ b.pc \in {"children", "peers"} \/ (b.pc = "done" /\ ~ b.failed) => b.version # 0
        /\ b.version # 0 => Matching(b.dep) # {} /\ b.version = Pick(b.dep) /\ Known(s.resolved, b.dep.name)
    BY DEF Tidy, Answered, n
  <2>2. CASE j = k
    BY <1>1, <1>3, <2>1, <2>2
  <2>3. CASE j # k
    BY <1>1, <2>1, <2>3
  <2> QED
    BY <2>2, <2>3
<1>5. Backed(t)
  <2> SUFFICES ASSUME NEW m \in Names, Known(s.resolved, m)
               PROVE  \E j \in 1 .. n :
                               /\ t.calls[j].dep.name = m /\ t.calls[j].version # 0
                               /\ t.calls[j].version = s.resolved[m].version
    BY <1>1 DEF Tidy, Backed
  <2>1. PICK j \in 1 .. n : /\ s.calls[j].dep.name = m /\ s.calls[j].version # 0
                            /\ s.calls[j].version = s.resolved[m].version
    BY DEF Tidy, Backed, n
  <2> QED
    BY <1>3, <2>1
<1>6. Later(s, t, parent)
  BY <1>1, <1>2, <1>3 DEF Later, n
<1>7. SameAnswers(s, t)
  BY <1>1, <1>2, <1>3 DEF SameAnswers, n
<1> QED
  BY <1>1, <1>2, <1>4, <1>5, <1>6, <1>7 DEF Tidy

LEMMA LaterOn ==
  ASSUME NEW s \in PlanStates, NEW t \in PlanStates, NEW u \in PlanStates, NEW parent,
         Later(s, t, parent), Later(t, u, parent)
  PROVE  Later(s, u, parent) /\ (SameAnswers(s, t) /\ SameAnswers(t, u) => SameAnswers(s, u))
<1> DEFINE l == Len(s.calls)
<1> DEFINE m == Len(t.calls)
<1> DEFINE n == Len(u.calls)
<1>1. l \in Nat /\ m \in Nat /\ n \in Nat /\ l <= m /\ m <= n
  BY StatesAre DEF Later
<1>2. 1 .. l \subseteq 1 .. m /\ 1 .. m \subseteq 1 .. n
  BY <1>1
<1>3. /\ \A k \in 1 .. l : /\ t.calls[k].dep = s.calls[k].dep /\ t.calls[k].parent = s.calls[k].parent
                           /\ s.calls[k].pc = "done" => t.calls[k] = s.calls[k]
      /\ \A k \in 1 .. m : /\ u.calls[k].dep = t.calls[k].dep /\ u.calls[k].parent = t.calls[k].parent
                           /\ t.calls[k].pc = "done" => u.calls[k] = t.calls[k]
  BY DEF Later
<1>4. \A k \in 1 .. l : /\ u.calls[k].dep = s.calls[k].dep /\ u.calls[k].parent = s.calls[k].parent
                        /\ s.calls[k].pc = "done" => u.calls[k] = s.calls[k]
  BY <1>2, <1>3
<1>5. ASSUME NEW k \in l + 1 .. n PROVE u.calls[k].parent = parent
  <2>1. CASE k <= m
    <3>1. k \in 1 .. m /\ k \in l + 1 .. m
      BY <1>1, <2>1
    <3>2. t.calls[k].parent = parent
      BY <3>1 DEF Later
    <3> QED
      BY <1>3, <3>1, <3>2
  <2>2. CASE ~ (k <= m)
    <3>1. k \in m + 1 .. n
      BY <1>1, <2>2
    <3> QED
      BY <3>1 DEF Later
  <2> QED
    BY <2>1, <2>2
<1>6. \A k \in Names : Known(s.resolved, k) => Known(u.resolved, k)
  BY DEF Later
<1>7. Later(s, u, parent)
  BY <1>1, <1>4, <1>5, <1>6 DEF Later
<1>8. ASSUME SameAnswers(s, t), SameAnswers(t, u), NEW k \in 1 .. n, u.calls[k].version # 0
      PROVE  k <= l /\ u.calls[k].version = s.calls[k].version
  <2>1. k <= m /\ u.calls[k].version = t.calls[k].version
    BY <1>8 DEF SameAnswers
  <2>2. k \in 1 .. m /\ t.calls[k].version # 0
    BY <1>1, <1>8, <2>1
  <2>3. k <= l /\ t.calls[k].version = s.calls[k].version
    BY <1>8, <2>2 DEF SameAnswers
  <2> QED
    BY <2>1, <2>3
<1> QED
  BY <1>7, <1>8 DEF SameAnswers

\* The calls a call has made are over, and those that matter did not fail.
Quiet(s, k) ==
  \A j \in 1 .. Len(s.calls) :
    s.calls[j].parent = k => s.calls[j].pc = "done" /\ (s.calls[j].failed => s.calls[j].peer)

\* A call that was made has a caller that has its answer.
LEMMA CallersAre ==
  ASSUME NEW s, Tidy(s), NEW j \in 1 .. Len(s.calls), NEW k \in 1 .. Len(s.calls), s.calls[j].parent = k
  PROVE  Below(s.calls[j], s.calls[k])
<1>1. Len(s.calls) \in Nat
  BY StatesAre DEF Tidy
<1>2. s.calls[j].parent # 0
  BY <1>1
<1> QED
  BY <1>2 DEF Tidy, Nested

LEMMA LeaveKeeps ==
  ASSUME NEW s, Tidy(s), NEW k \in Open(s), NEW hurt \in BOOLEAN,
         ~ hurt => s.calls[k].version # 0 /\ Quiet(s, k), NEW parent
  PROVE  LET t == Leave(s, k, hurt) IN Tidy(t) /\ Later(s, t, parent) /\ SameAnswers(s, t)
<1> DEFINE c == [s.calls[k] EXCEPT !.pc = "done", !.failed = hurt]
<1> DEFINE t == Leave(s, k, hurt)
<1>1. s \in PlanStates /\ k \in 1 .. Len(s.calls) /\ s.calls[k] \in ResolverCalls /\ Len(s.calls) \in Nat
  BY StatesAre DEF Tidy, Open
<1>2. /\ c \in ResolverCalls /\ c.pc = "done" /\ c.failed = hurt
      /\ c.dep = s.calls[k].dep /\ c.parent = s.calls[k].parent /\ c.peer = s.calls[k].peer
      /\ c.version = s.calls[k].version
  BY <1>1 DEF ResolverCalls
<1>3. t = [s EXCEPT !.resolving = @ \ {s.calls[k].dep}, !.calls = [@ EXCEPT ![k] = c]]
  BY <1>1 DEF Leave, PlanStates, ResolverCalls
<1> HIDE DEF c, t
<1>4. [s.calls EXCEPT ![k] = c] \in Seq(ResolverCalls)
  BY <1>1, <1>2, StatesAre
<1>5. /\ t \in PlanStates /\ t.resolved = s.resolved
      /\ t.calls = [s.calls EXCEPT ![k] = c] /\ t.resolving = s.resolving \ {c.dep}
  BY <1>1, <1>2, <1>3, <1>4 DEF PlanStates
<1>6. ASSUME NEW j \in 1 .. Len(s.calls), s.calls[j].parent = k PROVE Below(s.calls[j], c)
  <2>1. ~ hurt => s.calls[j].pc = "done" /\ (s.calls[j].failed => s.calls[j].peer)
    BY <1>6 DEF Quiet
  <2> QED
    BY <1>2, <2>1 DEF Below
<1>7. Goes(s, t, k, c)
  BY <1>2, <1>5, <1>6 DEF Goes
<1>8. c.version # 0 \/ (c.pc = "done" /\ c.failed)
  BY <1>2
<1> QED
  BY <1>2, <1>5, <1>7, <1>8, GoesOnTidy DEF t

LEMMA AskPeersKeeps ==
  ASSUME NEW s, Tidy(s), NEW k \in Open(s), s.calls[k].pc \in {"children", "peers"}, Quiet(s, k),
         NEW peers \in Seq(Dependencies)
  PROVE  LET t == AskPeers(s, k, peers) IN Tidy(t) /\ Later(s, t, k) /\ SameAnswers(s, t)
<1>1. /\ s \in PlanStates /\ k \in 1 .. Len(s.calls) /\ s.calls[k] \in ResolverCalls /\ Len(s.calls) \in Nat
      /\ s.calls[k].version # 0
  BY StatesAre DEF Tidy, Open, Answered
<1>2. CASE Unmet(s, peers) = {}
  <2>1. AskPeers(s, k, peers) = Leave(s, k, FALSE)
    BY <1>2 DEF AskPeers
  <2> QED
    BY <1>1, <2>1, LeaveKeeps
<1>3. CASE Unmet(s, peers) # {}
  <2> DEFINE i == Min(Unmet(s, peers))
  <2> DEFINE by == <<s.calls[k].dep.name, s.calls[k].version>>
  <2> DEFINE rest == SubSeq(peers, i + 1, Len(peers))
  <2> DEFINE c == [s.calls[k] EXCEPT !.pc = "peers", !.peers = rest]
  <2> DEFINE t == [s EXCEPT !.calls[k] = [@ EXCEPT !.pc = "peers", !.peers = rest]]
  <2> DEFINE b == Call(peers[i], by, k, TRUE)
  <2>1. AskPeers(s, k, peers) = Enter(t, b)
    BY <1>3 DEF AskPeers
  <2>2. i \in 1 .. Len(peers)
    <3>1. Unmet(s, peers) \in SUBSET Nat /\ Unmet(s, peers) \subseteq 1 .. Len(peers)
      BY DEF Unmet
    <3>2. i \in Unmet(s, peers)
      BY <1>3, <3>1, LeastNumber
    <3> QED
      BY <3>1, <3>2
  <2> HIDE DEF i
  <2>3. peers[i] \in Dependencies /\ rest \in Seq(Dependencies)
    BY <2>2
  <2> HIDE DEF rest
  <2>4. by \in Dependents
    BY <1>1 DEF Dependents, ResolverCalls, Dependencies
  <2> HIDE DEF by
  <2>5. /\ c \in ResolverCalls /\ c.pc = "peers" /\ c.failed = s.calls[k].failed
        /\ c.dep = s.calls[k].dep /\ c.parent = s.calls[k].parent /\ c.peer = s.calls[k].peer
        /\ c.version = s.calls[k].version
    BY <1>1, <2>3 DEF ResolverCalls
  <2>6. t = [s EXCEPT !.calls = [@ EXCEPT ![k] = c]]
    BY <1>1 DEF PlanStates, ResolverCalls
  <2> HIDE DEF c, t
  <2>7. [s.calls EXCEPT ![k] = c] \in Seq(ResolverCalls)
    BY <1>1, <2>5, StatesAre
  <2>8. /\ t \in PlanStates /\ t.resolved = s.resolved
        /\ t.calls = [s.calls EXCEPT ![k] = c] /\ t.resolving = s.resolving
    BY <1>1, <2>6, <2>7 DEF PlanStates
  <2>9. ASSUME NEW j \in 1 .. Len(s.calls), s.calls[j].parent = k PROVE Below(s.calls[j], c)
    <3>1. s.calls[j].pc = "done" /\ (s.calls[j].failed => s.calls[j].peer)
      BY <2>9 DEF Quiet
    <3> QED
      BY <2>5, <3>1 DEF Below
  <2>10. ~ s.calls[k].failed
    BY <1>1 DEF Tidy, Nested, Open
  <2>11. Goes(s, t, k, c)
    BY <2>5, <2>8, <2>9, <2>10 DEF Goes
  <2>12. Tidy(t) /\ Later(s, t, k) /\ SameAnswers(s, t)
    BY <1>1, <2>5, <2>8, <2>11, GoesOnTidy
  <2>13. MayCall(t, b)
    <3>1. /\ b \in ResolverCalls /\ b.pc = "fetching" /\ b.version = 0 /\ ~ b.failed
          /\ b.parent = k /\ b.peer
      BY <1>1, <2>3, <2>4 DEF Call, ResolverCalls
    <3>2. k \in 1 .. Len(t.calls) /\ t.calls[k] = c
      BY <1>1, <2>8, StatesAre
    <3> HIDE DEF b
    <3> QED
      BY <2>5, <3>1, <3>2 DEF MayCall
  <2>14. b.parent = k
    BY DEF Call
  <2>15. Tidy(Enter(t, b)) /\ Later(t, Enter(t, b), k) /\ SameAnswers(t, Enter(t, b))
    BY <2>12, <2>13, <2>14, EnterKeeps
  <2> HIDE DEF b
  <2>16. Enter(t, b) \in PlanStates
    BY <2>15 DEF Tidy
  <2>17. Later(s, Enter(t, b), k) /\ SameAnswers(s, Enter(t, b))
    BY <1>1, <2>8, <2>12, <2>15, <2>16, LaterOn
  <2> QED
    BY <2>1, <2>15, <2>17
<1> QED
  BY <1>2, <1>3

\* The answer of the registry, before the calls for the dependencies.
Answering(s, k) ==
  LET c == s.calls[k]
      v == Pick(c.dep)
  IN  [s EXCEPT !.resolved[c.dep.name] = [version |-> v, requiredBy |-> {c.by}],
                !.calls[k] = [@ EXCEPT !.version = v, !.pc = "children",
                                       !.peers = Registry[c.dep.name][v].peers]]

LEMMA AnswerKeeps ==
  ASSUME NEW s, Tidy(s), NEW k \in Open(s), s.calls[k].pc = "fetching", Matching(s.calls[k].dep) # {}
  PROVE  LET t == Answering(s, k)
             c == t.calls[k] IN
         /\ Tidy(t) /\ Later(s, t, k) /\ Len(t.calls) = Len(s.calls)
         /\ c.pc = "children" /\ c.version = Pick(c.dep) /\ c.dep = s.calls[k].dep
         /\ \A j \in 1 .. Len(s.calls) : j # k => t.calls[j] = s.calls[j]
<1> DEFINE n == Len(s.calls)
<1> DEFINE d == s.calls[k].dep
<1> DEFINE v == Pick(d)
<1> DEFINE node == [version |-> v, requiredBy |-> {s.calls[k].by}]
<1> DEFINE c == [s.calls[k] EXCEPT !.version = v, !.pc = "children", !.peers = Registry[d.name][v].peers]
<1> DEFINE t == Answering(s, k)
<1>1. /\ s \in PlanStates /\ k \in 1 .. n /\ s.calls[k] \in ResolverCalls /\ n \in Nat
      /\ \A j \in 1 .. n : s.calls[j] \in ResolverCalls
  BY StatesAre DEF Tidy, Open
<1>2. d \in Dependencies /\ d.name \in Names
  BY <1>1 DEF ResolverCalls, Dependencies
<1>3. v \in Nat \ {0} /\ v \in DOMAIN Registry[d.name] /\ Registry[d.name][v].peers \in Seq(Dependencies)
  BY <1>2, PickIs
<1>4. node \in Nodes /\ node.version = v /\ node # NoNode
  BY <1>1, <1>3 DEF Nodes, ResolverCalls, NoNode
<1>5. /\ c \in ResolverCalls /\ c.pc = "children" /\ c.failed = s.calls[k].failed
      /\ c.dep = d /\ c.parent = s.calls[k].parent /\ c.peer = s.calls[k].peer
      /\ c.version = v
  BY <1>1, <1>3 DEF ResolverCalls
<1>6. t = [s EXCEPT !.resolved = [@ EXCEPT ![d.name] = node], !.calls = [@ EXCEPT ![k] = c]]
  BY <1>1 DEF Answering, PlanStates, ResolverCalls
<1> HIDE DEF c, t, node, v
<1>7. [s.calls EXCEPT ![k] = c] \in Seq(ResolverCalls) /\ [s.resolved EXCEPT ![d.name] = node] \in [Names -> Nodes]
  BY <1>1, <1>2, <1>4, <1>5, StatesAre
<1>8. /\ t \in PlanStates /\ t.resolved = [s.resolved EXCEPT ![d.name] = node]
      /\ t.calls = [s.calls EXCEPT ![k] = c] /\ t.resolving = s.resolving
  <2> HIDE DEF d
  <2> QED
    BY <1>1, <1>6, <1>7 DEF PlanStates
<1>9. ASSUME NEW j \in 1 .. n, s.calls[j].parent = k PROVE Below(s.calls[j], c)
  <2>1. Below(s.calls[j], s.calls[k])
    BY <1>1, <1>9, CallersAre
  <2> QED
    BY <2>1 DEF Below
<1>10. ~ s.calls[k].failed
  BY <1>1 DEF Tidy, Nested
<1>11. Goes(s, t, k, c)
  BY <1>5, <1>8, <1>9, <1>10 DEF Goes
<1>12. /\ Keyed(t) /\ Nested(t) /\ Len(t.calls) = n
       /\ \A j \in 1 .. n : t.calls[j] = IF j = k THEN c ELSE s.calls[j]
  BY <1>11, GoesKeeps
<1> HIDE DEF n
<1>13. \A m \in Names : t.resolved[m] = IF m = d.name THEN node ELSE s.resolved[m]
  BY <1>1, <1>2, <1>8, StatesAre
<1>14. \A m \in Names : Known(s.resolved, m) => Known(t.resolved, m)
  BY <1>4, <1>13 DEF Known
<1>15. Answered(t)
  <2> SUFFICES ASSUME NEW j \in 1 .. n
               PROVE  LET b == t.calls[j] IN
                      /\ b.pc \in {"children", "peers"} \/ (b.pc = "done" /\ ~ b.failed) => b.version # 0
                      /\ b.version # 0 => Matching(b.dep) # {} /\ b.version = Pick(b.dep) /\ Known(t.resolved, b.dep.name)
    BY <1>12 DEF Answered
  <2>1. CASE j = k
    <3>1. t.calls[j] = c
      BY <1>12, <2>1
    <3>2. Known(t.resolved, d.name)
      BY <1>2, <1>4, <1>13 DEF Known
    <3> QED
      BY <1>3, <1>5, <3>1, <3>2 DEF v
  <2>2. CASE j # k
    <3>1. t.calls[j] = s.calls[j] /\ s.calls[j].dep.name \in Names
      BY <1>1, <1>12, <2>2 DEF ResolverCalls, Dependencies
    <3>2. LET b == s.calls[j] IN
          /\ b.pc \in {"children", "peers"} \/ (b.pc = "done" /\ ~ b.failed) => b.version # 0
          /\ b.version # 0 => Matching(b.dep) # {} /\ b.version = Pick(b.dep) /\ Known(s.resolved, b.dep.name)
      BY DEF Tidy, Answered, n
    <3> QED
      BY <1>14, <3>1, <3>2
  <2> QED
    BY <2>1, <2>2
<1>16. Backed(t)
  <2> SUFFICES ASSUME NEW m \in Names
               PROVE  /\ t.resolved[m].version = 0 => t.resolved[m] = NoNode
                      /\ Known(t.resolved, m) =>
                           \E j \in 1 .. n :
                               /\ t.calls[j].dep.name = m /\ t.calls[j].version # 0
                               /\ t.calls[j].version = t.resolved[m].version
    BY <1>12 DEF Backed
  <2>1. CASE m = d.name
    <3>1. t.resolved[m] = node /\ t.calls[k] = c
      BY <1>1, <1>12, <1>13, <2>1
    <3> QED
      BY <1>1, <1>3, <1>4, <1>5, <2>1, <3>1
  <2>2. CASE m # d.name
    <3>1. t.resolved[m] = s.resolved[m]
      BY <1>13, <2>2
    <3>2. s.resolved[m].version = 0 => s.resolved[m] = NoNode
      BY DEF Tidy, Backed
    <3>3. ASSUME Known(s.resolved, m)
          PROVE  \E j \in 1 .. n : /\ t.calls[j].dep.name = m /\ t.calls[j].version # 0
                                   /\ t.calls[j].version = s.resolved[m].version
      <4>1. PICK j \in 1 .. n : /\ s.calls[j].dep.name = m /\ s.calls[j].version # 0
                                /\ s.calls[j].version = s.resolved[m].version
        BY <3>3 DEF Tidy, Backed, n
      <4>2. t.calls[j] = s.calls[j]
        BY <1>12, <2>2, <4>1
      <4> QED
        BY <4>1, <4>2
    <3> QED
      BY <3>1, <3>2, <3>3 DEF Known
  <2> QED
    BY <2>1, <2>2
<1>17. Later(s, t, k)
  <2>1. \A j \in 1 .. n : /\ t.calls[j].dep = s.calls[j].dep /\ t.calls[j].parent = s.calls[j].parent
                          /\ s.calls[j].pc = "done" => t.calls[j] = s.calls[j]
    BY <1>5, <1>12
  <2>2. n + 1 .. Len(t.calls) = {}
    BY <1>1, <1>12
  <2> QED
    BY <1>1, <1>12, <1>14, <2>1, <2>2 DEF Later, n
<1>18. t.calls[k] = c /\ \A j \in 1 .. n : j # k => t.calls[j] = s.calls[j]
  BY <1>1, <1>12
<1>19. Tidy(t)
  BY <1>8, <1>12, <1>15, <1>16 DEF Tidy
<1>20. c.version = Pick(c.dep)
  BY <1>5 DEF v
<1> QED
  BY <1>5, <1>12, <1>17, <1>18, <1>19, <1>20 DEF t, n

-----------------------------------------------------------------------------
LEMMA InToSet ==
  ASSUME NEW S, NEW q \in Seq(S), NEW d \in ToSet(q)
  PROVE  d \in S
BY DEF ToSet

\* The versions there are answers for have their dependencies spoken for.
LEMMA DepsStaySpokenFor ==
  ASSUME NEW s, Tidy(s), NEW t, Tidy(t), NEW parent, Later(s, t, parent), SameAnswers(s, t), DepsSpokenFor(s)
  PROVE  DepsSpokenFor(t)
<1>1. s \in PlanStates /\ t \in PlanStates /\ Len(s.calls) \in Nat /\ Len(t.calls) \in Nat
  BY StatesAre DEF Tidy
<1>2. SUFFICES ASSUME NEW k \in 1 .. Len(t.calls), t.calls[k].version # 0,
                      NEW d \in ToSet(Registry[t.calls[k].dep.name][t.calls[k].version].deps)
               PROVE  SpokenFor(t, d)
  BY DEF DepsSpokenFor
<1>3. k \in 1 .. Len(s.calls) /\ t.calls[k].version = s.calls[k].version
  BY <1>1, <1>2 DEF SameAnswers
<1>4. t.calls[k].dep = s.calls[k].dep
  BY <1>3 DEF Later
<1>5. SpokenFor(s, d)
  BY <1>2, <1>3, <1>4 DEF DepsSpokenFor
<1>6. d \in Dependencies
  <2>1. t.calls[k].dep \in Dependencies /\ t.calls[k].dep.name \in Names
    BY <1>1, StatesAre DEF ResolverCalls, Dependencies
  <2>2. Matching(t.calls[k].dep) # {} /\ t.calls[k].version = Pick(t.calls[k].dep)
    BY <1>2 DEF Tidy, Answered
  <2>3. t.calls[k].version \in DOMAIN Registry[t.calls[k].dep.name]
    BY <2>1, <2>2, PickIs
  <2>4. Registry[t.calls[k].dep.name][t.calls[k].version].deps \in Seq(Dependencies)
    BY <2>1, <2>3
  <2> QED
    BY <1>2, <2>4, InToSet
<1> QED
  BY <1>1, <1>5, <1>6, SpokenForStays

\* The resolver goes on to u.
LEMMA StepKeeps ==
  ASSUME PlanInv, NEW u, NEW parent \in Nat \ {0}, Tidy(u), Later(Now, u, parent), DepsSpokenFor(u),
         Becomes(u), UNCHANGED <<wanted, outcome>>
  PROVE  PlanInv'
<1>1. u \in PlanStates /\ Now \in PlanStates
  BY DEF PlanInv, Tidy
<1>2. Now' = u /\ calls' = u.calls
  BY <1>1 DEF Now, State, Becomes, PlanStates
<1>3. Now.calls = calls
  BY DEF Now, State
<1>4. ASSUME NEW d \in ToSet(wanted) PROVE SpokenFor(u, d)
  <2>1. d \in Dependencies
    <3>1. wanted \in Seq(Dependencies)
      BY DEF PlanInv
    <3> QED
      BY <3>1, InToSet
  <2>2. SpokenFor(Now, d)
    BY DEF PlanInv
  <2> QED
    BY <1>1, <2>1, <2>2, SpokenForStays
<1>5. ASSUME outcome = "planned", NEW k \in 1 .. Len(u.calls), u.calls[k].parent = 0
      PROVE  u.calls[k].pc = "done" /\ ~ u.calls[k].failed
  <2>1. Len(Now.calls) \in Nat /\ Len(u.calls) \in Nat
    BY <1>1, StatesAre
  <2>2. k \in 1 .. Len(Now.calls)
    BY <1>5, <2>1 DEF Later
  <2>3. Now.calls[k].parent = 0
    BY <1>5, <2>2 DEF Later
  <2>4. Now.calls[k].pc = "done" /\ ~ Now.calls[k].failed
    BY <1>3, <1>5, <2>2, <2>3 DEF PlanInv
  <2> QED
    BY <2>2, <2>4 DEF Later
<1>6. (outcome' = "planned" =>
        \A k \in 1 .. Len(calls') : calls'[k].parent = 0 => calls'[k].pc = "done" /\ ~ calls'[k].failed)
  BY <1>2, <1>5
<1>7. Tidy(Now)' /\ DepsSpokenFor(Now)'
  BY <1>2 DEF Tidy, Keyed, Open, Nested, Answered, Backed, DepsSpokenFor, SpokenFor
<1>8. (\A d \in ToSet(wanted) : SpokenFor(Now, d))'
  BY <1>2, <1>4 DEF SpokenFor
<1> QED
  BY <1>6, <1>7, <1>8 DEF PlanInv

\* The state as the operators see it.
LEMMA NowIs ==
  ASSUME PlanInv
  PROVE  /\ Tidy(Now) /\ Now \in PlanStates /\ DepsSpokenFor(Now)
         /\ Now.calls = calls /\ Now.resolved = resolved /\ Now.resolving = resolving
         /\ Len(calls) \in Nat /\ \A k \in 1 .. Len(calls) : calls[k] \in ResolverCalls
         /\ Open(Now) = {k \in 1 .. Len(calls) : calls[k].pc # "done"}
<1>1. Tidy(Now) /\ Now \in PlanStates /\ DepsSpokenFor(Now)
  BY DEF PlanInv, Tidy
<1>2. Now.calls = calls /\ Now.resolved = resolved /\ Now.resolving = resolving
  BY DEF Now, State
<1> QED
  BY <1>1, <1>2, StatesAre DEF Open

LEMMA MetadataArrivesKeeps ==
  ASSUME PlanInv, NEW k \in 1 .. Len(calls), MetadataArrives(k)
  PROVE  PlanInv'
<1> DEFINE s == Now
<1> DEFINE t == Answering(s, k)
<1> DEFINE c == calls[k]
<1> DEFINE v == Pick(c.dep)
<1> DEFINE deps == Registry[c.dep.name][v].deps
<1> DEFINE u == EnterAll(t, deps, <<c.dep.name, v>>, k)
<1>1. /\ Tidy(s) /\ s \in PlanStates /\ DepsSpokenFor(s) /\ s.calls = calls /\ Len(calls) \in Nat
      /\ c \in ResolverCalls /\ k \in Open(s)
  BY NowIs DEF MetadataArrives
<1>2. c.pc = "fetching" /\ Matching(c.dep) # {} /\ UNCHANGED <<wanted, outcome>>
  BY DEF MetadataArrives
<1>3. Becomes(u)
  BY <1>1 DEF MetadataArrives, Answering
<1> HIDE DEF s, t
<1>4. /\ Tidy(t) /\ Later(s, t, k) /\ Len(t.calls) = Len(s.calls)
      /\ t.calls[k].pc = "children" /\ t.calls[k].version = v /\ t.calls[k].dep = c.dep
      /\ \A j \in 1 .. Len(s.calls) : j # k => t.calls[j] = s.calls[j]
  BY <1>1, <1>2, AnswerKeeps DEF t
<1>5. c.dep \in Dependencies /\ c.dep.name \in Names
  BY <1>1 DEF ResolverCalls, Dependencies
<1>6. v \in Nat /\ v \in DOMAIN Registry[c.dep.name]
  BY <1>2, <1>5, PickIs
<1>7. deps \in Seq(Dependencies) /\ <<c.dep.name, v>> \in Dependents
  BY <1>5, <1>6 DEF Dependents
<1> HIDE DEF c, v
<1>8. Asks(t, k) /\ k \in Nat \ {0}
  BY <1>1, <1>4 DEF Asks
<1>9. Tidy(u) /\ Adds(t, u, k) /\ \A d \in ToSet(deps) : SpokenFor(u, d)
  <2> HIDE DEF deps
  <2> QED
    BY <1>4, <1>7, <1>8, EnterAllKeeps
<1> HIDE DEF u
<1>10. t \in PlanStates /\ u \in PlanStates
  BY <1>4, <1>9 DEF Tidy
<1>11. Later(t, u, k) /\ SameAnswers(t, u) /\ \A j \in 1 .. Len(t.calls) : u.calls[j] = t.calls[j]
  BY <1>9 DEF Adds
<1>12. Later(s, u, k)
  BY <1>1, <1>4, <1>10, <1>11, LaterOn
<1>13. DepsSpokenFor(u)
  <2>1. SUFFICES ASSUME NEW j \in 1 .. Len(u.calls), u.calls[j].version # 0,
                        NEW d \in ToSet(Registry[u.calls[j].dep.name][u.calls[j].version].deps)
                 PROVE  SpokenFor(u, d)
    BY DEF DepsSpokenFor
  <2>2. Len(u.calls) \in Nat /\ Len(t.calls) \in Nat
    BY <1>10, StatesAre
  <2>3. j \in 1 .. Len(t.calls)
    BY <1>11, <2>1, <2>2 DEF SameAnswers
  <2>4. u.calls[j] = t.calls[j]
    BY <1>11, <2>3
  <2>5. CASE j = k
    BY <1>4, <1>9, <2>1, <2>4, <2>5
  <2>6. CASE j # k
    <3>1. j \in 1 .. Len(s.calls) /\ u.calls[j] = s.calls[j]
      BY <1>4, <2>3, <2>4, <2>6
    <3>2. SpokenFor(s, d)
      BY <1>1, <2>1, <3>1 DEF DepsSpokenFor
    <3>3. u.calls[j].dep \in Dependencies /\ u.calls[j].dep.name \in Names
      BY <1>10, StatesAre DEF ResolverCalls, Dependencies
    <3>4. u.calls[j].version \in DOMAIN Registry[u.calls[j].dep.name]
      <4>1. Matching(u.calls[j].dep) # {} /\ u.calls[j].version = Pick(u.calls[j].dep)
        BY <1>9, <2>1 DEF Tidy, Answered
      <4> QED
        BY <3>3, <4>1, PickIs
    <3>5. Registry[u.calls[j].dep.name][u.calls[j].version].deps \in Seq(Dependencies)
      BY <3>3, <3>4
    <3>6. d \in Dependencies
      BY <2>1, <3>5, InToSet
    <3> QED
      BY <1>1, <1>10, <1>12, <3>2, <3>6, SpokenForStays
  <2> QED
    BY <2>5, <2>6
<1> QED
  BY <1>2, <1>3, <1>8, <1>9, <1>12, <1>13, StepKeeps DEF s

LEMMA MetadataFailsKeeps ==
  ASSUME PlanInv, NEW k \in 1 .. Len(calls), MetadataFails(k)
  PROVE  PlanInv'
<1> DEFINE t == Leave(Now, k, TRUE)
<1>1. /\ Tidy(Now) /\ DepsSpokenFor(Now) /\ k \in Open(Now) /\ k \in Nat \ {0}
      /\ Becomes(t) /\ UNCHANGED <<wanted, outcome>>
  <2>1. calls[k].pc = "fetching" /\ Becomes(t) /\ UNCHANGED <<wanted, outcome>>
    BY DEF MetadataFails
  <2> HIDE DEF t
  <2>2. k \in Open(Now)
    BY <2>1, NowIs
  <2>3. k \in Nat \ {0}
    BY NowIs
  <2> QED
    BY <2>1, <2>2, <2>3, NowIs
<1>2. Tidy(t) /\ Later(Now, t, k) /\ SameAnswers(Now, t)
  BY <1>1, LeaveKeeps
<1> HIDE DEF t
<1>3. DepsSpokenFor(t)
  BY <1>1, <1>2, DepsStaySpokenFor
<1> QED
  BY <1>1, <1>2, <1>3, StepKeeps

\* A call that awaits none it has made, of which none failed that matters.
LEMMA QuietWhen ==
  ASSUME PlanInv, NEW k \in 1 .. Len(calls), ~ Waits(k), ~ Failed(k) \/ calls[k].pc = "peers"
  PROVE  Quiet(Now, k)
<1>1. SUFFICES ASSUME NEW j \in 1 .. Len(calls), calls[j].parent = k
               PROVE  calls[j].pc = "done" /\ (calls[j].failed => calls[j].peer)
  BY NowIs DEF Quiet
<1>2. calls[j].pc = "done"
  BY <1>1, NowIs DEF Waits, ChildrenOf
<1>3. CASE ~ Failed(k)
  BY <1>1, <1>2, <1>3 DEF Failed, HurtBy
<1>4. CASE calls[k].pc = "peers"
  <2>1. Below(calls[j], calls[k])
    BY <1>1, NowIs, CallersAre
  <2> QED
    BY <1>2, <1>4, <2>1, NowIs DEF Below, ResolverCalls
<1> QED
  BY <1>2, <1>3, <1>4

LEMMA PeersKeep ==
  ASSUME PlanInv, NEW k \in 1 .. Len(calls), calls[k].pc \in {"children", "peers"}, Quiet(Now, k),
         Becomes(AskPeers(Now, k, calls[k].peers)), UNCHANGED <<wanted, outcome>>
  PROVE  PlanInv'
<1> DEFINE t == AskPeers(Now, k, calls[k].peers)
<1>1. /\ Tidy(Now) /\ DepsSpokenFor(Now) /\ k \in Open(Now) /\ k \in Nat \ {0}
      /\ Now.calls = calls /\ calls[k].peers \in Seq(Dependencies)
  BY NowIs DEF ResolverCalls
<1>2. Tidy(t) /\ Later(Now, t, k) /\ SameAnswers(Now, t)
  BY <1>1, AskPeersKeeps
<1> HIDE DEF t
<1>3. DepsSpokenFor(t)
  BY <1>1, <1>2, DepsStaySpokenFor
<1> QED
  BY <1>1, <1>2, <1>3, StepKeeps DEF t

LEMMA DependenciesDoneKeeps ==
  ASSUME PlanInv, NEW k \in 1 .. Len(calls), DependenciesDone(k)
  PROVE  PlanInv'
<1>1. calls[k].pc = "children" /\ (Failed(k) \/ ~ Waits(k)) /\ UNCHANGED <<wanted, outcome>>
  BY DEF DependenciesDone
<1>2. CASE Failed(k)
  <2> DEFINE t == Leave(Now, k, TRUE)
  <2>1. /\ Tidy(Now) /\ DepsSpokenFor(Now) /\ k \in Open(Now) /\ k \in Nat \ {0} /\ Becomes(t)
    <3>1. Becomes(t)
      BY <1>2 DEF DependenciesDone
    <3> HIDE DEF t
    <3>2. k \in Open(Now)
      BY <1>1, NowIs
    <3>3. k \in Nat \ {0}
      BY NowIs
    <3> QED
      BY <3>1, <3>2, <3>3, NowIs
  <2>2. Tidy(t) /\ Later(Now, t, k) /\ SameAnswers(Now, t)
    BY <2>1, LeaveKeeps
  <2> HIDE DEF t
  <2>3. DepsSpokenFor(t)
    BY <2>1, <2>2, DepsStaySpokenFor
  <2> QED
    BY <1>1, <2>1, <2>2, <2>3, StepKeeps
<1>3. CASE ~ Failed(k)
  <2>1. Becomes(AskPeers(Now, k, calls[k].peers)) /\ Quiet(Now, k)
    BY <1>1, <1>3, QuietWhen DEF DependenciesDone
  <2> QED
    BY <1>1, <2>1, PeersKeep
<1> QED
  BY <1>2, <1>3

LEMMA PeerDoneKeeps ==
  ASSUME PlanInv, NEW k \in 1 .. Len(calls), PeerDone(k)
  PROVE  PlanInv'
<1>1. /\ calls[k].pc = "peers" /\ ~ Waits(k) /\ UNCHANGED <<wanted, outcome>>
      /\ Becomes(AskPeers(Now, k, calls[k].peers))
  BY DEF PeerDone
<1>2. Quiet(Now, k)
  BY <1>1, QuietWhen
<1> QED
  BY <1>1, <1>2, PeersKeep

LEMMA ResolveReturnsKeeps ==
  ASSUME PlanInv, ResolveReturns
  PROVE  PlanInv'
<1>1. /\ UNCHANGED <<resolved, resolving, calls, wanted>>
      /\ outcome' = IF Failed(0) THEN "failed" ELSE "planned"
      /\ Failed(0) \/ ~ Waits(0)
  BY DEF ResolveReturns
<1>2. ASSUME outcome' = "planned", NEW k \in 1 .. Len(calls), calls[k].parent = 0
      PROVE  calls[k].pc = "done" /\ ~ calls[k].failed
  <2>1. ~ Failed(0) /\ ~ Waits(0)
    BY <1>1, <1>2
  <2>2. calls[k].pc = "done"
    BY <1>2, <2>1, NowIs DEF Waits, ChildrenOf
  <2>3. ~ calls[k].peer
    BY <1>2, NowIs DEF Tidy, Nested
  <2> QED
    BY <1>2, <2>1, <2>2, <2>3 DEF Failed, HurtBy
<1>3. Now' = Now
  BY <1>1 DEF Now, State
<1>4. Tidy(Now)' /\ DepsSpokenFor(Now)' /\ (\A d \in ToSet(wanted) : SpokenFor(Now, d))'
  BY <1>1, <1>3 DEF PlanInv, Tidy, Keyed, Open, Nested, Answered, Backed, DepsSpokenFor, SpokenFor
<1>5. outcome' \in {"pending", "planned", "failed"}
  BY <1>1
<1> QED
  BY <1>1, <1>2, <1>4, <1>5 DEF PlanInv

LEMMA PlanInvInit == ResolverInit => PlanInv
<1> SUFFICES ASSUME ResolverInit PROVE PlanInv
  OBVIOUS
<1> DEFINE s == State([n \in Names |-> NoNode], {}, << >>)
<1> DEFINE t == EnterAll(s, wanted, Root, 0)
<1>1. wanted \in RootDeps /\ resolved = t.resolved /\ resolving = t.resolving /\ calls = t.calls /\ outcome = "pending"
  BY DEF ResolverInit
<1>2. /\ s \in PlanStates /\ s.calls = << >> /\ s.resolving = {}
      /\ s.resolved = [n \in Names |-> NoNode]
  <2>1. NoNode \in Nodes /\ << >> \in Seq(ResolverCalls)
    BY DEF NoNode, Nodes
  <2> QED
    BY <2>1 DEF State, PlanStates
<1> HIDE DEF s
<1>3. Len(s.calls) = 0 /\ 1 .. Len(s.calls) = {}
  BY <1>2
<1>4. Tidy(s)
  <2>1. \A n \in Names : s.resolved[n] = NoNode
    BY <1>2
  <2> QED
    BY <1>2, <1>3, <2>1 DEF Tidy, Keyed, Open, Nested, Answered, Backed, Known
<1>5. wanted \in Seq(Dependencies) /\ Root \in Dependents /\ 0 \in Nat /\ Asks(s, 0)
  BY <1>1 DEF Dependents, Asks
<1>6. Tidy(t) /\ Adds(s, t, 0) /\ \A d \in ToSet(wanted) : SpokenFor(t, d)
  BY <1>4, <1>5, EnterAllKeeps
<1> HIDE DEF t
<1>7. Now = t
  BY <1>1, <1>6 DEF Tidy, PlanStates, Now, State
<1>8. Len(t.calls) \in Nat /\ \A k \in 1 .. Len(t.calls) : t.calls[k].version = 0
  <2>1. \A k \in 1 .. Len(t.calls) : t.calls[k].version # 0 => k <= 0
    BY <1>3, <1>6 DEF Adds, SameAnswers
  <2>2. Len(t.calls) \in Nat
    BY <1>6, StatesAre DEF Tidy
  <2> QED
    BY <2>1, <2>2
<1>9. DepsSpokenFor(t)
  BY <1>8 DEF DepsSpokenFor
<1> QED
  BY <1>1, <1>6, <1>7, <1>9 DEF PlanInv

\* The invariant holds in every behaviour.
THEOREM PlanInvariant == ResolverSpec => []PlanInv
<1>1. PlanInv /\ [ResolverNext]_resolverVars => PlanInv'
  <2> SUFFICES ASSUME PlanInv, [ResolverNext]_resolverVars PROVE PlanInv'
    OBVIOUS
  <2>1. CASE ResolveReturns
    BY <2>1, ResolveReturnsKeeps
  <2>2. ASSUME NEW k \in 1 .. Len(calls), CallStep(k) PROVE PlanInv'
    BY <2>2, MetadataArrivesKeeps, MetadataFailsKeeps, DependenciesDoneKeeps, PeerDoneKeeps DEF CallStep
  <2>3. CASE UNCHANGED resolverVars
    <3>1. UNCHANGED <<resolved, resolving, calls, wanted, outcome>>
      BY <2>3 DEF resolverVars
    <3>2. Now' = Now
      BY <3>1 DEF Now, State
    <3>3. Tidy(Now)' /\ DepsSpokenFor(Now)' /\ (\A d \in ToSet(wanted) : SpokenFor(Now, d))'
      BY <3>1, <3>2 DEF PlanInv, Tidy, Keyed, Open, Nested, Answered, Backed, DepsSpokenFor, SpokenFor
    <3> QED
      BY <3>1, <3>3 DEF PlanInv
  <2> QED
    BY <2>1, <2>2, <2>3 DEF ResolverNext
<1> QED
  BY <1>1, PlanInvInit, PTL DEF ResolverSpec

\* When a plan is handed out and no peer has failed, every call is over, and none
\* failed: the caller of a call with a smaller number would have failed as well.
LEMMA AllOver ==
  ASSUME PlanInv, outcome = "planned", ~ PeerFailed
  PROVE  \A k \in 1 .. Len(calls) : calls[k].pc = "done" /\ ~ calls[k].failed
<1> DEFINE S == {k \in 1 .. Len(calls) : ~ (calls[k].pc = "done" /\ ~ calls[k].failed)}
<1>1. SUFFICES ASSUME S # {} PROVE FALSE
  OBVIOUS
<1>2. S \in SUBSET Nat
  BY NowIs
<1>3. PICK k \in S : \A j \in S : k <= j
  BY <1>1, <1>2, LeastNumber
<1> DEFINE p == calls[k].parent
<1>4. k \in 1 .. Len(calls) /\ p \in Nat
  BY NowIs DEF ResolverCalls
<1>5. p # 0
  BY <1>3, <1>4 DEF PlanInv
<1>6. p < k /\ Below(calls[k], calls[p]) /\ (calls[k].failed => calls[k].pc = "done")
  BY <1>4, <1>5, NowIs DEF Tidy, Nested
<1>7. p \in 1 .. Len(calls) /\ p \notin S
  BY <1>3, <1>4, <1>5, <1>6, NowIs
<1>8. calls[p].pc = "done" /\ ~ calls[p].failed
  BY <1>7
<1>9. calls[k].pc = "done" /\ (calls[k].failed => calls[k].peer)
  BY <1>6, <1>8 DEF Below
<1>10. ~ (calls[k].peer /\ calls[k].failed)
  BY <1>4 DEF PeerFailed
<1> QED
  BY <1>3, <1>9, <1>10

\* What is asked for is spoken for, and was in the ranges.
LEMMA AskedIs ==
  ASSUME PlanInv, NEW d \in Asked
  PROVE  d \in Dependencies /\ SpokenFor(Now, d) /\ d \in Ranges
<1>1. CASE d \in ToSet(wanted)
  <2>1. wanted \in Seq(Dependencies)
    BY DEF PlanInv
  <2> QED
    <3>1. d \in Dependencies
      BY <1>1, <2>1, InToSet
    <3> QED
      BY <1>1, <3>1 DEF PlanInv, Ranges
<1>2. CASE \E n \in Planned : d \in DepsOf(n)
  <2>1. PICK n \in Names : Known(resolved, n) /\ d \in DepsOf(n)
    BY <1>2 DEF Planned
  <2>2. PICK k \in 1 .. Len(calls) : /\ calls[k].dep.name = n /\ calls[k].version # 0
                                     /\ calls[k].version = resolved[n].version
    BY <2>1, NowIs DEF Tidy, Backed
  <2>3. d \in ToSet(Registry[calls[k].dep.name][calls[k].version].deps)
    BY <2>1, <2>2 DEF DepsOf
  <2>4. SpokenFor(Now, d)
    BY <2>2, <2>3, NowIs DEF DepsSpokenFor
  <2>5. calls[k].dep \in Dependencies /\ calls[k].dep.name \in Names
    BY NowIs DEF ResolverCalls, Dependencies
  <2>6. Matching(calls[k].dep) # {} /\ calls[k].version = Pick(calls[k].dep)
    BY <2>2, NowIs DEF Tidy, Answered
  <2>7. calls[k].version \in DOMAIN Registry[calls[k].dep.name]
    BY <2>5, <2>6, PickIs
  <2>8. Registry[calls[k].dep.name][calls[k].version].deps \in Seq(Dependencies)
    BY <2>5, <2>7
  <2>9. d \in Dependencies
    BY <2>3, <2>8, InToSet
  <2>10. d \in Ranges
    BY <2>2, <2>3 DEF Ranges
  <2> QED
    BY <2>4, <2>9, <2>10
<1> QED
  BY <1>1, <1>2 DEF Asked

LEMMA InvariantPlans == PlanInv => PlanIsSound
<1> SUFFICES ASSUME PlanInv PROVE PlanIsSound
  OBVIOUS
<1>1. ResolverTypeOK
  <2>1. resolved \in [Names -> [version : Nat, requiredBy : SUBSET ({Root} \cup (Names \X Nat))]]
    BY NowIs, StatesAre DEF Nodes, Dependents
  <2>2. Active = Open(Now)
    BY NowIs DEF Active
  <2>3. /\ resolving = {calls[k].dep : k \in Active}
        /\ \A j, k \in Active : calls[j].dep = calls[k].dep => j = k
    BY <2>2, NowIs DEF Tidy, Keyed
  <2> QED
    BY <2>1, <2>3 DEF PlanInv, ResolverTypeOK
<1>2. PlanIsFinal
  BY AllOver DEF PlanIsFinal, Active
<1>3. PlanIsClosed
  <2> SUFFICES ASSUME outcome = "planned", ~ PeerFailed, NEW d \in Asked PROVE Known(resolved, d.name)
    BY DEF PlanIsClosed
  <2>1. Known(resolved, d.name) \/ \E k \in 1 .. Len(calls) : calls[k].dep = d
    BY AskedIs, NowIs DEF SpokenFor
  <2>2. ASSUME NEW k \in 1 .. Len(calls), calls[k].dep = d PROVE Known(resolved, d.name)
    <3>1. calls[k].pc = "done" /\ ~ calls[k].failed
      BY AllOver
    <3> QED
      BY <2>2, <3>1, NowIs DEF Tidy, Answered
  <2> QED
    BY <2>1, <2>2
<1>4. PlanSatisfiesUnlessConflict
  <2> SUFFICES ASSUME Agree, NEW d \in Asked, Known(resolved, d.name) PROVE resolved[d.name].version \in d.range
    BY DEF PlanSatisfiesUnlessConflict
  <2>1. d \in Dependencies /\ d \in Ranges /\ d.name \in Names
    BY AskedIs DEF Dependencies
  <2>2. PICK k \in 1 .. Len(calls) : /\ calls[k].dep.name = d.name /\ calls[k].version # 0
                                     /\ calls[k].version = resolved[d.name].version
    BY <2>1, NowIs DEF Tidy, Backed
  <2>3. Matching(calls[k].dep) # {} /\ calls[k].version = Pick(calls[k].dep)
    BY <2>2, NowIs DEF Tidy, Answered
  <2>4. calls[k].dep \in Ranges
    BY DEF Ranges
  <2> QED
    BY <2>1, <2>2, <2>3, <2>4 DEF Agree, Pick
<1> QED
  BY <1>1, <1>2, <1>3, <1>4 DEF PlanIsSound

\* A plan, once handed out, stays as it is and leaves nothing out, unless a peer has
\* failed, and satisfies the ranges if the best versions of those met on the way all
\* lie in one another (resolve, resolvePackage).
THEOREM PlanStaysSound == ResolverSpec => []PlanIsSound
BY PlanInvariant, InvariantPlans, PTL
=============================================================================
