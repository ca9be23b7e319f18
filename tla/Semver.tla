------------------------------- MODULE Semver -------------------------------
(***************************************************************************)
(* Versions and ranges of the package manager.  A version has three        *)
(* numbers and prerelease identifiers, each a number or a word (a word has *)
(* a rank in the order of strings).  A comparator has an operator and one  *)
(* to three numbers, Wild for x, X or *.                                   *)
(***************************************************************************)
EXTENDS Integers, Sequences

Version(major, minor, patch, pre) == [n |-> <<major, minor, patch>>, pre |-> pre]
Number(k) == [numeric |-> TRUE, rank |-> k]
WordId(k) == [numeric |-> FALSE, rank |-> k]

Wild == -1
Bare == "bare"  \* no operator
Comparator(op, parts, pre) == [op |-> op, parts |-> parts, pre |-> pre]

Sign(k) == IF k > 0 THEN 1 ELSE IF k < 0 THEN -1 ELSE 0

\* The first place where two sequences differ, Len of the shorter + 1 if none.
Differ(a, b) ==
  LET len == IF Len(a) < Len(b) THEN Len(a) ELSE Len(b)
      there == {k \in 1 .. len : a[k] # b[k]}
  IN  IF there = {} THEN len + 1 ELSE CHOOSE k \in there : \A j \in there : k <= j

\* Mutant: a number is not below a word.
CompareIdsByRank(a, b) == Sign(a.rank - b.rank)
CompareIds(a, b) == IF a.numeric = b.numeric THEN Sign(a.rank - b.rank) ELSE IF a.numeric THEN -1 ELSE 1

\* compareParsed
ComparePre(a, b) ==
  LET k == Differ(a, b)
  IN  CASE a = << >> /\ b = << >> -> 0
        [] a = << >> /\ b # << >> -> 1
        [] a # << >> /\ b = << >> -> -1
        [] OTHER -> IF k <= Len(a) /\ k <= Len(b) THEN CompareIds(a[k], b[k]) ELSE Sign(Len(a) - Len(b))
Compare(v, w) ==
  LET k == Differ(v.n, w.n) IN IF k <= 3 THEN Sign(v.n[k] - w.n[k]) ELSE ComparePre(v.pre, w.pre)

\* compareToRange: a full version, or as many numbers as there are before one
\* that is none.
Given(parts) == {k \in 1 .. Len(parts) : \A j \in 1 .. k : parts[j] # Wild}
CompareToRange(v, c) ==
  LET k == Differ(v.n, c.parts)
  IN  IF 3 \in Given(c.parts) THEN Compare(v, [n |-> c.parts, pre |-> c.pre])
      ELSE IF k \in Given(c.parts) THEN Sign(v.n[k] - c.parts[k]) ELSE 0

SatisfiesTilde(v, c) ==
  /\ c.parts[1] = v.n[1]
  /\ 2 \in Given(c.parts) => v.n[2] = c.parts[2]
  /\ 3 \in Given(c.parts) => v.n[3] >= c.parts[3]

\* The leftmost number that is not zero must not change; what is missing is 0.
Filled(c) == [n |-> [k \in 1 .. 3 |-> IF k <= Len(c.parts) /\ c.parts[k] # Wild THEN c.parts[k] ELSE 0],
              pre |-> IF 3 \in Given(c.parts) THEN c.pre ELSE << >>]
\* Mutant: the minor number may always grow.
SatisfiesCaretWide(v, c) == v.n[1] = c.parts[1] /\ Compare(v, Filled(c)) >= 0
SatisfiesCaret(v, c) ==
  LET r == Filled(c)
      kept == IF r.n[1] # 0 THEN 1 ELSE IF r.n[2] # 0 THEN 2 ELSE 3
  IN  c.parts[1] # Wild /\ SubSeq(v.n, 1, kept) = SubSeq(r.n, 1, kept) /\ Compare(v, r) >= 0

\* x-ranges and partial versions: what is given must be equal.
SatisfiesX(v, c) == \A k \in Given(c.parts) : v.n[k] = c.parts[k]

SatisfiesComparator(v, c) ==
  CASE c.op = ">=" -> CompareToRange(v, c) >= 0
    [] c.op = "<=" -> CompareToRange(v, c) <= 0
    [] c.op = ">" -> CompareToRange(v, c) > 0
    [] c.op = "<" -> CompareToRange(v, c) < 0
    [] c.op = "=" -> CompareToRange(v, c) = 0
    [] c.op = "~" -> SatisfiesTilde(v, c)
    [] c.op = "^" -> SatisfiesCaret(v, c)
    [] c.op = Bare -> IF 3 \in Given(c.parts) THEN CompareToRange(v, c) = 0 ELSE SatisfiesX(v, c)

\* A range: alternatives, each a set of comparators (a hyphen range is >= and <=).
Satisfies(v, range) == \E set \in range : \A c \in set : SatisfiesComparator(v, c)

\* maxSatisfying: the list is walked from its start, the best so far is kept.
Better(v, best) == Compare(v, best) > 0
None == [n |-> << >>]
BestSoFar(versions, range) ==
  LET best[k \in 0 .. Len(versions)] ==
        IF k = 0 THEN None
        ELSE IF Satisfies(versions[k], range) /\ (best[k - 1] = None \/ Better(versions[k], best[k - 1]))
          THEN versions[k] ELSE best[k - 1]
  IN  best
MaxSatisfying(versions, range) == BestSoFar(versions, range)[Len(versions)]

-----------------------------------------------------------------------------
(***************************************************************************)
(* What the comments of semver.ts say a comparator allows: from which      *)
(* version on, and before which.                                           *)
(***************************************************************************)
Release(n) == [n |-> n, pre |-> << >>]
NoEnd == << >>
\* The first version after all that begin with these numbers.
After(n) == CASE Len(n) = 0 -> NoEnd
              [] Len(n) = 1 -> <<n[1] + 1, 0, 0>>
              [] Len(n) = 2 -> <<n[1], n[2] + 1, 0>>
              [] Len(n) = 3 -> <<n[1], n[2], n[3] + 1>>
Padded(n) == [k \in 1 .. 3 |-> IF k <= Len(n) THEN n[k] ELSE 0]
HowMany(parts) == CHOOSE k \in 0 .. Len(parts) : Given(parts) = 1 .. k
Interval(c) ==
  LET given == SubSeq(c.parts, 1, HowMany(c.parts))
      first == Padded(given)
      kept == IF first[1] # 0 THEN 1 ELSE IF first[2] # 0 THEN 2 ELSE 3
      between(a, b) == [from |-> a, before |-> b]
  IN  CASE c.op \in {"=", Bare} -> between(first, After(given))
        [] c.op = ">=" -> between(first, NoEnd)
        [] c.op = ">" -> between(After(given), NoEnd)
        [] c.op = "<" -> between(<<0, 0, 0>>, first)
        [] c.op = "<=" -> between(<<0, 0, 0>>, After(given))
        [] c.op = "~" -> between(first, After(SubSeq(given, 1, IF Len(given) > 2 THEN 2 ELSE Len(given))))
        [] c.op = "^" -> between(first, After(SubSeq(first, 1, kept)))
Within(v, interval) ==
  /\ Compare(v, Release(interval.from)) >= 0
  /\ interval.before = NoEnd \/ Compare(v, Release(interval.before)) < 0
=============================================================================
