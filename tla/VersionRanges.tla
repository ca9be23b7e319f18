---------------------------- MODULE VersionRanges ----------------------------
(***************************************************************************)
(* What the package manager asks of versions: every version and every      *)
(* comparator of a range there is, against what the comments of semver.ts  *)
(* say and what an order is.                                               *)
(***************************************************************************)
EXTENDS Integers, Sequences

CONSTANTS
  SomeVersions,    \* the versions and the comparators of ranges
  SomeComparators

SV == INSTANCE Semver

Ids == [numeric : BOOLEAN, rank : Nat]
VersionType == [n : {s \in Seq(Nat) : Len(s) = 3}, pre : Seq(Ids)]
ComparatorType ==
  [op : {SV!Bare, "=", ">", ">=", "<", "<=", "~", "^"},
   parts : {s \in Seq(Nat \cup {SV!Wild}) : Len(s) \in 1 .. 3}, pre : Seq(Ids)]

ASSUME VersionsAssumption ==
  SomeVersions \subseteq VersionType /\ SomeComparators \subseteq ComparatorType

VARIABLE asked  \* a version and a comparator

VersionsInit == asked \in [version : SomeVersions, comparator : SomeComparators]
VersionsSpec == VersionsInit /\ [][UNCHANGED asked]_asked

-----------------------------------------------------------------------------
(***************************************************************************)
(* Correctness.                                                            *)
(***************************************************************************)
\* What the comments speak of: not of an operator without a number, and not of
\* numbers behind a wildcard.
Plain(c) ==
  /\ c.op = SV!Bare \/ c.parts[1] # SV!Wild
  /\ \A j, k \in 1 .. Len(c.parts) : j < k /\ c.parts[j] = SV!Wild => c.parts[k] = SV!Wild

\* A comparator allows the releases between the bounds its comment gives.
RangesMeanIntervals ==
  LET v == asked.version
      c == asked.comparator
  IN  v.pre = << >> /\ c.pre = << >> /\ Plain(c) =>
        (SV!SatisfiesComparator(v, c) <=> SV!Within(v, SV!Interval(c)))

\* Versions are totally ordered, and the best of a list is the highest one that
\* satisfies the range, in whatever order the registry lists them.
VersionsOrdered ==
  asked.comparator.op = ">=" =>
    LET v == asked.version IN
        \A u, w \in SomeVersions :
          /\ SV!Compare(v, u) = - SV!Compare(u, v) /\ (SV!Compare(v, u) = 0 => u = v)
          /\ SV!Compare(v, u) < 0 /\ SV!Compare(u, w) < 0 => SV!Compare(v, w) < 0
          /\ LET best == SV!MaxSatisfying(<<v, u, w>>, {{asked.comparator}})
                 fit == {x \in {v, u, w} : SV!SatisfiesComparator(x, asked.comparator)}
             IN  IF fit = {} THEN best = SV!None
                 ELSE best \in fit /\ \A x \in fit : SV!Compare(x, best) <= 0

\* Versions are ordered, and ranges are intervals of that order (semver.ts).
VersionsInRanges == RangesMeanIntervals /\ VersionsOrdered
=============================================================================
