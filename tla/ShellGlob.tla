----------------------------- MODULE ShellGlob -----------------------------
(***************************************************************************)
(* Glob expansion: the segments of a pattern are matched one after the     *)
(* other against what the directories hold.  A segment and a name are      *)
(* sequences of characters; a path is a sequence of names below the        *)
(* directory the search starts in; tree maps every path to "dir" or "file".*)
(***************************************************************************)
EXTENDS Naturals, Sequences, FiniteSets

GlobStar == <<"*", "*">>

\* segmentToRegExp, applied to a name from its place i on and to the segment from j on.
RECURSIVE MatchFrom(_, _, _, _)
MatchFrom(segment, j, name, i) ==
  IF j > Len(segment) THEN i > Len(name)
  ELSE CASE segment[j] = "*" -> \E k \in i .. Len(name) + 1 : MatchFrom(segment, j + 1, name, k)
         [] segment[j] = "?" -> i <= Len(name) /\ MatchFrom(segment, j + 1, name, i + 1)
         [] OTHER -> i <= Len(name) /\ name[i] = segment[j] /\ MatchFrom(segment, j + 1, name, i + 1)

\* Mutant: hidden files are not left out.
HiddenNever(name, segment) == FALSE
Hidden(name, segment) == name[1] = "." /\ segment[1] # "."

\* readdir: the children of a directory, nothing of a file (where it throws).
Children(tree, dir) == {p \in DOMAIN tree : Len(p) = Len(dir) + 1 /\ SubSeq(p, 1, Len(dir)) = dir}

RECURSIVE MatchSegments(_, _, _, _), BelowStar(_, _, _, _)
MatchSegments(tree, dir, segments, k) ==
  IF k > Len(segments) THEN {dir}
  ELSE IF segments[k] = GlobStar THEN
    MatchSegments(tree, dir, segments, k + 1) \cup BelowStar(tree, dir, segments, k)
  ELSE LET fits == {p \in Children(tree, dir) :
                      /\ ~Hidden(p[Len(p)], segments[k])
                      /\ MatchFrom(segments[k], 1, p[Len(p)], 1)}
       IN  IF k = Len(segments) THEN fits
           ELSE UNION {MatchSegments(tree, p, segments, k + 1) : p \in {q \in fits : tree[q] = "dir"}}
BelowStar(tree, dir, segments, k) ==
  UNION {MatchSegments(tree, p, segments, IF tree[p] = "dir" THEN k ELSE k + 1) : p \in Children(tree, dir)}

HasGlobChars(segments) == \E k \in 1 .. Len(segments) : \E j \in 1 .. Len(segments[k]) : segments[k][j] \in {"*", "?", "["}

\* expandGlob of a relative pattern: what matches, or the pattern itself.
Literal == "the pattern"
ExpandGlob(tree, segments) ==
  LET found == MatchSegments(tree, << >>, segments, 1)
  IN  IF ~HasGlobChars(segments) \/ found = {} THEN Literal ELSE found

-----------------------------------------------------------------------------
(***************************************************************************)
(* What a pattern means: its parts divide the name, or path, among them.   *)
(***************************************************************************)
\* cuts[j]: where part j ends.
Divides(cuts, parts, len) ==
  cuts[0] = 0 /\ cuts[parts] = len /\ \A j \in 1 .. parts : cuts[j - 1] <= cuts[j]
Cuts(parts, len) == [0 .. parts -> 0 .. len]

NameMatches(segment, name) ==
  \E cuts \in Cuts(Len(segment), Len(name)) :
    /\ Divides(cuts, Len(segment), Len(name))
    /\ \A j \in 1 .. Len(segment) : segment[j] # "*" =>
         /\ cuts[j] = cuts[j - 1] + 1
         /\ segment[j] # "?" => segment[j] = name[cuts[j]]

\* A segment with another behind it stands for a directory.
PathMatches(tree, segments, path) ==
  \E cuts \in Cuts(Len(segments), Len(path)) :
    /\ Divides(cuts, Len(segments), Len(path))
    /\ \A j \in 1 .. Len(segments) : segments[j] # GlobStar =>
         /\ cuts[j] = cuts[j - 1] + 1
         /\ NameMatches(segments[j], path[cuts[j]])
         /\ path[cuts[j]][1] = "." => segments[j][1] = "."
         /\ j < Len(segments) => tree[SubSeq(path, 1, cuts[j])] = "dir"
=============================================================================
