------------------------------ MODULE NodePath ------------------------------
(***************************************************************************)
(* The path shim.  A path is a sequence of characters: a slash, a dot, or  *)
(* any other.                                                              *)
(***************************************************************************)
EXTENDS Naturals, Sequences

Slash == "/"
Dot == <<".">>
Parent == <<".", ".">>
IsAbsolute(p) == p # << >> /\ p[1] = Slash
EndsWithSlash(p) == p # << >> /\ p[Len(p)] = Slash

\* split('/') without the empty parts, and join('/').
RECURSIVE SplitFrom(_, _, _)
SplitFrom(p, k, part) ==
  LET done == IF part = << >> THEN << >> ELSE <<part>>
  IN  IF k > Len(p) THEN done
      ELSE IF p[k] = Slash THEN done \o SplitFrom(p, k + 1, << >>)
      ELSE SplitFrom(p, k + 1, Append(part, p[k]))
Split(p) == SplitFrom(p, 1, << >>)
RECURSIVE Joined(_)
Joined(parts) == IF parts = << >> THEN << >>
                 ELSE IF Len(parts) = 1 THEN parts[1]
                 ELSE parts[1] \o <<Slash>> \o Joined(Tail(parts))

Up(abs, result) ==
  IF result # << >> /\ result[Len(result)] # Parent THEN SubSeq(result, 1, Len(result) - 1)
  ELSE IF abs THEN result ELSE Append(result, Parent)

RECURSIVE Walk(_, _, _)
Walk(abs, parts, result) ==
  IF parts = << >> THEN result
  ELSE Walk(abs, Tail(parts), CASE Head(parts) = Dot -> result
                                [] Head(parts) = Parent -> Up(abs, result)
                                [] OTHER -> Append(result, Head(parts)))

Normalize(p) ==
  LET abs == IsAbsolute(p)
      parts == Joined(Walk(abs, Split(p), << >>))
      out == CASE abs -> <<Slash>> \o parts
               [] ~abs /\ parts = << >> -> Dot
               [] OTHER -> parts
  IN  IF p = << >> THEN Dot
      ELSE IF EndsWithSlash(p) /\ ~EndsWithSlash(out) THEN Append(out, Slash) ELSE out

\* join(p, q)
Join(p, q) == IF p = << >> THEN Normalize(q) ELSE IF q = << >> THEN Normalize(p)
              ELSE Normalize(p \o <<Slash>> \o q)

\* resolve(p, q): the working directory is the root; every part is followed by
\* a slash, which normalize keeps.
Resolve2(p, q) ==
  LET withSlash(x) == IF x = << >> THEN << >> ELSE Append(x, Slash)
      from == IF IsAbsolute(q) THEN << >> ELSE withSlash(p)
      root == IF IsAbsolute(q) \/ IsAbsolute(p) THEN << >> ELSE <<Slash, Slash>>
  IN  Normalize(root \o from \o withSlash(q))
Resolve1(p) == Resolve2(<<Slash>>, p)

\* The name of p: the places from its start to its end, slashes behind it aside.
LastOf(s) == CHOOSE k \in s : \A j \in s : j <= k
NameEnd(p) == {k \in 1 .. Len(p) : p[k] # Slash}
NameStart(p) ==
  LET slashes == {k \in 1 .. LastOf(NameEnd(p)) : p[k] = Slash}
  IN  IF slashes = {} THEN 1 ELSE LastOf(slashes) + 1
Basename(p) == IF NameEnd(p) = {} THEN << >> ELSE SubSeq(p, NameStart(p), LastOf(NameEnd(p)))

\* dirname: the first character is not looked at, so it does not begin a name.
Dirname(p) ==
  LET named == {k \in 2 .. Len(p) : p[k] # Slash}
      ends == IF named = {} THEN {} ELSE {k \in 2 .. LastOf(named) : p[k] = Slash}
      end == LastOf(ends)
  IN  CASE p = << >> -> Dot
        [] p # << >> /\ ends = {} -> IF p[1] = Slash THEN <<Slash>> ELSE Dot
        [] p # << >> /\ ends # {} -> IF p[1] = Slash /\ end = 2 THEN <<Slash, Slash>> ELSE SubSeq(p, 1, end - 1)

\* extname: from the last dot of the name, unless nothing but dots is before it.
\* Mutant: a name may begin with its extension.
ExtnameOfHidden(p) ==
  LET dots == {k \in NameStart(p) .. LastOf(NameEnd(p)) : p[k] = "."}
  IN  IF NameEnd(p) = {} \/ dots = {} THEN << >> ELSE SubSeq(p, LastOf(dots), LastOf(NameEnd(p)))
Extname(p) ==
  LET start == NameStart(p)
      end == LastOf(NameEnd(p))
      dots == {k \in start .. end : p[k] = "."}
      dot == LastOf(dots)
  IN  CASE NameEnd(p) = {} \/ dots = {} \/ dot = start -> << >>
        [] OTHER -> IF dot = end /\ dot = start + 1 /\ p[start] = "." THEN << >> ELSE SubSeq(p, dot, end)

\* Mutant: the directory where they part counts.
UpsTooMany(f, same) == [k \in 1 .. Len(f) - same + 1 |-> Parent]
Ups(f, same) == [k \in 1 .. Len(f) - same |-> Parent]

\* relative: up from one path to where they part, and down to the other.
Relative(from, to) ==
  LET f == Split(Resolve1(from))
      t == Split(Resolve1(to))
      len == IF Len(f) < Len(t) THEN Len(f) ELSE Len(t)
      differ == {k \in 1 .. len : f[k] # t[k]}
      same == IF differ = {} THEN len ELSE (CHOOSE k \in differ : \A j \in differ : k <= j) - 1
  IN  IF from = to \/ Resolve1(from) = Resolve1(to) THEN << >>
      ELSE Joined(Ups(f, same) \o SubSeq(t, same + 1, Len(t)))

\* parse and format
ParsePath(p) == [root |-> IF IsAbsolute(p) THEN <<Slash>> ELSE << >>, dir |-> Dirname(p),
                 base |-> Basename(p), ext |-> Extname(p),
                 name |-> SubSeq(Basename(p), 1, Len(Basename(p)) - Len(Extname(p)))]
FormatPath(o) ==
  LET dir == IF o.dir = << >> THEN o.root ELSE o.dir
      base == IF o.base = << >> THEN o.name \o o.ext ELSE o.base
  IN  CASE dir = << >> -> base
        [] dir # << >> -> IF dir = o.root THEN dir \o base ELSE dir \o <<Slash>> \o base

\* The same path, a slash at its end aside.
Same(p, q) == Split(p) = Split(q) /\ IsAbsolute(p) = IsAbsolute(q)
=============================================================================
