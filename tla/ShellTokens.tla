---------------------------- MODULE ShellTokens ----------------------------
(***************************************************************************)
(* What becomes of the text of a line before it is parsed: variables are   *)
(* expanded in it, then it is cut into tokens.  A text is a sequence of    *)
(* characters; so is a token, and what kind it has can be seen from it     *)
(* unless it is a word.                                                    *)
(***************************************************************************)
EXTENDS Naturals, Sequences, TLC

Blank == {" "}
NL == "NL"
Pairs == {<<"&", "&">>, <<"|", "|">>, <<">", ">">>}
Singles == {"|", ";", ">", "<", "&", "(", ")"}
Breaks == Blank \cup {NL, "#"} \cup Singles
Quote == "sq"
DoubleQuote == "dq"
Backslash == "bs"
\* What a backslash takes its meaning from between double quotes.
Escapable == {DoubleQuote, Backslash, "$", "bt"}

CharAt(s, p) == IF p > Len(s) THEN "" ELSE s[p]
\* The first place from p on that holds one of these characters.
Find(s, p, chars) ==
  LET there == {k \in p .. Len(s) : s[k] \in chars}
  IN  IF there = {} THEN Len(s) + 1 ELSE CHOOSE k \in there : \A j \in there : k <= j

-----------------------------------------------------------------------------
(***************************************************************************)
(* tokenize                                                                *)
(***************************************************************************)
\* The content of double quotes from p on: [word, at], at behind the quote.
RECURSIVE DoubleQuoted(_, _, _)
DoubleQuoted(s, p, word) ==
  LET esc == CharAt(s, p + 1)
  IN  CASE p > Len(s) -> [word |-> word, at |-> p]
        [] CharAt(s, p) = DoubleQuote -> [word |-> word, at |-> p + 1]
        [] CharAt(s, p) # Backslash /\ CharAt(s, p) # DoubleQuote /\ p <= Len(s) ->
             DoubleQuoted(s, p + 1, Append(word, s[p]))
        [] CharAt(s, p) = Backslash /\ p = Len(s) -> [word |-> word, at |-> p + 1]
        [] CharAt(s, p) = Backslash /\ p < Len(s) /\ esc = NL -> DoubleQuoted(s, p + 2, word)
        [] CharAt(s, p) = Backslash /\ p < Len(s) /\ esc \in Escapable ->
             DoubleQuoted(s, p + 2, Append(word, esc))
        [] OTHER -> DoubleQuoted(s, p + 2, word \o <<Backslash, esc>>)

\* Where the text goes on behind a closing quote.
\* Mutant: at the quote.
BehindQuoteAt(close) == close
BehindQuote(close) == close + 1

\* A word from p on: [word, at], at = p if there is none.
RECURSIVE Word(_, _, _)
Word(s, p, word) ==
  LET c == CharAt(s, p)
      next == CharAt(s, p + 1)
      close == Find(s, p + 1, {Quote})
      double == DoubleQuoted(s, p + 1, word)
  IN  CASE p > Len(s) \/ c \in Breaks -> [word |-> word, at |-> p]
        [] c = Backslash -> IF p = Len(s) THEN Word(s, p + 1, word)
                            ELSE Word(s, p + 2, IF next = NL THEN word ELSE Append(word, next))
        [] c = DoubleQuote -> Word(s, double.at, double.word)
        [] c = Quote -> Word(s, BehindQuote(close), word \o SubSeq(s, p + 1, close - 1))
        [] OTHER -> Word(s, p + 1, Append(word, c))

\* A word may be empty; an operator is its own text.
WordToken(value) == [type |-> "WORD", value |-> value]
OperatorToken(value) == [type |-> "OPERATOR", value |-> value]

TwoAt(s, p) == p < Len(s) /\ SubSeq(s, p, p + 1) \in Pairs

RECURSIVE TokensFrom(_, _)
TokensFrom(s, p) ==
  LET c == CharAt(s, p)
      word == Word(s, p, << >>)
  IN  CASE p > Len(s) -> << >>
        [] c \in Blank -> TokensFrom(s, p + 1)
        [] c = "#" -> TokensFrom(s, Find(s, p, {NL}))
        [] c = NL -> <<OperatorToken(<<NL>>)>> \o TokensFrom(s, p + 1)
        [] c \in Singles -> IF TwoAt(s, p)
                              THEN <<OperatorToken(SubSeq(s, p, p + 1))>> \o TokensFrom(s, p + 2)
                              ELSE <<OperatorToken(<<c>>)>> \o TokensFrom(s, p + 1)
        [] OTHER -> <<WordToken(word.word)>> \o TokensFrom(s, word.at)
Tokenize(s) == TokensFrom(s, 1)

-----------------------------------------------------------------------------
(***************************************************************************)
(* expandVariables.  A shell has env, the variables that are set, none of  *)
(* them one every object inherits, and lastExitCode.  What is left is      *)
(* [text, env]: an expansion may assign.                                   *)
(***************************************************************************)
NameChars == {"a", "v"}
Value(env, name) == IF name \in DOMAIN env THEN env[name] ELSE << >>

\* What stands for ${expr}: a modifier is looked for in this order.
Modifiers == <<<<":", "-">>, <<":", "+">>, <<":", "=">>>>
CutsAt(expr, m) == {k \in 1 .. Len(expr) - 1 : SubSeq(expr, k, k + 1) = m}
\* Mutant: := assigns nothing.
AssignedNever(env, name, value) == env
Assigned(env, name, value) == (name :> value) @@ env
Braced(env, expr) ==
  LET found == {i \in 1 .. 3 : CutsAt(expr, Modifiers[i]) # {}}
      i == CHOOSE x \in found : \A y \in found : x <= y
      cut == CHOOSE k \in CutsAt(expr, Modifiers[i]) : \A j \in CutsAt(expr, Modifiers[i]) : k <= j
      name == SubSeq(expr, 1, cut - 1)
      other == SubSeq(expr, cut + 2, Len(expr))
      val == Value(env, name)
  IN  CASE found = {} -> [text |-> Value(env, expr), env |-> env]
        [] found # {} /\ i = 1 -> [text |-> IF val # << >> THEN val ELSE other, env |-> env]
        [] found # {} /\ i = 2 -> [text |-> IF val # << >> THEN other ELSE << >>, env |-> env]
        [] found # {} /\ i = 3 -> [text |-> IF val # << >> THEN val ELSE other,
                                   env |-> IF val # << >> THEN env ELSE Assigned(env, name, other)]

\* Mutant: single quotes mean nothing.
TogglesNever(c) == FALSE
Toggles(c) == c = Quote

Behind(out, r) == [r EXCEPT !.text = out \o @]
RECURSIVE ExpandFrom(_, _, _, _)
ExpandFrom(sh, s, p, quoted) ==
  LET c == CharAt(s, p)
      next == CharAt(s, p + 1)
      close == Find(s, p + 2, {"}"})
      end == IF next \in NameChars
               THEN CHOOSE k \in p + 2 .. Len(s) + 1 : /\ CharAt(s, k) \notin NameChars
                                                       /\ \A j \in p + 1 .. k - 1 : s[j] \in NameChars
               ELSE p + 1
      braced == Braced(sh.env, SubSeq(s, p + 2, close - 1))
  IN  CASE p > Len(s) -> [text |-> << >>, env |-> sh.env]
        [] p <= Len(s) /\ Toggles(c) -> Behind(<<c>>, ExpandFrom(sh, s, p + 1, ~quoted))
        [] p <= Len(s) /\ ~Toggles(c) /\ (quoted \/ (c # "$" /\ ~(c = Backslash /\ next = "$"))) ->
             Behind(<<c>>, ExpandFrom(sh, s, p + 1, quoted))
        [] ~quoted /\ c = Backslash /\ next = "$" -> Behind(<<c, "$">>, ExpandFrom(sh, s, p + 2, FALSE))
        [] OTHER ->
             CASE next = "?" -> Behind(sh.lastExitCode, ExpandFrom(sh, s, p + 2, FALSE))
               [] next = "$" -> Behind(<<"1">>, ExpandFrom(sh, s, p + 2, FALSE))
               [] next = "{" /\ close > Len(s) -> Behind(<<"$", "{">>, ExpandFrom(sh, s, p + 2, FALSE))
               [] next = "{" /\ close <= Len(s) ->
                    Behind(braced.text, ExpandFrom([sh EXCEPT !.env = braced.env], s, close + 1, FALSE))
               [] OTHER -> Behind(IF end = p + 1 THEN <<"$">> ELSE Value(sh.env, SubSeq(s, p + 1, end - 1)),
                                  ExpandFrom(sh, s, end, FALSE))
Expand(sh, s) == ExpandFrom(sh, s, 1, FALSE)

\* A reference to the variable a, how it is written, and what it stands for.
Spelled(ref) ==
  CASE ref \in {"?", "$"} -> <<"$", ref>>
    [] ref = "name" -> <<"$", "a", " ">>
    [] ref = "braced" -> <<"$", "{", "a", "}">>
    [] OTHER -> <<"$", "{", "a", ":", ref, "v", "}">>
Stands(sh, ref) ==
  LET a == Value(sh.env, <<"a">>)
  IN  CASE ref = "?" -> sh.lastExitCode
        [] ref = "$" -> <<"1">>
        [] ref = "name" -> a \o <<" ">>
        [] ref = "braced" -> a
        [] ref \in {"-", "="} -> IF a = << >> THEN <<"v">> ELSE a
        [] ref = "+" -> IF a = << >> THEN << >> ELSE <<"v">>
LeftBy(sh, ref) ==
  IF ref = "=" /\ Value(sh.env, <<"a">>) = << >> THEN [sh EXCEPT !.env = (<<"a">> :> <<"v">>)] ELSE sh

-----------------------------------------------------------------------------
(***************************************************************************)
(* How a text is quoted, and how tokens are spelled.                       *)
(***************************************************************************)
\* Characters and how they are quoted: by backslashes, single or double quotes.
RECURSIVE Escaped(_, _)
Escaped(chars, these) ==
  IF chars = << >> THEN << >>
  ELSE (IF Head(chars) \in these THEN <<Backslash>> ELSE << >>) \o <<Head(chars)>> \o Escaped(Tail(chars), these)
Quoted(q) ==
  CASE q.how = Backslash -> Escaped(q.chars, {q.chars[k] : k \in 1 .. Len(q.chars)})
    [] q.how = Quote -> <<Quote>> \o q.chars \o <<Quote>>
    [] q.how = DoubleQuote -> <<DoubleQuote>> \o Escaped(q.chars, Escapable) \o <<DoubleQuote>>
RECURSIVE QuotedText(_), Meant(_)
QuotedText(qs) == IF qs = << >> THEN << >> ELSE Quoted(Head(qs)) \o QuotedText(Tail(qs))
Meant(qs) == IF qs = << >> THEN << >> ELSE Head(qs).chars \o Meant(Tail(qs))

\* Every token between blanks, every character of a word between quotes.
RECURSIVE SpellWord(_), Spell(_)
SpellWord(w) == IF w = << >> THEN << >>
                ELSE Quoted([chars |-> <<Head(w)>>, how |-> IF Head(w) = Quote THEN DoubleQuote ELSE Quote])
                       \o SpellWord(Tail(w))
Spell(ts) ==
  IF ts = << >> THEN << >>
  ELSE (IF Head(ts).type = "OPERATOR" THEN Head(ts).value
        ELSE <<Quote, Quote>> \o SpellWord(Head(ts).value)) \o <<" ">> \o Spell(Tail(ts))
=============================================================================
