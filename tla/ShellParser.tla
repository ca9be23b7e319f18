---------------------------- MODULE ShellParser ----------------------------
(***************************************************************************)
(* The parser of the shell (recursive descent, one token of look-ahead).   *)
(* A token is its text; a word is one of Words, and a word that is a       *)
(* number may be the descriptor of the redirection behind it.              *)
(*                                                                         *)
(* A rule applied to the tokens t at position p returns where it stopped   *)
(* and the node it built, or Failed with the position of the error.        *)
(***************************************************************************)
EXTENDS Naturals, Sequences

Numbers == {"2"}
Words == {"w"} \cup Numbers
Arrows == {">", ">>", "<"}
EOF == "EOF"

\* peek(): behind the last token there is always the end.
At(t, p) == IF p > Len(t) THEN EOF ELSE t[p]
Parsed(node, p) == [ok |-> TRUE, node |-> node, at |-> p]
Failed(p) == [ok |-> FALSE, at |-> p]
\* An error ends the rule it came up in.
Then(r, Continue(_)) == IF r.ok THEN Continue(r) ELSE r

RECURSIVE SkipNewlines(_, _)
SkipNewlines(t, p) == IF At(t, p) = "NL" THEN SkipNewlines(t, p + 1) ELSE p

CommandNode(words, redirects) == [type |-> "command", words |-> words, redirects |-> redirects]
SubshellNode(body, redirects) == [type |-> "subshell", body |-> body, redirects |-> redirects]
PipelineNode(commands) == [type |-> "pipeline", commands |-> commands]
BackgroundNode(command) == [type |-> "background", command |-> command]
SequenceNode(left, operator, right) ==
  [type |-> "sequence", left |-> left, operator |-> operator, right |-> right]

\* An arrow at p and its file; fd is that of the arrow unless one was given.
DefaultFd(op) == IF op = "<" THEN "0" ELSE "1"
\* Mutant: the descriptor is always that of the arrow.
RedirectDefault(t, p, fd) ==
  IF At(t, p + 1) \in Words
    THEN Parsed([op |-> t[p], file |-> t[p + 1], fd |-> DefaultFd(t[p])], p + 2)
    ELSE Failed(p + 1)
Redirect(t, p, fd) ==
  IF At(t, p + 1) \in Words
    THEN Parsed([op |-> t[p], file |-> t[p + 1], fd |-> fd], p + 2)
    ELSE Failed(p + 1)

\* The redirections behind a subshell.
RECURSIVE ParseRedirects(_, _, _)
ParseRedirects(t, p, redirects) ==
  IF At(t, p) \notin Arrows THEN Parsed(redirects, p)
  ELSE Then(Redirect(t, p, DefaultFd(t[p])),
            LAMBDA r : ParseRedirects(t, r.at, Append(redirects, r.node)))

IsFdRedirect(t, p) == At(t, p) \in Numbers /\ At(t, p + 1) \in Arrows

\* Words and redirections, in any order.
RECURSIVE ParseSimple(_, _, _, _)
ParseSimple(t, p, words, redirects) ==
  LET redirect == IF IsFdRedirect(t, p) THEN Redirect(t, p + 1, t[p]) ELSE Redirect(t, p, DefaultFd(t[p]))
  IN  CASE At(t, p) \in Arrows \/ IsFdRedirect(t, p) ->
             Then(redirect, LAMBDA r : ParseSimple(t, r.at, words, Append(redirects, r.node)))
        [] At(t, p) \in Words /\ ~IsFdRedirect(t, p) ->
             ParseSimple(t, p + 1, Append(words, t[p]), redirects)
        [] OTHER -> IF words = << >> THEN Failed(p) ELSE Parsed(CommandNode(words, redirects), p)

\* The rules below a list take the function list, which answers for every
\* position what parseList makes of the tokens from there on.
ParseCommand(t, p, list) ==
  IF At(t, p) # "(" THEN ParseSimple(t, p, << >>, << >>)
  ELSE Then(list[SkipNewlines(t, p + 1)], LAMBDA body :
         IF At(t, body.at) # ")" THEN Failed(body.at)
         ELSE Then(ParseRedirects(t, body.at + 1, << >>), LAMBDA r :
                Parsed(SubshellNode(body.node, r.node), r.at)))

\* Mutant: no line may end behind a pipe.
AfterPipeHere(t, p) == p
AfterPipe(t, p) == SkipNewlines(t, p)

RECURSIVE ParsePipeline(_, _, _, _)
ParsePipeline(t, p, commands, list) ==
  Then(ParseCommand(t, p, list), LAMBDA c :
    IF At(t, c.at) = "|" THEN ParsePipeline(t, AfterPipe(t, c.at + 1), Append(commands, c.node), list)
    ELSE Parsed(IF commands = << >> THEN c.node ELSE PipelineNode(Append(commands, c.node)), c.at))

ParsePipelineOrBackground(t, p, list) ==
  Then(ParsePipeline(t, p, << >>, list), LAMBDA r :
    IF At(t, r.at) = "&" THEN Parsed(BackgroundNode(r.node), r.at + 1) ELSE r)

RECURSIVE MoreSequence(_, _, _)
MoreSequence(t, left, list) ==
  IF At(t, left.at) \notin {"&&", "||"} THEN left
  ELSE Then(ParsePipelineOrBackground(t, SkipNewlines(t, left.at + 1), list), LAMBDA right :
         MoreSequence(t, Parsed(SequenceNode(left.node, t[left.at], right.node), right.at), list))
ParseSequence(t, p, list) ==
  Then(ParsePipelineOrBackground(t, p, list), LAMBDA left : MoreSequence(t, left, list))

\* A separator may also be the last token.
RECURSIVE MoreList(_, _, _)
MoreList(t, left, list) ==
  LET p == SkipNewlines(t, left.at + 1) IN
  CASE At(t, left.at) \notin {"NL", ";"} -> left
    [] At(t, left.at) \in {"NL", ";"} /\ At(t, p) \in {EOF, ")"} -> Parsed(left.node, p)
    [] OTHER -> Then(ParseSequence(t, p, list), LAMBDA right :
                  MoreList(t, Parsed(SequenceNode(left.node, ";", right.node), right.at), list))
ParseList(t) ==
  LET list[p \in 1 .. Len(t) + 1] == Then(ParseSequence(t, p, list), LAMBDA left : MoreList(t, left, list))
  IN  list

\* The whole input; a line of nothing is Empty.
Empty == [type |-> "empty"]
Parse(t) ==
  LET p == SkipNewlines(t, 1) IN
  IF At(t, p) = EOF THEN Parsed(Empty, p)
  ELSE Then(ParseList(t)[p], LAMBDA list :
         LET end == SkipNewlines(t, list.at)
         IN  IF At(t, end) = EOF THEN Parsed(list.node, end) ELSE Failed(end))

-----------------------------------------------------------------------------
(***************************************************************************)
(* What the parser promises.                                               *)
(***************************************************************************)
RECURSIVE Flat(_)
Flat(ss) == IF ss = << >> THEN << >> ELSE Head(ss) \o Flat(Tail(ss))

\* The tokens of a tree, in the form it is written down without line breaks.
RedirectTokens(r) ==
  (IF r.fd = DefaultFd(r.op) THEN << >> ELSE <<r.fd>>) \o <<r.op, r.file>>
RECURSIVE Unparse(_)
Unparse(n) ==
  CASE n.type = "empty" -> << >>
    [] n.type = "command" -> Flat([i \in 1 .. Len(n.redirects) |-> RedirectTokens(n.redirects[i])]) \o n.words
    [] n.type = "subshell" ->
         <<"(">> \o Unparse(n.body) \o <<")">>
           \o Flat([i \in 1 .. Len(n.redirects) |-> RedirectTokens(n.redirects[i])])
    [] n.type = "pipeline" ->
         Unparse(n.commands[1]) \o Flat([i \in 1 .. Len(n.commands) - 1 |-> <<"|">> \o Unparse(n.commands[i + 1])])
    [] n.type = "background" -> Append(Unparse(n.command), "&")
    [] n.type = "sequence" -> Unparse(n.left) \o <<n.operator>> \o Unparse(n.right)

\* The grammar of the comments in parser.ts, as sets of token sequences.
Parts(t, seps) == {k \in 1 .. Len(t) : t[k] \in seps}
Trimmed(t) == LET n == {k \in 1 .. Len(t) : t[k] # "NL"}
              IN  IF n = {} THEN << >> ELSE SubSeq(t, CHOOSE k \in n : \A j \in n : k <= j, Len(t))
\* A simple command: words among redirections, at least one that is neither the
\* file nor the descriptor of a redirection.
IsSimple(t) ==
  /\ \A k \in 1 .. Len(t) : t[k] \in Words \cup Arrows
  /\ \A k \in 1 .. Len(t) : t[k] \in Arrows => k < Len(t) /\ t[k + 1] \in Words
  /\ \E k \in 1 .. Len(t) : /\ t[k] \in Words
                            /\ k > 1 => t[k - 1] \notin Arrows
                            /\ k < Len(t) /\ t[k + 1] \in Arrows => t[k] \notin Numbers
IsRedirects(t) ==
  /\ Len(t) % 2 = 0
  /\ \A k \in 1 .. Len(t) : IF k % 2 = 1 THEN t[k] \in Arrows ELSE t[k] \in Words
\* list says of every part of the program whether it is a list.
IsCommand(t, list) ==
  \/ IsSimple(t)
  \/ \E k \in 2 .. Len(t) : /\ t[1] = "(" /\ t[k] = ")" /\ IsRedirects(SubSeq(t, k + 1, Len(t)))
                            /\ list[Trimmed(SubSeq(t, 2, k - 1))]
RECURSIVE IsPipeline(_, _), IsSequence(_, _), IsItems(_, _)
IsPipeline(t, list) ==
  \/ IsCommand(t, list)
  \/ \E k \in Parts(t, {"|"}) :
       IsPipeline(SubSeq(t, 1, k - 1), list) /\ IsCommand(Trimmed(SubSeq(t, k + 1, Len(t))), list)
IsPipelineOrBackground(t, list) ==
  \/ IsPipeline(t, list)
  \/ t # << >> /\ t[Len(t)] = "&" /\ IsPipeline(SubSeq(t, 1, Len(t) - 1), list)
IsSequence(t, list) ==
  \/ IsPipelineOrBackground(t, list)
  \/ \E k \in Parts(t, {"&&", "||"}) :
       /\ IsSequence(SubSeq(t, 1, k - 1), list)
       /\ IsPipelineOrBackground(Trimmed(SubSeq(t, k + 1, Len(t))), list)
IsItems(t, list) ==
  \/ IsSequence(t, list)
  \/ \E k \in Parts(t, {";", "NL"}) :
       IsItems(SubSeq(t, 1, k - 1), list) /\ IsSequence(Trimmed(SubSeq(t, k + 1, Len(t))), list)
IsListOf(t, list) ==
  \/ IsItems(t, list)
  \/ \E k \in Parts(t, {";", "NL"}) :
       IsItems(SubSeq(t, 1, k - 1), list) /\ Trimmed(SubSeq(t, k + 1, Len(t))) = << >>
IsList(t) ==
  LET list[s \in {SubSeq(t, i, j) : i \in 1 .. Len(t) + 1, j \in 0 .. Len(t)}] == IsListOf(s, list)
  IN  list[t]
IsProgram(t) == Trimmed(t) = << >> \/ IsList(Trimmed(t))
=============================================================================
