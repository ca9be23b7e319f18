----------------------------- MODULE Algorithms -----------------------------
(***************************************************************************)
(* The pure parts of the packages, each applied to every input there is    *)
(* within the bounds.  input.of names the part; text, and what else the    *)
(* part reads, grows one piece at a time.                                  *)
(***************************************************************************)
EXTENDS Integers, Sequences, FiniteSets, TLC

CONSTANTS
  MaxTokens,    \* bound on the tokens parsed
  MaxText,      \* bound on the characters tokenized
  MaxQuoted,    \* bound on the quotations, of one or two characters
  MaxReferences,\* bound on the references to variables
  MaxSegments,  \* bound on the segments of a glob pattern
  MaxPath,      \* bound on the length of a path
  MaxTarget,    \* bound on that of the other path
  MaxStream,    \* bound on the text that comes in chunks
  Tree          \* what the directories hold, see ShellGlob

P == INSTANCE ShellParser
T == INSTANCE ShellTokens
G == INSTANCE ShellGlob
N == INSTANCE NodePath
X == INSTANCE NodeText

VARIABLE input

Tokens == {"w", "2", "|", "&&", ";", ">", "&", "(", ")", "NL"}
Chars == {"a", " ", "sq", "dq", "bs", "|", ">", "#", "NL"}
QuotedChars == {"a", "$", "sq", "dq", "bs", ">", "#", "NL"}
Quotations ==
  {q \in [chars : {<<c>> : c \in QuotedChars} \cup (QuotedChars \X QuotedChars), how : {"sq", "dq", "bs"}] :
     \A k \in 1 .. Len(q.chars) : (q.how = "bs" => q.chars[k] # "NL") /\ (q.how = "sq" => q.chars[k] # "sq")}
References == {"name", "braced", "-", "+", "=", "?", "$"}
Segments == {<<"a">>, <<"*">>, <<"*", "*">>, <<"?">>, <<"*", "b">>, <<"a", "*">>, <<".", "*">>, <<"[">>, <<"*", "?", "*">>}
PathChars == {"/", ".", "a"}
LineChars == {"a", "CR", "LF"}
QueryChars == {"a", "+", " ", "&", "=", "%"}
\* A character of len bytes, kept of which are there.
Characters == {c \in [len : 1 .. 4, kept : 1 .. 4] : c.kept <= c.len}

Of(part, text) == [of |-> part, text |-> text]
AlgorithmsInit ==
  input \in {Of(part, << >>) : part \in {"parser", "tokens", "quotes", "expansion", "glob", "path", "query"}}
        \cup {[of |-> part, text |-> << >>, cuts |-> {}] : part \in {"decoder", "lines", "bytes"}}

Grow(part, pieces, bound) ==
  /\ input.of = part /\ Len(input.text) < bound
  /\ \E x \in pieces : input' = [input EXCEPT !.text = Append(@, x)]

\* More than one token behind an error changes nothing.
Viable == LET r == P!Parse(input.text) IN r.ok \/ r.at >= Len(input.text)
GrowTokens == input.of = "parser" /\ Viable /\ Grow("parser", Tokens, MaxTokens)
GrowText == Grow("tokens", Chars, MaxText)
GrowQuotes == Grow("quotes", Quotations, MaxQuoted)
\* References between single quotes or without quotes.
GrowReferences == Grow("expansion", [ref : References, quoted : BOOLEAN], MaxReferences)
GrowPattern == Grow("glob", Segments, MaxSegments)
GrowPath == Grow("path", PathChars, MaxPath)
\* A second path, once the first is complete.
GrowTarget ==
  /\ input.of \in {"path", "paths"} /\ (input.of = "paths" => Len(input.to) < MaxTarget)
  /\ \E x \in PathChars :
       input' = [of |-> "paths", text |-> input.text,
                 to |-> Append(IF input.of = "path" THEN << >> ELSE input.to, x)]
\* The bytes of the k-th piece of a stream.
PieceBytes(part, k, x) ==
  CASE part = "decoder" -> SubSeq(X!BytesOf(ToString(k), x.len), 1, x.kept)
    [] part = "lines" -> <<x>>
    [] part = "bytes" -> X!BytesOf(x, IF x = "wide" THEN 2 ELSE 1)
InPieces(part, t) == [k \in 1 .. Len(t) |-> PieceBytes(part, k, t[k])]
\* The next piece comes in the same chunk or in a new one, or is cut itself; no
\* other follows an incomplete character.
GrowStream(part, pieces) ==
  /\ input.of = part /\ Len(input.text) < MaxStream
  /\ part = "decoder" => \A k \in 1 .. Len(input.text) : input.text[k].kept = input.text[k].len
  /\ \E x \in pieces, more \in SUBSET {0, 1, 2, 3} :
       LET start == Len(X!FlattenSeq(InPieces(part, input.text)))
       IN  /\ \A j \in more : j < Len(PieceBytes(part, 1, x))
           /\ input' = [input EXCEPT !.text = Append(@, x), !.cuts = @ \cup {start + j : j \in more}]
GrowEntries ==
  /\ input.of = "query" /\ Len(input.text) < 2
  /\ \E key \in {<< >>, X!Inherited} \cup {<<c>> : c \in QueryChars}, first \in {<< >>, <<"a">>} \cup {<<c, "a">> : c \in QueryChars} :
       /\ \A k \in 1 .. Len(input.text) : input.text[k].key # key
       /\ \E values \in {<<first>>, <<first, key>>} :
            input' = [input EXCEPT !.text = Append(@, [key |-> key, values |-> values])]

AlgorithmsNext ==
  \/ GrowTokens \/ GrowText \/ GrowQuotes \/ GrowReferences \/ GrowPattern \/ GrowPath \/ GrowTarget
  \/ GrowStream("decoder", Characters) \/ GrowStream("lines", LineChars)
  \/ GrowStream("bytes", LineChars \cup {"wide"}) \/ GrowEntries

-----------------------------------------------------------------------------
(***************************************************************************)
(* Correctness.                                                            *)
(***************************************************************************)
Is(part) == input.of = part
text == input.text

\* The parser accepts what the grammar in its comments describes, no more and no
\* less (parser.ts: list, sequence, pipeline_or_bg, pipeline, command).
ParsesItsGrammar == Is("parser") => (P!Parse(text).ok <=> P!IsProgram(text))

\* A tree, written down again, is parsed to the same tree: no two readings.
Count(t, x) == Len(SelectSeq(t, LAMBDA y : y = x))
TreeIsText ==
  Is("parser") =>
    LET r == P!Parse(text) IN
    r.ok => /\ P!Parse(P!Unparse(r.node)).node = r.node
            /\ \A x \in P!Words \cup P!Arrows : Count(P!Unparse(r.node), x) = Count(text, x)

\* Tokens spelled with blanks between them and their words quoted are read as the
\* same tokens, whatever quotes, escapes and comments they came from.
TokensAreText == Is("tokens") => T!Tokenize(T!Spell(T!Tokenize(text))) = T!Tokenize(text)

\* Quoted text is one word, itself.  Before it is cut into words, variables are
\* expanded in it, and expandVariables takes every apostrophe for a single quote,
\* also one between double quotes or behind a backslash: behind an odd number of
\* those, what stands between single quotes is expanded (shell.ts:279-290).
Shells == {[env |-> env, lastExitCode |-> <<"0">>] : env \in {<< >>, (<<"a">> :> <<">", "a">>)}}
Apostrophes(q) == IF q.how = "sq" THEN 0 ELSE Len(SelectSeq(q.chars, LAMBDA c : c = "sq"))
Misread(qs) ==
  \E k \in 1 .. Len(qs) :
    /\ qs[k].how = "sq" /\ \E j \in 1 .. Len(qs[k].chars) : qs[k].chars[j] = "$"
    /\ X!FoldLeft(LAMBDA n, q : n + Apostrophes(q), 0, SubSeq(qs, 1, k - 1)) % 2 = 1
QuotedIsLiteral ==
  Is("quotes") /\ text # << >> =>
    /\ T!Tokenize(T!QuotedText(text)) = <<T!WordToken(T!Meant(text))>>
    /\ ~Misread(text) => \A sh \in Shells : T!Expand(sh, T!QuotedText(text)).text = T!QuotedText(text)

\* References between single quotes stay, the others are replaced by what they
\* stand for, each in the environment the ones before it have left.
ReferencesStand ==
  Is("expansion") =>
    \A sh \in Shells :
      LET shell[k \in 0 .. Len(text)] ==
            IF k = 0 THEN sh ELSE IF text[k].quoted THEN shell[k - 1] ELSE T!LeftBy(shell[k - 1], text[k].ref)
          quoted(r) == <<T!Quote>> \o r \o <<T!Quote>>
          spelled(k) == IF text[k].quoted THEN quoted(T!Spelled(text[k].ref)) ELSE T!Spelled(text[k].ref)
          meant(k) == IF text[k].quoted THEN spelled(k) ELSE T!Stands(shell[k - 1], text[k].ref)
          all(f(_)) == X!FlattenSeq([k \in 1 .. Len(text) |-> f(k)])
      IN  T!Expand(sh, all(spelled)) = [text |-> all(meant), env |-> shell[Len(text)].env]

\* A pattern is replaced by the paths it matches, by itself if there are none.
GlobFindsMatches ==
  Is("glob") /\ G!HasGlobChars(text) =>
    LET matches == {p \in DOMAIN Tree \cup {<< >>} : G!PathMatches(Tree, text, p)}
    IN  G!ExpandGlob(Tree, text) = IF matches = {} THEN G!Literal ELSE matches

\* The relative path from one path to another leads there.
RelativeLeadsThere == Is("paths") => N!Resolve2(text, N!Relative(text, input.to)) = N!Resolve1(input.to)

\* Directory and name of a path make up the path, and so does what parse() takes
\* from it; the name is never part of the extension.
PartsMakeThePath ==
  Is("path") /\ text # << >> =>
    LET o == N!ParsePath(text)
        whole == N!Normalize(text)
    IN  /\ N!Same(N!Join(o.dir, o.base), whole)
        /\ N!Same(N!Normalize(N!FormatPath([o EXCEPT !.base = << >>])), whole)
        /\ N!Normalize(whole) = whole
        /\ o.ext # << >> => o.name # << >>

\* However bytes are cut into chunks, the decoder tears no character and no group;
\* a last character that never becomes complete is replaced by one other.
ChunksDoNotMatter ==
  Is("decoder") =>
    LET bytes == X!FlattenSeq(InPieces("decoder", text))
        chunks == X!Chunks(bytes, input.cuts)
    IN  /\ X!DecodeUtf8(chunks) =
             [k \in 1 .. Len(text) |-> IF text[k].kept = text[k].len THEN ToString(k) ELSE X!Bad]
        /\ X!DecodeBase64(chunks) = X!Groups(bytes)

\* However text is cut into chunks, readline emits its lines.  Chunks of bytes it
\* turns into text one by one (readline.ts:58): a character cut in two is replaced
\* by two others, and no line is lost or made by that.
LinesAreWhole ==
  /\ Is("lines") => X!ReadLines("text", X!Chunks(text, input.cuts)) = X!LinesOf(text)
  /\ Is("bytes") =>
       LET pieces == InPieces("bytes", text)
           from(k) == Len(X!FlattenSeq(SubSeq(pieces, 1, k - 1)))
           torn(k) == Len(pieces[k]) = 2 /\ from(k) + 1 \in input.cuts
           read(k) == IF torn(k) THEN <<X!Bad, X!Bad>> ELSE <<text[k]>>
       IN  X!ReadLines("bytes", X!Chunks(X!FlattenSeq(pieces), input.cuts)) =
             X!LinesOf(X!FlattenSeq([k \in 1 .. Len(text) |-> read(k)]))

\* What querystring writes it reads again, as many values as maxKeys allows, all of
\* them if it is 0 (querystring.ts:20).  Of a name that every object inherits, what
\* is inherited is taken for a value that was there before (querystring.ts:37).
QueriesRoundTrip ==
  Is("query") =>
    \A maxKeys \in {0, 1, 2, 3, 1000} :
      LET kept == IF maxKeys = 0 THEN text ELSE X!FirstValues(text, maxKeys)
          read(e) == IF e.key = X!Inherited THEN [e EXCEPT !.values = <<X!InheritedValue>> \o @] ELSE e
      IN  X!ParseQuery(X!Stringify(text), maxKeys) = [k \in 1 .. Len(kept) |-> read(kept[k])]

\* The text of a line means what the grammar, the quotes and the patterns in it say
\* (tokenizer.ts, parser.ts, glob.ts, expandVariables).
ShellReadsText ==
  /\ ParsesItsGrammar /\ TreeIsText
  /\ TokensAreText /\ QuotedIsLiteral /\ ReferencesStand
  /\ GlobFindsMatches

\* Paths, chunks of text and queries survive being taken apart and put together
\* (path.ts, string_decoder.ts, readline.ts, querystring.ts).
TextSurvives ==
  /\ RelativeLeadsThere /\ PartsMakeThePath
  /\ ChunksDoNotMatter /\ LinesAreWhole
  /\ QueriesRoundTrip
=============================================================================
