------------------------------ MODULE NodeText ------------------------------
(***************************************************************************)
(* Shims that read text as it comes, in chunks: StringDecoder, which must  *)
(* not tear a character (or a group of base64) at the end of a chunk, and  *)
(* readline, which must not tear a line; and querystring, which writes     *)
(* what it can read again.                                                 *)
(***************************************************************************)
EXTENDS Integers, Sequences, SequencesExt

-----------------------------------------------------------------------------
(***************************************************************************)
(* StringDecoder.  A byte is [of, at, len]: the at-th of the len bytes of  *)
(* character of.  The decoder holds back what it takes for an incomplete   *)
(* character: last, of which need bytes are missing.  A byte order mark is *)
(* not among the characters.                                               *)
(***************************************************************************)
Byte(of, at, len) == [of |-> of, at |-> at, len |-> len]
BytesOf(of, len) == [at \in 1 .. len |-> Byte(of, at, len)]
Bad == "bad"   \* the replacement character

\* toString('utf8'): a character, or a replacement for as much of one as is there.
RECURSIVE Utf8(_)
Utf8(bytes) ==
  IF bytes = << >> THEN << >>
  ELSE LET b == bytes[1]
           whole == BytesOf(b.of, b.len)
           there == {k \in 1 .. Min({b.len, Len(bytes)}) : SubSeq(bytes, 1, k) = SubSeq(whole, 1, k)}
           n == IF there = {} THEN 1 ELSE Max(there)
       IN  <<IF SubSeq(bytes, 1, n) = whole THEN b.of ELSE Bad>> \o Utf8(SubSeq(bytes, n + 1, Len(bytes)))
\* toString('base64'): groups of three bytes.
Groups(bytes) == [k \in 1 .. (Len(bytes) + 2) \div 3 |->
                    SubSeq(bytes, 3 * k - 2, IF 3 * k > Len(bytes) THEN Len(bytes) ELSE 3 * k)]

NewDecoder == [last |-> << >>, need |-> 0, out |-> << >>]

\* Where the last character of a chunk starts, and how many bytes it should have.
\* Mutant: a character of two bytes is not expected.
ExpectsShort(lead) == IF lead.at = 1 /\ lead.len > 2 THEN lead.len ELSE 1
Expects(lead) == IF lead.at = 1 THEN lead.len ELSE 1
StartOfLast(bytes) ==
  LET leads == {k \in 1 .. Len(bytes) : k = 1 \/ bytes[k].at = 1}
  IN  CHOOSE k \in leads : \A j \in leads : j <= k

\* write(): completes what was held back, decodes, and holds back the rest.
Completed(d, chunk, toText(_)) ==
  LET n == IF d.need < Len(chunk) THEN d.need ELSE Len(chunk)
      last == d.last \o SubSeq(chunk, 1, n)
  IN  [d EXCEPT !.last = last, !.need = @ - n,
                !.out = IF d.need > 0 /\ d.need = n THEN @ \o toText(last) ELSE @]
Rest(d, chunk) == IF d.need > Len(chunk) THEN << >> ELSE SubSeq(chunk, d.need + 1, Len(chunk))

WriteUtf8(d, chunk) ==
  LET c == Completed(d, chunk, Utf8)
      rest == Rest(d, chunk)
      k == StartOfLast(rest)
      want == Expects(rest[k])
      torn == rest[Len(rest)].len > 1 /\ Len(rest) - k + 1 < want
  IN  IF chunk = << >> THEN d
      ELSE IF rest = << >> THEN c
      ELSE IF torn THEN [last |-> SubSeq(rest, k, Len(rest)), need |-> want - (Len(rest) - k + 1),
                         out |-> c.out \o Utf8(SubSeq(rest, 1, k - 1))]
      ELSE [c EXCEPT !.out = @ \o Utf8(rest)]

WriteBase64(d, chunk) ==
  LET c == Completed(d, chunk, Groups)
      rest == Rest(d, chunk)
      whole == 3 * (Len(rest) \div 3)
      out == c.out \o Groups(SubSeq(rest, 1, whole))
  IN  IF chunk = << >> THEN d
      ELSE IF whole = Len(rest) THEN [c EXCEPT !.out = out]
      ELSE [last |-> SubSeq(rest, whole + 1, Len(rest)), need |-> 3 - (Len(rest) - whole), out |-> out]

\* end()
EndUtf8(d) == IF d.need > 0 THEN Append(d.out, Bad) ELSE d.out
EndBase64(d) == IF d.need > 0 THEN d.out \o Groups(d.last) ELSE d.out

\* The chunks of a sequence that is cut behind these places.
RECURSIVE ChunksFrom(_, _, _)
ChunksFrom(s, cuts, k) ==
  LET ends == {j \in cuts : j >= k /\ j < Len(s)}
      end == IF ends = {} THEN Len(s) ELSE CHOOSE j \in ends : \A i \in ends : j <= i
  IN  IF k > Len(s) THEN << >> ELSE <<SubSeq(s, k, end)>> \o ChunksFrom(s, cuts, end + 1)
Chunks(s, cuts) == ChunksFrom(s, cuts, 1)

DecodeUtf8(chunks) == EndUtf8(FoldLeft(WriteUtf8, NewDecoder, chunks))
DecodeBase64(chunks) == EndBase64(FoldLeft(WriteBase64, NewDecoder, chunks))

-----------------------------------------------------------------------------
(***************************************************************************)
(* readline: data events and the end of the input.  A chunk is [as, of]:   *)
(* characters as text, or bytes, each chunk of which is turned into text   *)
(* by itself.                                                              *)
(***************************************************************************)
CR == "CR"
LF == "LF"
WithoutCR(line) == IF line # << >> /\ Last(line) = CR THEN Front(line) ELSE line

NewReadline == [buffer |-> << >>, lines |-> << >>]
RECURSIVE TakeLines(_)
TakeLines(rl) ==
  LET breaks == {k \in 1 .. Len(rl.buffer) : rl.buffer[k] = LF}
      k == CHOOSE j \in breaks : \A i \in breaks : j <= i
  IN  IF breaks = {} THEN rl
      ELSE TakeLines([buffer |-> SubSeq(rl.buffer, k + 1, Len(rl.buffer)),
                      lines |-> Append(rl.lines, WithoutCR(SubSeq(rl.buffer, 1, k - 1)))])
\* Mutant: what is left of a chunk is forgotten.
TextOf(chunk) == IF chunk.as = "bytes" THEN Utf8(chunk.of) ELSE chunk.of
DataForgets(rl, chunk) == TakeLines([rl EXCEPT !.buffer = TextOf(chunk)])
Data(rl, chunk) == TakeLines([rl EXCEPT !.buffer = @ \o TextOf(chunk)])
EndOfInput(rl) == IF rl.buffer = << >> THEN rl.lines ELSE Append(rl.lines, WithoutCR(rl.buffer))
ReadLines(as, chunks) ==
  EndOfInput(FoldLeft(Data, NewReadline, [k \in 1 .. Len(chunks) |-> [as |-> as, of |-> chunks[k]]]))

\* The lines of a text: what ends with a line feed, and what is left.
FirstOf(s, c) == CHOOSE k \in 1 .. Len(s) + 1 : /\ k = Len(s) + 1 \/ s[k] = c
                                                /\ \A j \in 1 .. k - 1 : s[j] # c
RECURSIVE SplitOn(_, _)
SplitOn(s, c) ==
  IF FirstOf(s, c) > Len(s) THEN <<s>>
  ELSE <<SubSeq(s, 1, FirstOf(s, c) - 1)>> \o SplitOn(SubSeq(s, FirstOf(s, c) + 1, Len(s)), c)
LinesOf(s) ==
  LET parts == SplitOn(s, LF)
      lines == IF Last(parts) = << >> THEN Front(parts) ELSE parts
  IN  [k \in 1 .. Len(lines) |-> WithoutCR(lines[k])]

-----------------------------------------------------------------------------
(***************************************************************************)
(* querystring.  What is parsed has been written by stringify, so nothing  *)
(* in it fails to decode.                                                  *)
(***************************************************************************)
Escapes == [c \in {"+", "&", "=", "%"} |->
              CASE c = "+" -> "%2B" [] c = "&" -> "%26" [] c = "=" -> "%3D" [] c = "%" -> "%25"]
EncodeChar(c) == IF c = " " THEN "+" ELSE IF c \in DOMAIN Escapes THEN Escapes[c] ELSE c
EncodeText(s) == [k \in 1 .. Len(s) |-> EncodeChar(s[k])]
Unescape(c) == LET from == {x \in DOMAIN Escapes : Escapes[x] = c} IN IF from = {} THEN c ELSE CHOOSE x \in from : TRUE
\* Mutant: a plus sign is left alone.
DecodeCharPlus(c) == Unescape(c)
DecodeChar(c) == IF c = "+" THEN " " ELSE Unescape(c)
DecodeText(s) == [k \in 1 .. Len(s) |-> DecodeChar(s[k])]

\* An object: its entries, each a key with the list of its values.
PairsOf(entry) == [k \in 1 .. Len(entry.values) |->
                     EncodeText(entry.key) \o <<"=">> \o EncodeText(entry.values[k])]
RECURSIVE WithAmpersands(_)
WithAmpersands(pairs) ==
  IF pairs = << >> THEN << >> ELSE IF Len(pairs) = 1 THEN pairs[1]
  ELSE pairs[1] \o <<"&">> \o WithAmpersands(Tail(pairs))
Stringify(entries) == WithAmpersands(FlattenSeq([k \in 1 .. Len(entries) |-> PairsOf(entries[k])]))

\* What every object has from its prototype, by its name; key in result finds it.
Inherited == <<"toString">>
InheritedValue == <<"function">>
\* A pair joins the values of its key, those inherited included, or is a new entry.
\* Mutant: the last value of a key is kept.
AddPairLast(entries, key, value) ==
  LET there == {k \in 1 .. Len(entries) : entries[k].key = key}
  IN  IF there = {} THEN Append(entries, [key |-> key, values |-> <<value>>])
      ELSE [k \in 1 .. Len(entries) |-> IF k \in there THEN [key |-> key, values |-> <<value>>] ELSE entries[k]]
AddPair(entries, key, value) ==
  LET there == {k \in 1 .. Len(entries) : entries[k].key = key}
      before == IF key = Inherited THEN <<InheritedValue>> ELSE << >>
  IN  IF there = {} THEN Append(entries, [key |-> key, values |-> Append(before, value)])
      ELSE [k \in 1 .. Len(entries) |->
              IF k \in there THEN [entries[k] EXCEPT !.values = Append(@, value)] ELSE entries[k]]
ParsePair(entries, pair) ==
  LET at == FirstOf(pair, "=")
  IN  AddPair(entries, DecodeText(SubSeq(pair, 1, at - 1)), DecodeText(SubSeq(pair, at + 1, Len(pair))))
\* Mutant: one pair too few.
LimitShort(maxKeys, n) == IF maxKeys > 0 THEN Min({maxKeys - 1, n}) ELSE n
Limit(maxKeys, n) == IF maxKeys > 0 THEN Min({maxKeys, n}) ELSE n
ParseQuery(s, maxKeys) ==
  IF s = << >> THEN << >>
  ELSE LET pairs == SplitOn(s, "&") IN FoldLeft(ParsePair, << >>, SubSeq(pairs, 1, Limit(maxKeys, Len(pairs))))

\* The entries the first n values of these make.
FirstValues(entries, n) ==
  LET before(k) == FoldLeft(LAMBDA x, e : x + Len(e.values), 0, SubSeq(entries, 1, k - 1))
      cut(k) == [entries[k] EXCEPT !.values = SubSeq(@, 1, Min({Len(@), n - before(k)}))]
  IN  SelectSeq([k \in 1 .. Len(entries) |-> cut(k)], LAMBDA e : e.values # << >>)
=============================================================================
