----------------------------- MODULE PayloadCodec -----------------------------
(***************************************************************************)
(* The layout of a message in the payload area of a shared buffer, byte by *)
(* byte: a length word, that many bytes of metadata text and, if there is  *)
(* binary data, another length word and the data.  A buffer is used over   *)
(* and over and never cleared in between, so a message is written on top   *)
(* of what earlier ones left.  Scaled down: a word has two bytes of Base   *)
(* values each.                                                            *)
(***************************************************************************)
EXTENDS Integers, Sequences

CONSTANTS
  Size,     \* bytes in the payload area
  Base,     \* values of a byte
  Texts,    \* metadata texts, as byte sequences
  Binaries  \* binary data, as byte sequences

Bytes == 0 .. Base - 1

ASSUME CodecAssumption ==
  /\ Size \in Nat /\ Base \in Nat \ {0, 1}
  /\ Texts \cup Binaries \subseteq Seq(Bytes)
  /\ \A t \in Texts \cup Binaries : Len(t) < Base * Base
  /\ \A t \in Texts : Len(t) > 0

VARIABLES sab,  \* the payload area
          sent  \* the arguments of the last call of encodePayload (history)

codecVars == <<sab, sent>>

Area == 0..(Size - 1)
Word == 2

WordAt(b, at) == b[at] + Base * b[at + 1]
WordBytes(n) == << n % Base, (n \div Base) % Base >>

\* TypedArray.set, which writes all or throws.
RoomFor(at, bytes) == at + Len(bytes) <= Size
Put(b, at, bytes) ==
  [i \in Area |-> IF i \in at..(at + Len(bytes) - 1) THEN bytes[i - at + 1] ELSE b[i]]

\* TypedArray.slice, which stops at the end of the buffer.
Slice(b, from, to) ==
  LET end == IF to < Size THEN to ELSE Size
  IN  [i \in 1..(IF end > from THEN end - from ELSE 0) |-> b[from + i - 1]]

-----------------------------------------------------------------------------
(***************************************************************************)
(* encodePayload: the buffer it leaves, and whether it throws on the way.  *)
(***************************************************************************)
\* Mutant: the length counts its own word.
LengthWithWord(t) == Len(t) + Word
LengthOf(t) == Len(t)

WithMeta(b, meta) == Put(Put(b, 0, WordBytes(LengthOf(meta))), Word, meta)

\* Mutant: the data follows the metadata without a length word of its own.
WithBareBinary(b, at, bin) == Put(b, at, bin)
WithBinary(b, at, bin) == Put(Put(b, at, WordBytes(Len(bin))), at + Word, bin)

BinaryAt(meta) == Word + Len(meta)

\* What a failing write of binary data leaves: its length, if there is room.
\* Mutant: the length is cut down to the room there is.
LeftBehindCut(b, at, bin) ==
  IF at + Word < Size THEN Put(b, at, WordBytes(Size - at - Word - 1)) ELSE b
LeftBehind(b, at, bin) ==
  IF at + Word <= Size THEN Put(b, at, WordBytes(Len(bin))) ELSE b

Encoded(b, meta, bin) ==
  LET at == BinaryAt(meta)
      m == WithMeta(b, meta)
  IN  IF ~RoomFor(Word, meta)
      THEN [to |-> Put(b, 0, WordBytes(LengthOf(meta))), result |-> "no room for metadata"]
      ELSE IF bin = << >>
      THEN [to |-> m, result |-> "encoded"]
      ELSE IF ~RoomFor(at + Word, bin)
      THEN [to |-> LeftBehind(m, at, bin), result |-> "no room for binary"]
      ELSE [to |-> WithBinary(m, at, bin), result |-> "encoded"]

(***************************************************************************)
(* decodePayload.  A slice that is none of the texts does not parse.       *)
(***************************************************************************)
\* No binary data (null): data that is there has at least one byte.
None == << >>
\* The binary data found at an offset: as many bytes as the word there says, if
\* they end before the last byte of the buffer.
BinaryIn(b, at) ==
  LET length == WordAt(b, at)
  IN  IF at + Word <= Size /\ length > 0 /\ length < Size - at - Word
      THEN Slice(b, at + Word, at + Word + length)
      ELSE None

Decoded(b) ==
  LET metaLength == WordAt(b, 0)
      meta == Slice(b, Word, Word + metaLength)
  IN  [meta |-> meta, parses |-> meta \in Texts, binary |-> BinaryIn(b, Word + metaLength)]

-----------------------------------------------------------------------------
Zeroes == [i \in Area |-> 0]

NothingSent == << >>

CodecInit == sab = Zeroes /\ sent = NothingSent

Encode(meta, bin) == sab' = Encoded(sab, meta, bin).to /\ sent' = <<meta, bin>>

\* SABPool.allocate hands the buffer to a new process.
Clear == sab' = Zeroes /\ sent' = NothingSent

CodecNext == Clear \/ \E meta \in Texts, bin \in Binaries : Encode(meta, bin)

CodecSpec == CodecInit /\ [][CodecNext]_codecVars

-----------------------------------------------------------------------------
(***************************************************************************)
(* What a message written over b is read as, with what the code loses and  *)
(* makes up spelled out: of data that fills the buffer to its last byte    *)
(* nothing is found, and a message without data is read with whatever the  *)
(* bytes behind its text say, which encodePayload does not touch: data of  *)
(* an older message, or a piece of an older text.  (The fates "own",       *)
(* "lost" and "old" of module SyscallBridge.)                              *)
(***************************************************************************)
BinaryOf(b, meta, bin) ==
  LET at == BinaryAt(meta)
  IN  IF bin = << >> THEN BinaryIn(b, at)
      ELSE IF at + Word + Len(bin) < Size THEN bin ELSE None

\* Data that does not fit is dropped, with the text as it was meant: the answer
\* the process finds when sendResponse threw ("clobbered" in SyscallBridge).
Exact(b, meta, bin) ==
  LET e == Encoded(b, meta, bin)
      d == Decoded(e.to)
  IN  /\ e.result = "encoded" =>
           d.parses /\ d.meta = meta /\ d.binary = BinaryOf(b, meta, bin)
      /\ e.result = "no room for binary" => d.parses /\ d.meta = meta /\ d.binary = None

\* Whatever calls wrote into the buffer before, the next message is read back with
\* its own text, and with its own data unless it has none, or too much of it; then
\* the data read is exactly that of BinaryOf.
RoundTrips == [][sent' # NothingSent => Exact(sab, sent'[1], sent'[2])]_codecVars
=============================================================================
