------------------------------- MODULE MCPure -------------------------------
(***************************************************************************)
(* The pure parts, each on all inputs within bounds.  For the payload      *)
(* codec: an area of nine bytes, texts of one to eight bytes that, like    *)
(* JSON objects, end in a byte (3) that occurs nowhere else, up to four    *)
(* bytes of binary data.  For the others: three levels of directories with *)
(* hidden names, and versions and comparators around 0.1.1.                *)
(***************************************************************************)
EXTENDS PayloadCodec, Algorithms, VersionRanges

MCText(n) == [i \in 1..n |-> IF i = n THEN 3 ELSE 2]
MCTexts == {MCText(n) : n \in {1, 2, 3, 5, 7, 8}}
MCBinaries == UNION {[1..n -> {0, 1}] : n \in 0..4}

A == <<"a">>
AB == <<"a", "b">>
Dot == <<".", "a">>
MCTree ==
  [p \in {<<A>>, <<AB>>, <<Dot>>, <<A, A>>, <<A, AB>>, <<A, Dot>>, <<Dot, A>>, <<A, A, AB>>} |->
     IF p \in {<<A>>, <<Dot>>, <<A, A>>} THEN "dir" ELSE "file"]

Pre == {<< >>, <<SV!Number(1)>>, <<SV!Number(2)>>, <<SV!WordId(1)>>, <<SV!WordId(2)>>,
        <<SV!Number(1), SV!WordId(1)>>, <<SV!WordId(1), SV!Number(2)>>}
MCVersions == {SV!Version(a, b, c, << >>) : a \in 0 .. 1, b \in 0 .. 2, c \in 0 .. 1}
              \cup {SV!Version(0, 1, 1, p) : p \in Pre}
Partial == UNION {[1 .. k -> 0 .. 1] : k \in 1 .. 3} \cup {<<1, SV!Wild>>, <<0, 1, SV!Wild>>}
MCComparators ==
  {SV!Comparator(op, p, << >>) : op \in {SV!Bare, "=", ">", ">=", "<", "<=", "~", "^"}, p \in Partial}
  \cup {SV!Comparator(SV!Bare, <<SV!Wild>>, << >>)}
  \cup {SV!Comparator(op, <<0, 1, 1>>, <<SV!Number(2)>>) : op \in {SV!Bare, ">=", "<", "^"}}

CodecInput == [of |-> "codec", text |-> << >>]
VersionInput == [of |-> "version", text |-> << >>]
Some(S) == CHOOSE x \in S : TRUE
PureInit ==
  /\ CodecInit /\ VersionsInit
  /\ AlgorithmsInit \/ input \in {CodecInput, VersionInput}
  /\ input # VersionInput => asked = [version |-> Some(SomeVersions), comparator |-> Some(SomeComparators)]
PureNext == \/ input = CodecInput /\ CodecNext /\ UNCHANGED <<input, asked>>
            \/ AlgorithmsNext /\ UNCHANGED <<codecVars, asked>>
PureSpec == PureInit /\ [][PureNext]_<<input, codecVars, asked>>
=============================================================================
