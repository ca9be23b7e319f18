---------------------------- MODULE StreamProofs ----------------------------
(***************************************************************************)
(* The pipeline of node streams delivers what is pushed into it, for any   *)
(* number of streams, chunks, microtasks and nested corks: the inductive   *)
(* invariant says what each stage has got from the one before it, and the  *)
(* proof shows that every call, microtask and completed write keeps it.    *)
(***************************************************************************)
EXTENDS Streams, SequenceLemmas

(***************************************************************************)
(* Streams: what each side has got, what is between it and the next, and   *)
(* how the end travels along the pipeline.                                 *)
(***************************************************************************)
Readables ==
  [buffer : Seq(Chunks), ended : BOOLEAN, readableEnded : BOOLEAN, flowing : BOOLEAN,
   destroyed : BOOLEAN, pipes : 0 .. 1, listening : BOOLEAN, taken : Seq(Chunks)]
Writables ==
  [pending : Seq(Chunks), writableLength : Nat, ended : BOOLEAN, finished : BOOLEAN,
   corked : Nat, held : Seq(Chunks), destroyed : BOOLEAN, waiting : BOOLEAN, ends : 0 .. 1,
   written : Seq(Chunks), dropped : Seq(Chunks), lost : Nat]
StreamTasks == [kind : {"flush", "resume", "end", "endRead", "error"}, of : Sources]

Steady(s) == \A k \in 1 .. Len(s) - 1 : s[k + 1] - s[k] \in {0, 1}

\* What a stream, or the sink, has got so far.
Received(s) == s.taken \o s.buffer
Arrived(w) == w.written \o w.held \o w.dropped
Got(rr, w, i) == IF i = N THEN Arrived(w) ELSE Received(rr[i])

\* What has got to the next stream ends with what was taken last.
Chained(rr, w) ==
  /\ \A i \in 1 .. N : Steady(Got(rr, w, i))
  /\ \A i \in Sources : Got(rr, w, i + 1) # << >> =>
       /\ rr[i].listening /\ rr[i].taken # << >>
       /\ i = N - 1 \/ ~ rr[i + 1].destroyed => Last(Got(rr, w, i + 1)) = Last(rr[i].taken)

\* Where nothing is behind it, the last chunk is the last that was pushed.
Foremost(rr, w, n) ==
  (\A j \in Sources : ~ rr[j].destroyed) =>
    \A i \in 1 .. N : (\A j \in Sources : j < i => rr[j].buffer = << >>) /\ Got(rr, w, i) # << >> =>
        Last(Got(rr, w, i)) = n

SidesSound(rr) ==
  /\ rr \in [Sources -> Readables]
  /\ \A i \in Sources : /\ rr[i].pipes > 0 => rr[i].listening
                        /\ rr[i].listening <=> rr[1].listening
                        /\ rr[i].destroyed => rr[i].buffer = << >>
  /\ \A i \in Sources : i + 1 \in Sources /\ rr[i + 1].destroyed => rr[i].destroyed

SinkSound(w) ==
  /\ w \in Writables /\ w.writableLength = Len(w.pending)
  /\ w.ended <=> w.ends = 1
  /\ w.corked = 0 \/ w.ended => w.held = << >>
  /\ ~ w.ended => w.dropped = << >>
  /\ w.waiting => w.pending # << >> \/ w.held # << >> \/ w.ended

\* The end reaches a stream when all before it have ended and are empty.
EndsInTurn(rr, w) ==
  /\ \A i \in Sources : rr[i].readableEnded => rr[i].ended /\ rr[i].buffer = << >>
  /\ \A i, j \in Sources : j < i /\ rr[i].ended => rr[j].readableEnded
  /\ w.ended => \A j \in Sources : rr[j].readableEnded

PassedOn(rr, w, i) == IF i = N - 1 THEN w.ended ELSE rr[i + 1].ended

QueueSound(rr, w, queue) ==
  /\ queue \in Seq(StreamTasks)
  /\ \A k \in 1 .. Len(queue) :
       /\ queue[k].kind = "end" => rr[queue[k].of].ended /\ rr[queue[k].of].buffer = << >>
       /\ queue[k].kind = "endRead" => queue[k].of = 1 /\ rr[1].readableEnded /\ ~ PassedOn(rr, w, 1)
       /\ queue[k].kind = "error" => rr[queue[k].of].destroyed
  /\ \A j, k \in 1 .. Len(queue) : queue[j].kind = "endRead" /\ queue[k].kind = "endRead" => j = k

Flows(rr, n) == n \in 0 .. MaxChunks /\ (~ rr[1].destroyed => Received(rr[1]) = [k \in 1 .. n |-> k])

StreamsState(rr, w, queue, n) ==
  /\ SidesSound(rr) /\ SinkSound(w)
  /\ Flows(rr, n) /\ Chained(rr, w) /\ Foremost(rr, w, n)
  /\ EndsInTurn(rr, w) /\ QueueSound(rr, w, queue)

StreamsInv ==
  /\ StreamsState(r, sink, tasks, pushed)
  /\ result \in {"none", "ok", "error"} /\ (result = "ok" => sink.ended)

-----------------------------------------------------------------------------
(***************************************************************************)
(* Sequences.                                                              *)
(***************************************************************************)
USE StreamsAssumption

\* One sequence behind another.
LEMMA LastOfJoin ==
  ASSUME NEW S, NEW s \in Seq(S), NEW t \in Seq(S)
  PROVE  /\ s \o t \in Seq(S) /\ Len(s \o t) = Len(s) + Len(t)
         /\ \A k \in 1 .. Len(s) : (s \o t)[k] = s[k]
         /\ \A k \in 1 .. Len(t) : (s \o t)[Len(s) + k] = t[k]
         /\ s \o t = << >> <=> s = << >> /\ t = << >>
         /\ t # << >> => Last(s \o t) = Last(t)
         /\ t = << >> => s \o t = s
         /\ s = << >> => s \o t = t
<1>1. s \o t \in Seq(S) /\ Len(s \o t) = Len(s) + Len(t)
  BY ConcatProperties
<1>2. \A k \in 1 .. Len(s) : (s \o t)[k] = s[k]
  BY ConcatProperties
<1>3. \A k \in 1 .. Len(t) : (s \o t)[Len(s) + k] = t[k]
  <2> SUFFICES ASSUME NEW k \in 1 .. Len(t) PROVE (s \o t)[Len(s) + k] = t[k]
    OBVIOUS
  <2>1. Len(s) \in Nat /\ Len(s) + k \in 1 .. Len(s) + Len(t) /\ Len(s) + k > Len(s) /\ (Len(s) + k) - Len(s) = k
    OBVIOUS
  <2> QED
    BY <2>1, ConcatProperties
<1>4. s \o t = << >> <=> s = << >> /\ t = << >>
  BY <1>1, EmptySeq
<1>5. t # << >> => Last(s \o t) = Last(t)
  <2> SUFFICES ASSUME t # << >> PROVE Last(s \o t) = Last(t)
    OBVIOUS
  <2>1. Len(t) \in 1 .. Len(t)
    BY EmptySeq
  <2> QED
    BY <1>1, <1>3, <2>1 DEF Last
<1>6. (t = << >> => s \o t = s) /\ (s = << >> => s \o t = t)
  BY ConcatEmptySeq
<1> QED
  BY <1>1, <1>2, <1>3, <1>4, <1>5, <1>6

LEMMA ChunksAre == Chunks \subseteq Nat
BY DEF Chunks

LEMMA SteadyJoin ==
  ASSUME NEW s \in Seq(Chunks), NEW t \in Seq(Chunks), Steady(s), Steady(t),
         s # << >> /\ t # << >> => t[1] - Last(s) \in {0, 1}
  PROVE  Steady(s \o t)
<1> SUFFICES ASSUME NEW k \in 1 .. Len(s \o t) - 1 PROVE (s \o t)[k + 1] - (s \o t)[k] \in {0, 1}
  BY DEF Steady
<1>1. PICK m \in Nat : m = Len(s)
  OBVIOUS
<1>2. PICK n \in Nat : n = Len(t)
  OBVIOUS
<1>3. k \in 1 .. m + n - 1
  BY <1>1, <1>2, LastOfJoin
<1>4. CASE k + 1 <= m
  <2>1. (s \o t)[k] = s[k] /\ (s \o t)[k + 1] = s[k + 1] /\ k \in 1 .. Len(s) - 1
    BY <1>1, <1>3, <1>4, LastOfJoin
  <2> QED
    BY <2>1 DEF Steady
<1>5. CASE k = m
  <2>1. m >= 1 /\ n >= 1
    BY <1>3, <1>5
  <2>2. (s \o t)[k] = Last(s)
    BY <1>1, <1>5, <2>1, LastOfJoin DEF Last
  <2>3. (s \o t)[k + 1] = t[1]
    BY <1>1, <1>2, <1>5, <2>1, LastOfJoin
  <2> QED
    BY <1>1, <1>2, <2>1, <2>2, <2>3, EmptySeq
<1>6. CASE k > m
  <2>1. PICK j \in 1 .. n - 1 : k = m + j /\ k + 1 = m + (j + 1)
    <3>1. k - m \in 1 .. n - 1 /\ k = m + (k - m) /\ k + 1 = m + ((k - m) + 1)
      BY <1>3, <1>6
    <3> QED
      BY <3>1
  <2>2. (s \o t)[k] = t[j] /\ (s \o t)[k + 1] = t[j + 1] /\ j \in 1 .. Len(t) - 1
    <3>1. j \in 1 .. Len(t) /\ j + 1 \in 1 .. Len(t)
      BY <1>2, <2>1
    <3> QED
      BY <1>1, <1>2, <2>1, <3>1, LastOfJoin
  <2> QED
    BY <2>2 DEF Steady
<1> QED
  BY <1>3, <1>4, <1>5, <1>6

LEMMA SteadyParts ==
  ASSUME NEW s \in Seq(Chunks), NEW t \in Seq(Chunks), Steady(s \o t)
  PROVE  Steady(s) /\ Steady(t) /\ (s # << >> /\ t # << >> => t[1] - Last(s) \in {0, 1})
<1>1. PICK m \in Nat : m = Len(s)
  OBVIOUS
<1>2. PICK n \in Nat : n = Len(t)
  OBVIOUS
<1>3. Len(s \o t) = m + n
  BY <1>1, <1>2, LastOfJoin
<1>4. Steady(s)
  <2> SUFFICES ASSUME NEW k \in 1 .. Len(s) - 1 PROVE s[k + 1] - s[k] \in {0, 1}
    BY DEF Steady
  <2>1. k \in 1 .. Len(s) /\ k + 1 \in 1 .. Len(s) /\ k \in 1 .. Len(s \o t) - 1
    BY <1>1, <1>2, <1>3
  <2>2. (s \o t)[k] = s[k] /\ (s \o t)[k + 1] = s[k + 1]
    BY <2>1, LastOfJoin
  <2> QED
    BY <2>1, <2>2 DEF Steady
<1>5. Steady(t)
  <2> SUFFICES ASSUME NEW k \in 1 .. Len(t) - 1 PROVE t[k + 1] - t[k] \in {0, 1}
    BY DEF Steady
  <2>1. k \in 1 .. Len(t) /\ k + 1 \in 1 .. Len(t) /\ m + k \in 1 .. Len(s \o t) - 1 /\ (m + k) + 1 = m + (k + 1)
    BY <1>1, <1>2, <1>3
  <2>2. (s \o t)[m + k] = t[k] /\ (s \o t)[m + (k + 1)] = t[k + 1]
    BY <1>1, <2>1, LastOfJoin
  <2> QED
    BY <2>1, <2>2 DEF Steady
<1>6. ASSUME s # << >>, t # << >> PROVE t[1] - Last(s) \in {0, 1}
  <2>1. m >= 1 /\ n >= 1
    BY <1>1, <1>2, <1>6, EmptySeq
  <2>2. (s \o t)[m] = Last(s)
    BY <1>1, <2>1, LastOfJoin DEF Last
  <2>3. (s \o t)[m + 1] = t[1]
    BY <1>1, <1>2, <2>1, LastOfJoin
  <2>4. m \in 1 .. Len(s \o t) - 1
    BY <1>3, <2>1
  <2> QED
    BY <2>2, <2>3, <2>4 DEF Steady
<1> QED
  BY <1>4, <1>5, <1>6

\* A sequence cut in two.
LEMMA TwoParts ==
  ASSUME NEW S, NEW s \in Seq(S), NEW n \in 0 .. Len(s)
  PROVE  /\ SubSeq(s, 1, n) \in Seq(S) /\ Len(SubSeq(s, 1, n)) = n
         /\ SubSeq(s, n + 1, Len(s)) \in Seq(S) /\ Len(SubSeq(s, n + 1, Len(s))) = Len(s) - n
         /\ SubSeq(s, 1, n) \o SubSeq(s, n + 1, Len(s)) = s
<1>1. SubSeq(s, 1, n) \in Seq(S) /\ Len(SubSeq(s, 1, n)) = n
  BY SubSeqProperties
<1>2. SubSeq(s, n + 1, Len(s)) \in Seq(S) /\ Len(SubSeq(s, n + 1, Len(s))) = Len(s) - n
  BY SubSeqProperties
<1>3. SubSeq(s, 1, n) \o SubSeq(s, n + 1, Len(s)) = SubSeq(s, 1, Len(s))
  <2>1. 1 \in 1 .. Len(s) + 1 /\ n \in 1 - 1 .. Len(s) /\ Len(s) \in n .. Len(s)
    OBVIOUS
  <2> QED
    BY <2>1, ConcatAdjacentSubSeq
<1>4. SubSeq(s, 1, Len(s)) = s
  BY SubSeqFull
<1> QED
  BY <1>1, <1>2, <1>3, <1>4

\* Every chunk once or twice: as steady, from the same chunk to the same chunk.
LEMMA CopiesAre ==
  ASSUME NEW c \in Seq(Chunks), NEW n \in {1, 2}
  PROVE  /\ Copies(c, n) \in Seq(Chunks) /\ Len(Copies(c, n)) = n * Len(c)
         /\ Steady(c) => Steady(Copies(c, n))
         /\ Copies(c, n) = << >> <=> c = << >>
         /\ c # << >> => Copies(c, n)[1] = c[1] /\ Last(Copies(c, n)) = Last(c)
<1>1. PICK m \in Nat : m = Len(c)
  OBVIOUS
<1> DEFINE o == Copies(c, n)
<1>2. n * m \in Nat /\ (n = 1 => n * m = m) /\ (n = 2 => n * m = m + m)
  OBVIOUS
<1> DEFINE at(k) == 1 + ((k - 1) \div n)
<1>3. ASSUME NEW k \in 1 .. n * m
      PROVE  at(k) \in 1 .. m /\ (k + 1 <= n * m => at(k + 1) - at(k) \in {0, 1})
  <2>1. CASE n = 1
    BY <1>2, <2>1
  <2>2. CASE n = 2
    BY <1>2, <2>2
  <2> QED
    BY <2>1, <2>2
<1>4. at(1) = 1 /\ (m >= 1 => at(n * m) = m)
  <2>1. CASE n = 1
    BY <1>2, <2>1
  <2>2. CASE n = 2
    BY <1>2, <2>2
  <2> QED
    BY <2>1, <2>2
<1>5. o = [k \in 1 .. n * m |-> c[at(k)]]
  BY <1>1 DEF Copies
<1> HIDE DEF o, at
<1>6. \A k \in 1 .. n * m : c[at(k)] \in Chunks
  BY <1>1, <1>3
<1>7. o \in Seq(Chunks) /\ Len(o) = n * m /\ \A k \in 1 .. n * m : o[k] = c[at(k)]
  BY <1>2, <1>5, <1>6
<1>8. ASSUME Steady(c) PROVE Steady(o)
  <2> SUFFICES ASSUME NEW k \in 1 .. Len(o) - 1 PROVE o[k + 1] - o[k] \in {0, 1}
    BY DEF Steady
  <2>1. k \in 1 .. n * m /\ k + 1 \in 1 .. n * m /\ k + 1 <= n * m
    BY <1>2, <1>7
  <2>2. at(k) \in 1 .. m /\ at(k + 1) \in 1 .. m /\ at(k + 1) - at(k) \in {0, 1}
    BY <1>3, <2>1
  <2>3. o[k] = c[at(k)] /\ o[k + 1] = c[at(k + 1)]
    BY <1>7, <2>1
  <2>4. CASE at(k + 1) = at(k)
    <3>1. c[at(k)] \in Nat
      BY <1>6, <2>1, ChunksAre
    <3> QED
      BY <2>3, <2>4, <3>1
  <2>5. CASE at(k + 1) = at(k) + 1
    <3>1. at(k) \in 1 .. Len(c) - 1
      BY <1>1, <2>2, <2>5
    <3> QED
      BY <1>8, <2>3, <2>5, <3>1 DEF Steady
  <2> QED
    BY <2>2, <2>4, <2>5
<1>9. o = << >> <=> c = << >>
  BY <1>1, <1>2, <1>7, EmptySeq
<1>10. ASSUME c # << >> PROVE o[1] = c[1] /\ Last(o) = Last(c)
  <2>1. m >= 1 /\ 1 \in 1 .. n * m /\ n * m \in 1 .. n * m
    BY <1>1, <1>2, <1>10, EmptySeq
  <2> QED
    BY <1>1, <1>4, <1>7, <2>1 DEF Last
<1> QED
  BY <1>1, <1>7, <1>8, <1>9, <1>10 DEF o

-----------------------------------------------------------------------------
\* What a stream has got is chunks.
LEMMA GotChunks ==
  ASSUME NEW rr \in [Sources -> Readables], NEW w \in Writables, NEW i \in 1 .. N
  PROVE  Got(rr, w, i) \in Seq(Chunks)
<1>1. ASSUME i \in Sources PROVE Received(rr[i]) \in Seq(Chunks)
  <2>1. rr[i].taken \in Seq(Chunks) /\ rr[i].buffer \in Seq(Chunks)
    BY <1>1 DEF Readables
  <2> QED
    BY <2>1, LastOfJoin DEF Received
<1>2. Arrived(w) \in Seq(Chunks)
  <2>1. w.written \in Seq(Chunks) /\ w.held \in Seq(Chunks) /\ w.dropped \in Seq(Chunks)
    BY DEF Writables
  <2>2. w.written \o w.held \in Seq(Chunks)
    BY <2>1, LastOfJoin
  <2> QED
    BY <2>1, <2>2, LastOfJoin DEF Arrived
<1> QED
  BY <1>1, <1>2 DEF Got, Sources

\* Chunks c leave the buffer of stream i, and o, which is c if anybody listens, gets to
\* the next.
Moving(rr, w, ss, v, i, c, o) ==
  /\ \A j \in Sources : ss[j].listening = rr[j].listening /\ ss[j].destroyed = rr[j].destroyed
  /\ \A j \in 1 .. N : j # i + 1 => Got(ss, v, j) = Got(rr, w, j)
  /\ Got(ss, v, i + 1) = Got(rr, w, i + 1) \o o
  /\ \A j \in Sources : j # i => ss[j].taken = rr[j].taken
  /\ ss[i].taken = rr[i].taken \o c
  /\ \A j \in Sources : j # i /\ j # i + 1 => ss[j].buffer = rr[j].buffer
  /\ i + 1 \in Sources => ss[i + 1].buffer = rr[i + 1].buffer \o o
  /\ c \o ss[i].buffer = rr[i].buffer

Copied(c, o, listening) ==
  /\ o = << >> <=> (c = << >> \/ ~ listening)
  /\ Steady(c) => Steady(o)
  /\ o # << >> => o[1] = c[1] /\ Last(o) = Last(c)

LEMMA MovingKeepsOrder ==
  ASSUME NEW rr, NEW w, NEW ss, NEW v, SidesSound(rr), SinkSound(w), SidesSound(ss), SinkSound(v),
         NEW i \in Sources, NEW c \in Seq(Chunks), NEW o \in Seq(Chunks),
         Moving(rr, w, ss, v, i, c, o), Copied(c, o, rr[i].listening), Chained(rr, w)
  PROVE  Chained(ss, v)
<1>1. /\ rr \in [Sources -> Readables] /\ w \in Writables
      /\ ss \in [Sources -> Readables] /\ v \in Writables
  BY DEF SidesSound, SinkSound
<1>2. /\ rr[i].taken \in Seq(Chunks) /\ rr[i].buffer \in Seq(Chunks)
      /\ ss[i].taken \in Seq(Chunks) /\ ss[i].buffer \in Seq(Chunks)
  BY <1>1 DEF Readables
<1>3. i \in 1 .. N /\ i + 1 \in 1 .. N /\ i \in Nat
  BY DEF Sources
<1>4. Steady(c) /\ (c # << >> /\ rr[i].taken # << >> => c[1] - Last(rr[i].taken) \in {0, 1})
  <2>1. Steady(rr[i].taken \o rr[i].buffer)
    BY <1>3 DEF Chained, Got, Received, Sources
  <2>2. Steady(rr[i].buffer)
        /\ (rr[i].taken # << >> /\ rr[i].buffer # << >> => rr[i].buffer[1] - Last(rr[i].taken) \in {0, 1})
    BY <1>2, <2>1, SteadyParts
  <2>3. c \o ss[i].buffer = rr[i].buffer
    BY DEF Moving
  <2>4. Steady(c)
    <3>1. Steady(c \o ss[i].buffer)
      BY <2>2, <2>3
    <3> QED
      BY <1>2, <3>1, SteadyParts
  <2>5. c # << >> => rr[i].buffer # << >> /\ rr[i].buffer[1] = c[1]
    <3> SUFFICES ASSUME c # << >> PROVE rr[i].buffer # << >> /\ rr[i].buffer[1] = c[1]
      OBVIOUS
    <3>1. 1 \in 1 .. Len(c)
      BY EmptySeq
    <3> QED
      BY <1>2, <2>3, <3>1, LastOfJoin
  <2> QED
    BY <2>2, <2>4, <2>5
<1>5. Got(rr, w, i + 1) \in Seq(Chunks) /\ Steady(Got(rr, w, i + 1))
  BY <1>1, <1>3, GotChunks DEF Chained
<1>6. o # << >> => c # << >> /\ rr[i].listening /\ (i + 1 = N \/ ~ rr[i + 1].destroyed)
  <2>1. o # << >> => c # << >> /\ rr[i].listening
    BY DEF Copied
  <2>2. c # << >> => rr[i].buffer # << >>
    BY <1>2, LastOfJoin DEF Moving
  <2>3. rr[i].buffer # << >> => ~ rr[i].destroyed
    BY DEF SidesSound
  <2>4. i + 1 = N \/ i + 1 \in Sources
    BY <1>3 DEF Sources
  <2> QED
    BY <2>1, <2>2, <2>3, <2>4 DEF SidesSound
<1>7. o # << >> /\ Got(rr, w, i + 1) # << >> => o[1] - Last(Got(rr, w, i + 1)) \in {0, 1}
  <2> SUFFICES ASSUME o # << >>, Got(rr, w, i + 1) # << >> PROVE o[1] - Last(Got(rr, w, i + 1)) \in {0, 1}
    OBVIOUS
  <2>1. rr[i].taken # << >> /\ Last(Got(rr, w, i + 1)) = Last(rr[i].taken)
    <3>1. i = N - 1 \/ ~ rr[i + 1].destroyed
      BY <1>3, <1>6
    <3> QED
      BY <3>1 DEF Chained
  <2>2. o[1] = c[1]
    BY DEF Copied
  <2> QED
    BY <1>4, <1>6, <2>1, <2>2
<1>8. Steady(Got(ss, v, i + 1))
  <2>1. Steady(o)
    BY <1>4 DEF Copied
  <2>2. Steady(Got(rr, w, i + 1) \o o)
    BY <1>5, <1>7, <2>1, SteadyJoin
  <2> QED
    BY <2>2 DEF Moving
<1>9. \A j \in 1 .. N : Steady(Got(ss, v, j))
  <2> SUFFICES ASSUME NEW j \in 1 .. N, j # i + 1 PROVE Steady(Got(ss, v, j))
    BY <1>8
  <2>1. Got(ss, v, j) = Got(rr, w, j)
    BY DEF Moving
  <2> QED
    BY <2>1 DEF Chained
<1>10. ASSUME NEW j \in Sources, Got(ss, v, j + 1) # << >>
       PROVE  /\ ss[j].listening /\ ss[j].taken # << >>
              /\ j = N - 1 \/ ~ ss[j + 1].destroyed => Last(Got(ss, v, j + 1)) = Last(ss[j].taken)
  <2>1. j \in Nat /\ j + 1 \in 1 .. N /\ (j = N - 1 \/ j + 1 \in Sources)
    BY DEF Sources
  <2>2. ss[j].listening = rr[j].listening /\ (j + 1 \in Sources => ss[j + 1].destroyed = rr[j + 1].destroyed)
    BY <2>1 DEF Moving
  <2>3. CASE j # i
    <3>1. j + 1 # i + 1
      BY <1>3, <2>1, <2>3
    <3>2. Got(ss, v, j + 1) = Got(rr, w, j + 1) /\ ss[j].taken = rr[j].taken
      BY <2>1, <2>3, <3>1 DEF Moving
    <3>3. /\ rr[j].listening /\ rr[j].taken # << >>
          /\ j = N - 1 \/ ~ rr[j + 1].destroyed => Last(Got(rr, w, j + 1)) = Last(rr[j].taken)
      BY <1>10, <3>2 DEF Chained
    <3> QED
      BY <2>1, <2>2, <3>2, <3>3
  <2>4. CASE j = i
    <3>1. Got(ss, v, i + 1) = Got(rr, w, i + 1) \o o /\ ss[i].taken = rr[i].taken \o c
      BY DEF Moving
    <3>2. CASE o = << >>
      <4>1. Got(ss, v, i + 1) = Got(rr, w, i + 1)
        BY <1>5, <3>1, <3>2, LastOfJoin
      <4>2. /\ rr[i].listening /\ rr[i].taken # << >>
            /\ i = N - 1 \/ ~ rr[i + 1].destroyed => Last(Got(rr, w, i + 1)) = Last(rr[i].taken)
        BY <1>10, <2>4, <4>1 DEF Chained
      <4>3. c = << >>
        BY <3>2, <4>2 DEF Copied
      <4>4. ss[i].taken = rr[i].taken
        BY <1>2, <3>1, <4>3, LastOfJoin
      <4> QED
        BY <2>1, <2>2, <2>4, <4>1, <4>2, <4>4
    <3>3. CASE o # << >>
      <4>1. c # << >> /\ rr[i].listening /\ Last(o) = Last(c)
        BY <1>6, <3>3 DEF Copied
      <4>2. ss[i].taken # << >> /\ Last(ss[i].taken) = Last(c)
        BY <1>2, <3>1, <4>1, LastOfJoin
      <4>3. Last(Got(rr, w, i + 1) \o o) = Last(o)
        BY <1>5, <3>3, LastOfJoin
      <4> QED
        BY <2>2, <2>4, <3>1, <4>1, <4>2, <4>3
    <3> QED
      BY <3>2, <3>3
  <2> QED
    BY <2>3, <2>4
<1> QED
  BY <1>9, <1>10 DEF Chained

LEMMA MovingKeepsForemost ==
  ASSUME NEW rr, NEW w, NEW ss, NEW v, SidesSound(rr), SinkSound(w), SidesSound(ss), SinkSound(v),
         NEW i \in Sources, NEW c \in Seq(Chunks), NEW o \in Seq(Chunks), NEW n,
         Moving(rr, w, ss, v, i, c, o), Copied(c, o, rr[i].listening), Chained(rr, w), Foremost(rr, w, n)
  PROVE  Foremost(ss, v, n)
<1>1. /\ rr \in [Sources -> Readables] /\ w \in Writables
      /\ ss \in [Sources -> Readables] /\ v \in Writables
  BY DEF SidesSound, SinkSound
<1>2. /\ rr[i].taken \in Seq(Chunks) /\ rr[i].buffer \in Seq(Chunks)
      /\ ss[i].taken \in Seq(Chunks) /\ ss[i].buffer \in Seq(Chunks)
  BY <1>1 DEF Readables
<1>3. i \in 1 .. N /\ i + 1 \in 1 .. N /\ i \in Nat /\ N \in Nat
  BY DEF Sources
<1> SUFFICES ASSUME \A j \in Sources : ~ ss[j].destroyed, NEW k \in 1 .. N,
                    \A j \in Sources : j < k => ss[j].buffer = << >>, Got(ss, v, k) # << >>
             PROVE  Last(Got(ss, v, k)) = n
  BY DEF Foremost
<1>4. \A j \in Sources : ~ rr[j].destroyed
  BY DEF Moving
<1>5. CASE k <= i
  <2>1. \A j \in Sources : j < k => rr[j].buffer = << >>
    <3> SUFFICES ASSUME NEW j \in Sources, j < k PROVE rr[j].buffer = << >>
      OBVIOUS
    <3>1. j # i /\ j # i + 1
      BY <1>3, <1>5 DEF Sources
    <3> QED
      BY <3>1 DEF Moving
  <2>2. Got(ss, v, k) = Got(rr, w, k)
    <3>1. k # i + 1
      BY <1>3, <1>5
    <3> QED
      BY <3>1 DEF Moving
  <2> QED
    BY <1>4, <2>1, <2>2 DEF Foremost
<1>6. CASE k > i
  <2>1. ss[i].buffer = << >>
    BY <1>3, <1>6
  <2>2. c = rr[i].buffer
    <3>1. c \o << >> = rr[i].buffer
      BY <2>1 DEF Moving
    <3> QED
      BY <3>1, ConcatEmptySeq
  <2>3. \A j \in Sources : j < i => rr[j].buffer = << >>
    <3> SUFFICES ASSUME NEW j \in Sources, j < i PROVE rr[j].buffer = << >>
      OBVIOUS
    <3>1. j # i /\ j # i + 1 /\ j < k
      BY <1>3, <1>6 DEF Sources
    <3> QED
      BY <3>1 DEF Moving
  <2>4. CASE o # << >>
    <3>1. k = i + 1
      <4>1. i + 1 \in Sources => ss[i + 1].buffer # << >>
        <5> SUFFICES ASSUME i + 1 \in Sources PROVE ss[i + 1].buffer # << >>
          OBVIOUS
        <5>1. rr[i + 1].buffer \in Seq(Chunks)
          BY <1>1 DEF Readables
        <5>2. ss[i + 1].buffer = rr[i + 1].buffer \o o
          BY DEF Moving
        <5> QED
          BY <2>4, <5>1, <5>2, LastOfJoin
      <4>2. CASE k > i + 1
        <5>1. i + 1 \in Sources /\ i + 1 < k
          BY <1>3, <4>2 DEF Sources
        <5> QED
          BY <4>1, <5>1
      <4> QED
        BY <1>3, <1>6, <4>2
    <3>2. c # << >> /\ Last(o) = Last(c)
      BY <2>4 DEF Copied
    <3>3. Got(rr, w, i) # << >> /\ Last(Got(rr, w, i)) = Last(c)
      <4>1. i # N
        BY <1>3 DEF Sources
      <4>2. Got(rr, w, i) = rr[i].taken \o rr[i].buffer
        BY <4>1 DEF Got, Received
      <4> QED
        BY <1>2, <2>2, <3>2, <4>2, LastOfJoin
    <3>4. Last(Got(rr, w, i)) = n
      BY <1>3, <1>4, <2>3, <3>3 DEF Foremost
    <3>5. Last(Got(ss, v, i + 1)) = Last(o)
      <4>1. Got(rr, w, i + 1) \in Seq(Chunks) /\ Got(ss, v, i + 1) = Got(rr, w, i + 1) \o o
        BY <1>1, <1>3, GotChunks DEF Moving
      <4>2. Last(Got(rr, w, i + 1) \o o) = Last(o)
        BY <2>4, <4>1, LastOfJoin
      <4> QED
        BY <4>1, <4>2
    <3> QED
      BY <3>1, <3>2, <3>3, <3>4, <3>5
  <2>5. CASE o = << >>
    <3>1. Got(ss, v, k) = Got(rr, w, k)
      <4>1. Got(rr, w, i + 1) \in Seq(Chunks) /\ Got(ss, v, i + 1) = Got(rr, w, i + 1) \o o
        BY <1>1, <1>3, GotChunks DEF Moving
      <4>2. Got(ss, v, i + 1) = Got(rr, w, i + 1)
        BY <2>5, <4>1, LastOfJoin
      <4> QED
        BY <4>2 DEF Moving
    <3>2. rr[i].listening
      <4> SUFFICES ASSUME ~ rr[i].listening PROVE FALSE
        OBVIOUS
      <4>1. \A j \in Sources : ~ rr[j].listening
        BY DEF SidesSound
      <4>2. k - 1 \in Sources /\ (k - 1) + 1 = k
        BY <1>3, <1>6 DEF Sources
      <4>3. Got(rr, w, (k - 1) + 1) # << >>
        BY <3>1, <4>2
      <4> QED
        BY <4>1, <4>2, <4>3 DEF Chained
    <3>3. rr[i].buffer = << >>
      BY <2>2, <2>5, <3>2 DEF Copied
    <3>4. \A j \in Sources : j < k => rr[j].buffer = << >>
      <4> SUFFICES ASSUME NEW j \in Sources, j < k, j # i PROVE rr[j].buffer = << >>
        BY <3>3
      <4>1. CASE j = i + 1
        <5>1. rr[j].buffer \in Seq(Chunks)
          BY <1>1 DEF Readables
        <5>2. rr[j].buffer \o o = << >>
          BY <4>1 DEF Moving
        <5> QED
          BY <5>1, <5>2, ConcatEqualIffEmpty
      <4>2. CASE j # i + 1
        BY <4>2 DEF Moving
      <4> QED
        BY <4>1, <4>2
    <3> QED
      BY <1>4, <3>1, <3>4 DEF Foremost
  <2> QED
    BY <2>4, <2>5
<1> QED
  BY <1>3, <1>5, <1>6

-----------------------------------------------------------------------------
\* The queue of microtasks.
LEMMA QueueKept ==
  ASSUME NEW rr, NEW w, NEW ss, NEW v, NEW q, QueueSound(rr, w, q),
         \A j \in Sources : rr[j].ended /\ rr[j].buffer = << >> => ss[j].ended /\ ss[j].buffer = << >>,
         \A j \in Sources : rr[j].destroyed => ss[j].destroyed,
         rr[1].readableEnded => ss[1].readableEnded,
         PassedOn(ss, v, 1) => PassedOn(rr, w, 1) \/ \A k \in 1 .. Len(q) : q[k].kind # "endRead"
  PROVE  QueueSound(ss, v, q)
<1>1. \A k \in 1 .. Len(q) : q[k].of \in Sources
  <2>1. q \in Seq(StreamTasks)
    BY DEF QueueSound
  <2>2. \A k \in 1 .. Len(q) : q[k] \in StreamTasks
    BY <2>1
  <2> QED
    BY <2>2 DEF StreamTasks
<1> QED
  BY <1>1 DEF QueueSound

LEMMA QueueTail ==
  ASSUME NEW rr, NEW w, NEW q, QueueSound(rr, w, q), q # << >>
  PROVE  /\ QueueSound(rr, w, Tail(q)) /\ Head(q) \in StreamTasks /\ Head(q) = q[1] /\ 1 \in 1 .. Len(q)
         /\ Head(q).kind = "endRead" => \A k \in 1 .. Len(Tail(q)) : Tail(q)[k].kind # "endRead"
<1>1. PICK n \in Nat : n = Len(q)
  BY DEF QueueSound
<1>2. q \in Seq(StreamTasks) /\ n >= 1
  BY <1>1, EmptySeq DEF QueueSound
<1>3. Tail(q) \in Seq(StreamTasks) /\ Len(Tail(q)) = n - 1 /\ Head(q) = q[1]
  BY <1>1, <1>2, HeadTailProperties
<1>4. \A k \in 1 .. n - 1 : Tail(q)[k] = q[k + 1] /\ k + 1 \in 1 .. Len(q) /\ k + 1 # 1
  <2> SUFFICES ASSUME NEW k \in 1 .. n - 1 PROVE Tail(q)[k] = q[k + 1] /\ k + 1 \in 1 .. Len(q) /\ k + 1 # 1
    OBVIOUS
  <2>1. k \in 1 .. Len(Tail(q))
    BY <1>3
  <2> QED
    BY <1>1, <1>2, <2>1, HeadTailProperties
<1> DEFINE t == Tail(q)
<1>5. t \in Seq(StreamTasks) /\ 1 .. Len(t) = 1 .. n - 1
  BY <1>3
<1>6. \A k \in 1 .. n - 1 : t[k] = q[k + 1] /\ k + 1 \in 1 .. Len(q) /\ k + 1 # 1
  BY <1>4
<1> HIDE DEF t
<1>7. \A k \in 1 .. Len(t) :
       /\ t[k].kind = "end" => rr[t[k].of].ended /\ rr[t[k].of].buffer = << >>
       /\ t[k].kind = "endRead" => t[k].of = 1 /\ rr[1].readableEnded /\ ~ PassedOn(rr, w, 1)
       /\ t[k].kind = "error" => rr[t[k].of].destroyed
  BY <1>5, <1>6 DEF QueueSound
<1>8. \A j, k \in 1 .. Len(t) : t[j].kind = "endRead" /\ t[k].kind = "endRead" => j = k
  <2> SUFFICES ASSUME NEW j \in 1 .. n - 1, NEW k \in 1 .. n - 1, t[j].kind = "endRead", t[k].kind = "endRead" PROVE j = k
    BY <1>5
  <2>1. j + 1 = k + 1
    BY <1>6 DEF QueueSound
  <2> QED
    BY <2>1
<1>9. QueueSound(rr, w, t)
  BY <1>5, <1>7, <1>8 DEF QueueSound
<1>10. 1 \in 1 .. Len(q) /\ q[1] \in StreamTasks
  BY <1>1, <1>2
<1>11. ASSUME q[1].kind = "endRead", NEW k \in 1 .. Len(t) PROVE t[k].kind # "endRead"
  BY <1>5, <1>6, <1>10, <1>11 DEF QueueSound
<1> QED
  BY <1>3, <1>9, <1>10, <1>11 DEF t

LEMMA QueueMore ==
  ASSUME NEW rr, NEW w, NEW q, QueueSound(rr, w, q), NEW t \in Seq(StreamTasks),
         \A k \in 1 .. Len(t) :
           /\ t[k].kind = "end" => rr[t[k].of].ended /\ rr[t[k].of].buffer = << >>
           /\ t[k].kind # "endRead"
           /\ t[k].kind = "error" => rr[t[k].of].destroyed
  PROVE  QueueSound(rr, w, q \o t)
<1>1. PICK m \in Nat : m = Len(q)
  BY DEF QueueSound
<1>2. PICK n \in Nat : n = Len(t)
  OBVIOUS
<1> DEFINE u == q \o t
<1>3. u \in Seq(StreamTasks) /\ Len(u) = m + n
  BY <1>1, <1>2, LastOfJoin DEF QueueSound
<1>4. \A k \in 1 .. m : u[k] = q[k]
  BY <1>1, LastOfJoin DEF QueueSound
<1>5. \A k \in 1 .. n : u[m + k] = t[k]
  BY <1>1, <1>2, LastOfJoin DEF QueueSound
<1> HIDE DEF u
<1>6. \A k \in m + 1 .. m + n : k - m \in 1 .. Len(t) /\ u[k] = t[k - m]
  <2> SUFFICES ASSUME NEW k \in m + 1 .. m + n PROVE k - m \in 1 .. Len(t) /\ u[k] = t[k - m]
    OBVIOUS
  <2>1. k - m \in 1 .. n /\ m + (k - m) = k
    OBVIOUS
  <2>2. u[m + (k - m)] = t[k - m]
    BY <1>5, <2>1
  <2> QED
    BY <1>2, <2>1, <2>2
<1>7. \A k \in 1 .. m + n : k \in 1 .. m \/ k \in m + 1 .. m + n
  OBVIOUS
<1>8. ASSUME NEW k \in 1 .. Len(u)
      PROVE  /\ u[k].kind = "end" => rr[u[k].of].ended /\ rr[u[k].of].buffer = << >>
             /\ u[k].kind = "endRead" => u[k].of = 1 /\ rr[1].readableEnded /\ ~ PassedOn(rr, w, 1) /\ k \in 1 .. m
             /\ u[k].kind = "error" => rr[u[k].of].destroyed
  <2>1. CASE k \in 1 .. m
    BY <1>1, <1>4, <2>1 DEF QueueSound
  <2>2. CASE k \in m + 1 .. m + n
    <3>1. u[k] = t[k - m] /\ k - m \in 1 .. Len(t)
      BY <1>6, <2>2
    <3> QED
      BY <3>1
  <2> QED
    BY <1>3, <1>7, <2>1, <2>2
<1>9. \A j, k \in 1 .. Len(u) : u[j].kind = "endRead" /\ u[k].kind = "endRead" => j = k
  <2> SUFFICES ASSUME NEW j \in 1 .. Len(u), NEW k \in 1 .. Len(u), u[j].kind = "endRead", u[k].kind = "endRead" PROVE j = k
    OBVIOUS
  <2>1. j \in 1 .. m /\ k \in 1 .. m
    BY <1>8
  <2> QED
    BY <1>1, <1>4, <2>1 DEF QueueSound
<1>10. QueueSound(rr, w, u)
  BY <1>3, <1>8, <1>9 DEF QueueSound
<1> QED
  BY <1>10 DEF u

-----------------------------------------------------------------------------
\* A step that moves no chunk and no end.
Same(rr, w, ss, v) ==
  /\ \A j \in Sources :
       /\ ss[j].buffer = rr[j].buffer /\ ss[j].taken = rr[j].taken
       /\ ss[j].ended = rr[j].ended /\ ss[j].readableEnded = rr[j].readableEnded
       /\ ss[j].destroyed = rr[j].destroyed /\ (rr[j].listening => ss[j].listening)
  /\ Arrived(v) = Arrived(w) /\ v.ended = w.ended

LEMMA OneSource == 1 \in Sources /\ N - 1 \in Sources /\ 1 \in 1 .. N /\ 1 # N
BY DEF Sources

\* Where no chunk moves, everything about chunks stays.
LEMMA ChunksStay ==
  ASSUME NEW rr, NEW w, NEW ss, NEW v, NEW n, Flows(rr, n), Chained(rr, w), Foremost(rr, w, n),
         \A j \in Sources :
           /\ ss[j].buffer = rr[j].buffer /\ ss[j].taken = rr[j].taken
           /\ ss[j].destroyed = rr[j].destroyed /\ (rr[j].listening => ss[j].listening),
         Arrived(v) = Arrived(w)
  PROVE  Flows(ss, n) /\ Chained(ss, v) /\ Foremost(ss, v, n)
<1>1. \A j \in 1 .. N : Got(ss, v, j) = Got(rr, w, j)
  <2> SUFFICES ASSUME NEW j \in 1 .. N PROVE Got(ss, v, j) = Got(rr, w, j)
    OBVIOUS
  <2>1. CASE j = N
    BY <2>1 DEF Got
  <2>2. CASE j # N
    <3>1. j \in Sources
      BY <2>2 DEF Sources
    <3> QED
      BY <2>2, <3>1 DEF Got, Received
  <2> QED
    BY <2>1, <2>2
<1>2. Flows(ss, n)
  BY OneSource DEF Flows, Received
<1>3. Chained(ss, v)
  <2>1. \A i \in 1 .. N : Steady(Got(ss, v, i))
    BY <1>1 DEF Chained
  <2>2. ASSUME NEW i \in Sources, Got(ss, v, i + 1) # << >>
        PROVE  /\ ss[i].listening /\ ss[i].taken # << >>
               /\ i = N - 1 \/ ~ ss[i + 1].destroyed => Last(Got(ss, v, i + 1)) = Last(ss[i].taken)
    <3>1. i + 1 \in 1 .. N /\ (i = N - 1 \/ i + 1 \in Sources)
      BY DEF Sources
    <3>2. Got(ss, v, i + 1) = Got(rr, w, i + 1)
      BY <1>1, <3>1
    <3>3. /\ rr[i].listening /\ rr[i].taken # << >>
          /\ i = N - 1 \/ ~ rr[i + 1].destroyed => Last(Got(rr, w, i + 1)) = Last(rr[i].taken)
      BY <2>2, <3>2 DEF Chained
    <3> QED
      BY <3>1, <3>2, <3>3
  <2> QED
    BY <2>1, <2>2 DEF Chained
<1>4. Foremost(ss, v, n)
  <2> SUFFICES ASSUME \A j \in Sources : ~ ss[j].destroyed, NEW i \in 1 .. N,
                      \A j \in Sources : j < i => ss[j].buffer = << >>, Got(ss, v, i) # << >>
               PROVE  Last(Got(ss, v, i)) = n
    BY DEF Foremost
  <2>1. Got(ss, v, i) = Got(rr, w, i)
    BY <1>1
  <2>2. \A j \in Sources : ~ rr[j].destroyed /\ (j < i => rr[j].buffer = << >>)
    OBVIOUS
  <2> QED
    BY <2>1, <2>2 DEF Foremost
<1> QED
  BY <1>2, <1>3, <1>4

LEMMA SameKeeps ==
  ASSUME NEW rr, NEW w, NEW ss, NEW v, NEW q, NEW n, StreamsState(rr, w, q, n),
         SidesSound(ss), SinkSound(v), Same(rr, w, ss, v)
  PROVE  StreamsState(ss, v, q, n)
<1>1. Flows(ss, n) /\ Chained(ss, v) /\ Foremost(ss, v, n)
  <2>1. Flows(rr, n) /\ Chained(rr, w) /\ Foremost(rr, w, n)
    BY DEF StreamsState
  <2>2. \A j \in Sources :
          /\ ss[j].buffer = rr[j].buffer /\ ss[j].taken = rr[j].taken
          /\ ss[j].destroyed = rr[j].destroyed /\ (rr[j].listening => ss[j].listening)
    BY DEF Same
  <2>3. Arrived(v) = Arrived(w)
    BY DEF Same
  <2> QED
    BY <2>1, <2>2, <2>3, ChunksStay
<1>2. EndsInTurn(ss, v)
  BY DEF StreamsState, EndsInTurn, Same
<1>3. QueueSound(ss, v, q)
  <2>1. QueueSound(rr, w, q)
    BY DEF StreamsState
  <2>2. PassedOn(ss, v, 1) = PassedOn(rr, w, 1)
    <3>1. 1 = N - 1 \/ 1 + 1 \in Sources
      BY DEF Sources
    <3> QED
      BY <3>1 DEF PassedOn, Same
  <2> QED
    BY <2>1, <2>2, OneSource, QueueKept DEF Same
<1> QED
  BY <1>1, <1>2, <1>3 DEF StreamsState

\* An emission, before the end that may follow it.
LEMMA MovingKeeps ==
  ASSUME NEW rr, NEW w, NEW ss, NEW v, NEW q, NEW n, StreamsState(rr, w, q, n),
         SidesSound(ss), SinkSound(v),
         NEW i \in Sources, NEW c \in Seq(Chunks), NEW o \in Seq(Chunks),
         Moving(rr, w, ss, v, i, c, o), Copied(c, o, rr[i].listening),
         \A j \in Sources : ss[j].ended = rr[j].ended /\ ss[j].readableEnded = rr[j].readableEnded,
         v.ended = w.ended
  PROVE  StreamsState(ss, v, q, n)
<1>1. SidesSound(rr) /\ SinkSound(w) /\ Chained(rr, w) /\ Foremost(rr, w, n)
  BY DEF StreamsState
<1>2. Chained(ss, v)
  BY <1>1, MovingKeepsOrder
<1>3. Foremost(ss, v, n)
  BY <1>1, MovingKeepsForemost
<1>4. i \in Nat /\ N \in Nat /\ 1 # i + 1
  BY DEF Sources
<1>5. Flows(ss, n)
  <2>1. Got(ss, v, 1) = Got(rr, w, 1)
    BY <1>4, OneSource DEF Moving
  <2>2. Received(ss[1]) = Received(rr[1])
    BY <2>1, OneSource DEF Got
  <2>3. ss[1].destroyed = rr[1].destroyed
    BY OneSource DEF Moving
  <2> QED
    BY <2>2, <2>3 DEF StreamsState, Flows
<1>6. \A j \in Sources : rr[j].buffer \in Seq(Chunks) /\ ss[j].buffer \in Seq(Chunks)
  BY <1>1 DEF SidesSound, Readables
<1>7. rr[i].buffer = << >> => c = << >> /\ o = << >> /\ ss[i].buffer = << >>
  <2> SUFFICES ASSUME rr[i].buffer = << >> PROVE c = << >> /\ o = << >> /\ ss[i].buffer = << >>
    OBVIOUS
  <2>1. c \o ss[i].buffer = << >>
    BY DEF Moving
  <2>2. c = << >> /\ ss[i].buffer = << >>
    BY <1>6, <2>1, ConcatEqualIffEmpty
  <2> QED
    BY <2>2 DEF Copied
<1>8. ASSUME NEW j \in Sources, rr[j].ended, rr[j].buffer = << >> PROVE ss[j].buffer = << >>
  <2>1. CASE j = i
    BY <1>7, <1>8, <2>1
  <2>2. CASE j = i + 1
    <3>1. rr[i].readableEnded
      BY <1>4, <1>8, <2>2 DEF StreamsState, EndsInTurn
    <3>2. o = << >>
      BY <1>7, <3>1 DEF StreamsState, EndsInTurn
    <3>3. ss[i + 1].buffer = << >> \o << >>
      BY <1>8, <2>2, <3>2 DEF Moving
    <3> QED
      BY <1>8, <2>2, <3>2, <3>3, ConcatEmptySeq, EmptySeq
  <2>3. CASE j # i /\ j # i + 1
    BY <1>8, <2>3 DEF Moving
  <2> QED
    BY <2>1, <2>2, <2>3
<1>9. EndsInTurn(ss, v)
  <2>1. \A j \in Sources : rr[j].readableEnded => rr[j].ended /\ rr[j].buffer = << >>
    BY DEF StreamsState, EndsInTurn
  <2>2. \A j \in Sources : ss[j].readableEnded => ss[j].ended /\ ss[j].buffer = << >>
    BY <1>8, <2>1
  <2> QED
    BY <2>2 DEF StreamsState, EndsInTurn
<1>10. QueueSound(ss, v, q)
  <2>1. QueueSound(rr, w, q)
    BY DEF StreamsState
  <2>2. PassedOn(ss, v, 1) = PassedOn(rr, w, 1)
    <3>1. 1 = N - 1 \/ 1 + 1 \in Sources
      BY DEF Sources
    <3> QED
      BY <3>1 DEF PassedOn
  <2>3. \A j \in Sources : rr[j].ended /\ rr[j].buffer = << >> => ss[j].ended /\ ss[j].buffer = << >>
    BY <1>8
  <2>4. \A j \in Sources : rr[j].destroyed => ss[j].destroyed
    BY DEF Moving
  <2> QED
    BY <2>1, <2>2, <2>3, <2>4, OneSource, QueueKept
<1> QED
  BY <1>2, <1>3, <1>5, <1>9, <1>10 DEF StreamsState

-----------------------------------------------------------------------------
LEMMA SidesKept ==
  ASSUME NEW rr, NEW ss \in [Sources -> Readables], SidesSound(rr),
         \A j \in Sources : /\ ss[j].buffer = rr[j].buffer /\ ss[j].destroyed = rr[j].destroyed
                            /\ ss[j].pipes = rr[j].pipes /\ ss[j].listening = rr[j].listening
  PROVE  SidesSound(ss)
<1>1. ASSUME NEW i \in Sources
      PROVE  /\ ss[i].pipes > 0 => ss[i].listening
             /\ ss[i].listening <=> ss[1].listening
             /\ ss[i].destroyed => ss[i].buffer = << >>
  BY OneSource DEF SidesSound
<1>2. \A i \in Sources : i + 1 \in Sources /\ ss[i + 1].destroyed => ss[i].destroyed
  BY DEF SidesSound
<1> QED
  BY <1>1, <1>2 DEF SidesSound

LEMMA OneTask ==
  ASSUME NEW t \in StreamTasks
  PROVE  <<t>> \in Seq(StreamTasks) /\ Len(<<t>>) = 1 /\ \A k \in 1 .. Len(<<t>>) : <<t>>[k] = t
<1>1. Len(<<t>>) = 1 /\ <<t>>[1] = t /\ <<t>> \in Seq(StreamTasks)
  OBVIOUS
<1> QED
  BY <1>1

\* The end of a stream reaches what listens to it.
LEMMA EndingKeeps ==
  ASSUME NEW rr, NEW w, NEW q, NEW n, NEW i \in Sources, StreamsState(rr, w, q, n),
         rr[i].ended, rr[i].buffer = << >>, ~ PassedOn(rr, w, i),
         i = 1 => \A k \in 1 .. Len(q) : q[k].kind # "endRead",
         result \in {"none", "ok", "error"}, result = "ok" => w.ended,
         EndEvent(i, rr, w, q)
  PROVE  /\ StreamsState(r', sink', tasks', n)
         /\ result' \in {"none", "ok", "error"} /\ (result' = "ok" => sink'.ended)
<1>1. rr \in [Sources -> Readables] /\ w \in Writables /\ SidesSound(rr) /\ SinkSound(w) /\ QueueSound(rr, w, q)
  BY DEF StreamsState, SidesSound, SinkSound
<1>2. i \in Nat /\ N \in Nat /\ (i = N - 1 \/ i + 1 \in Sources) /\ (i + 1 \in Sources => i # N - 1)
  BY DEF Sources
<1> DEFINE ended == [rr EXCEPT ![i] = EndOf(@)]
<1>3. /\ ended \in [Sources -> Readables]
      /\ \A j \in Sources :
           /\ ended[j].buffer = rr[j].buffer /\ ended[j].taken = rr[j].taken /\ ended[j].ended = rr[j].ended
           /\ ended[j].destroyed = rr[j].destroyed /\ ended[j].listening = rr[j].listening
           /\ ended[j].pipes = rr[j].pipes
           /\ ended[j].readableEnded = (rr[j].readableEnded \/ j = i)
  <2>1. EndOf(rr[i]) \in Readables
    BY <1>1 DEF EndOf, Readables
  <2>2. \A j \in Sources : ended[j] = IF j = i THEN EndOf(rr[i]) ELSE rr[j]
    BY <1>1
  <2>3. rr[i] \in Readables
    BY <1>1
  <2>4. /\ EndOf(rr[i]).buffer = rr[i].buffer /\ EndOf(rr[i]).taken = rr[i].taken /\ EndOf(rr[i]).ended = rr[i].ended
        /\ EndOf(rr[i]).destroyed = rr[i].destroyed /\ EndOf(rr[i]).listening = rr[i].listening
        /\ EndOf(rr[i]).pipes = rr[i].pipes /\ EndOf(rr[i]).readableEnded
    BY <2>3 DEF EndOf, Readables
  <2>5. \A j \in Sources : rr[j].readableEnded \in BOOLEAN
    BY <1>1 DEF Readables
  <2> HIDE DEF ended
  <2>6. ended \in [Sources -> Readables]
    BY <1>1, <2>1 DEF ended
  <2> QED
    BY <2>2, <2>4, <2>5, <2>6
<1> HIDE DEF ended
<1>4. SidesSound(ended)
  BY <1>1, <1>3, SidesKept
\* What is left to show when the next stream has heard of the end as well.
<1>5. ASSUME NEW ss, NEW v, SidesSound(ss), SinkSound(v), Arrived(v) = Arrived(w),
             \A j \in Sources :
               /\ ss[j].buffer = rr[j].buffer /\ ss[j].taken = rr[j].taken
               /\ ss[j].destroyed = rr[j].destroyed /\ ss[j].listening = rr[j].listening
               /\ ss[j].readableEnded = (rr[j].readableEnded \/ j = i)
               /\ ss[j].ended = (rr[j].ended \/ (j = i + 1 /\ rr[i].listening)),
             v.ended = (w.ended \/ (i = N - 1 /\ rr[i].listening))
      PROVE  StreamsState(ss, v, q, n)
  <2>1. Flows(ss, n) /\ Chained(ss, v) /\ Foremost(ss, v, n)
    <3>1. Flows(rr, n) /\ Chained(rr, w) /\ Foremost(rr, w, n)
      BY DEF StreamsState
    <3>2. \A j \in Sources :
            /\ ss[j].buffer = rr[j].buffer /\ ss[j].taken = rr[j].taken
            /\ ss[j].destroyed = rr[j].destroyed /\ (rr[j].listening => ss[j].listening)
      BY <1>5
    <3>3. Arrived(v) = Arrived(w)
      BY <1>5
    <3> QED
      BY <3>1, <3>2, <3>3, ChunksStay
  <2>5. EndsInTurn(rr, w)
    BY DEF StreamsState
  <2>6. EndsInTurn(ss, v)
    <3>1. ASSUME NEW j \in Sources, ss[j].readableEnded PROVE ss[j].ended /\ ss[j].buffer = << >>
      BY <1>5, <2>5, <3>1 DEF EndsInTurn
    <3>2. ASSUME NEW k \in Sources, NEW j \in Sources, j < k, ss[k].ended PROVE ss[j].readableEnded
      <4>1. CASE rr[k].ended
        BY <1>5, <2>5, <3>2, <4>1 DEF EndsInTurn
      <4>2. CASE k = i + 1
        <5>1. j < i \/ j = i
          BY <1>2, <3>2, <4>2 DEF Sources
        <5> QED
          BY <1>5, <2>5, <5>1 DEF EndsInTurn
      <4> QED
        BY <1>5, <3>2, <4>1, <4>2
    <3>3. ASSUME v.ended, NEW j \in Sources PROVE ss[j].readableEnded
      <4>1. CASE w.ended
        BY <1>5, <2>5, <4>1 DEF EndsInTurn
      <4>2. CASE i = N - 1
        <5>1. j < i \/ j = i
          BY <1>2, <4>2 DEF Sources
        <5> QED
          BY <1>5, <2>5, <5>1 DEF EndsInTurn
      <4> QED
        BY <1>5, <3>3, <4>1, <4>2
    <3> QED
      BY <3>1, <3>2, <3>3 DEF EndsInTurn
  <2>7. PassedOn(ss, v, 1) => PassedOn(rr, w, 1) \/ \A k \in 1 .. Len(q) : q[k].kind # "endRead"
    <3>1. 1 = N - 1 \/ 1 + 1 \in Sources
      BY DEF Sources
    <3>2. CASE i = 1
      BY <3>2
    <3>3. CASE i # 1
      <4>1. 1 = N - 1 => i # N - 1
        BY <3>3
      <4>2. 1 + 1 # i + 1
        BY <1>2, <3>3
      <4> QED
        BY <1>5, <3>1, <4>1, <4>2 DEF PassedOn
    <3> QED
      BY <3>2, <3>3
  <2>8. \A j \in Sources : rr[j].ended /\ rr[j].buffer = << >> => ss[j].ended /\ ss[j].buffer = << >>
    BY <1>5
  <2>9. (\A j \in Sources : rr[j].destroyed => ss[j].destroyed) /\ (rr[1].readableEnded => ss[1].readableEnded)
    BY <1>5, OneSource
  <2>10. QueueSound(ss, v, q)
    BY <1>1, <2>7, <2>8, <2>9, QueueKept
  <2> QED
    BY <1>5, <2>1, <2>6, <2>10 DEF StreamsState
<1>6. CASE ~ rr[i].listening
  <2>1. r' = ended /\ sink' = w /\ tasks' = q /\ result' = result
    BY <1>6 DEF EndEvent, ended
  <2>2. \A j \in Sources : rr[j].ended \in BOOLEAN
    BY <1>1 DEF Readables
  <2>3. w.ended \in BOOLEAN
    BY <1>1 DEF Writables
  <2>4. StreamsState(ended, w, q, n)
    BY <1>1, <1>3, <1>4, <1>5, <1>6, <2>2, <2>3
  <2> QED
    BY <2>1, <2>4
<1>7. CASE rr[i].listening /\ i = N - 1
  <2>1. r' = ended /\ sink' = End(w) /\ tasks' = q /\ result' = IF result = "none" THEN "ok" ELSE result
    BY <1>7 DEF EndEvent, ended, IsLast
  <2>2. ~ w.ended /\ w.dropped = << >> /\ w.ends \in 0 .. 1 /\ w.ends # 1
    <3>1. ~ w.ended
      BY <1>7 DEF PassedOn
    <3> QED
      BY <1>1, <3>1 DEF SinkSound, Writables
  <2>3. w.written \in Seq(Chunks) /\ w.held \in Seq(Chunks) /\ w.dropped \in Seq(Chunks)
    BY <1>1 DEF Writables
  <2>4. /\ End(w).written = w.written /\ End(w).held = << >> /\ End(w).dropped = w.dropped \o w.held
        /\ End(w).ended /\ End(w).ends = w.ends + 1 /\ End(w).corked = 0
        /\ End(w).pending = w.pending /\ End(w).writableLength = w.writableLength
    BY <1>1 DEF End, Writables
  <2>5. End(w).dropped = w.held
    BY <2>2, <2>3, <2>4, ConcatEmptySeq
  <2>6. Arrived(End(w)) = Arrived(w)
    <3>1. w.written \o w.held \in Seq(Chunks)
      BY <2>3, LastOfJoin
    <3>2. Arrived(w) = w.written \o w.held
      BY <2>2, <3>1, ConcatEmptySeq DEF Arrived
    <3>3. w.written \o << >> = w.written
      BY <2>3, ConcatEmptySeq
    <3> QED
      BY <2>4, <2>5, <3>2, <3>3 DEF Arrived
  <2>7. End(w) \in Writables
    <3>1. w.ends + 1 \in 0 .. 1 /\ << >> \in Seq(Chunks)
      BY <2>2
    <3>2. w.dropped \o w.held \in Seq(Chunks) /\ Len(w.held) \in Nat
      BY <2>3, LastOfJoin
    <3> QED
      BY <1>1, <3>1, <3>2 DEF End, Writables
  <2>8. SinkSound(End(w))
    <3>1. End(w).ends = 1
      BY <2>2, <2>4
    <3> QED
      BY <1>1, <2>4, <2>7, <3>1 DEF SinkSound
  <2>9. \A j \in Sources : ended[j].ended = (rr[j].ended \/ (j = i + 1 /\ rr[i].listening))
    <3>1. \A j \in Sources : j # i + 1
      BY <1>2, <1>7
    <3>2. \A j \in Sources : rr[j].ended \in BOOLEAN
      BY <1>1 DEF Readables
    <3> QED
      BY <1>3, <3>1, <3>2
  <2>10. End(w).ended = (w.ended \/ (i = N - 1 /\ rr[i].listening))
    <3>1. End(w).ended \in BOOLEAN
      BY <2>7 DEF Writables
    <3> QED
      BY <1>7, <2>4, <3>1
  <2>11. StreamsState(ended, End(w), q, n)
    BY <1>3, <1>4, <1>5, <2>6, <2>8, <2>9, <2>10
  <2> QED
    BY <2>1, <2>4, <2>11
<1>8. CASE rr[i].listening /\ i # N - 1
  <2>1. i + 1 \in Sources /\ i + 1 # i
    BY <1>2, <1>8
  <2> DEFINE heard == [ended EXCEPT ![i + 1] = PushNull(@)]
  <2>2. /\ r' = heard /\ sink' = w /\ result' = result
        /\ tasks' = q \o PushNullTask(rr[i + 1], i + 1)
    BY <1>8 DEF EndEvent, ended, IsLast
  <2>3. PushNull(ended[i + 1]) \in Readables
    <3>1. ended[i + 1] \in Readables
      BY <1>3, <2>1
    <3> QED
      BY <3>1 DEF PushNull, Readables
  <2>4. ended[i + 1] \in Readables
    BY <1>3, <2>1
  <2>5. /\ PushNull(ended[i + 1]).buffer = ended[i + 1].buffer /\ PushNull(ended[i + 1]).taken = ended[i + 1].taken
        /\ PushNull(ended[i + 1]).destroyed = ended[i + 1].destroyed
        /\ PushNull(ended[i + 1]).listening = ended[i + 1].listening
        /\ PushNull(ended[i + 1]).pipes = ended[i + 1].pipes
        /\ PushNull(ended[i + 1]).readableEnded = ended[i + 1].readableEnded
        /\ PushNull(ended[i + 1]).ended
    BY <2>4 DEF PushNull, Readables
  <2>6. /\ heard \in [Sources -> Readables]
        /\ \A j \in Sources : heard[j] = IF j = i + 1 THEN PushNull(ended[i + 1]) ELSE ended[j]
    BY <1>3, <2>3
  <2> HIDE DEF heard
  <2>7. /\ \A j \in Sources :
             /\ heard[j].buffer = rr[j].buffer /\ heard[j].taken = rr[j].taken
             /\ heard[j].destroyed = rr[j].destroyed /\ heard[j].listening = rr[j].listening
             /\ heard[j].pipes = rr[j].pipes
             /\ heard[j].readableEnded = (rr[j].readableEnded \/ j = i)
    BY <1>3, <2>1, <2>5, <2>6
  <2>8. \A j \in Sources : heard[j].ended = (rr[j].ended \/ (j = i + 1 /\ rr[i].listening))
    <3>1. \A j \in Sources : rr[j].ended \in BOOLEAN /\ heard[j].ended \in BOOLEAN
      BY <1>1, <2>6 DEF Readables
    <3> QED
      BY <1>3, <1>8, <2>5, <2>6, <3>1
  <2>9. SidesSound(heard)
    BY <1>1, <2>6, <2>7, SidesKept
  <2>10. w.ended = (w.ended \/ (i = N - 1 /\ rr[i].listening))
    <3>1. w.ended \in BOOLEAN
      BY <1>1 DEF Writables
    <3> QED
      BY <1>8, <3>1
  <2>11. StreamsState(heard, w, q, n)
    BY <1>1, <1>5, <2>7, <2>8, <2>9, <2>10
  <2> DEFINE t == PushNullTask(rr[i + 1], i + 1)
  <2>12. t = << >> \/ (t = <<[kind |-> "end", of |-> i + 1]>> /\ rr[i + 1].buffer = << >>)
    BY DEF PushNullTask, Task
  <2>13. QueueSound(heard, w, q)
    BY <2>11 DEF StreamsState
  <2>14. QueueSound(heard, w, q \o t)
    <3>1. CASE t = << >>
      <4>1. q \in Seq(StreamTasks)
        BY <1>1 DEF QueueSound
      <4>2. q \o t = q
        BY <3>1, <4>1, ConcatEmptySeq
      <4> QED
        BY <2>13, <4>2
    <3>2. CASE t = <<[kind |-> "end", of |-> i + 1]>> /\ rr[i + 1].buffer = << >>
      <4>1. heard[i + 1].ended /\ heard[i + 1].buffer = << >>
        BY <1>8, <2>1, <2>7, <2>8, <3>2
      <4>2. [kind |-> "end", of |-> i + 1] \in StreamTasks
        BY <2>1 DEF StreamTasks
      <4>3. t \in Seq(StreamTasks)
        BY <3>2, <4>2, OneTask
      <4>4. \A k \in 1 .. Len(t) : t[k] = [kind |-> "end", of |-> i + 1]
        BY <3>2, <4>2, OneTask
      <4> HIDE DEF t
      <4>5. \A k \in 1 .. Len(t) :
              /\ t[k].kind = "end" => heard[t[k].of].ended /\ heard[t[k].of].buffer = << >>
              /\ t[k].kind # "endRead"
              /\ t[k].kind = "error" => heard[t[k].of].destroyed
        BY <4>1, <4>4
      <4> QED
        BY <2>13, <4>3, <4>5, QueueMore
    <3> QED
      BY <2>12, <3>1, <3>2
  <2>15. StreamsState(heard, w, q \o t, n)
    BY <2>11, <2>14 DEF StreamsState
  <2> QED
    BY <2>2, <2>15
<1> QED
  BY <1>6, <1>7, <1>8

LEMMA MayEndKeeps ==
  ASSUME NEW rr, NEW w, NEW q, NEW n, NEW i \in Sources, StreamsState(rr, w, q, n),
         result \in {"none", "ok", "error"}, result = "ok" => w.ended,
         MayEnd(i, rr, w, q)
  PROVE  /\ StreamsState(r', sink', tasks', n)
         /\ result' \in {"none", "ok", "error"} /\ (result' = "ok" => sink'.ended)
<1>1. CASE ~ Ends(rr[i])
  BY <1>1 DEF MayEnd
<1>2. CASE Ends(rr[i])
  <2>1. rr[i].ended /\ rr[i].buffer = << >> /\ ~ rr[i].readableEnded /\ EndEvent(i, rr, w, q)
    BY <1>2 DEF MayEnd, Ends
  <2>2. ~ PassedOn(rr, w, i)
    <3>1. i = N - 1 \/ (i + 1 \in Sources /\ i < i + 1)
      BY DEF Sources
    <3> QED
      BY <2>1, <3>1 DEF StreamsState, EndsInTurn, PassedOn
  <2>3. i = 1 => \A k \in 1 .. Len(q) : q[k].kind # "endRead"
    BY <2>1 DEF StreamsState, QueueSound
  <2> QED
    BY <2>1, <2>2, <2>3, EndingKeeps
<1> QED
  BY <1>1, <1>2

-----------------------------------------------------------------------------
LEMMA JoinedThrice ==
  ASSUME NEW s \in Seq(Chunks), NEW t \in Seq(Chunks), NEW u \in Seq(Chunks)
  PROVE  (s \o t) \o u = s \o (t \o u)
BY ConcatAssociative

LEMMA TakeIs ==
  ASSUME NEW s \in Readables, NEW m \in 0 .. Len(s.buffer)
  PROVE  LET c == SubSeq(s.buffer, 1, m)
             t == Take(s, m)
         IN  /\ c \in Seq(Chunks) /\ t \in Readables
             /\ t.taken = s.taken \o c /\ c \o t.buffer = s.buffer /\ Received(t) = Received(s)
             /\ t.ended = s.ended /\ t.readableEnded = s.readableEnded /\ t.destroyed = s.destroyed
             /\ t.flowing = s.flowing /\ t.listening = s.listening /\ t.pipes = s.pipes
             /\ s.buffer = << >> => t.buffer = << >>
<1> DEFINE c == SubSeq(s.buffer, 1, m)
<1> DEFINE b == SubSeq(s.buffer, m + 1, Len(s.buffer))
<1> DEFINE t == Take(s, m)
<1>1. s.buffer \in Seq(Chunks) /\ s.taken \in Seq(Chunks)
  BY DEF Readables
<1>2. c \in Seq(Chunks) /\ b \in Seq(Chunks) /\ c \o b = s.buffer
  BY <1>1, TwoParts
<1>3. /\ t.taken = s.taken \o c /\ t.buffer = b
      /\ t.ended = s.ended /\ t.readableEnded = s.readableEnded /\ t.destroyed = s.destroyed
      /\ t.flowing = s.flowing /\ t.listening = s.listening /\ t.pipes = s.pipes
  BY DEF Take, Readables
<1>4. s.taken \o c \in Seq(Chunks)
  BY <1>1, <1>2, LastOfJoin
<1>5. t \in Readables
  <2> HIDE DEF b, c
  <2>1. t = [s EXCEPT !.buffer = b, !.taken = s.taken \o c]
    BY DEF Take, b, c, Readables
  <2> QED
    BY <1>2, <1>4, <2>1 DEF Readables
<1> HIDE DEF b, c, t
<1>6. Received(t) = Received(s)
  <2>1. (s.taken \o c) \o b = s.taken \o (c \o b)
    BY <1>1, <1>2, JoinedThrice
  <2> QED
    BY <1>2, <1>3, <2>1 DEF Received
<1>7. s.buffer = << >> => t.buffer = << >>
  BY <1>2, <1>3, ConcatEqualIffEmpty
<1> QED
  BY <1>2, <1>3, <1>5, <1>6, <1>7 DEF b, c, t

\* The sides when stream i has lost its first m chunks.
TakenFrom(rr, i, m) == [rr EXCEPT ![i] = Take(@, m)]

LEMMA TakenIs ==
  ASSUME NEW rr, SidesSound(rr), NEW i \in Sources, NEW m \in 0 .. Len(rr[i].buffer)
  PROVE  LET c == SubSeq(rr[i].buffer, 1, m)
             taken == TakenFrom(rr, i, m)
         IN  /\ c \in Seq(Chunks) /\ SidesSound(taken)
             /\ taken[i].taken = rr[i].taken \o c /\ c \o taken[i].buffer = rr[i].buffer
             /\ taken[i].flowing = rr[i].flowing
             /\ \A j \in Sources : /\ Received(taken[j]) = Received(rr[j]) /\ (j # i => taken[j] = rr[j])
                                   /\ taken[j].ended = rr[j].ended /\ taken[j].readableEnded = rr[j].readableEnded
                                   /\ taken[j].destroyed = rr[j].destroyed /\ taken[j].listening = rr[j].listening
<1> DEFINE c == SubSeq(rr[i].buffer, 1, m)
<1> DEFINE t == Take(rr[i], m)
<1> DEFINE taken == TakenFrom(rr, i, m)
<1>1. rr \in [Sources -> Readables] /\ rr[i] \in Readables
  BY DEF SidesSound
<1>2. /\ c \in Seq(Chunks) /\ t \in Readables
      /\ t.taken = rr[i].taken \o c /\ c \o t.buffer = rr[i].buffer /\ Received(t) = Received(rr[i])
      /\ t.ended = rr[i].ended /\ t.readableEnded = rr[i].readableEnded /\ t.destroyed = rr[i].destroyed
      /\ t.flowing = rr[i].flowing /\ t.listening = rr[i].listening /\ t.pipes = rr[i].pipes
      /\ rr[i].buffer = << >> => t.buffer = << >>
  BY <1>1, TakeIs
<1>3. taken \in [Sources -> Readables] /\ \A j \in Sources : taken[j] = IF j = i THEN t ELSE rr[j]
  BY <1>1, <1>2 DEF TakenFrom
<1> HIDE DEF c, t, taken
<1>4. \A j \in Sources :
        /\ taken[j].pipes = rr[j].pipes /\ taken[j].listening = rr[j].listening
        /\ taken[j].destroyed = rr[j].destroyed /\ (rr[j].buffer = << >> => taken[j].buffer = << >>)
        /\ Received(taken[j]) = Received(rr[j]) /\ (j # i => taken[j] = rr[j])
        /\ taken[j].ended = rr[j].ended /\ taken[j].readableEnded = rr[j].readableEnded
  BY <1>2, <1>3
<1>5. \A j \in Sources : /\ taken[j].pipes > 0 => taken[j].listening
                         /\ taken[j].listening <=> taken[1].listening
                         /\ taken[j].destroyed => taken[j].buffer = << >>
  BY <1>4, OneSource DEF SidesSound
<1>6. \A j \in Sources : j + 1 \in Sources /\ taken[j + 1].destroyed => taken[j].destroyed
  BY <1>4 DEF SidesSound
<1>7. SidesSound(taken)
  BY <1>3, <1>5, <1>6 DEF SidesSound
<1>8. taken[i].taken = rr[i].taken \o c /\ c \o taken[i].buffer = rr[i].buffer /\ taken[i].flowing = rr[i].flowing
  BY <1>2, <1>3
<1> QED
  BY <1>2, <1>4, <1>7, <1>8 DEF c, taken

\* Chunks that leave the buffer of a stream nobody listens to are gone.
LEMMA TakenAside ==
  ASSUME NEW rr, NEW w, NEW q, NEW n, StreamsState(rr, w, q, n),
         NEW i \in Sources, NEW m \in 0 .. Len(rr[i].buffer), ~ rr[i].listening
  PROVE  StreamsState([rr EXCEPT ![i] = Take(@, m)], w, q, n)
<1> DEFINE c == SubSeq(rr[i].buffer, 1, m)
<1> DEFINE taken == TakenFrom(rr, i, m)
<1>1. SidesSound(rr) /\ SinkSound(w) /\ rr \in [Sources -> Readables] /\ w \in Writables
  BY DEF StreamsState, SidesSound, SinkSound
<1>2. /\ c \in Seq(Chunks) /\ SidesSound(taken)
      /\ taken[i].taken = rr[i].taken \o c /\ c \o taken[i].buffer = rr[i].buffer
      /\ \A j \in Sources : /\ Received(taken[j]) = Received(rr[j]) /\ (j # i => taken[j] = rr[j])
                            /\ taken[j].ended = rr[j].ended /\ taken[j].readableEnded = rr[j].readableEnded
                            /\ taken[j].destroyed = rr[j].destroyed /\ taken[j].listening = rr[j].listening
  <2>1. SidesSound(rr) /\ m \in 0 .. Len(rr[i].buffer)
    BY <1>1
  <2>2. c \in Seq(Chunks) /\ SidesSound(taken)
    BY <2>1, TakenIs
  <2>3. taken[i].taken = rr[i].taken \o c /\ c \o taken[i].buffer = rr[i].buffer
    <3>1. rr[i] \in Readables /\ taken[i] = Take(rr[i], m)
      BY <1>1 DEF TakenFrom
    <3> HIDE DEF taken
    <3>2. Take(rr[i], m).taken = rr[i].taken \o c /\ c \o Take(rr[i], m).buffer = rr[i].buffer
      BY <3>1, TakeIs
    <3> QED
      BY <3>1, <3>2
  <2>4. \A j \in Sources : /\ Received(taken[j]) = Received(rr[j]) /\ (j # i => taken[j] = rr[j])
                           /\ taken[j].ended = rr[j].ended /\ taken[j].readableEnded = rr[j].readableEnded
                           /\ taken[j].destroyed = rr[j].destroyed /\ taken[j].listening = rr[j].listening
    BY <2>1, TakenIs
  <2> QED
    BY <2>2, <2>3, <2>4
<1> HIDE DEF c, taken
<1>3. i \in Nat /\ i + 1 \in 1 .. N /\ i + 1 # i
  BY DEF Sources
<1>4. \A j \in 1 .. N : Got(taken, w, j) = Got(rr, w, j)
  <2>1. ASSUME NEW j \in 1 .. N, j # N PROVE j \in Sources
    BY <2>1 DEF Sources
  <2> QED
    BY <1>2, <2>1 DEF Got
<1>5. Moving(rr, w, taken, w, i, c, << >>)
  <2>1. Got(taken, w, i + 1) = Got(rr, w, i + 1) \o << >>
    <3>1. Got(rr, w, i + 1) \in Seq(Chunks)
      BY <1>1, <1>3, GotChunks
    <3> QED
      BY <1>3, <1>4, <3>1, ConcatEmptySeq
  <2>2. i + 1 \in Sources => taken[i + 1].buffer = rr[i + 1].buffer \o << >>
    <3>1. i + 1 \in Sources => rr[i + 1].buffer \in Seq(Chunks)
      BY <1>1 DEF Readables
    <3> QED
      BY <1>2, <1>3, <3>1, ConcatEmptySeq
  <2> QED
    BY <1>2, <1>4, <2>1, <2>2 DEF Moving
<1>6. Copied(c, << >>, rr[i].listening)
  BY EmptySeq DEF Copied, Steady
<1>7. StreamsState(taken, w, q, n)
  BY <1>1, <1>2, <1>5, <1>6, EmptySeq, MovingKeeps
<1> QED
  BY <1>7 DEF taken, TakenFrom

\* What is written arrives, or is held back, or refused; and a pipe that is to wait for
\* a drain has something to wait for.
LEMMA WriteIs ==
  ASSUME NEW w, SinkSound(w), NEW o \in Seq(Chunks), NEW stops \in BOOLEAN, stops => o # << >>
  PROVE  LET v == [Write(w, o) EXCEPT !.waiting = @ \/ stops]
         IN  SinkSound(v) /\ Arrived(v) = Arrived(w) \o o /\ v.ended = w.ended
<1> DEFINE v == [Write(w, o) EXCEPT !.waiting = @ \/ stops]
<1>1. /\ w \in Writables
      /\ w.written \in Seq(Chunks) /\ w.held \in Seq(Chunks) /\ w.dropped \in Seq(Chunks)
      /\ w.pending \in Seq(Chunks) /\ w.waiting \in BOOLEAN /\ w.corked \in Nat /\ w.ended \in BOOLEAN
  BY DEF SinkSound, Writables
<1>2. w.written \o w.held \in Seq(Chunks)
  BY <1>1, LastOfJoin
<1>3. w.writableLength = Len(w.pending) /\ Len(w.pending) \in Nat /\ Len(o) \in Nat
  BY <1>1 DEF SinkSound
<1>4. CASE w.ended
  <2>1. w.dropped \o o \in Seq(Chunks)
    BY <1>1, LastOfJoin
  <2>2. Write(w, o) = [w EXCEPT !.dropped = @ \o o]
    BY <1>4 DEF Write
  <2>3. /\ v.dropped = w.dropped \o o /\ v.written = w.written /\ v.held = w.held /\ v.pending = w.pending
        /\ v.writableLength = w.writableLength /\ v.ended = w.ended /\ v.ends = w.ends /\ v.corked = w.corked
        /\ v.waiting = (w.waiting \/ stops)
    BY <1>1, <2>2 DEF Writables
  <2>4. v \in Writables
    <3>1. Write(w, o) \in Writables
      BY <1>1, <2>1, <2>2 DEF Writables
    <3> QED
      BY <3>1 DEF Writables
  <2> HIDE DEF v
  <2>5. Arrived(v) = Arrived(w) \o o
    <3>1. ((w.written \o w.held) \o w.dropped) \o o = (w.written \o w.held) \o (w.dropped \o o)
      BY <1>1, <1>2, JoinedThrice
    <3> QED
      BY <2>3, <3>1 DEF Arrived
  <2>6. SinkSound(v)
    BY <1>4, <2>3, <2>4 DEF SinkSound
  <2> QED
    BY <2>3, <2>5, <2>6 DEF v
<1>5. CASE ~ w.ended /\ w.corked > 0
  <2>1. w.held \o o \in Seq(Chunks)
    BY <1>1, LastOfJoin
  <2>2. Write(w, o) = [w EXCEPT !.held = @ \o o]
    BY <1>5 DEF Write
  <2>3. /\ v.dropped = w.dropped /\ v.written = w.written /\ v.held = w.held \o o /\ v.pending = w.pending
        /\ v.writableLength = w.writableLength /\ v.ended = w.ended /\ v.ends = w.ends /\ v.corked = w.corked
        /\ v.waiting = (w.waiting \/ stops)
    BY <1>1, <2>2 DEF Writables
  <2>4. v \in Writables
    <3>1. Write(w, o) \in Writables
      BY <1>1, <2>1, <2>2 DEF Writables
    <3> QED
      BY <3>1 DEF Writables
  <2> HIDE DEF v
  <2>5. w.dropped = << >>
    BY <1>5 DEF SinkSound
  <2>6. Arrived(v) = Arrived(w) \o o
    <3>1. Arrived(w) = w.written \o w.held
      BY <1>2, <2>5, ConcatEmptySeq DEF Arrived
    <3>2. w.written \o (w.held \o o) \in Seq(Chunks)
      BY <1>1, <2>1, LastOfJoin
    <3>3. Arrived(v) = w.written \o (w.held \o o)
      BY <2>3, <2>5, <3>2, ConcatEmptySeq DEF Arrived
    <3> QED
      <4>1. (w.written \o w.held) \o o = w.written \o (w.held \o o)
        BY <1>1, JoinedThrice
      <4> QED
        BY <3>1, <3>3, <4>1
  <2>7. v.waiting => v.pending # << >> \/ v.held # << >>
    <3>1. v.held = << >> <=> w.held = << >> /\ o = << >>
      BY <1>1, <2>3, ConcatEqualIffEmpty
    <3> QED
      BY <1>5, <2>3, <3>1 DEF SinkSound
  <2>8. v.writableLength = Len(v.pending) /\ (v.ended <=> v.ends = 1) /\ ~ v.ended /\ v.corked # 0
    BY <1>1, <1>3, <1>5, <2>3 DEF SinkSound
  <2>9. SinkSound(v)
    BY <2>3, <2>4, <2>5, <2>7, <2>8 DEF SinkSound
  <2> QED
    BY <2>3, <2>6, <2>9 DEF v
<1>6. CASE ~ w.ended /\ ~ (w.corked > 0)
  <2>1. w.pending \o o \in Seq(Chunks) /\ Len(w.pending \o o) = Len(w.pending) + Len(o)
        /\ w.written \o o \in Seq(Chunks)
    BY <1>1, LastOfJoin
  <2>2. Write(w, o) = [w EXCEPT !.pending = @ \o o, !.written = @ \o o, !.writableLength = @ + Len(o)]
    BY <1>6 DEF Write
  <2>3. /\ v.dropped = w.dropped /\ v.written = w.written \o o /\ v.held = w.held /\ v.pending = w.pending \o o
        /\ v.writableLength = w.writableLength + Len(o) /\ v.ended = w.ended /\ v.ends = w.ends /\ v.corked = w.corked
        /\ v.waiting = (w.waiting \/ stops)
    BY <1>1, <2>2 DEF Writables
  <2>4. v \in Writables
    <3>1. w.writableLength + Len(o) \in Nat
      BY <1>3
    <3>2. Write(w, o) \in Writables
      BY <1>1, <2>1, <2>2, <3>1 DEF Writables
    <3> QED
      BY <3>2 DEF Writables
  <2> HIDE DEF v
  <2>5. w.dropped = << >> /\ w.held = << >> /\ w.corked = 0
    BY <1>1, <1>6 DEF SinkSound
  <2>6. Arrived(v) = Arrived(w) \o o
    <3>1. Arrived(w) = w.written
      <4>1. w.written \o << >> = w.written
        BY <1>1, ConcatEmptySeq
      <4> QED
        BY <2>5, <4>1 DEF Arrived
    <3>2. Arrived(v) = w.written \o o
      <4>1. (w.written \o o) \o << >> = w.written \o o
        BY <2>1, ConcatEmptySeq
      <4> QED
        BY <2>3, <2>5, <4>1 DEF Arrived
    <3> QED
      BY <3>1, <3>2
  <2>7. v.waiting => v.pending # << >>
    <3>1. v.pending = << >> <=> w.pending = << >> /\ o = << >>
      BY <1>1, <2>3, ConcatEqualIffEmpty
    <3> QED
      BY <1>6, <2>3, <2>5, <3>1 DEF SinkSound
  <2>8. v.writableLength = Len(v.pending) /\ (v.ended <=> v.ends = 1) /\ ~ v.ended
    BY <1>1, <1>3, <1>6, <2>1, <2>3 DEF SinkSound
  <2>9. SinkSound(v)
    BY <2>3, <2>4, <2>5, <2>7, <2>8 DEF SinkSound
  <2> QED
    BY <2>3, <2>6, <2>9 DEF v
<1> QED
  BY <1>1, <1>4, <1>5, <1>6 DEF v

LEMMA PushesAre ==
  ASSUME NEW s, NEW i \in Sources, NEW n \in Nat, NEW rr, NEW w, NEW q, QueueSound(rr, w, q)
  PROVE  QueueSound(rr, w, q \o PushTask(s, i, n))
<1> DEFINE t == PushTask(s, i, n)
<1>1. Task("flush", i) \in StreamTasks /\ Task("flush", i).kind = "flush"
  BY DEF Task, StreamTasks
<1>2. t = << >> \/ t = [k \in 1 .. n |-> Task("flush", i)]
  BY DEF PushTask
<1> HIDE DEF t
<1>3. t \in Seq(StreamTasks) /\ \A k \in 1 .. Len(t) : t[k] = Task("flush", i)
  <2>1. CASE t = << >>
    BY <2>1
  <2>2. CASE t = [k \in 1 .. n |-> Task("flush", i)]
    <3> HIDE DEF Task
    <3>1. t \in Seq(StreamTasks) /\ Len(t) = n
      BY <1>1, <2>2
    <3> QED
      BY <2>2, <3>1
  <2> QED
    BY <1>2, <2>1, <2>2
<1>4. \A k \in 1 .. Len(t) : t[k].kind = "flush"
  BY <1>1, <1>3
<1>5. QueueSound(rr, w, q \o t)
  BY <1>3, <1>4, QueueMore
<1> QED
  BY <1>5 DEF t

\* The body of the loops of push() and resume().
LEMMA EmitKeeps ==
  ASSUME StreamsInv, tasks # << >>, NEW i \in Sources, NEW m \in 0 .. Len(r[i].buffer), NEW copies \in 0 .. 2,
         copies = 0 <=> ~ r[i].listening, EmitChunks(i, m, copies), UNCHANGED pushed
  PROVE  StreamsInv'
<1> DEFINE c == SubSeq(r[i].buffer, 1, m)
<1> DEFINE o == Copies(c, copies)
<1> DEFINE taken == [r EXCEPT ![i] = Take(@, m)]
<1> DEFINE rest == Tail(tasks)
<1>1. /\ StreamsState(r, sink, tasks, pushed) /\ SidesSound(r) /\ SinkSound(sink) /\ QueueSound(r, sink, tasks)
      /\ r \in [Sources -> Readables] /\ r[i] \in Readables /\ sink \in Writables
      /\ r[i].taken \in Seq(Chunks) /\ r[i].buffer \in Seq(Chunks)
  BY DEF StreamsInv, StreamsState, SidesSound, SinkSound, Readables
<1>2. i \in Nat /\ N \in Nat /\ i \in 1 .. N /\ i + 1 \in 1 .. N /\ i + 1 # i /\ i # N /\ (i = N - 1 \/ i + 1 \in Sources)
      /\ (i = N - 1 => i + 1 = N /\ i + 1 \notin Sources) /\ (i # N - 1 => i + 1 # N)
  BY DEF Sources
<1>3. StreamsState(r, sink, rest, pushed)
  BY <1>1, QueueTail DEF StreamsState
<1>4. result \in {"none", "ok", "error"} /\ (result = "ok" => sink.ended)
  BY DEF StreamsInv
<1>5. /\ c \in Seq(Chunks) /\ Take(r[i], m) \in Readables
      /\ Take(r[i], m).taken = r[i].taken \o c /\ c \o Take(r[i], m).buffer = r[i].buffer
      /\ Received(Take(r[i], m)) = Received(r[i])
      /\ Take(r[i], m).ended = r[i].ended /\ Take(r[i], m).readableEnded = r[i].readableEnded
      /\ Take(r[i], m).destroyed = r[i].destroyed /\ Take(r[i], m).flowing = r[i].flowing
      /\ Take(r[i], m).listening = r[i].listening /\ Take(r[i], m).pipes = r[i].pipes
      /\ (r[i].buffer = << >> => Take(r[i], m).buffer = << >>)
  BY <1>1, TakeIs
<1>6. taken \in [Sources -> Readables] /\ \A j \in Sources : taken[j] = IF j = i THEN Take(r[i], m) ELSE r[j]
  BY <1>1, <1>5
<1>7. c # << >> <=> m >= 1
  <2>1. Len(c) = m
    BY <1>1, TwoParts
  <2> HIDE DEF c
  <2> QED
    BY <1>5, <2>1, EmptySeq
<1>8. copies # 0 => /\ o \in Seq(Chunks) /\ Len(o) = copies * Len(c) /\ (o = << >> <=> c = << >>)
                    /\ Copied(c, o, r[i].listening)
  <2> SUFFICES ASSUME copies # 0
               PROVE  /\ o \in Seq(Chunks) /\ Len(o) = copies * Len(c) /\ (o = << >> <=> c = << >>)
                      /\ Copied(c, o, r[i].listening)
    OBVIOUS
  <2>1. copies \in {1, 2}
    OBVIOUS
  <2> HIDE DEF c
  <2>2. /\ Copies(c, copies) \in Seq(Chunks) /\ Len(Copies(c, copies)) = copies * Len(c)
        /\ Steady(c) => Steady(Copies(c, copies))
        /\ Copies(c, copies) = << >> <=> c = << >>
        /\ c # << >> => Copies(c, copies)[1] = c[1] /\ Last(Copies(c, copies)) = Last(c)
    BY <1>5, <2>1, CopiesAre
  <2> QED
    BY <2>2 DEF Copied
<1>9. \A j \in Sources : taken[j].buffer \in Seq(Chunks) /\ r[j].buffer \in Seq(Chunks)
  BY <1>1, <1>6 DEF Readables
<1> HIDE DEF c, o, taken, rest
<1>10. SidesSound(taken)
  <2>1. \A j \in Sources : /\ taken[j].pipes > 0 => taken[j].listening
                           /\ taken[j].listening <=> taken[1].listening
                           /\ taken[j].destroyed => taken[j].buffer = << >>
    <3>1. \A j \in Sources : /\ taken[j].pipes = r[j].pipes /\ taken[j].listening = r[j].listening
                             /\ taken[j].destroyed = r[j].destroyed /\ (r[j].buffer = << >> => taken[j].buffer = << >>)
      BY <1>5, <1>6
    <3> QED
      BY <1>1, <3>1, OneSource DEF SidesSound
  <2>2. \A j \in Sources : j + 1 \in Sources /\ taken[j + 1].destroyed => taken[j].destroyed
    BY <1>1, <1>5, <1>6 DEF SidesSound
  <2> QED
    BY <1>6, <2>1, <2>2 DEF SidesSound
<1>11. /\ \A j \in 1 .. N : j # i => Got(taken, sink, j) = Got(r, sink, j)
       /\ Got(taken, sink, i) = Got(r, sink, i)
  <2>1. ASSUME NEW j \in 1 .. N, j # N PROVE j \in Sources
    BY <2>1 DEF Sources
  <2> QED
    BY <1>2, <1>5, <1>6, <2>1 DEF Got
\* Nobody listens.
<1>12. CASE copies = 0
  <2>1. MayEnd(i, taken, sink, rest)
    BY <1>12 DEF EmitChunks, taken, rest
  <2>2. StreamsState(taken, sink, rest, pushed)
    BY <1>3, <1>12, TakenAside DEF taken
  <2>3. StreamsState(r', sink', tasks', pushed) /\ result' \in {"none", "ok", "error"} /\ (result' = "ok" => sink'.ended)
    BY <1>4, <2>1, <2>2, MayEndKeeps
  <2> QED
    BY <2>3 DEF StreamsInv
\* A Transform pushes them.
<1>13. CASE copies # 0 /\ i # N - 1
  <2> DEFINE passed == [taken EXCEPT ![i + 1] = Push(@, o)]
  <2>1. MayEnd(i, passed, sink, rest \o PushTask(r[i + 1], i + 1, Len(o)))
    BY <1>13 DEF EmitChunks, IsLast, Passed, PassedTasks, taken, rest, o, c
  <2>2. i + 1 \in Sources /\ o \in Seq(Chunks) /\ Copied(c, o, r[i].listening)
    BY <1>2, <1>8, <1>13
  <2>3. /\ taken[i + 1] = r[i + 1] /\ r[i + 1] \in Readables
        /\ r[i + 1].buffer \in Seq(Chunks) /\ r[i + 1].taken \in Seq(Chunks)
    BY <1>1, <1>2, <1>6, <2>2 DEF Readables
  <2>4. /\ Push(r[i + 1], o) \in Readables
        /\ Push(r[i + 1], o).buffer = r[i + 1].buffer \o o /\ Push(r[i + 1], o).taken = r[i + 1].taken
        /\ Push(r[i + 1], o).ended = r[i + 1].ended /\ Push(r[i + 1], o).readableEnded = r[i + 1].readableEnded
        /\ Push(r[i + 1], o).destroyed = r[i + 1].destroyed /\ Push(r[i + 1], o).pipes = r[i + 1].pipes
        /\ Push(r[i + 1], o).listening = r[i + 1].listening
    <3>1. r[i + 1].buffer \o o \in Seq(Chunks)
      BY <2>2, <2>3, LastOfJoin
    <3> QED
      BY <2>3, <3>1 DEF Push, Readables
  <2>5. /\ passed \in [Sources -> Readables]
        /\ \A j \in Sources : passed[j] = IF j = i + 1 THEN Push(r[i + 1], o) ELSE taken[j]
    BY <1>6, <2>2, <2>3, <2>4
  <2> HIDE DEF passed
  <2>6. r[i + 1].destroyed => o = << >>
    <3>1. r[i + 1].destroyed => r[i].buffer = << >>
      BY <1>1, <2>2 DEF SidesSound
    <3>2. r[i].buffer = << >> => c = << >>
      BY <1>5, <1>9, <1>6, ConcatEqualIffEmpty
    <3> QED
      BY <2>2, <3>1, <3>2 DEF Copied
  <2>7. SidesSound(passed)
    <3>1. \A j \in Sources : /\ passed[j].pipes = taken[j].pipes /\ passed[j].listening = taken[j].listening
                             /\ passed[j].destroyed = taken[j].destroyed
      BY <2>3, <2>4, <2>5
    <3>2. \A j \in Sources : passed[j].destroyed => passed[j].buffer = << >>
      <4>1. r[i + 1].destroyed => r[i + 1].buffer \o o = << >>
        BY <1>1, <2>2, <2>3, <2>6, ConcatEqualIffEmpty DEF SidesSound
      <4> QED
        BY <1>10, <2>3, <2>4, <2>5, <4>1 DEF SidesSound
    <3>3. \A j \in Sources : passed[j].pipes > 0 => passed[j].listening
      BY <1>10, <3>1 DEF SidesSound
    <3>4. \A j \in Sources : passed[j].listening <=> passed[1].listening
      BY <1>10, <3>1, OneSource DEF SidesSound
    <3>5. \A j \in Sources : j + 1 \in Sources /\ passed[j + 1].destroyed => passed[j].destroyed
      BY <1>10, <3>1 DEF SidesSound
    <3> QED
      BY <2>5, <3>2, <3>3, <3>4, <3>5 DEF SidesSound
  <2>8. Moving(r, sink, passed, sink, i, c, o)
    <3>1. Got(passed, sink, i + 1) = Got(r, sink, i + 1) \o o
      <4>1. (r[i + 1].taken \o r[i + 1].buffer) \o o = r[i + 1].taken \o (r[i + 1].buffer \o o)
        BY <2>2, <2>3, JoinedThrice
      <4>2. passed[i + 1] = Push(r[i + 1], o)
        BY <2>2, <2>5
      <4>3. Received(passed[i + 1]) = Received(r[i + 1]) \o o
        BY <2>4, <4>1, <4>2 DEF Received
      <4> QED
        BY <1>2, <1>13, <4>3 DEF Got
    <3>2. passed[i + 1].buffer = r[i + 1].buffer \o o /\ passed[i + 1].taken = r[i + 1].taken
      BY <2>2, <2>4, <2>5
    <3>3. \A j \in Sources : passed[j].listening = r[j].listening /\ passed[j].destroyed = r[j].destroyed
      BY <1>5, <1>6, <2>4, <2>5
    <3>4. \A j \in 1 .. N : j # i + 1 => Got(passed, sink, j) = Got(r, sink, j)
      <4> SUFFICES ASSUME NEW j \in 1 .. N, j # i + 1 PROVE Got(passed, sink, j) = Got(taken, sink, j)
        BY <1>11
      <4>1. j # N => j \in Sources
        BY DEF Sources
      <4> QED
        BY <2>5, <4>1 DEF Got
    <3>5. passed[i].taken = r[i].taken \o c /\ c \o passed[i].buffer = r[i].buffer
      BY <1>2, <1>5, <1>6, <2>5
    <3>6. \A j \in Sources : j # i => passed[j].taken = r[j].taken
      BY <1>6, <2>5, <3>2
    <3>7. \A j \in Sources : j # i /\ j # i + 1 => passed[j].buffer = r[j].buffer
      BY <1>6, <2>5
    <3> QED
      BY <3>1, <3>2, <3>3, <3>4, <3>5, <3>6, <3>7 DEF Moving
  <2>9. \A j \in Sources : passed[j].ended = r[j].ended /\ passed[j].readableEnded = r[j].readableEnded
    BY <1>5, <1>6, <2>4, <2>5
  <2>10. StreamsState(passed, sink, rest, pushed)
    BY <1>1, <1>3, <1>5, <2>2, <2>7, <2>8, <2>9, MovingKeeps
  <2> DEFINE more == rest \o PushTask(r[i + 1], i + 1, Len(o))
  <2>11. StreamsState(passed, sink, more, pushed)
    <3>1. QueueSound(passed, sink, rest) /\ Len(o) \in Nat
      BY <2>2, <2>10 DEF StreamsState
    <3>2. QueueSound(passed, sink, more)
      BY <2>2, <3>1, PushesAre
    <3> QED
      BY <2>10, <3>2 DEF StreamsState
  <2> HIDE DEF more
  <2>12. MayEnd(i, passed, sink, more)
    BY <2>1 DEF more
  <2>13. StreamsState(r', sink', tasks', pushed) /\ result' \in {"none", "ok", "error"} /\ (result' = "ok" => sink'.ended)
    BY <1>4, <2>11, <2>12, MayEndKeeps
  <2> QED
    BY <2>13 DEF StreamsInv
\* The sink is written to.
<1>14. CASE copies # 0 /\ i = N - 1
  <2> DEFINE stops == r[i].listening /\ \E k \in 1 .. m : Full(sink, (k - 1) * copies + 1)
  <2> DEFINE held == [taken EXCEPT ![i].flowing = @ /\ ~ stops]
  <2> DEFINE w == [Write(sink, o) EXCEPT !.waiting = @ \/ stops]
  <2>1. MayEnd(i, held, w, rest)
    BY <1>14 DEF EmitChunks, IsLast, taken, rest, o, c
  <2>2. o \in Seq(Chunks) /\ Copied(c, o, r[i].listening)
    BY <1>8, <1>14
  <2>3. stops \in BOOLEAN /\ (stops => o # << >>)
    <3>1. r[i].listening \in BOOLEAN
      BY <1>1 DEF Readables
    <3>2. stops => m >= 1
      OBVIOUS
    <3> QED
      BY <1>7, <1>8, <1>14, <3>1, <3>2
  <2> HIDE DEF stops
  <2>4. SinkSound(w) /\ Arrived(w) = Arrived(sink) \o o /\ w.ended = sink.ended
    BY <1>1, <2>2, <2>3, WriteIs
  <2> HIDE DEF w
  <2>5. taken[i] \in Readables
    BY <1>6
  <2> DEFINE s == [taken[i] EXCEPT !.flowing = @ /\ ~ stops]
  <2>6. /\ s \in Readables /\ s.buffer = taken[i].buffer /\ s.taken = taken[i].taken /\ s.ended = taken[i].ended
        /\ s.readableEnded = taken[i].readableEnded /\ s.destroyed = taken[i].destroyed
        /\ s.listening = taken[i].listening /\ s.pipes = taken[i].pipes
    BY <2>5 DEF Readables
  <2>7. held \in [Sources -> Readables] /\ \A j \in Sources : held[j] = IF j = i THEN s ELSE taken[j]
    BY <1>6, <2>6
  <2> HIDE DEF held, s
  <2>8. \A j \in Sources :
          /\ held[j].buffer = taken[j].buffer /\ held[j].taken = taken[j].taken /\ held[j].ended = taken[j].ended
          /\ held[j].readableEnded = taken[j].readableEnded /\ held[j].destroyed = taken[j].destroyed
          /\ held[j].listening = taken[j].listening /\ held[j].pipes = taken[j].pipes
    BY <2>6, <2>7
  <2>9. SidesSound(held)
    BY <1>10, <2>7, <2>8, SidesKept
  <2>10. Moving(r, sink, held, w, i, c, o)
    <3>1. Got(held, w, i + 1) = Got(r, sink, i + 1) \o o
      BY <1>2, <1>14, <2>4 DEF Got
    <3>2. i + 1 \notin Sources
      BY <1>2, <1>14
    <3>3. \A j \in Sources : held[j].listening = r[j].listening /\ held[j].destroyed = r[j].destroyed
      BY <1>5, <1>6, <2>8
    <3>4. \A j \in 1 .. N : j # i + 1 => Got(held, w, j) = Got(r, sink, j)
      <4> SUFFICES ASSUME NEW j \in 1 .. N, j # i + 1 PROVE Got(held, w, j) = Got(taken, sink, j)
        BY <1>11
      <4>1. j # N /\ j \in Sources
        BY <1>2, <1>14 DEF Sources
      <4> QED
        BY <2>8, <4>1 DEF Got, Received
    <3>5. held[i].taken = r[i].taken \o c /\ c \o held[i].buffer = r[i].buffer
      BY <1>5, <1>6, <2>8
    <3>6. \A j \in Sources : j # i => held[j].taken = r[j].taken /\ held[j].buffer = r[j].buffer
      BY <1>6, <2>8
    <3> QED
      BY <3>1, <3>2, <3>3, <3>4, <3>5, <3>6 DEF Moving
  <2>11. \A j \in Sources : held[j].ended = r[j].ended /\ held[j].readableEnded = r[j].readableEnded
    BY <1>5, <1>6, <2>8
  <2>12. StreamsState(held, w, rest, pushed)
    BY <1>1, <1>3, <1>5, <2>2, <2>4, <2>9, <2>10, <2>11, MovingKeeps
  <2>13. StreamsState(r', sink', tasks', pushed) /\ result' \in {"none", "ok", "error"} /\ (result' = "ok" => sink'.ended)
    BY <1>4, <2>1, <2>4, <2>12, MayEndKeeps
  <2> QED
    BY <2>13 DEF StreamsInv
<1> QED
  BY <1>12, <1>13, <1>14

-----------------------------------------------------------------------------
LEMMA StreamsInitially == Init => StreamsInv
<1> SUFFICES ASSUME Init PROVE StreamsInv
  OBVIOUS
<1>1. << >> \in Seq(Chunks) /\ << >> \o << >> = << >> /\ Len(<< >>) = 0
  BY EmptySeq, ConcatEmptySeq
<1>2. \A i \in Sources : r[i] = NewReadable
  BY DEF Init
<1>3. r \in [Sources -> Readables]
  BY <1>1 DEF Init, NewReadable, Readables
<1>4. sink \in Writables
  BY <1>1 DEF Init, NewSink, Writables
<1>5. SidesSound(r)
  BY <1>2, <1>3, OneSource DEF SidesSound, NewReadable
<1>6. SinkSound(sink)
  BY <1>1, <1>4 DEF SinkSound, Init, NewSink
<1>7. \A i \in 1 .. N : Got(r, sink, i) = << >>
  <2> SUFFICES ASSUME NEW i \in 1 .. N PROVE Got(r, sink, i) = << >>
    OBVIOUS
  <2>1. CASE i = N
    BY <1>1, <2>1 DEF Got, Arrived, Init, NewSink
  <2>2. CASE i # N
    <3>1. i \in Sources
      BY <2>2 DEF Sources
    <3> QED
      BY <1>1, <1>2, <2>2, <3>1 DEF Got, Received, NewReadable
  <2> QED
    BY <2>1, <2>2
<1>9. Flows(r, pushed)
  <2>1. Received(r[1]) = << >>
    BY <1>7, OneSource DEF Got
  <2>2. pushed = 0 /\ [k \in 1 .. 0 |-> k] = << >>
    BY DEF Init
  <2> QED
    BY <2>1, <2>2 DEF Flows
<1>10. Chained(r, sink)
  <2>1. \A i \in Sources : i + 1 \in 1 .. N
    BY DEF Sources
  <2>2. Steady(<< >>)
    BY <1>1 DEF Steady
  <2> QED
    BY <1>7, <2>1, <2>2 DEF Chained
<1>11. Foremost(r, sink, pushed)
  BY <1>7 DEF Foremost
<1>12. EndsInTurn(r, sink)
  BY <1>2 DEF EndsInTurn, NewReadable, Init, NewSink
<1>13. QueueSound(r, sink, tasks)
  <2>1. tasks = << >> /\ << >> \in Seq(StreamTasks) /\ Len(<< >>) = 0
    BY EmptySeq DEF Init
  <2> QED
    BY <2>1 DEF QueueSound
<1> QED
  BY <1>5, <1>6, <1>9, <1>10, <1>11, <1>12, <1>13 DEF StreamsInv, StreamsState, Init

LEMMA HeadIs ==
  ASSUME StreamsInv, NEW kind, NEW i \in Sources, Is(kind, i)
  PROVE  /\ tasks # << >> /\ tasks[1].kind = kind /\ tasks[1].of = i /\ 1 \in 1 .. Len(tasks)
         /\ StreamsState(r, sink, Tail(tasks), pushed)
         /\ kind = "endRead" => \A k \in 1 .. Len(Tail(tasks)) : Tail(tasks)[k].kind # "endRead"
<1>1. QueueSound(r, sink, tasks) /\ tasks # << >> /\ Head(tasks) = [kind |-> kind, of |-> i]
  BY DEF StreamsInv, StreamsState, Is, Next1, Task
<1>2. /\ QueueSound(r, sink, Tail(tasks)) /\ Head(tasks) = tasks[1] /\ 1 \in 1 .. Len(tasks)
      /\ Head(tasks).kind = "endRead" => \A k \in 1 .. Len(Tail(tasks)) : Tail(tasks)[k].kind # "endRead"
  BY <1>1, QueueTail
<1>3. Head(tasks).kind = kind /\ Head(tasks).of = i
  BY <1>1
<1> QED
  BY <1>1, <1>2, <1>3 DEF StreamsInv, StreamsState

LEMMA FlushKeeps == ASSUME StreamsInv, NEW i \in Sources, RunFlush(i) PROVE StreamsInv'
<1>1. r[i] \in Readables /\ SidesSound(r)
  BY DEF StreamsInv, StreamsState, SidesSound
<1>2. Len(r[i].buffer) \in 0 .. Len(r[i].buffer) /\ r[i].pipes \in 0 .. 1 /\ r[i].listening \in BOOLEAN
  BY <1>1 DEF Readables
<1> DEFINE copies == r[i].pipes + (IF r[i].listening THEN 1 ELSE 0)
<1>3. copies \in 0 .. 2 /\ (copies = 0 <=> ~ r[i].listening)
  <2>1. r[i].pipes > 0 => r[i].listening
    BY <1>1 DEF SidesSound
  <2> QED
    BY <1>2, <2>1
<1>4. tasks # << >> /\ EmitChunks(i, Len(r[i].buffer), copies) /\ UNCHANGED pushed
  BY DEF RunFlush, Is
<1> HIDE DEF copies
<1> QED
  BY <1>2, <1>3, <1>4, EmitKeeps

\* The first write that is refused, or the last.
LEMMA FirstFull ==
  ASSUME NEW all \in Nat, NEW P
  PROVE  \E k \in 0 .. all : /\ k = all \/ k \in P
                             /\ \A j \in 1 .. k - 1 : j \notin P
                             /\ k = 0 => all = 0
<1>1. CASE all = 0
  BY <1>1
<1>2. CASE all # 0
  <2> DEFINE S == {k \in 1 .. all : k = all \/ k \in P}
  <2>1. S \in SUBSET Nat /\ S # {} /\ S \subseteq 1 .. all
    BY <1>2
  <2> DEFINE least == Min(S)
  <2>2. least \in S /\ \A x \in S : least <= x
    BY <2>1, LeastNumber
  <2> HIDE DEF least
  <2>3. \A j \in 1 .. least - 1 : j \notin P
    BY <2>2
  <2> QED
    BY <2>2, <2>3
<1> QED
  BY <1>1, <1>2

\* The loop of resume() emits as many chunks as are accepted.
LEMMA ResumeEmits ==
  ASSUME StreamsInv, NEW i \in Sources, RunResume(i)
  PROVE  /\ tasks # << >> /\ UNCHANGED pushed
         /\ \E m \in 0 .. Len(r[i].buffer), copies \in 0 .. 2 :
              (copies = 0 <=> ~ r[i].listening) /\ EmitChunks(i, m, copies)
<1> DEFINE all == Len(r[i].buffer)
<1> DEFINE first(k) == /\ k = all \/ Full(sink, k)
                       /\ \A j \in 1 .. k - 1 : ~ Full(sink, j)
                       /\ k = 0 => all = 0
<1> DEFINE n == IF ~ r[i].flowing THEN 0
                ELSE IF IsLast(i) /\ r[i].listening THEN CHOOSE k \in 0 .. all : first(k)
                ELSE all
<1>1. r[i] \in Readables /\ SidesSound(r)
  BY DEF StreamsInv, StreamsState, SidesSound
<1>2. all \in Nat /\ r[i].listening \in BOOLEAN
  BY <1>1 DEF Readables
<1>3. \E k \in 0 .. all : first(k)
  <2> DEFINE P == {k \in 0 .. all : Full(sink, k)}
  <2>1. PICK k \in 0 .. all : /\ k = all \/ k \in P
                              /\ \A j \in 1 .. k - 1 : j \notin P
                              /\ k = 0 => all = 0
    <3> HIDE DEF P, all
    <3> QED
      BY <1>2, FirstFull
  <2>2. \A j \in 1 .. k - 1 : j \in 0 .. all
    BY <1>2, <2>1
  <2> QED
    BY <2>1, <2>2
<1>4. n \in 0 .. all
  <2> HIDE DEF first, all
  <2>1. (CHOOSE k \in 0 .. all : first(k)) \in 0 .. all
    BY <1>3
  <2> QED
    BY <1>2, <2>1
<1> DEFINE copies == IF r[i].listening THEN 1 ELSE 0
<1>5. copies \in 0 .. 2 /\ (copies = 0 <=> ~ r[i].listening)
  BY <1>2
<1>6. tasks # << >> /\ EmitChunks(i, n, copies) /\ UNCHANGED pushed
  BY DEF RunResume, Is
<1> HIDE DEF copies, n
<1> QED
  BY <1>4, <1>5, <1>6

LEMMA ResumeKeeps == ASSUME StreamsInv, NEW i \in Sources, RunResume(i) PROVE StreamsInv'
BY ResumeEmits, EmitKeeps

LEMMA RunEndKeeps == ASSUME StreamsInv, NEW i \in Sources, RunEnd(i) PROVE StreamsInv'
<1>1. /\ tasks[1].kind = "end" /\ tasks[1].of = i /\ 1 \in 1 .. Len(tasks)
      /\ StreamsState(r, sink, Tail(tasks), pushed)
  BY HeadIs DEF RunEnd
<1>2. result \in {"none", "ok", "error"} /\ (result = "ok" => sink.ended)
  BY DEF StreamsInv
<1>3. CASE r[i].readableEnded
  BY <1>1, <1>2, <1>3 DEF RunEnd, StreamsInv
<1>4. CASE ~ r[i].readableEnded
  <2>1. EndEvent(i, r, sink, Tail(tasks)) /\ pushed' = pushed
    BY <1>4 DEF RunEnd
  <2>2. r[i].ended /\ r[i].buffer = << >>
    BY <1>1 DEF StreamsInv, StreamsState, QueueSound
  <2>3. ~ PassedOn(r, sink, i)
    <3>1. i = N - 1 \/ (i + 1 \in Sources /\ i < i + 1)
      BY DEF Sources
    <3> QED
      BY <1>4, <3>1 DEF StreamsInv, StreamsState, EndsInTurn, PassedOn
  <2> DEFINE q == Tail(tasks)
  <2>4. StreamsState(r, sink, q, pushed)
    BY <1>1
  <2> HIDE DEF q
  <2>5. i = 1 => \A k \in 1 .. Len(q) : q[k].kind # "endRead"
    BY <1>4, <2>4 DEF StreamsState, QueueSound
  <2>6. EndEvent(i, r, sink, q)
    BY <2>1 DEF q
  <2>7. /\ StreamsState(r', sink', tasks', pushed)
        /\ result' \in {"none", "ok", "error"} /\ (result' = "ok" => sink'.ended)
    BY <1>2, <2>2, <2>3, <2>4, <2>5, <2>6, EndingKeeps
  <2> QED
    BY <2>1, <2>7 DEF StreamsInv
<1> QED
  BY <1>3, <1>4

LEMMA RunEndReadKeeps == ASSUME StreamsInv, NEW i \in Sources, RunEndRead(i) PROVE StreamsInv'
<1>1. /\ tasks[1].kind = "endRead" /\ tasks[1].of = i /\ 1 \in 1 .. Len(tasks)
      /\ StreamsState(r, sink, Tail(tasks), pushed)
      /\ \A k \in 1 .. Len(Tail(tasks)) : Tail(tasks)[k].kind # "endRead"
  BY HeadIs DEF RunEndRead
<1>2. result \in {"none", "ok", "error"} /\ (result = "ok" => sink.ended)
  BY DEF StreamsInv
<1>3. i = 1 /\ r[i].readableEnded /\ ~ PassedOn(r, sink, i)
  BY <1>1 DEF StreamsInv, StreamsState, QueueSound
<1>4. r[i].ended /\ r[i].buffer = << >>
  BY <1>3 DEF StreamsInv, StreamsState, EndsInTurn
<1> DEFINE q == Tail(tasks)
<1>5. EndEvent(i, r, sink, q) /\ pushed' = pushed
  BY DEF RunEndRead
<1>6. StreamsState(r, sink, q, pushed) /\ \A k \in 1 .. Len(q) : q[k].kind # "endRead"
  BY <1>1
<1> HIDE DEF q
<1>7. /\ StreamsState(r', sink', tasks', pushed)
      /\ result' \in {"none", "ok", "error"} /\ (result' = "ok" => sink'.ended)
  BY <1>2, <1>3, <1>4, <1>5, <1>6, EndingKeeps
<1> QED
  BY <1>5, <1>7 DEF StreamsInv

-----------------------------------------------------------------------------
\* A stream is destroyed, by the program or since the one before it was.
LEMMA DestroyedKeeps ==
  ASSUME NEW rr, NEW w, NEW q, NEW n, StreamsState(rr, w, q, n),
         NEW d \in Sources, d - 1 \in Sources => rr[d - 1].destroyed
  PROVE  /\ StreamsState([rr EXCEPT ![d].destroyed = TRUE, ![d].buffer = << >>], w, q, n)
         /\ [rr EXCEPT ![d].destroyed = TRUE, ![d].buffer = << >>][d].destroyed
<1> DEFINE s == [rr[d] EXCEPT !.destroyed = TRUE, !.buffer = << >>]
<1> DEFINE ss == [rr EXCEPT ![d].destroyed = TRUE, ![d].buffer = << >>]
<1>1. /\ rr \in [Sources -> Readables] /\ rr[d] \in Readables /\ w \in Writables /\ SidesSound(rr) /\ SinkSound(w)
      /\ rr[d].taken \in Seq(Chunks) /\ rr[d].buffer \in Seq(Chunks)
  BY DEF StreamsState, SidesSound, SinkSound, Readables
<1>2. /\ s \in Readables /\ s.buffer = << >> /\ s.destroyed /\ s.taken = rr[d].taken /\ s.ended = rr[d].ended
      /\ s.readableEnded = rr[d].readableEnded /\ s.pipes = rr[d].pipes /\ s.listening = rr[d].listening
  BY <1>1, EmptySeq DEF Readables
<1>3. ss \in [Sources -> Readables] /\ \A j \in Sources : ss[j] = IF j = d THEN s ELSE rr[j]
  BY <1>1, <1>2
<1> HIDE DEF s, ss
<1>4. /\ ss[d].destroyed /\ ss[d].buffer = << >>
      /\ \A j \in Sources :
           /\ ss[j].taken = rr[j].taken /\ ss[j].ended = rr[j].ended /\ ss[j].readableEnded = rr[j].readableEnded
           /\ ss[j].pipes = rr[j].pipes /\ ss[j].listening = rr[j].listening
           /\ j # d => ss[j] = rr[j]
  BY <1>2, <1>3
<1>5. d \in Nat /\ N \in Nat /\ d \in 1 .. N /\ d # N
  BY DEF Sources
<1>6. SidesSound(ss)
  <2>1. \A j \in Sources : /\ ss[j].pipes > 0 => ss[j].listening
                           /\ ss[j].listening <=> ss[1].listening
                           /\ ss[j].destroyed => ss[j].buffer = << >>
    BY <1>1, <1>4, OneSource DEF SidesSound
  <2>2. ASSUME NEW j \in Sources, j + 1 \in Sources, ss[j + 1].destroyed PROVE ss[j].destroyed
    <3>1. CASE j + 1 = d
      <4>1. d - 1 = j /\ j # d
        BY <1>5, <3>1 DEF Sources
      <4> QED
        BY <1>4, <4>1
    <3>2. CASE j + 1 # d
      BY <1>1, <1>4, <2>2, <3>2 DEF SidesSound
    <3> QED
      BY <3>1, <3>2
  <2> QED
    BY <1>3, <2>1, <2>2 DEF SidesSound
<1>7. /\ \A j \in 1 .. N : j # d => Got(ss, w, j) = Got(rr, w, j)
      /\ Got(ss, w, d) = rr[d].taken /\ Got(rr, w, d) = rr[d].taken \o rr[d].buffer
  <2>1. ASSUME NEW j \in 1 .. N, j # N PROVE j \in Sources
    BY <2>1 DEF Sources
  <2>2. rr[d].taken \o << >> = rr[d].taken
    BY <1>1, ConcatEmptySeq
  <2> QED
    BY <1>4, <1>5, <2>1, <2>2 DEF Got, Received
<1>8. Chained(ss, w)
  <2>1. Chained(rr, w)
    BY DEF StreamsState
  <2>2. Steady(rr[d].taken \o rr[d].buffer)
    BY <1>5, <1>7, <2>1 DEF Chained
  <2>3. \A j \in 1 .. N : Steady(Got(ss, w, j))
    BY <1>1, <1>7, <2>1, <2>2, SteadyParts DEF Chained
  <2>4. ASSUME NEW j \in Sources, Got(ss, w, j + 1) # << >>
        PROVE  /\ ss[j].listening /\ ss[j].taken # << >>
               /\ j = N - 1 \/ ~ ss[j + 1].destroyed => Last(Got(ss, w, j + 1)) = Last(ss[j].taken)
    <3>1. j + 1 \in 1 .. N /\ j \in Nat /\ (j = N - 1 \/ j + 1 \in Sources)
      BY DEF Sources
    <3>2. CASE j + 1 = d
      <4>1. j # N - 1
        BY <1>5, <3>1, <3>2
      <4>2. Got(rr, w, j + 1) # << >>
        <5>1. rr[d].taken # << >>
          BY <1>7, <2>4, <3>2
        <5>2. rr[d].taken \o rr[d].buffer # << >>
          BY <1>1, <5>1, ConcatEqualIffEmpty
        <5> QED
          BY <1>7, <3>2, <5>2
      <4>3. rr[j].listening /\ rr[j].taken # << >>
        BY <2>1, <4>2 DEF Chained
      <4> QED
        BY <1>4, <3>2, <4>1, <4>3
    <3>3. CASE j + 1 # d
      <4>1. Got(ss, w, j + 1) = Got(rr, w, j + 1)
        BY <1>7, <3>1, <3>3
      <4>2. /\ rr[j].listening /\ rr[j].taken # << >>
            /\ j = N - 1 \/ ~ rr[j + 1].destroyed => Last(Got(rr, w, j + 1)) = Last(rr[j].taken)
        BY <2>1, <2>4, <4>1 DEF Chained
      <4> QED
        BY <1>4, <3>1, <3>3, <4>1, <4>2
    <3> QED
      BY <3>2, <3>3
  <2> QED
    BY <2>3, <2>4 DEF Chained
<1>9. Foremost(ss, w, n)
  BY <1>4 DEF Foremost
<1>10. Flows(ss, n)
  <2>1. ss[1].destroyed \/ ss[1] = rr[1]
    BY <1>4, OneSource
  <2> QED
    BY <2>1 DEF StreamsState, Flows
<1>11. EndsInTurn(ss, w)
  BY <1>4 DEF StreamsState, EndsInTurn
<1>12. QueueSound(ss, w, q)
  <2>1. PassedOn(ss, w, 1) = PassedOn(rr, w, 1)
    <3>1. 1 = N - 1 \/ 1 + 1 \in Sources
      BY DEF Sources
    <3> QED
      BY <1>4, <3>1 DEF PassedOn
  <2>2. QueueSound(rr, w, q)
    BY DEF StreamsState
  <2>3. \A j \in Sources : rr[j].ended /\ rr[j].buffer = << >> => ss[j].ended /\ ss[j].buffer = << >>
    BY <1>4
  <2>4. (\A j \in Sources : rr[j].destroyed => ss[j].destroyed) /\ (rr[1].readableEnded => ss[1].readableEnded)
    BY <1>4, OneSource
  <2> QED
    BY <2>1, <2>2, <2>3, <2>4, QueueKept
<1>13. StreamsState(ss, w, q, n)
  BY <1>1, <1>6, <1>8, <1>9, <1>10, <1>11, <1>12 DEF StreamsState
<1> QED
  BY <1>4, <1>13 DEF ss

\* A microtask that is neither about an end nor an error is always in order.
LEMMA TaskMore ==
  ASSUME NEW rr, NEW w, NEW q, NEW n, StreamsState(rr, w, q, n), NEW kind, NEW i \in Sources,
         \/ kind \in {"flush", "resume"}
         \/ kind = "error" /\ rr[i].destroyed
         \/ kind = "end" /\ rr[i].ended /\ rr[i].buffer = << >>
  PROVE  /\ StreamsState(rr, w, Append(q, Task(kind, i)), n)
         /\ StreamsState(rr, w, q \o <<Task(kind, i)>>, n)
<1> DEFINE t == Task(kind, i)
<1>1. t \in StreamTasks /\ t.kind = kind /\ t.of = i
  BY DEF Task, StreamTasks
<1> HIDE DEF t
<1>2. <<t>> \in Seq(StreamTasks) /\ \A k \in 1 .. Len(<<t>>) : <<t>>[k] = t
  BY <1>1, OneTask
<1>3. \A k \in 1 .. Len(<<t>>) :
        /\ <<t>>[k].kind = "end" => rr[<<t>>[k].of].ended /\ rr[<<t>>[k].of].buffer = << >>
        /\ <<t>>[k].kind # "endRead"
        /\ <<t>>[k].kind = "error" => rr[<<t>>[k].of].destroyed
  BY <1>1, <1>2
<1>4. QueueSound(rr, w, q) /\ q \in Seq(StreamTasks)
  BY DEF StreamsState, QueueSound
<1>5. QueueSound(rr, w, q \o <<t>>)
  BY <1>2, <1>3, <1>4, QueueMore
<1>6. Append(q, t) = q \o <<t>>
  BY <1>1, <1>4, AppendIsConcat
<1>7. StreamsState(rr, w, q \o <<t>>, n)
  BY <1>5 DEF StreamsState
<1> QED
  BY <1>6, <1>7 DEF t

LEMMA DestroyKeeps == ASSUME StreamsInv, Destroy PROVE StreamsInv'
<1> DEFINE ss == [r EXCEPT ![1].destroyed = TRUE, ![1].buffer = << >>]
<1>1. 1 - 1 \notin Sources /\ 1 \in Sources
  BY OneSource DEF Sources
<1>2. StreamsState(r, sink, tasks, pushed)
  BY DEF StreamsInv
<1>3. StreamsState(ss, sink, tasks, pushed) /\ ss[1].destroyed
  BY <1>1, <1>2, DestroyedKeeps
<1>4. r' = ss /\ tasks' = Append(tasks, Task("error", 1)) /\ UNCHANGED <<sink, pushed, result>>
  BY DEF Destroy
<1> HIDE DEF ss
<1>5. StreamsState(ss, sink, Append(tasks, Task("error", 1)), pushed)
  BY <1>1, <1>3, TaskMore
<1> QED
  BY <1>4, <1>5 DEF StreamsInv

LEMMA RunErrorKeeps == ASSUME StreamsInv, NEW i \in Sources, RunError(i) PROVE StreamsInv'
<1>1. /\ tasks[1].kind = "error" /\ tasks[1].of = i /\ 1 \in 1 .. Len(tasks)
      /\ StreamsState(r, sink, Tail(tasks), pushed)
  BY HeadIs DEF RunError
<1>2. r[i].destroyed /\ result \in {"none", "ok", "error"} /\ (result = "ok" => sink.ended)
  BY <1>1 DEF StreamsInv, StreamsState, QueueSound
<1> DEFINE q == Tail(tasks)
<1>3. StreamsState(r, sink, q, pushed) /\ pushed' = pushed
  BY <1>1 DEF RunError
<1>4. CASE ~ r[i].listening
  <2>1. tasks' = q /\ UNCHANGED <<r, sink, result>>
    BY <1>4 DEF RunError
  <2> HIDE DEF q
  <2> QED
    BY <1>2, <1>3, <2>1 DEF StreamsInv
<1>5. CASE r[i].listening /\ IsLast(i)
  <2>1. /\ result' = (IF result = "none" THEN "error" ELSE result)
        /\ sink' = [sink EXCEPT !.destroyed = TRUE] /\ tasks' = q /\ UNCHANGED r
    BY <1>5 DEF RunError
  <2> HIDE DEF q
  <2>2. SidesSound(r) /\ SinkSound(sink) /\ sink \in Writables
    BY <1>3 DEF StreamsState, SinkSound
  <2> DEFINE v == [sink EXCEPT !.destroyed = TRUE]
  <2>3. /\ v \in Writables /\ v.written = sink.written /\ v.held = sink.held /\ v.dropped = sink.dropped
        /\ v.ended = sink.ended /\ v.ends = sink.ends /\ v.corked = sink.corked /\ v.waiting = sink.waiting
        /\ v.pending = sink.pending /\ v.writableLength = sink.writableLength
    BY <2>2 DEF Writables
  <2> HIDE DEF v
  <2>4. SinkSound(v)
    BY <2>2, <2>3 DEF SinkSound
  <2>5. Same(r, sink, r, v)
    BY <2>3 DEF Same, Arrived
  <2>6. StreamsState(r, v, q, pushed)
    BY <1>3, <2>2, <2>4, <2>5, SameKeeps
  <2>7. result' \in {"none", "ok", "error"} /\ (result' = "ok" => v.ended)
    BY <1>2, <2>1, <2>3
  <2> QED
    BY <1>3, <2>1, <2>6, <2>7 DEF StreamsInv, v
<1>6. CASE r[i].listening /\ ~ IsLast(i)
  <2> DEFINE ss == [r EXCEPT ![i + 1].destroyed = TRUE, ![i + 1].buffer = << >>]
  <2>1. /\ result' = (IF result = "none" THEN "error" ELSE result) /\ r' = ss /\ UNCHANGED sink
        /\ tasks' = IF r[i + 1].destroyed THEN q ELSE Append(q, Task("error", i + 1))
    BY <1>6 DEF RunError
  <2> HIDE DEF q
  <2>2. i + 1 \in Sources /\ (i + 1) - 1 = i
    BY <1>6 DEF Sources, IsLast
  <2>3. StreamsState(ss, sink, q, pushed) /\ ss[i + 1].destroyed
    BY <1>2, <1>3, <2>2, DestroyedKeeps
  <2> HIDE DEF ss
  <2>4. StreamsState(ss, sink, Append(q, Task("error", i + 1)), pushed)
    BY <2>2, <2>3, TaskMore
  <2>5. StreamsState(ss, sink, tasks', pushed)
    BY <2>1, <2>3, <2>4
  <2>6. result' \in {"none", "ok", "error"} /\ (result' = "ok" => sink.ended)
    BY <1>2, <2>1
  <2> QED
    BY <1>3, <2>1, <2>5, <2>6 DEF StreamsInv
<1> QED
  BY <1>4, <1>5, <1>6

-----------------------------------------------------------------------------
(***************************************************************************)
(* The calls of the program and completed writes.                          *)
(***************************************************************************)
\* Nothing but flowing and pipes of the sides, and what the sink still waits for.
LEMMA SteeredKeeps ==
  ASSUME NEW rr, NEW w, NEW v, NEW q, NEW n, StreamsState(rr, w, q, n),
         NEW ss \in [Sources -> Readables],
         \A j \in Sources :
           /\ ss[j].buffer = rr[j].buffer /\ ss[j].taken = rr[j].taken
           /\ ss[j].ended = rr[j].ended /\ ss[j].readableEnded = rr[j].readableEnded
           /\ ss[j].destroyed = rr[j].destroyed /\ ss[j].listening = rr[j].listening
           /\ ss[j].pipes > 0 => rr[j].pipes > 0,
         SinkSound(v), Arrived(v) = Arrived(w), v.ended = w.ended
  PROVE  StreamsState(ss, v, q, n)
<1>1. SidesSound(rr)
  BY DEF StreamsState
<1>2. SidesSound(ss)
  BY <1>1, OneSource DEF SidesSound
<1>3. Same(rr, w, ss, v)
  BY DEF Same
<1> QED
  BY <1>2, <1>3, SameKeeps

LEMMA UnpipeKeeps == ASSUME StreamsInv, NEW i \in Steered, Unpipe(i) PROVE StreamsInv'
<1> DEFINE s == [r[i] EXCEPT !.pipes = 0, !.flowing = FALSE]
<1> DEFINE ss == [r EXCEPT ![i].pipes = 0, ![i].flowing = FALSE]
<1>1. /\ i \in Sources /\ r \in [Sources -> Readables] /\ r[i] \in Readables /\ SinkSound(sink)
      /\ StreamsState(r, sink, tasks, pushed)
  BY DEF StreamsInv, StreamsState, SidesSound, Sources
<1>2. /\ s \in Readables /\ s.buffer = r[i].buffer /\ s.taken = r[i].taken /\ s.ended = r[i].ended
      /\ s.readableEnded = r[i].readableEnded /\ s.destroyed = r[i].destroyed
      /\ s.listening = r[i].listening /\ s.pipes = 0
  <2>1. 0 \in 0 .. 1 /\ FALSE \in BOOLEAN
    OBVIOUS
  <2>2. s \in Readables
    BY <1>1, <2>1 DEF Readables
  <2>3. /\ s.buffer = r[i].buffer /\ s.taken = r[i].taken /\ s.ended = r[i].ended
        /\ s.readableEnded = r[i].readableEnded /\ s.destroyed = r[i].destroyed
        /\ s.listening = r[i].listening /\ s.pipes = 0
    BY <1>1 DEF Readables
  <2> QED
    BY <2>2, <2>3
<1>3. ss \in [Sources -> Readables] /\ \A j \in Sources : ss[j] = IF j = i THEN s ELSE r[j]
  BY <1>1, <1>2
<1>4. r' = ss /\ UNCHANGED <<sink, tasks, pushed, result>>
  BY DEF Unpipe
<1> HIDE DEF s, ss
<1>5. StreamsState(ss, sink, tasks, pushed)
  BY <1>1, <1>2, <1>3, SteeredKeeps
<1> QED
  BY <1>4, <1>5 DEF StreamsInv

\* Whether a stream flows is nobody's business but its own.
LEMMA FlowingKeeps ==
  ASSUME NEW rr, NEW w, NEW v, NEW q, NEW n, StreamsState(rr, w, q, n), NEW i \in Sources, NEW f \in BOOLEAN,
         SinkSound(v), Arrived(v) = Arrived(w), v.ended = w.ended
  PROVE  StreamsState([rr EXCEPT ![i].flowing = f], v, q, n)
<1> DEFINE s == [rr[i] EXCEPT !.flowing = f]
<1> DEFINE ss == [rr EXCEPT ![i].flowing = f]
<1>1. rr \in [Sources -> Readables] /\ rr[i] \in Readables
  BY DEF StreamsState, SidesSound
<1>2. /\ s \in Readables /\ s.buffer = rr[i].buffer /\ s.taken = rr[i].taken /\ s.ended = rr[i].ended
      /\ s.readableEnded = rr[i].readableEnded /\ s.destroyed = rr[i].destroyed
      /\ s.listening = rr[i].listening /\ s.pipes = rr[i].pipes
  BY <1>1 DEF Readables
<1>3. ss \in [Sources -> Readables] /\ \A j \in Sources : ss[j] = IF j = i THEN s ELSE rr[j]
  BY <1>1, <1>2
<1> HIDE DEF s
<1> HIDE DEF ss
<1>4. StreamsState(ss, v, q, n)
  BY <1>1, <1>2, <1>3, SteeredKeeps
<1> QED
  BY <1>4 DEF ss

LEMMA PauseKeeps == ASSUME StreamsInv, NEW i \in Steered, Pause(i) PROVE StreamsInv'
<1>1. i \in Sources /\ SinkSound(sink) /\ StreamsState(r, sink, tasks, pushed)
  BY DEF StreamsInv, StreamsState, Sources
<1>2. StreamsState([r EXCEPT ![i].flowing = FALSE], sink, tasks, pushed)
  BY <1>1, FlowingKeeps
<1> QED
  BY <1>2 DEF Pause, StreamsInv

LEMMA ResumeCallKeeps == ASSUME StreamsInv, NEW i \in Steered, Resume(i) PROVE StreamsInv'
<1> DEFINE ss == [r EXCEPT ![i].flowing = TRUE]
<1>1. i \in Sources /\ SinkSound(sink) /\ StreamsState(r, sink, tasks, pushed)
  BY DEF StreamsInv, StreamsState, Sources
<1>2. StreamsState(ss, sink, tasks, pushed)
  BY <1>1, FlowingKeeps
<1>3. r' = ss /\ tasks' = Append(tasks, Task("resume", i)) /\ UNCHANGED <<sink, pushed, result>>
  BY DEF Resume
<1> HIDE DEF ss
<1>4. StreamsState(ss, sink, Append(tasks, Task("resume", i)), pushed)
  BY <1>1, <1>2, TaskMore
<1> QED
  BY <1>3, <1>4 DEF StreamsInv

LEMMA WriteDoneKeeps == ASSUME StreamsInv, NEW failed \in BOOLEAN, WriteDone(failed) PROVE StreamsInv'
<1> DEFINE len == sink.writableLength - 1
<1> DEFINE drained == len < HighWaterMark
<1> DEFINE v == [sink EXCEPT !.pending = Tail(sink.pending), !.writableLength = len,
                             !.waiting = sink.waiting /\ ~ drained]
<1> DEFINE f == r[N - 1].flowing \/ (drained /\ sink.waiting)
<1> DEFINE ss == [r EXCEPT ![N - 1].flowing = f]
<1>1. /\ r \in [Sources -> Readables] /\ r[N - 1] \in Readables /\ r[N - 1].flowing \in BOOLEAN
      /\ SinkSound(sink) /\ sink \in Writables /\ sink.pending \in Seq(Chunks) /\ sink.waiting \in BOOLEAN
      /\ StreamsState(r, sink, tasks, pushed) /\ N - 1 \in Sources
  BY OneSource DEF StreamsInv, StreamsState, SidesSound, SinkSound, Readables, Writables
<1>2. sink.pending # << >> /\ sink.writableLength = Len(sink.pending)
  BY <1>1 DEF WriteDone, SinkSound
<1>3. Tail(sink.pending) \in Seq(Chunks) /\ Len(Tail(sink.pending)) = len /\ len \in Nat
  BY <1>1, <1>2, HeadTailProperties
<1>4. sink' = v
  <2>1. sink' = [[sink EXCEPT !.pending = Tail(@), !.writableLength = @ - 1] EXCEPT !.waiting = @ /\ ~ drained]
    BY <1>1 DEF WriteDone, Writables
  <2> QED
    BY <1>1, <2>1 DEF Writables
<1>5. r' = ss
  BY <1>1 DEF WriteDone, Writables
<1>6. UNCHANGED <<tasks, pushed>> /\ result' = IF failed /\ result = "none" THEN "error" ELSE result
  BY DEF WriteDone
<1>7. drained \in BOOLEAN /\ f \in BOOLEAN /\ (~ drained => len # 0)
  BY <1>1, <1>3
<1> HIDE DEF len, drained
<1>8. /\ v \in Writables /\ v.written = sink.written /\ v.held = sink.held /\ v.dropped = sink.dropped
      /\ v.ended = sink.ended /\ v.ends = sink.ends /\ v.corked = sink.corked
      /\ v.pending = Tail(sink.pending) /\ v.writableLength = len /\ v.waiting = (sink.waiting /\ ~ drained)
  BY <1>1, <1>3, <1>7 DEF Writables
<1> HIDE DEF v, f
<1>9. SinkSound(v)
  <2>1. v.waiting => v.pending # << >>
    BY <1>3, <1>7, <1>8, EmptySeq
  <2> QED
    BY <1>1, <1>3, <1>8, <2>1 DEF SinkSound
<1>10. Arrived(v) = Arrived(sink)
  BY <1>8 DEF Arrived
<1>11. StreamsState(ss, v, tasks, pushed)
  BY <1>1, <1>7, <1>8, <1>9, <1>10, FlowingKeeps
<1>12. result' \in {"none", "ok", "error"} /\ (result' = "ok" => v.ended)
  BY <1>6, <1>8 DEF StreamsInv
<1> HIDE DEF ss
<1> QED
  BY <1>4, <1>5, <1>6, <1>11, <1>12 DEF StreamsInv

LEMMA PipelineKeeps == ASSUME StreamsInv, Pipeline PROVE StreamsInv'
<1> DEFINE ss == [i \in Sources |-> [r[i] EXCEPT !.flowing = TRUE, !.pipes = 1, !.listening = TRUE]]
<1>1. r \in [Sources -> Readables] /\ SidesSound(r) /\ SinkSound(sink) /\ StreamsState(r, sink, tasks, pushed)
  BY DEF StreamsInv, StreamsState, SidesSound
<1>2. r' = ss /\ UNCHANGED <<sink, tasks, pushed, result>>
  BY DEF Pipeline
<1>3. \A j \in Sources :
        /\ ss[j] \in Readables /\ ss[j].buffer = r[j].buffer /\ ss[j].taken = r[j].taken /\ ss[j].ended = r[j].ended
        /\ ss[j].readableEnded = r[j].readableEnded /\ ss[j].destroyed = r[j].destroyed
        /\ ss[j].listening = TRUE
  <2> SUFFICES ASSUME NEW j \in Sources
      PROVE  /\ ss[j] \in Readables /\ ss[j].buffer = r[j].buffer /\ ss[j].taken = r[j].taken /\ ss[j].ended = r[j].ended
             /\ ss[j].readableEnded = r[j].readableEnded /\ ss[j].destroyed = r[j].destroyed
             /\ ss[j].listening = TRUE
    OBVIOUS
  <2>1. r[j] \in Readables /\ ss[j] = [r[j] EXCEPT !.flowing = TRUE, !.pipes = 1, !.listening = TRUE]
    BY <1>1
  <2> HIDE DEF ss
  <2>2. 1 \in 0 .. 1
    OBVIOUS
  <2>3. ss[j] \in Readables
    BY <2>1, <2>2 DEF Readables
  <2>4. /\ ss[j].buffer = r[j].buffer /\ ss[j].taken = r[j].taken /\ ss[j].ended = r[j].ended
        /\ ss[j].readableEnded = r[j].readableEnded /\ ss[j].destroyed = r[j].destroyed
        /\ ss[j].listening = TRUE
    BY <2>1 DEF Readables
  <2> QED
    BY <2>3, <2>4
<1>4. ss \in [Sources -> Readables]
  BY <1>3
<1> HIDE DEF ss
<1>5. SidesSound(ss)
  BY <1>1, <1>3, <1>4, OneSource DEF SidesSound
<1>6. Same(r, sink, ss, sink)
  BY <1>3 DEF Same
<1>7. StreamsState(ss, sink, tasks, pushed)
  BY <1>1, <1>5, <1>6, SameKeeps
<1> QED
  BY <1>2, <1>7 DEF StreamsInv

\* The sides stay, the sink changes what is neither arrived nor ended.
LEMMA SinkKeeps ==
  ASSUME NEW v, StreamsInv, SinkSound(v), Arrived(v) = Arrived(sink), v.ended = sink.ended,
         sink' = v, UNCHANGED <<r, tasks, pushed, result>>
  PROVE  StreamsInv'
<1>1. SidesSound(r) /\ StreamsState(r, sink, tasks, pushed)
  BY DEF StreamsInv, StreamsState
<1>2. Same(r, sink, r, v)
  BY DEF Same
<1>3. StreamsState(r, v, tasks, pushed)
  BY <1>1, <1>2, SameKeeps
<1> QED
  BY <1>3 DEF StreamsInv

LEMMA CorkKeeps == ASSUME StreamsInv, Cork PROVE StreamsInv'
<1> DEFINE v == [sink EXCEPT !.corked = sink.corked + 1]
<1>1. SinkSound(sink) /\ sink \in Writables /\ sink.corked \in Nat
  BY DEF StreamsInv, StreamsState, SinkSound, Writables
<1>2. sink' = v /\ UNCHANGED <<r, tasks, pushed, result>>
  BY <1>1 DEF Cork, Writables
<1>3. /\ v \in Writables /\ v.written = sink.written /\ v.held = sink.held /\ v.dropped = sink.dropped
      /\ v.ended = sink.ended /\ v.ends = sink.ends /\ v.corked = sink.corked + 1 /\ v.waiting = sink.waiting
      /\ v.pending = sink.pending /\ v.writableLength = sink.writableLength
  <2>1. sink.corked + 1 \in Nat
    BY <1>1
  <2>2. v \in Writables
    BY <1>1, <2>1 DEF Writables
  <2>3. /\ v.written = sink.written /\ v.held = sink.held /\ v.dropped = sink.dropped
        /\ v.ended = sink.ended /\ v.ends = sink.ends /\ v.corked = sink.corked + 1 /\ v.waiting = sink.waiting
        /\ v.pending = sink.pending /\ v.writableLength = sink.writableLength
    BY <1>1 DEF Writables
  <2> QED
    BY <2>2, <2>3
<1> HIDE DEF v
<1>4. SinkSound(v)
  BY <1>1, <1>3 DEF SinkSound
<1>5. Arrived(v) = Arrived(sink)
  BY <1>3 DEF Arrived
<1> QED
  BY <1>2, <1>3, <1>4, <1>5, SinkKeeps

\* What was held back is written, in its place behind what was written before.
LEMMA UncorkKeeps == ASSUME StreamsInv, Uncork PROVE StreamsInv'
<1>1. /\ SinkSound(sink) /\ sink \in Writables /\ sink.corked \in Nat /\ sink.corked > 0
      /\ sink.written \in Seq(Chunks) /\ sink.held \in Seq(Chunks) /\ sink.dropped \in Seq(Chunks)
      /\ sink.pending \in Seq(Chunks) /\ sink.waiting \in BOOLEAN /\ sink.ended \in BOOLEAN
  BY DEF StreamsInv, StreamsState, SinkSound, Writables, Uncork
<1>2. UNCHANGED <<r, tasks, pushed, result>>
  BY DEF Uncork
<1>3. CASE sink.corked > 1
  <2> DEFINE v == [sink EXCEPT !.corked = sink.corked - 1]
  <2>1. sink' = v
    BY <1>1, <1>3 DEF Uncork, Writables
  <2>2. sink.corked - 1 \in Nat /\ sink.corked - 1 # 0
    BY <1>1, <1>3
  <2>3. /\ v \in Writables /\ v.written = sink.written /\ v.held = sink.held /\ v.dropped = sink.dropped
        /\ v.ended = sink.ended /\ v.ends = sink.ends /\ v.corked = sink.corked - 1 /\ v.waiting = sink.waiting
        /\ v.pending = sink.pending /\ v.writableLength = sink.writableLength
    BY <1>1, <2>2 DEF Writables
  <2> HIDE DEF v
  <2>4. SinkSound(v)
    BY <1>1, <1>3, <2>2, <2>3 DEF SinkSound
  <2>5. Arrived(v) = Arrived(sink)
    BY <2>3 DEF Arrived
  <2> QED
    BY <1>2, <2>1, <2>3, <2>4, <2>5, SinkKeeps
<1> DEFINE u == [sink EXCEPT !.corked = 0, !.held = << >>]
<1>4. /\ u \in Writables /\ u.written = sink.written /\ u.held = << >> /\ u.dropped = sink.dropped
      /\ u.ended = sink.ended /\ u.ends = sink.ends /\ u.corked = 0 /\ u.waiting = sink.waiting
      /\ u.pending = sink.pending /\ u.writableLength = sink.writableLength
  <2>1. << >> \in Seq(Chunks) /\ 0 \in Nat
    BY EmptySeq
  <2>2. u \in Writables
    BY <1>1, <2>1 DEF Writables
  <2> QED
    BY <1>1, <2>2 DEF Writables
<1>5. ASSUME ~ (sink.corked > 1) PROVE sink' = Write(u, sink.held)
  BY <1>5 DEF Uncork
<1>6. sink.writableLength = Len(sink.pending) /\ Len(sink.pending) \in Nat /\ Len(sink.held) \in Nat
  BY <1>1 DEF SinkSound
<1> HIDE DEF u
<1>7. CASE ~ (sink.corked > 1) /\ sink.ended
  <2> DEFINE v == [u EXCEPT !.dropped = u.dropped \o sink.held]
  <2>1. sink' = v
    BY <1>4, <1>5, <1>7 DEF Write, Writables
  <2>2. sink.held = << >>
    BY <1>1, <1>7 DEF SinkSound
  <2>3. u.dropped \o sink.held = sink.dropped
    BY <1>1, <1>4, <2>2, ConcatEmptySeq
  <2>4. /\ v \in Writables /\ v.written = sink.written /\ v.held = << >> /\ v.dropped = sink.dropped
        /\ v.ended = sink.ended /\ v.ends = sink.ends /\ v.corked = 0 /\ v.waiting = sink.waiting
        /\ v.pending = sink.pending /\ v.writableLength = sink.writableLength
    BY <1>1, <1>4, <2>3 DEF Writables
  <2> HIDE DEF v
  <2>5. SinkSound(v)
    BY <1>1, <1>7, <2>4 DEF SinkSound
  <2>6. Arrived(v) = Arrived(sink)
    BY <2>2, <2>4 DEF Arrived
  <2> QED
    BY <1>2, <2>1, <2>4, <2>5, <2>6, SinkKeeps
<1>8. CASE ~ (sink.corked > 1) /\ ~ sink.ended
  <2> DEFINE v == [u EXCEPT !.pending = u.pending \o sink.held, !.written = u.written \o sink.held,
                            !.writableLength = u.writableLength + Len(sink.held)]
  <2>1. sink' = v
    <3>1. ~ u.ended /\ ~ (u.corked > 0)
      BY <1>4, <1>8
    <3>2. Write(u, sink.held) = [u EXCEPT !.pending = @ \o sink.held, !.written = @ \o sink.held,
                                          !.writableLength = @ + Len(sink.held)]
      BY <3>1 DEF Write
    <3> QED
      BY <1>4, <1>5, <1>8, <3>2 DEF Writables
  <2>2. /\ u.pending \o sink.held \in Seq(Chunks) /\ u.written \o sink.held \in Seq(Chunks)
        /\ Len(u.pending \o sink.held) = Len(u.pending) + Len(sink.held)
        /\ u.pending \o sink.held = << >> <=> u.pending = << >> /\ sink.held = << >>
    BY <1>1, <1>4, LastOfJoin
  <2>3. u.writableLength + Len(sink.held) \in Nat
    <3>1. u.writableLength = Len(sink.pending)
      BY <1>4, <1>6
    <3>2. PICK m \in Nat : m = Len(sink.pending)
      BY <1>6
    <3>3. PICK k \in Nat : k = Len(sink.held)
      BY <1>6
    <3>4. m + k \in Nat
      OBVIOUS
    <3>5. u.writableLength + Len(sink.held) = m + k
      BY <3>1, <3>2, <3>3, Zenon
    <3> QED
      BY <3>4, <3>5, Zenon
  <2>4. /\ v \in Writables /\ v.written = sink.written \o sink.held /\ v.held = << >> /\ v.dropped = sink.dropped
        /\ v.ended = sink.ended /\ v.ends = sink.ends /\ v.corked = 0 /\ v.waiting = sink.waiting
        /\ v.pending = sink.pending \o sink.held /\ v.writableLength = sink.writableLength + Len(sink.held)
    BY <1>4, <2>2, <2>3 DEF Writables
  <2> HIDE DEF v
  <2>5. v.waiting => v.pending # << >>
    BY <1>1, <1>4, <1>8, <2>2, <2>4 DEF SinkSound
  <2>6. v.writableLength = Len(v.pending) /\ (v.ended <=> v.ends = 1) /\ (~ v.ended => v.dropped = << >>)
    BY <1>1, <1>4, <1>6, <2>2, <2>4 DEF SinkSound
  <2>7. SinkSound(v)
    BY <2>4, <2>5, <2>6 DEF SinkSound
  <2>8. Arrived(v) = Arrived(sink)
    <3>1. (sink.written \o sink.held) \o << >> = sink.written \o sink.held
      BY <1>4, <2>2, ConcatEmptySeq
    <3> QED
      BY <2>4, <3>1 DEF Arrived
  <2> QED
    BY <1>2, <2>1, <2>4, <2>7, <2>8, SinkKeeps
<1> QED
  BY <1>3, <1>7, <1>8

\* The source is told that nothing follows.
LEMMA ProgramEndKeeps == ASSUME StreamsInv, ProgramEnd PROVE StreamsInv'
<1> DEFINE s == [r[1] EXCEPT !.ended = TRUE]
<1> DEFINE ss == [r EXCEPT ![1] = PushNull(@)]
<1>1. /\ r \in [Sources -> Readables] /\ r[1] \in Readables /\ 1 \in Sources /\ 1 \in Nat
      /\ SidesSound(r) /\ SinkSound(sink) /\ StreamsState(r, sink, tasks, pushed)
  BY OneSource DEF StreamsInv, StreamsState, SidesSound
<1>2. /\ s \in Readables /\ s.buffer = r[1].buffer /\ s.taken = r[1].taken /\ s.ended
      /\ s.readableEnded = r[1].readableEnded /\ s.destroyed = r[1].destroyed
      /\ s.listening = r[1].listening /\ s.pipes = r[1].pipes
  BY <1>1 DEF Readables
<1>3. ss \in [Sources -> Readables] /\ \A j \in Sources : ss[j] = IF j = 1 THEN s ELSE r[j]
  BY <1>1, <1>2 DEF PushNull
<1>4. r' = ss /\ tasks' = tasks \o PushNullTask(r[1], 1) /\ UNCHANGED <<sink, pushed, result>>
  BY DEF ProgramEnd
<1> HIDE DEF s, ss
<1>5. \A j \in Sources :
        /\ ss[j].buffer = r[j].buffer /\ ss[j].taken = r[j].taken /\ ss[j].readableEnded = r[j].readableEnded
        /\ ss[j].destroyed = r[j].destroyed /\ ss[j].listening = r[j].listening /\ ss[j].pipes = r[j].pipes
        /\ (j # 1 => ss[j].ended = r[j].ended)
  BY <1>2, <1>3
<1>6. ss[1].ended
  BY <1>1, <1>2, <1>3
<1>7. SidesSound(ss)
  BY <1>1, <1>3, <1>5, SidesKept
<1>8. Flows(ss, pushed) /\ Chained(ss, sink) /\ Foremost(ss, sink, pushed)
  <2>1. Flows(r, pushed) /\ Chained(r, sink) /\ Foremost(r, sink, pushed)
    BY <1>1 DEF StreamsState
  <2> QED
    BY <1>5, <2>1, ChunksStay
<1>9. EndsInTurn(ss, sink)
  <2>1. EndsInTurn(r, sink)
    BY <1>1 DEF StreamsState
  <2>2. ASSUME NEW k \in Sources, NEW j \in Sources, j < k PROVE k # 1
    BY <2>2 DEF Sources
  <2> QED
    BY <1>5, <1>6, <2>1, <2>2 DEF EndsInTurn
<1>10. QueueSound(ss, sink, tasks)
  <2>1. QueueSound(r, sink, tasks)
    BY <1>1 DEF StreamsState
  <2>2. \A j \in Sources : r[j].ended /\ r[j].buffer = << >> => ss[j].ended /\ ss[j].buffer = << >>
    BY <1>5, <1>6
  <2>3. (\A j \in Sources : r[j].destroyed => ss[j].destroyed) /\ (r[1].readableEnded => ss[1].readableEnded)
    BY <1>1, <1>5
  <2>4. PassedOn(ss, sink, 1) => PassedOn(r, sink, 1)
    <3>1. 1 = N - 1 \/ (1 + 1 \in Sources /\ 1 + 1 # 1)
      BY DEF Sources
    <3> QED
      BY <1>5, <3>1 DEF PassedOn
  <2> QED
    BY <2>1, <2>2, <2>3, <2>4, QueueKept
<1>11. StreamsState(ss, sink, tasks, pushed)
  BY <1>1, <1>7, <1>8, <1>9, <1>10 DEF StreamsState
<1>12. StreamsState(ss, sink, tasks', pushed)
  <2>1. CASE r[1].buffer = << >>
    <3>1. tasks' = tasks \o <<Task("end", 1)>>
      BY <1>4, <2>1 DEF PushNullTask
    <3>2. ss[1].buffer = << >>
      BY <1>1, <1>5, <2>1
    <3> QED
      BY <1>1, <1>6, <1>11, <3>1, <3>2, TaskMore
  <2>2. CASE r[1].buffer # << >>
    <3>1. tasks' = tasks \o << >> /\ tasks \in Seq(StreamTasks)
      BY <1>1, <1>4, <2>2 DEF PushNullTask, StreamsState, QueueSound
    <3>2. tasks' = tasks
      BY <3>1, ConcatEmptySeq
    <3> QED
      BY <1>11, <3>2
  <2> QED
    BY <2>1, <2>2
<1> QED
  BY <1>4, <1>12 DEF StreamsInv

\* One more chunk, the last so far, behind all that the source has got.
LEMMA ProgramPushKeeps == ASSUME StreamsInv, ProgramPush PROVE StreamsInv'
<1> DEFINE n == pushed + 1
<1> DEFINE b == r[1].buffer \o <<n>>
<1> DEFINE s == [r[1] EXCEPT !.buffer = b]
<1> DEFINE ss == [r EXCEPT ![1] = Push(@, <<n>>)]
<1>1. /\ r \in [Sources -> Readables] /\ r[1] \in Readables /\ 1 \in Sources
      /\ r[1].taken \in Seq(Chunks) /\ r[1].buffer \in Seq(Chunks)
      /\ SidesSound(r) /\ SinkSound(sink) /\ StreamsState(r, sink, tasks, pushed)
  BY OneSource DEF StreamsInv, StreamsState, SidesSound, Readables
<1>2. /\ r' = ss /\ tasks' = tasks \o PushTask(r[1], 1, 1) /\ pushed' = n /\ UNCHANGED <<sink, result>>
      /\ ~ r[1].ended /\ ~ r[1].destroyed /\ pushed < MaxChunks
  BY DEF ProgramPush
<1>3. pushed \in Nat /\ n \in Nat /\ n \in 0 .. MaxChunks /\ n \in Chunks /\ n - pushed = 1 /\ n # 0
  <2>1. pushed \in 0 .. MaxChunks
    BY <1>1 DEF StreamsState, Flows
  <2> QED
    BY <1>2, <2>1 DEF Chunks
<1> HIDE DEF n
<1>4. <<n>> \in Seq(Chunks) /\ Len(<<n>>) = 1 /\ <<n>>[1] = n /\ <<n>> # << >> /\ Last(<<n>>) = n
  BY <1>3 DEF Last
<1>5. b \in Seq(Chunks) /\ b # << >>
  BY <1>1, <1>4, LastOfJoin
<1>6. Push(r[1], <<n>>) = s
  BY <1>1 DEF Push, Readables
<1> HIDE DEF b
<1>7. /\ s \in Readables /\ s.buffer = b /\ s.taken = r[1].taken /\ s.ended = r[1].ended
      /\ s.readableEnded = r[1].readableEnded /\ s.destroyed = r[1].destroyed
      /\ s.listening = r[1].listening /\ s.pipes = r[1].pipes
  BY <1>1, <1>5 DEF Readables
<1>8. ss \in [Sources -> Readables] /\ \A j \in Sources : ss[j] = IF j = 1 THEN s ELSE r[j]
  BY <1>1, <1>6, <1>7
<1> HIDE DEF s, ss
<1>9. \A j \in Sources :
        /\ ss[j].taken = r[j].taken /\ ss[j].ended = r[j].ended /\ ss[j].readableEnded = r[j].readableEnded
        /\ ss[j].destroyed = r[j].destroyed /\ ss[j].listening = r[j].listening /\ ss[j].pipes = r[j].pipes
        /\ (j # 1 => ss[j].buffer = r[j].buffer)
  BY <1>7, <1>8
<1>10. ss[1].buffer = b /\ ss[1].taken = r[1].taken
  BY <1>1, <1>7, <1>8
<1>11. SidesSound(ss)
  <2>1. \A j \in Sources : /\ ss[j].pipes > 0 => ss[j].listening
                           /\ ss[j].listening <=> ss[1].listening
    BY <1>1, <1>9 DEF SidesSound
  <2>2. \A j \in Sources : ss[j].destroyed => ss[j].buffer = << >>
    BY <1>1, <1>2, <1>9 DEF SidesSound
  <2>3. \A j \in Sources : j + 1 \in Sources /\ ss[j + 1].destroyed => ss[j].destroyed
    BY <1>1, <1>9 DEF SidesSound
  <2> QED
    BY <1>8, <2>1, <2>2, <2>3 DEF SidesSound
<1>12. Received(ss[1]) = Received(r[1]) \o <<n>> /\ Received(r[1]) \in Seq(Chunks)
  <2>1. (r[1].taken \o r[1].buffer) \o <<n>> = r[1].taken \o (r[1].buffer \o <<n>>)
    BY <1>1, <1>4, JoinedThrice
  <2>2. r[1].taken \o r[1].buffer \in Seq(Chunks)
    BY <1>1, LastOfJoin
  <2> QED
    BY <1>10, <2>1, <2>2 DEF Received, b
<1>13. Received(r[1]) = [k \in 1 .. pushed |-> k] /\ Len(Received(r[1])) = pushed
  <2>1. Received(r[1]) = [k \in 1 .. pushed |-> k]
    BY <1>1, <1>2 DEF StreamsState, Flows
  <2>2. DOMAIN Received(r[1]) = 1 .. pushed
    BY <2>1
  <2> DEFINE l == Len(Received(r[1]))
  <2>3. DOMAIN Received(r[1]) = 1 .. l /\ l \in Nat
    BY <1>12
  <2> HIDE DEF l
  <2>4. l = pushed
    BY <1>3, <2>2, <2>3
  <2> QED
    BY <2>1, <2>4 DEF l
<1>14. /\ Received(ss[1]) \in Seq(Chunks) /\ Len(Received(ss[1])) = n
       /\ \A k \in 1 .. n : Received(ss[1])[k] = k
  <2>1. Received(ss[1]) \in Seq(Chunks) /\ Len(Received(ss[1])) = pushed + 1
    <3> DEFINE s1 == Received(r[1])
    <3>1. s1 \in Seq(Chunks) /\ Len(s1) = pushed
      BY <1>12, <1>13
    <3> HIDE DEF s1
    <3>2. s1 \o <<n>> \in Seq(Chunks) /\ Len(s1 \o <<n>>) = Len(s1) + Len(<<n>>)
      BY <1>4, <3>1, LastOfJoin
    <3>3. Len(s1 \o <<n>>) = pushed + 1
      BY <1>3, <1>4, <3>1, <3>2
    <3> QED
      BY <1>12, <3>2, <3>3 DEF s1
  <2>2. ASSUME NEW k \in 1 .. pushed PROVE Received(ss[1])[k] = k
    <3>1. k \in 1 .. Len(Received(r[1]))
      BY <1>13
    <3>2. (Received(r[1]) \o <<n>>)[k] = Received(r[1])[k]
      BY <1>4, <1>12, <3>1, LastOfJoin
    <3> QED
      BY <1>12, <1>13, <3>2
  <2>3. Received(ss[1])[pushed + 1] = n
    <3>1. 1 \in 1 .. Len(<<n>>)
      BY <1>4
    <3>2. (Received(r[1]) \o <<n>>)[Len(Received(r[1])) + 1] = <<n>>[1]
      BY <1>4, <1>12, <3>1, LastOfJoin
    <3> QED
      BY <1>4, <1>12, <1>13, <3>2
  <2>4. n = pushed + 1
    BY DEF n
  <2>5. \A k \in 1 .. n : k \in 1 .. pushed \/ k = pushed + 1
    BY <1>3, <2>4
  <2> QED
    BY <2>1, <2>2, <2>3, <2>4, <2>5
<1>15. /\ Received(ss[1]) = [k \in 1 .. n |-> k] /\ Steady(Received(ss[1])) /\ Last(Received(ss[1])) = n
  <2>1. Received(ss[1]) = [k \in 1 .. n |-> k]
    BY <1>14
  <2>2. ASSUME NEW k \in 1 .. Len(Received(ss[1])) - 1
        PROVE  Received(ss[1])[k + 1] - Received(ss[1])[k] \in {0, 1}
    <3>1. k \in 1 .. n /\ k + 1 \in 1 .. n /\ (k + 1) - k = 1
      BY <1>3, <1>14
    <3>2. Received(ss[1])[k + 1] = k + 1 /\ Received(ss[1])[k] = k
      BY <1>14, <3>1
    <3> QED
      BY <3>1, <3>2
  <2>3. n \in 1 .. n
    BY <1>3
  <2>4. Last(Received(ss[1])) = n
    BY <1>14, <2>3 DEF Last
  <2> QED
    BY <2>1, <2>2, <2>4 DEF Steady
<1>16. \A i \in 1 .. N : i # 1 => Got(ss, sink, i) = Got(r, sink, i)
  <2>1. ASSUME NEW i \in 1 .. N, i # N PROVE i \in Sources
    BY <2>1 DEF Sources
  <2> QED
    BY <1>9, <2>1 DEF Got, Received
<1>17. Got(ss, sink, 1) = Received(ss[1])
  BY OneSource DEF Got
<1>18. Flows(ss, n)
  BY <1>3, <1>15 DEF Flows
<1>19. Chained(ss, sink)
  <2>1. Chained(r, sink)
    BY <1>1 DEF StreamsState
  <2>2. ASSUME NEW i \in 1 .. N PROVE Steady(Got(ss, sink, i))
    <3>1. CASE i = 1
      BY <1>15, <1>17, <3>1
    <3>2. CASE i # 1
      BY <1>16, <2>1, <3>2 DEF Chained
    <3> QED
      BY <3>1, <3>2
  <2>3. \A i \in Sources : i + 1 \in 1 .. N /\ i + 1 # 1 /\ (i = N - 1 \/ i + 1 \in Sources)
    BY DEF Sources
  <2>4. \A i \in Sources : Got(ss, sink, i + 1) = Got(r, sink, i + 1)
    BY <1>16, <2>3
  <2>5. ASSUME NEW i \in Sources, Got(ss, sink, i + 1) # << >>
        PROVE  /\ ss[i].listening /\ ss[i].taken # << >>
               /\ i = N - 1 \/ ~ ss[i + 1].destroyed => Last(Got(ss, sink, i + 1)) = Last(ss[i].taken)
    <3>1. Got(r, sink, i + 1) # << >>
      BY <2>4, <2>5
    <3>2. /\ r[i].listening /\ r[i].taken # << >>
          /\ i = N - 1 \/ ~ r[i + 1].destroyed => Last(Got(r, sink, i + 1)) = Last(r[i].taken)
      BY <2>1, <3>1 DEF Chained
    <3>3. ss[i].listening = r[i].listening /\ ss[i].taken = r[i].taken
      BY <1>9
    <3>4. i # N - 1 => ss[i + 1].destroyed = r[i + 1].destroyed
      BY <1>9, <2>3
    <3> QED
      BY <2>4, <3>2, <3>3, <3>4
  <2> QED
    BY <2>2, <2>5 DEF Chained
<1>20. Foremost(ss, sink, n)
  <2>1. ASSUME NEW i \in 1 .. N, \A j \in Sources : j < i => ss[j].buffer = << >>
        PROVE  i = 1
    <3>1. ss[1].buffer # << >>
      BY <1>5, <1>10
    <3> QED
      BY <1>1, <2>1, <3>1
  <2> QED
    BY <1>15, <1>17, <2>1 DEF Foremost
<1>21. EndsInTurn(ss, sink)
  <2>1. EndsInTurn(r, sink)
    BY <1>1 DEF StreamsState
  <2>2. ASSUME NEW j \in Sources, ss[j].readableEnded PROVE ss[j].ended /\ ss[j].buffer = << >>
    <3>1. r[j].ended /\ r[j].buffer = << >>
      BY <1>9, <2>1, <2>2 DEF EndsInTurn
    <3>2. j # 1
      BY <1>2, <3>1
    <3> QED
      BY <1>9, <3>1, <3>2
  <2>3. \A k, j \in Sources : j < k /\ ss[k].ended => ss[j].readableEnded
    BY <1>9, <2>1 DEF EndsInTurn
  <2>4. sink.ended => \A j \in Sources : ss[j].readableEnded
    BY <1>9, <2>1 DEF EndsInTurn
  <2> QED
    BY <2>2, <2>3, <2>4 DEF EndsInTurn
<1>22. QueueSound(ss, sink, tasks)
  <2>1. QueueSound(r, sink, tasks)
    BY <1>1 DEF StreamsState
  <2>2. \A j \in Sources : r[j].ended /\ r[j].buffer = << >> => ss[j].ended /\ ss[j].buffer = << >>
    BY <1>2, <1>9
  <2>3. (\A j \in Sources : r[j].destroyed => ss[j].destroyed) /\ (r[1].readableEnded => ss[1].readableEnded)
    BY <1>1, <1>9
  <2>4. PassedOn(ss, sink, 1) => PassedOn(r, sink, 1)
    <3>1. 1 = N - 1 \/ 1 + 1 \in Sources
      BY DEF Sources
    <3> QED
      BY <1>9, <3>1 DEF PassedOn
  <2> QED
    BY <2>1, <2>2, <2>3, <2>4, QueueKept
<1>23. QueueSound(ss, sink, tasks')
  BY <1>1, <1>2, <1>22, PushesAre
<1>24. StreamsState(ss, sink, tasks', n)
  BY <1>1, <1>11, <1>18, <1>19, <1>20, <1>21, <1>23 DEF StreamsState
<1> QED
  BY <1>2, <1>24 DEF StreamsInv

\* read() takes a chunk nobody listens for, or finds the end and says so later.
LEMMA ReadKeeps == ASSUME StreamsInv, Read PROVE StreamsInv'
<1>1. /\ r \in [Sources -> Readables] /\ r[1] \in Readables /\ 1 \in Sources /\ ~ r[1].listening
      /\ r[1].buffer \in Seq(Chunks)
      /\ SidesSound(r) /\ SinkSound(sink) /\ StreamsState(r, sink, tasks, pushed)
      /\ UNCHANGED <<sink, pushed, result>>
  BY OneSource DEF StreamsInv, StreamsState, SidesSound, Readables, Read
<1>2. CASE r[1].buffer # << >> /\ r' = [r EXCEPT ![1] = Take(@, 1)] /\ UNCHANGED tasks
  <2>1. 1 \in 0 .. Len(r[1].buffer)
    BY <1>1, <1>2, EmptySeq
  <2> DEFINE ss == [r EXCEPT ![1] = Take(@, 1)]
  <2>2. StreamsState(ss, sink, tasks, pushed)
    BY <1>1, <2>1, TakenAside
  <2> HIDE DEF ss
  <2> QED
    BY <1>1, <1>2, <2>2 DEF StreamsInv, ss
<1>3. CASE Ends(r[1]) /\ r' = [r EXCEPT ![1] = EndOf(@)] /\ tasks' = Append(tasks, Task("endRead", 1))
  <2> DEFINE s == [r[1] EXCEPT !.readableEnded = TRUE]
  <2> DEFINE ss == [r EXCEPT ![1] = EndOf(@)]
  <2>1. r[1].ended /\ r[1].buffer = << >> /\ ~ r[1].readableEnded
    BY <1>3 DEF Ends
  <2>2. /\ s \in Readables /\ s.buffer = r[1].buffer /\ s.taken = r[1].taken /\ s.ended = r[1].ended
        /\ s.readableEnded /\ s.destroyed = r[1].destroyed
        /\ s.listening = r[1].listening /\ s.pipes = r[1].pipes
    BY <1>1 DEF Readables
  <2>3. ss \in [Sources -> Readables] /\ \A j \in Sources : ss[j] = IF j = 1 THEN s ELSE r[j]
    BY <1>1, <2>2 DEF EndOf
  <2>4. r' = ss
    BY <1>3
  <2> HIDE DEF s, ss
  <2>5. \A j \in Sources :
          /\ ss[j].buffer = r[j].buffer /\ ss[j].taken = r[j].taken /\ ss[j].ended = r[j].ended
          /\ ss[j].destroyed = r[j].destroyed /\ ss[j].listening = r[j].listening /\ ss[j].pipes = r[j].pipes
          /\ (j # 1 => ss[j].readableEnded = r[j].readableEnded)
    BY <2>2, <2>3
  <2>6. ss[1].readableEnded
    BY <1>1, <2>2, <2>3
  <2>7. SidesSound(ss)
    BY <1>1, <2>3, <2>5, SidesKept
  <2>8. Flows(ss, pushed) /\ Chained(ss, sink) /\ Foremost(ss, sink, pushed)
    <3>1. Flows(r, pushed) /\ Chained(r, sink) /\ Foremost(r, sink, pushed)
      BY <1>1 DEF StreamsState
    <3> QED
      BY <2>5, <3>1, ChunksStay
  <2>9. EndsInTurn(r, sink) /\ QueueSound(r, sink, tasks)
    BY <1>1 DEF StreamsState
  <2>10. EndsInTurn(ss, sink)
    <3>1. \A j \in Sources : ss[j].readableEnded => ss[j].ended /\ ss[j].buffer = << >>
      BY <2>1, <2>5, <2>9 DEF EndsInTurn
    <3>2. \A k, j \in Sources : j < k /\ ss[k].ended => ss[j].readableEnded
      BY <2>5, <2>6, <2>9 DEF EndsInTurn
    <3>3. sink.ended => \A j \in Sources : ss[j].readableEnded
      BY <2>5, <2>6, <2>9 DEF EndsInTurn
    <3> QED
      BY <3>1, <3>2, <3>3 DEF EndsInTurn
  <2>11. PassedOn(ss, sink, 1) <=> PassedOn(r, sink, 1)
    <3>1. 1 = N - 1 \/ 1 + 1 \in Sources
      BY DEF Sources
    <3> QED
      BY <2>5, <3>1 DEF PassedOn
  <2>12. ~ PassedOn(r, sink, 1)
    <3>1. 1 = N - 1 \/ (1 + 1 \in Sources /\ 1 < 1 + 1)
      BY DEF Sources
    <3> QED
      BY <1>1, <2>1, <2>9, <3>1 DEF PassedOn, EndsInTurn
  <2>13. QueueSound(ss, sink, tasks)
    <3>1. \A j \in Sources : r[j].ended /\ r[j].buffer = << >> => ss[j].ended /\ ss[j].buffer = << >>
      BY <2>5
    <3>2. (\A j \in Sources : r[j].destroyed => ss[j].destroyed) /\ (r[1].readableEnded => ss[1].readableEnded)
      BY <2>5, <2>6
    <3> QED
      BY <2>9, <2>11, <3>1, <3>2, QueueKept
  <2>14. \A k \in 1 .. Len(tasks) : tasks[k].kind # "endRead"
    BY <2>1, <2>9 DEF QueueSound
  <2>15. QueueSound(ss, sink, Append(tasks, Task("endRead", 1)))
    <3> DEFINE t == Task("endRead", 1)
    <3>1. t \in StreamTasks /\ t.kind = "endRead" /\ t.of = 1
      BY <1>1 DEF Task, StreamTasks
    <3> HIDE DEF t
    <3> DEFINE q == Append(tasks, t)
    <3>2. tasks \in Seq(StreamTasks)
      BY <2>9 DEF QueueSound
    <3>3. PICK m \in Nat : m = Len(tasks)
      BY <3>2
    <3>4. /\ q \in Seq(StreamTasks) /\ Len(q) = m + 1 /\ q[m + 1] = t
          /\ \A k \in 1 .. m : q[k] = tasks[k]
      BY <3>1, <3>2, <3>3, AppendProperties
    <3> HIDE DEF q
    <3>5. \A k \in 1 .. Len(q) : k \in 1 .. m \/ k = m + 1
      BY <3>4
    <3>6. ASSUME NEW k \in 1 .. Len(q)
          PROVE  /\ q[k].kind = "end" => ss[q[k].of].ended /\ ss[q[k].of].buffer = << >>
                 /\ q[k].kind = "endRead" => q[k].of = 1 /\ ss[1].readableEnded /\ ~ PassedOn(ss, sink, 1)
                 /\ q[k].kind = "error" => ss[q[k].of].destroyed
                 /\ q[k].kind = "endRead" => k = m + 1
      <4>1. CASE k \in 1 .. m
        <5>1. q[k] = tasks[k] /\ k \in 1 .. Len(tasks)
          BY <3>3, <3>4, <4>1
        <5>2. tasks[k].kind # "endRead"
          BY <2>14, <5>1
        <5>3. /\ tasks[k].kind = "end" => ss[tasks[k].of].ended /\ ss[tasks[k].of].buffer = << >>
              /\ tasks[k].kind = "error" => ss[tasks[k].of].destroyed
          BY <2>13, <5>1 DEF QueueSound
        <5> QED
          BY <5>1, <5>2, <5>3
      <4>2. CASE k = m + 1
        BY <2>6, <2>11, <2>12, <3>1, <3>4, <4>2
      <4> QED
        BY <3>5, <4>1, <4>2
    <3> QED
      BY <3>4, <3>6 DEF QueueSound, q, t
  <2>16. StreamsState(ss, sink, tasks', pushed)
    BY <1>1, <1>3, <2>7, <2>8, <2>10, <2>15 DEF StreamsState
  <2> QED
    BY <1>1, <2>4, <2>16 DEF StreamsInv
<1> QED
  BY <1>2, <1>3 DEF Read

-----------------------------------------------------------------------------
(***************************************************************************)
(* What the sink refuses.  After its end nothing is left upstream to write *)
(* (EndsInTurn) and nothing is held back (SinkSound), so all it has ever   *)
(* refused is what was corked at the end.                                  *)
(***************************************************************************)
Refuses(w) == Len(w.dropped) = w.lost

LEMMA EndRefuses == ASSUME NEW w \in Writables, w.dropped = << >> PROVE Refuses(End(w))
<1>1. w.held \in Seq(Chunks)
  BY DEF Writables
<1>2. End(w).dropped = w.dropped \o w.held /\ End(w).lost = Len(w.held)
  BY DEF End, Writables
<1>3. w.dropped \o w.held = w.held
  BY <1>1, ConcatEmptySeq
<1> QED
  BY <1>2, <1>3 DEF Refuses

LEMMA WriteRefuses ==
  ASSUME NEW w \in Writables, Refuses(w), NEW o \in Seq(Chunks), w.ended => o = << >>
  PROVE  Refuses(Write(w, o)) /\ Write(w, o).ended = w.ended /\ Write(w, o).dropped = w.dropped
         /\ Write(w, o).lost = w.lost /\ Write(w, o) \in Writables
<1>1. /\ w.written \in Seq(Chunks) /\ w.held \in Seq(Chunks) /\ w.dropped \in Seq(Chunks)
      /\ w.pending \in Seq(Chunks) /\ w.corked \in Nat /\ w.ended \in BOOLEAN
      /\ w.writableLength \in Nat /\ Len(o) \in Nat
  BY DEF Writables
<1>2. /\ w.written \o o \in Seq(Chunks) /\ w.held \o o \in Seq(Chunks) /\ w.dropped \o o \in Seq(Chunks)
      /\ w.pending \o o \in Seq(Chunks)
  BY <1>1, LastOfJoin
<1>3. CASE w.ended
  <2>1. Write(w, o) = [w EXCEPT !.dropped = @ \o o]
    BY <1>3 DEF Write
  <2>2. w.dropped \o o = w.dropped
    BY <1>1, <1>3, ConcatEmptySeq
  <2> QED
    BY <1>1, <2>1, <2>2 DEF Refuses, Writables
<1>4. CASE ~ w.ended /\ w.corked > 0
  <2>1. Write(w, o) = [w EXCEPT !.held = @ \o o]
    BY <1>4 DEF Write
  <2> QED
    BY <1>2, <2>1 DEF Refuses, Writables
<1>5. CASE ~ w.ended /\ ~ (w.corked > 0)
  <2>1. Write(w, o) = [w EXCEPT !.pending = @ \o o, !.written = @ \o o, !.writableLength = @ + Len(o)]
    BY <1>5 DEF Write
  <2>2. w.writableLength + Len(o) \in Nat
    BY <1>1
  <2> QED
    BY <1>2, <2>1, <2>2 DEF Refuses, Writables
<1> QED
  BY <1>1, <1>3, <1>4, <1>5

LEMMA EventRefuses ==
  ASSUME NEW i, NEW rr, NEW w \in Writables, NEW q, Refuses(w), i = N - 1 => w.dropped = << >>,
         EndEvent(i, rr, w, q)
  PROVE  Refuses(sink')
<1>1. sink' = w \/ (i = N - 1 /\ sink' = End(w))
  BY DEF EndEvent, IsLast
<1> QED
  BY <1>1, EndRefuses

LEMMA EmitRefuses ==
  ASSUME StreamsInv, RefusedWereCorked, NEW i \in Sources, NEW m \in 0 .. Len(r[i].buffer),
         NEW copies \in 0 .. 2, EmitChunks(i, m, copies)
  PROVE  RefusedWereCorked'
<1> DEFINE c == SubSeq(r[i].buffer, 1, m)
<1> DEFINE o == Copies(c, copies)
<1> DEFINE taken == [r EXCEPT ![i] = Take(@, m)]
<1> DEFINE held == [taken EXCEPT ![i].flowing = @ /\ ~(r[i].listening /\ \E k \in 1 .. m : Full(sink, (k - 1) * copies + 1))]
<1> DEFINE rest == Tail(tasks)
<1>1. /\ r \in [Sources -> Readables] /\ r[i] \in Readables /\ sink \in Writables /\ Refuses(sink)
      /\ r[i].buffer \in Seq(Chunks) /\ EndsInTurn(r, sink) /\ (~ sink.ended => sink.dropped = << >>)
  BY DEF StreamsInv, StreamsState, SidesSound, SinkSound, Readables, RefusedWereCorked, Refuses
<1>2. c \in Seq(Chunks) /\ Take(r[i], m).readableEnded = r[i].readableEnded /\ Take(r[i], m) \in Readables
  BY <1>1, TakeIs
<1>3. sink.ended => r[i].readableEnded /\ r[i].buffer = << >> /\ m = 0
  <2>1. sink.ended => r[i].readableEnded /\ r[i].buffer = << >>
    BY <1>1 DEF EndsInTurn
  <2> QED
    BY <2>1, EmptySeq
<1>4. copies # 0 => o \in Seq(Chunks) /\ (o = << >> <=> c = << >>)
  <2> SUFFICES ASSUME copies # 0 PROVE o \in Seq(Chunks) /\ (o = << >> <=> c = << >>)
    OBVIOUS
  <2>1. copies \in {1, 2}
    OBVIOUS
  <2> HIDE DEF c
  <2> QED
    BY <1>2, <2>1, CopiesAre
<1>5. Len(c) = m
  BY <1>1, TwoParts
<1>6. sink.ended => c = << >>
  <2> HIDE DEF c
  <2> QED
    BY <1>2, <1>3, <1>5, EmptySeq
<1>7. taken[i].readableEnded = r[i].readableEnded /\ held[i].readableEnded = r[i].readableEnded
  <2>1. taken \in [Sources -> Readables] /\ taken[i].readableEnded = r[i].readableEnded
    BY <1>1, <1>2
  <2> HIDE DEF taken
  <2>2. held[i] = [taken[i] EXCEPT !.flowing = held[i].flowing]
    BY <2>1 DEF Readables
  <2> QED
    BY <2>1, <2>2 DEF Readables
<1> HIDE DEF c, o
<1>8. CASE copies = 0 \/ i # N - 1
  <2>1. \E rr, q : MayEnd(i, rr, sink, q) /\ (copies = 0 => rr = taken)
    BY <1>8 DEF EmitChunks, IsLast, taken
  <2>2. PICK rr, q : MayEnd(i, rr, sink, q) /\ (copies = 0 => rr = taken)
    BY <2>1
  <2> HIDE DEF taken
  <2>3. CASE ~ Ends(rr[i])
    BY <1>1, <2>2, <2>3 DEF MayEnd, RefusedWereCorked, Refuses
  <2>4. CASE Ends(rr[i])
    <3>1. EndEvent(i, rr, sink, q)
      BY <2>2, <2>4 DEF MayEnd
    <3>2. i = N - 1 => sink.dropped = << >>
      BY <1>1, <1>3, <1>7, <1>8, <2>2, <2>4 DEF Ends
    <3> QED
      BY <1>1, <3>1, <3>2, EventRefuses DEF Refuses, RefusedWereCorked
  <2> QED
    BY <2>3, <2>4
<1>9. CASE copies # 0 /\ i = N - 1
  <2> DEFINE stops == r[i].listening /\ \E k \in 1 .. m : Full(sink, (k - 1) * copies + 1)
  <2> DEFINE w == [Write(sink, o) EXCEPT !.waiting = @ \/ stops]
  <2>1. MayEnd(i, held, w, rest)
    BY <1>9 DEF EmitChunks, IsLast, c, o
  <2>2. /\ Refuses(Write(sink, o)) /\ Write(sink, o).ended = sink.ended /\ Write(sink, o).dropped = sink.dropped
        /\ Write(sink, o) \in Writables
    BY <1>1, <1>4, <1>6, <1>9, WriteRefuses
  <2> DEFINE v == Write(sink, o)
  <2>3. Refuses(w) /\ w.dropped = sink.dropped /\ w \in Writables
    <3>1. v \in Writables /\ Refuses(v) /\ v.dropped = sink.dropped /\ v.waiting \in BOOLEAN
      BY <2>2 DEF Writables
    <3>4. (v.waiting \/ stops) \in BOOLEAN
      OBVIOUS
    <3> HIDE DEF v, stops
    <3> DEFINE b == v.waiting \/ stops
    <3>2. b \in BOOLEAN
      BY <3>4
    <3> HIDE DEF b
    <3>3. LET u == [v EXCEPT !.waiting = b] IN Refuses(u) /\ u.dropped = v.dropped /\ u \in Writables
      BY <3>1, <3>2 DEF Refuses, Writables
    <3> QED
      BY <3>1, <3>3 DEF v, b
  <2> HIDE DEF w, held, rest
  <2>4. CASE ~ Ends(held[i])
    BY <2>1, <2>3, <2>4 DEF MayEnd, RefusedWereCorked, Refuses
  <2>5. CASE Ends(held[i])
    <3>1. EndEvent(i, held, w, rest)
      BY <2>1, <2>5 DEF MayEnd
    <3>2. w.dropped = << >>
      BY <1>1, <1>3, <1>7, <2>3, <2>5 DEF Ends
    <3> QED
      BY <2>3, <3>1, <3>2, EventRefuses DEF Refuses, RefusedWereCorked
  <2> QED
    BY <2>4, <2>5
<1> QED
  BY <1>8, <1>9

\* Nor does any other step make it refuse more.
LEMMA StreamsRefuse ==
  ASSUME StreamsInv, RefusedWereCorked, [Next]_vars
  PROVE  RefusedWereCorked'
<1>1. /\ r \in [Sources -> Readables] /\ sink \in Writables /\ Refuses(sink) /\ EndsInTurn(r, sink)
      /\ (~ sink.ended => sink.dropped = << >>) /\ (sink.ended => sink.held = << >>)
      /\ sink.held \in Seq(Chunks)
  BY DEF StreamsInv, StreamsState, SidesSound, SinkSound, RefusedWereCorked, Refuses, Writables
<1>2. CASE sink' = sink
  BY <1>2 DEF RefusedWereCorked
<1>3. CASE Cork
  BY <1>1, <1>3 DEF Cork, RefusedWereCorked, Refuses, Writables
<1>4. CASE Uncork
  <2>1. CASE sink.corked > 1
    BY <1>1, <1>4, <2>1 DEF Uncork, RefusedWereCorked, Refuses, Writables
  <2>2. CASE ~ (sink.corked > 1)
    <3> DEFINE u == [sink EXCEPT !.corked = 0, !.held = << >>]
    <3>1. u \in Writables /\ Refuses(u) /\ u.ended = sink.ended
      <4>1. << >> \in Seq(Chunks) /\ 0 \in Nat
        OBVIOUS
      <4> QED
        BY <1>1, <4>1 DEF Refuses, Writables
    <3>2. sink' = Write(u, sink.held)
      BY <1>4, <2>2 DEF Uncork
    <3> HIDE DEF u
    <3>3. Refuses(Write(u, sink.held))
      BY <1>1, <3>1, WriteRefuses
    <3> QED
      BY <3>2, <3>3 DEF Refuses, RefusedWereCorked
  <2> QED
    BY <2>1, <2>2
<1>5. ASSUME NEW failed \in BOOLEAN, WriteDone(failed) PROVE RefusedWereCorked'
  BY <1>1, <1>5 DEF WriteDone, RefusedWereCorked, Refuses, Writables
<1>6. ASSUME NEW i \in Sources, RunFlush(i) PROVE RefusedWereCorked'
  <2>1. r[i] \in Readables /\ SidesSound(r)
    BY <1>1 DEF StreamsInv, StreamsState
  <2> DEFINE copies == r[i].pipes + (IF r[i].listening THEN 1 ELSE 0)
  <2>2. Len(r[i].buffer) \in 0 .. Len(r[i].buffer) /\ copies \in 0 .. 2
    BY <2>1 DEF Readables
  <2>3. EmitChunks(i, Len(r[i].buffer), copies)
    BY <1>6 DEF RunFlush
  <2> HIDE DEF copies
  <2> QED
    BY <2>2, <2>3, EmitRefuses
<1>7. ASSUME NEW i \in Sources, RunResume(i) PROVE RefusedWereCorked'
  BY <1>7, ResumeEmits, EmitRefuses
<1>8. ASSUME NEW i \in Sources, RunEnd(i) PROVE RefusedWereCorked'
  <2>1. CASE r[i].readableEnded
    BY <1>8, <2>1 DEF RunEnd, RefusedWereCorked
  <2>2. CASE ~ r[i].readableEnded
    <3>1. EndEvent(i, r, sink, Tail(tasks))
      BY <1>8, <2>2 DEF RunEnd
    <3>2. sink.dropped = << >>
      BY <1>1, <2>2 DEF EndsInTurn
    <3> QED
      BY <1>1, <3>1, <3>2, EventRefuses DEF Refuses, RefusedWereCorked
  <2> QED
    BY <2>1, <2>2
<1>9. ASSUME NEW i \in Sources, RunEndRead(i) PROVE RefusedWereCorked'
  <2>1. /\ tasks[1].kind = "endRead" /\ tasks[1].of = i /\ 1 \in 1 .. Len(tasks)
    BY <1>9, HeadIs DEF RunEndRead
  <2>2. i = 1 /\ ~ PassedOn(r, sink, i)
    BY <2>1 DEF StreamsInv, StreamsState, QueueSound
  <2>3. i = N - 1 => sink.dropped = << >>
    BY <1>1, <2>2 DEF PassedOn
  <2>4. EndEvent(i, r, sink, Tail(tasks))
    BY <1>9 DEF RunEndRead
  <2> QED
    BY <1>1, <2>3, <2>4, EventRefuses DEF Refuses, RefusedWereCorked
<1>10. ASSUME NEW i \in Sources, RunError(i) PROVE RefusedWereCorked'
  <2>1. sink' = sink \/ sink' = [sink EXCEPT !.destroyed = TRUE]
    BY <1>10 DEF RunError
  <2> QED
    BY <1>1, <1>2, <2>1 DEF RefusedWereCorked, Refuses, Writables
<1>11. CASE ProgramPush \/ ProgramEnd \/ Read \/ Pipeline \/ Destroy \/ UNCHANGED vars
  BY <1>2, <1>11 DEF ProgramPush, ProgramEnd, Read, Pipeline, Destroy, vars
<1>12. ASSUME NEW i \in Steered, Unpipe(i) \/ Pause(i) \/ Resume(i) PROVE RefusedWereCorked'
  BY <1>2, <1>12 DEF Unpipe, Pause, Resume
<1> QED
  BY <1>3, <1>4, <1>5, <1>6, <1>7, <1>8, <1>9, <1>10, <1>11, <1>12 DEF Next, Program, RunTask

-----------------------------------------------------------------------------
(***************************************************************************)
(* The invariant holds, and says what the pipeline promises.               *)
(***************************************************************************)
LEMMA StreamsStep == StreamsInv /\ [Next]_vars => StreamsInv'
<1> SUFFICES ASSUME StreamsInv, [Next]_vars PROVE StreamsInv'
  OBVIOUS
<1>1. CASE UNCHANGED vars
  BY <1>1 DEF vars, StreamsInv
<1>2. CASE Next
  <2>1. CASE ProgramPush
    BY <2>1, ProgramPushKeeps
  <2>2. CASE ProgramEnd
    BY <2>2, ProgramEndKeeps
  <2>3. CASE Read
    BY <2>3, ReadKeeps
  <2>4. CASE Pipeline
    BY <2>4, PipelineKeeps
  <2>5. CASE Destroy
    BY <2>5, DestroyKeeps
  <2>6. CASE Cork
    BY <2>6, CorkKeeps
  <2>7. CASE Uncork
    BY <2>7, UncorkKeeps
  <2>8. ASSUME NEW i \in Steered, Unpipe(i) \/ Pause(i) \/ Resume(i) PROVE StreamsInv'
    BY <2>8, UnpipeKeeps, PauseKeeps, ResumeCallKeeps
  <2>9. ASSUME NEW failed \in BOOLEAN, WriteDone(failed) PROVE StreamsInv'
    BY <2>9, WriteDoneKeeps
  <2>10. ASSUME NEW i \in Sources, RunTask(i) PROVE StreamsInv'
    BY <2>10, FlushKeeps, ResumeKeeps, RunEndKeeps, RunEndReadKeeps, RunErrorKeeps DEF RunTask
  <2> QED
    BY <1>2, <2>1, <2>2, <2>3, <2>4, <2>5, <2>6, <2>7, <2>8, <2>9, <2>10 DEF Next, Program
<1> QED
  BY <1>1, <1>2

\* However calls, microtasks and completed writes alternate, each stream has got what the
\* one before it let go, in that order, and hears of the end after the last of it.
THEOREM StreamsInvariant == Spec => []StreamsInv
<1> QED
  BY StreamsInitially, StreamsStep, PTL DEF Spec

\* What the invariant says of the pipeline.
LEMMA PipelineFollows == StreamsInv /\ RefusedWereCorked => PipelineDelivers
<1> SUFFICES ASSUME StreamsInv, RefusedWereCorked PROVE PipelineDelivers
  OBVIOUS
<1>1. /\ SidesSound(r) /\ SinkSound(sink) /\ Flows(r, pushed) /\ Chained(r, sink)
      /\ Foremost(r, sink, pushed) /\ EndsInTurn(r, sink)
      /\ result \in {"none", "ok", "error"} /\ (result = "ok" => sink.ended)
  BY DEF StreamsInv, StreamsState
<1>2. TypeOK
  <2>1. ASSUME NEW i \in Sources
        PROVE  /\ r[i].buffer \in Seq(Chunks) /\ r[i].taken \in Seq(Chunks)
               /\ r[i].pipes \in 0 .. 1
               /\ \A b \in {"ended", "readableEnded", "flowing", "destroyed", "listening"} : r[i][b] \in BOOLEAN
    <3>1. r[i] \in Readables
      BY <1>1 DEF SidesSound
    <3>2. /\ r[i].buffer \in Seq(Chunks) /\ r[i].taken \in Seq(Chunks) /\ r[i].pipes \in 0 .. 1
          /\ r[i].ended \in BOOLEAN /\ r[i].readableEnded \in BOOLEAN /\ r[i].flowing \in BOOLEAN
          /\ r[i].destroyed \in BOOLEAN /\ r[i].listening \in BOOLEAN
      BY <3>1 DEF Readables
    <3> QED
      BY <3>2
  <2>2. sink.writableLength = Len(sink.pending) /\ sink.pending \in Seq(Chunks) /\ sink.held \in Seq(Chunks)
    BY <1>1 DEF SinkSound, Writables
  <2>3. pushed \in 0 .. MaxChunks
    BY <1>1 DEF Flows
  <2> QED
    BY <1>1, <2>1, <2>2, <2>3 DEF TypeOK
<1>3. NothingLost
  BY <1>1 DEF NothingLost, Flows, Received
<1>4. N \in 1 .. N /\ Got(r, sink, N) = Given
  BY DEF Got, Arrived, Given
<1>5. PipedInOrder
  <2>1. Steady(Got(r, sink, N))
    BY <1>1, <1>4 DEF Chained
  <2> QED
    BY <1>4, <2>1 DEF Steady, PipedInOrder
<1>6. EndsOnceAfterData
  <2>1. sink.ends <= 1
    <3>1. sink.ends \in 0 .. 1
      BY <1>1 DEF SinkSound, Writables
    <3> QED
      BY <3>1
  <2> QED
    BY <1>1, <2>1 DEF EndsOnceAfterData, EndsInTurn
<1>7. OkMeansWritten
  <2> SUFFICES ASSUME result = "ok", ~ Destroyed
               PROVE  /\ Given # << >> => Last(Given) = pushed
                      /\ Len(sink.written) + sink.lost = Len(Given)
    BY DEF OkMeansWritten
  <2>1. \A j \in Sources : ~ r[j].destroyed /\ r[j].buffer = << >>
    BY <1>1 DEF Destroyed, EndsInTurn
  <2>2. Given # << >> => Last(Given) = pushed
    BY <1>1, <1>4, <2>1 DEF Foremost
  <2>3. sink.written \in Seq(Chunks) /\ sink.dropped \in Seq(Chunks) /\ sink.held = << >>
    BY <1>1 DEF SinkSound, Writables
  <2>4. Given = sink.written \o sink.dropped
    BY <2>3, ConcatEmptySeq DEF Given
  <2>5. Len(Given) = Len(sink.written) + Len(sink.dropped)
    BY <2>3, <2>4, LastOfJoin
  <2> QED
    BY <2>2, <2>5 DEF RefusedWereCorked
<1>8. DrainComes
  <2>1. sink.corked \in Nat /\ (sink.corked = 0 => sink.held = << >>)
        /\ (sink.waiting => sink.pending # << >> \/ sink.held # << >> \/ sink.ended)
    BY <1>1 DEF SinkSound, Writables
  <2> QED
    BY <2>1 DEF DrainComes
<1> QED
  BY <1>2, <1>3, <1>5, <1>6, <1>7, <1>8 DEF PipelineDelivers

\* What is pushed into a pipeline is given to its sink in order, all of it before the end,
\* whatever the program pauses, resumes, unpipes, corks or destroys; the sink writes it all
\* but what is corked when the end comes (Readable, Writable, pipe, pipeline).
THEOREM PipelineDoesDeliver == Spec => []PipelineDelivers
<1>1. Init => RefusedWereCorked
  BY DEF Init, NewSink, RefusedWereCorked
<1>2. Spec => []RefusedWereCorked
  BY <1>1, StreamsRefuse, StreamsInvariant, PTL DEF Spec
<1> QED
  BY <1>2, StreamsInvariant, PipelineFollows, PTL
=============================================================================
