------------------------------ MODULE Streams ------------------------------
(***************************************************************************)
(* A pipeline of node streams: stream 1 is a Readable the program pushes   *)
(* chunks into, streams 2 .. N-1 are Transforms that pass chunks on, and   *)
(* the sink is a Writable that completes its writes later.  Events are     *)
(* emitted in microtasks, one after the other, between the calls of the    *)
(* program.  Chunks are numbered as they are pushed; each has length 1.    *)
(***************************************************************************)
EXTENDS Integers, Sequences, SequencesExt

CONSTANTS
  N,              \* the number of streams, the sink included
  MaxChunks,      \* bound on the chunks pushed
  MaxTasks,       \* bound on the calls between two turns of the event loop
  MaxCorks,       \* bound on nested calls of cork()
  Steered,        \* the streams the program unpipes, pauses and resumes
  HighWaterMark   \* of the sink

ASSUME StreamsAssumption ==
  /\ N \in Nat \ {0, 1}
  /\ MaxChunks \in Nat /\ MaxTasks \in Nat /\ MaxCorks \in Nat
  /\ HighWaterMark \in Nat \ {0}
  /\ Steered \subseteq 1 .. N - 1

VARIABLES
  r,       \* the readable sides: r[i] feeds stream i + 1
  sink,    \* the Writable at the end
  tasks,   \* the microtask queue
  pushed,  \* how many chunks the program has pushed
  result   \* what the callback of pipeline() was told

vars == <<r, sink, tasks, pushed, result>>

Sources == 1 .. N - 1
Chunks == 1 .. MaxChunks

\* taken: the chunks that have left the buffer, as data events or by read().
NewReadable ==
  [buffer |-> << >>, ended |-> FALSE, readableEnded |-> FALSE, flowing |-> FALSE,
   destroyed |-> FALSE, pipes |-> 0, listening |-> FALSE, taken |-> << >>]
\* written: the chunks handed to _write; dropped: those refused after the end;
\* lost: how many were corked when the end came; waiting: has a pipe registered for
\* the next drain?
NewSink ==
  [pending |-> << >>, writableLength |-> 0, ended |-> FALSE, finished |-> FALSE,
   corked |-> 0, held |-> << >>, destroyed |-> FALSE, waiting |-> FALSE, ends |-> 0,
   written |-> << >>, dropped |-> << >>, lost |-> 0]

Init ==
  /\ r = [i \in Sources |-> NewReadable]
  /\ sink = NewSink
  /\ tasks = << >>
  /\ pushed = 0
  /\ result = "none"

-----------------------------------------------------------------------------
(***************************************************************************)
(* What a call does to one stream.                                         *)
(***************************************************************************)
Task(kind, i) == [kind |-> kind, of |-> i]

\* push(chunk): the stream and the microtask it schedules.
Push(s, chunks) == [s EXCEPT !.buffer = @ \o chunks]
PushTask(s, i, n) == IF s.flowing THEN [k \in 1 .. n |-> Task("flush", i)] ELSE << >>

\* push(null)
PushNull(s) == [s EXCEPT !.ended = TRUE]
\* Mutant: whatever the buffer holds.
PushNullTaskNow(s, i) == <<Task("end", i)>>
\* Mutant: only a stream that flows is told.
PushNullTaskFlowing(s, i) == IF s.buffer = << >> /\ s.flowing THEN <<Task("end", i)>> ELSE << >>
PushNullTask(s, i) == IF s.buffer = << >> THEN <<Task("end", i)>> ELSE << >>

\* The first n chunks leave the buffer.
\* Mutant: the rest is forgotten.
TakeAll(s, n) == [s EXCEPT !.buffer = << >>, !.taken = @ \o SubSeq(s.buffer, 1, n)]
Take(s, n) == [s EXCEPT !.buffer = SubSeq(s.buffer, n + 1, Len(s.buffer)),
                        !.taken = @ \o SubSeq(s.buffer, 1, n)]

\* The end of a readable side: readableEnded, emit('end').
\* Mutant: a second task may find the buffer empty again.
EndsAgain(s) == s.ended /\ s.buffer = << >>
Ends(s) == s.ended /\ s.buffer = << >> /\ ~s.readableEnded
EndOf(s) == [s EXCEPT !.readableEnded = TRUE]

\* write of chunks, one after the other, none completing in between.
\* Mutant: a write does not count.
WriteUncounted(w, chunks) ==
  IF w.ended THEN [w EXCEPT !.dropped = @ \o chunks]
  ELSE IF w.corked > 0 THEN [w EXCEPT !.held = @ \o chunks]
  ELSE [w EXCEPT !.pending = @ \o chunks, !.written = @ \o chunks]
\* Mutant: the chunks of a corked sink are not kept.
WriteUncorked(w, chunks) ==
  IF w.ended THEN [w EXCEPT !.dropped = @ \o chunks]
  ELSE IF w.corked > 0 THEN w
  ELSE [w EXCEPT !.pending = @ \o chunks, !.written = @ \o chunks,
                 !.writableLength = @ + Len(chunks)]
Write(w, chunks) ==
  IF w.ended THEN [w EXCEPT !.dropped = @ \o chunks]
  ELSE IF w.corked > 0 THEN [w EXCEPT !.held = @ \o chunks]
  ELSE [w EXCEPT !.pending = @ \o chunks, !.written = @ \o chunks,
                 !.writableLength = @ + Len(chunks)]

\* Is the k-th of such writes answered with false?
Full(w, k) == w.ended \/ w.corked > 0 \/ w.writableLength + k >= HighWaterMark

\* end(): what is corked meets writableEnded and is refused, into callbacks that
\* nobody gave, although it was to be flushed.
End(w) == [w EXCEPT !.ended = TRUE, !.finished = TRUE, !.corked = 0,
                    !.held = << >>, !.dropped = @ \o w.held, !.lost = Len(w.held),
                    !.ends = @ + 1]

\* Every chunk n times: the data listener of pipe() and the list of pipes both
\* write it.
\* Mutant: all chunks for the one, then all for the other.
CopiesByPipe(chunks, n) == IF n = 2 THEN chunks \o chunks ELSE IF n = 1 THEN chunks ELSE << >>
Copies(chunks, n) == [k \in 1 .. n * Len(chunks) |-> chunks[1 + ((k - 1) \div n)]]

-----------------------------------------------------------------------------
(***************************************************************************)
(* What stream i + 1 does with the chunks and the end of stream i.         *)
(***************************************************************************)
IsLast(i) == i = N - 1

\* r and the new tasks when chunks go from i to a Transform, which pushes them.
Passed(i, rr, chunks) == [rr EXCEPT ![i + 1] = Push(@, chunks)]
PassedTasks(i, rr, chunks) == PushTask(rr[i + 1], i + 1, Len(chunks))

\* The 'end' event of stream i with its listener, given that it ends.
EndEvent(i, rr, w, queue) ==
  LET ended == [rr EXCEPT ![i] = EndOf(@)]
  IN  IF ~rr[i].listening
        THEN r' = ended /\ sink' = w /\ tasks' = queue /\ UNCHANGED result
      ELSE IF IsLast(i)
        THEN /\ r' = ended
             /\ sink' = End(w)
             /\ tasks' = queue
             /\ result' = IF result = "none" THEN "ok" ELSE result
      ELSE /\ r' = [ended EXCEPT ![i + 1] = PushNull(@)]
           /\ sink' = w
           /\ tasks' = queue \o PushNullTask(rr[i + 1], i + 1)
           /\ UNCHANGED result

MayEnd(i, rr, w, queue) ==
  IF Ends(rr[i]) THEN EndEvent(i, rr, w, queue)
  ELSE r' = rr /\ sink' = w /\ tasks' = queue /\ UNCHANGED result

\* The first n chunks of stream i are emitted, each written `copies' times.
EmitChunks(i, n, copies) ==
  LET chunks == SubSeq(r[i].buffer, 1, n)
      out == Copies(chunks, copies)
      taken == [r EXCEPT ![i] = Take(@, n)]
      writes == copies * n
      \* the writes of the data listener come first of each chunk's
      refused == \E k \in 1 .. n : Full(sink, (k - 1) * copies + 1)
      rest == Tail(tasks)
  IN  IF copies = 0 THEN MayEnd(i, taken, sink, rest)
      ELSE IF ~IsLast(i)
        THEN MayEnd(i, Passed(i, taken, out), sink, rest \o PassedTasks(i, r, out))
      ELSE LET stops == r[i].listening /\ refused
               held == [taken EXCEPT ![i].flowing = @ /\ ~stops]
               w == [Write(sink, out) EXCEPT !.waiting = @ \/ stops]
           IN  MayEnd(i, held, w, rest)

-----------------------------------------------------------------------------
(***************************************************************************)
(* Microtasks.                                                             *)
(***************************************************************************)
Next1 == Head(tasks)
Is(kind, i) == tasks # << >> /\ Next1 = Task(kind, i)

\* The loop push() schedules: it empties the buffer, flowing or not.
RunFlush(i) ==
  /\ Is("flush", i)
  /\ EmitChunks(i, Len(r[i].buffer), r[i].pipes + (IF r[i].listening THEN 1 ELSE 0))
  /\ UNCHANGED pushed

\* The loop resume() schedules: it stops when a write is refused.
RunResume(i) ==
  LET all == Len(r[i].buffer)
      n == IF ~r[i].flowing THEN 0
           ELSE IF IsLast(i) /\ r[i].listening
             THEN CHOOSE k \in 0 .. all :
                    /\ k = all \/ Full(sink, k)
                    /\ \A j \in 1 .. k - 1 : ~Full(sink, j)
                    /\ k = 0 => all = 0
           ELSE all
  IN  /\ Is("resume", i)
      /\ EmitChunks(i, n, IF r[i].listening THEN 1 ELSE 0)
      /\ UNCHANGED pushed

\* What push(null) schedules when the buffer is empty: it does not look at the
\* buffer again.
RunEnd(i) ==
  /\ Is("end", i)
  /\ IF r[i].readableEnded
     THEN tasks' = Tail(tasks) /\ UNCHANGED <<r, sink, result>>
     ELSE EndEvent(i, r, sink, Tail(tasks))
  /\ UNCHANGED pushed

\* What read() schedules when it has found the end.
RunEndRead(i) ==
  /\ Is("endRead", i)
  /\ EndEvent(i, r, sink, Tail(tasks))
  /\ UNCHANGED pushed

\* destroy(error): the pipeline destroys the next stream and is told.
RunError(i) ==
  /\ Is("error", i)
  /\ IF ~r[i].listening
     THEN tasks' = Tail(tasks) /\ UNCHANGED <<r, sink, result>>
     ELSE /\ result' = IF result = "none" THEN "error" ELSE result
          /\ IF IsLast(i)
             THEN /\ sink' = [sink EXCEPT !.destroyed = TRUE]
                  /\ tasks' = Tail(tasks)
                  /\ UNCHANGED r
             ELSE /\ r' = [r EXCEPT ![i + 1].destroyed = TRUE, ![i + 1].buffer = << >>]
                  /\ tasks' = IF r[i + 1].destroyed THEN Tail(tasks)
                              ELSE Append(Tail(tasks), Task("error", i + 1))
                  /\ UNCHANGED sink
  /\ UNCHANGED pushed

\* The callback of the sink's oldest write, with or without an error; a drain
\* event may set the stream flowing, whose resume() then finds it flowing and
\* does nothing.
WriteDone(failed) ==
  LET w == [sink EXCEPT !.pending = Tail(@), !.writableLength = @ - 1]
      drained == w.writableLength < HighWaterMark
  IN  /\ sink.pending # << >>
      /\ sink' = [w EXCEPT !.waiting = @ /\ ~drained]
      /\ r' = [r EXCEPT ![N - 1].flowing = @ \/ (drained /\ sink.waiting)]
      /\ result' = IF failed /\ result = "none" THEN "error" ELSE result
      /\ UNCHANGED <<tasks, pushed>>

-----------------------------------------------------------------------------
(***************************************************************************)
(* The program.                                                            *)
(***************************************************************************)
Fits(n) == Len(tasks) + n <= MaxTasks

ProgramPush ==
  /\ pushed < MaxChunks /\ ~r[1].ended /\ ~r[1].destroyed /\ Fits(1)
  /\ pushed' = pushed + 1
  /\ r' = [r EXCEPT ![1] = Push(@, <<pushed + 1>>)]
  /\ tasks' = tasks \o PushTask(r[1], 1, 1)
  /\ UNCHANGED <<sink, result>>

ProgramEnd ==
  /\ ~r[1].ended /\ ~r[1].destroyed /\ Fits(1)
  /\ r' = [r EXCEPT ![1] = PushNull(@)]
  /\ tasks' = tasks \o PushNullTask(r[1], 1)
  /\ UNCHANGED <<sink, pushed, result>>

\* read() of a stream nobody has piped.
Read ==
  LET s == r[1] IN
  /\ ~s.listening /\ Fits(1)
  /\ \/ /\ s.buffer # << >>
        /\ r' = [r EXCEPT ![1] = Take(@, 1)]
        /\ UNCHANGED tasks
     \/ /\ Ends(s)
        /\ r' = [r EXCEPT ![1] = EndOf(@)]
        /\ tasks' = Append(tasks, Task("endRead", 1))
  /\ UNCHANGED <<sink, pushed, result>>

\* pipeline(): pipes all streams and listens to their errors.  What is in the
\* buffer already stays there until something schedules a loop.
Pipeline ==
  /\ ~r[1].listening
  /\ r' = [i \in Sources |-> [r[i] EXCEPT !.flowing = TRUE, !.pipes = 1, !.listening = TRUE]]
  /\ UNCHANGED <<sink, tasks, pushed, result>>

\* unpipe(): the data listener stays.
Unpipe(i) ==
  /\ r[i].pipes > 0
  /\ r' = [r EXCEPT ![i].pipes = 0, ![i].flowing = FALSE]
  /\ UNCHANGED <<sink, tasks, pushed, result>>

Pause(i) ==
  /\ r[i].flowing
  /\ r' = [r EXCEPT ![i].flowing = FALSE]
  /\ UNCHANGED <<sink, tasks, pushed, result>>

Resume(i) ==
  /\ ~r[i].flowing /\ Fits(1)
  /\ r' = [r EXCEPT ![i].flowing = TRUE]
  /\ tasks' = Append(tasks, Task("resume", i))
  /\ UNCHANGED <<sink, pushed, result>>

\* destroy(error) of the source.
Destroy ==
  /\ ~r[1].destroyed /\ Fits(1)
  /\ r' = [r EXCEPT ![1].destroyed = TRUE, ![1].buffer = << >>]
  /\ tasks' = Append(tasks, Task("error", 1))
  /\ UNCHANGED <<sink, pushed, result>>

Cork ==
  /\ sink.corked < MaxCorks
  /\ sink' = [sink EXCEPT !.corked = @ + 1]
  /\ UNCHANGED <<r, tasks, pushed, result>>

Uncork ==
  /\ sink.corked > 0
  /\ sink' = IF sink.corked > 1 THEN [sink EXCEPT !.corked = @ - 1]
             ELSE Write([sink EXCEPT !.corked = 0, !.held = << >>], sink.held)
  /\ UNCHANGED <<r, tasks, pushed, result>>

RunTask(i) == RunFlush(i) \/ RunResume(i) \/ RunEnd(i) \/ RunEndRead(i) \/ RunError(i)

Program ==
  \/ ProgramPush \/ ProgramEnd \/ Read \/ Pipeline \/ Destroy \/ Cork \/ Uncork
  \/ \E i \in Steered : Unpipe(i) \/ Pause(i) \/ Resume(i)

Next == Program \/ (\E failed \in BOOLEAN : WriteDone(failed)) \/ \E i \in Sources : RunTask(i)

Fairness ==
  /\ WF_vars(\E i \in Sources : RunTask(i))
  /\ WF_vars(\E failed \in BOOLEAN : WriteDone(failed))

Spec == Init /\ [][Next]_vars /\ Fairness

-----------------------------------------------------------------------------
(***************************************************************************)
(* Correctness.                                                            *)
(***************************************************************************)
\* Every variable keeps its type, and writableLength counts what is pending.
TypeOK ==
  /\ \A i \in Sources :
       /\ r[i].buffer \in Seq(Chunks) /\ r[i].taken \in Seq(Chunks)
       /\ r[i].pipes \in 0 .. 1
       /\ \A b \in {"ended", "readableEnded", "flowing", "destroyed", "listening"} :
             r[i][b] \in BOOLEAN
  /\ sink.writableLength = Len(sink.pending)
  /\ sink.pending \in Seq(Chunks) /\ sink.held \in Seq(Chunks)
  /\ pushed \in 0 .. MaxChunks
  /\ result \in {"none", "ok", "error"}

Destroyed == sink.destroyed \/ \E i \in Sources : r[i].destroyed
\* What the sink has been given, not all of which it writes.
Given == sink.written \o sink.held \o sink.dropped

\* A readable side loses no chunk and keeps their order (push, read, the loops
\* of push and resume).
NothingLost ==
  ~r[1].destroyed => r[1].taken \o r[1].buffer = [k \in 1 .. pushed |-> k]

\* Chunks are given to the sink in order and without a gap, whatever is paused,
\* resumed, unpiped or corked, and what it writes is the first part of them.  (They
\* may come more than once: both the data listener of pipe() and the list of pipes
\* write them.)
PipedInOrder ==
  \A k \in 1 .. Len(Given) - 1 : Given[k + 1] - Given[k] \in {0, 1}

\* The sink refuses nothing but what was corked when its end came: no chunk is
\* written after end().
RefusedWereCorked == Len(sink.dropped) = sink.lost

\* end() of the sink is called once, and only after all data.
EndsOnceAfterData ==
  /\ sink.ends <= 1
  /\ sink.ended /\ ~Destroyed =>
       \A i \in Sources : r[i].readableEnded /\ r[i].buffer = << >>

\* If pipeline() reports success and no stream was destroyed, the sink has been
\* given every chunk and has written all but those that were corked when the end
\* came: these are lost, and success is reported all the same.
OkMeansWritten ==
  result = "ok" /\ ~Destroyed =>
    /\ Given # << >> => Last(Given) = pushed
    /\ Len(sink.written) + sink.lost = Len(Given)

\* A pipe that waits for a drain event is not forgotten.
DrainComes == sink.waiting => sink.pending # << >> \/ sink.corked > 0 \/ sink.ended

\* What is pushed into a pipeline is given to its sink, all of it, in order and
\* before the end; all of it is written, too, and success reported only then, except
\* for chunks that are corked when the end comes: end() discards them (Readable,
\* Writable, pipe, pipeline).
PipelineDelivers ==
  /\ TypeOK
  /\ NothingLost /\ PipedInOrder
  /\ EndsOnceAfterData /\ RefusedWereCorked /\ OkMeansWritten
  /\ DrainComes

\* A stream that holds chunks and has no loop scheduled to move them: it was
\* paused, or filled before it was piped, or held up by the sink (resume() finds
\* it flowing again and schedules nothing).
Scheduled(i) == \E k \in 1 .. Len(tasks) : tasks[k].of = i
Stuck == \E i \in Sources : r[i].buffer # << >> /\ ~Scheduled(i)

\* The program has taken chunks with read() that were meant for stream 2.
ReadByHand ==
  \E k \in 1 .. Len(r[1].taken) :
     ~Contains(IF N = 2 THEN Given ELSE r[2].taken \o r[2].buffer, r[1].taken[k])

\* Once the program leaves the streams alone, the end of the data reaches the
\* sink, unless a stream is stuck: one that was held up by a full sink does stay so
\* for ever, drained or not, and nothing is promised of it here.
EndArrives ==
  <>[][~Program]_vars =>
    (r[1].ended /\ r[1].listening /\ ~r[1].readableEnded
       ~> sink.finished \/ Stuck \/ Destroyed \/ ReadByHand)
=============================================================================
