---------------------------- MODULE WebContainer ----------------------------
(***************************************************************************)
(* The SDK: processes that spawn() runs in a microtask, and the callbacks  *)
(* that on('server-ready') registers, called while a port is being bound.  *)
(* A callback may throw, take callbacks out, bind a port or tear the       *)
(* container down.                                                         *)
(***************************************************************************)
EXTENDS Naturals, Sequences, FiniteSets

CONSTANTS
  Procs,        \* processes that may be spawned
  Callbacks,    \* callbacks of 'server-ready'
  PortNumbers,  \* ports
  Files,        \* the files there are
  Pending,      \* the value of a promise that is not settled
  MaxNesting,     \* bound on bindings within one another
  MaxReady      \* bound on the callbacks' calls

ASSUME WebContainerAssumption ==
  MaxNesting \in Nat /\ MaxReady \in Nat /\ Pending \notin {0, 1, 127}

VARIABLES
  procs,        \* state, output stream and exit promise of each process
  queue,        \* the microtask queue: runs of processes and hand-overs to the caller
  callbacks,    \* serverReadyCallbacks
  bound,        \* the ports of the port table
  emitting,     \* emissions of 'bind' in progress, the innermost last
  disposed,     \* the flag of teardown()
  told          \* the calls of callbacks: [callback, port, meant]

sdkVars == <<procs, queue, callbacks, bound, emitting, disposed, told>>

NewProc == [state |-> "none", lines |-> 0, closed |-> FALSE, exit |-> Pending]

SdkInit ==
  /\ procs = [p \in Procs |-> NewProc]
  /\ queue = << >>
  /\ callbacks = {}
  /\ bound = {}
  /\ emitting = << >>
  /\ disposed = FALSE
  /\ told = << >>

-----------------------------------------------------------------------------
\* spawn(): what a command prints and the code it exits with.  All but a few
\* commands are not found; of those that name a file it has to exist.
Commands == {[name |-> n, file |-> f] : n \in {"echo", "node", "cat", "mkdir"}, f \in Files \cup {"missing", "none"}}
              \cup {[name |-> "other", file |-> "none"]}
Fails(c) ==
  \/ c.name \in {"node", "cat"} /\ c.file = "missing"
  \/ c.name = "mkdir" /\ c.file # "missing"
Code(c) == IF c.name = "other" THEN 127 ELSE IF Fails(c) THEN 1 ELSE 0
\* The line that repeats the command, and what follows it.
Lines(c) == IF Fails(c) THEN 2 ELSE IF c.name = "mkdir" \/ (c.name = "cat" /\ c.file = "none") THEN 1 ELSE 2

\* The run is queued by the executor of the exit promise; spawn() returns
\* afterwards, and its caller goes on in a microtask behind it.
\* Mutant: the run is queued when spawn() has returned.
QueuedLate(p, c) == <<[kind |-> "hand", of |-> p, cmd |-> c], [kind |-> "run", of |-> p, cmd |-> c]>>
Queued(p, c) == <<[kind |-> "run", of |-> p, cmd |-> c], [kind |-> "hand", of |-> p, cmd |-> c]>>

Spawn(p, c) ==
  /\ procs[p].state = "none"
  /\ procs' = [procs EXCEPT ![p].state = "spawned"]
  /\ queue' = queue \o Queued(p, c)
  /\ UNCHANGED <<callbacks, bound, emitting, disposed, told>>

\* On a closed stream enqueue() throws, in the handler of that error once more,
\* and the exit promise stays as it is.
\* Mutant: the stream is left open when a command fails.
RanOpen(s, c) == IF s.closed THEN s ELSE [s EXCEPT !.lines = Lines(c), !.closed = ~Fails(c), !.exit = Code(c)]
Ran(s, c) == IF s.closed THEN s ELSE [s EXCEPT !.lines = Lines(c), !.closed = TRUE, !.exit = Code(c)]

RunMicrotask ==
  LET t == Head(queue) IN
  /\ queue # << >> /\ emitting = << >>
  /\ queue' = Tail(queue)
  /\ procs' = [procs EXCEPT ![t.of] = IF t.kind = "run" THEN Ran(@, t.cmd) ELSE [@ EXCEPT !.state = "handed"]]
  /\ UNCHANGED <<callbacks, bound, emitting, disposed, told>>

\* kill(): closes the output, and nothing else.
Kill(p) ==
  /\ procs[p].state = "handed"
  /\ procs' = [procs EXCEPT ![p].closed = TRUE]
  /\ UNCHANGED <<queue, callbacks, bound, emitting, disposed, told>>

-----------------------------------------------------------------------------
\* A port is bound: the callbacks registered then are called one by one; the
\* iteration skips those taken out in the meantime, and sees those added.
EmbedderRuns == IF emitting = << >> THEN TRUE ELSE emitting[Len(emitting)].calling

\* on('server-ready'), and the function it returns.
Added(ems, cb) == [k \in 1 .. Len(ems) |-> [ems[k] EXCEPT !.left = @ \cup {cb}]]
On(cb) ==
  /\ EmbedderRuns /\ cb \notin callbacks /\ Len(told) < MaxReady
  /\ callbacks' = callbacks \cup {cb}
  /\ emitting' = Added(emitting, cb)
  /\ UNCHANGED <<procs, queue, bound, disposed, told>>

\* Mutant: the iteration goes over a copy.
TakenOutLater(ems, cbs) == ems
TakenOut(ems, cbs) == [k \in 1 .. Len(ems) |-> [ems[k] EXCEPT !.left = @ \ cbs]]
Off(cb) ==
  /\ EmbedderRuns /\ cb \in callbacks
  /\ callbacks' = callbacks \ {cb}
  /\ emitting' = TakenOut(emitting, {cb})
  /\ UNCHANGED <<procs, queue, bound, disposed, told>>

BindPort(p) ==
  /\ EmbedderRuns /\ p \notin bound /\ Len(emitting) < MaxNesting
  /\ bound' = bound \cup {p}
  /\ emitting' = Append(emitting, [port |-> p, left |-> callbacks, calling |-> FALSE])
  /\ UNCHANGED <<procs, queue, callbacks, disposed, told>>

UnbindPort(p) ==
  /\ EmbedderRuns /\ p \in bound
  /\ bound' = bound \ {p}
  /\ UNCHANGED <<procs, queue, callbacks, emitting, disposed, told>>

Depth == Len(emitting)
CallReady(cb) ==
  /\ Depth > 0 /\ ~emitting[Depth].calling /\ cb \in emitting[Depth].left /\ Len(told) < MaxReady
  /\ emitting' = [emitting EXCEPT ![Depth].left = @ \ {cb}, ![Depth].calling = TRUE]
  /\ told' = Append(told, [callback |-> cb, port |-> emitting[Depth].port, meant |-> cb \in callbacks])
  /\ UNCHANGED <<procs, queue, callbacks, bound, disposed>>

\* It returns or throws; the error is swallowed.
\* Mutant: it ends the emission.
ReturnsOrThrowsOut(threw) == IF threw THEN SubSeq(emitting, 1, Depth - 1) ELSE [emitting EXCEPT ![Depth].calling = FALSE]
ReturnsOrThrows(threw) == [emitting EXCEPT ![Depth].calling = FALSE]
ReadyReturns(threw) ==
  /\ Depth > 0 /\ emitting[Depth].calling
  /\ emitting' = ReturnsOrThrows(threw)
  /\ UNCHANGED <<procs, queue, callbacks, bound, disposed, told>>

CallbackReturns ==
  /\ Depth > 0 /\ ~emitting[Depth].calling /\ emitting[Depth].left = {}
  /\ emitting' = SubSeq(emitting, 1, Depth - 1)
  /\ UNCHANGED <<procs, queue, callbacks, bound, disposed, told>>

\* teardown(), the second call of which does nothing.  Ports can be bound after
\* it, callbacks registered, too.
Teardown ==
  /\ EmbedderRuns /\ ~disposed
  /\ disposed' = TRUE
  /\ bound' = {}
  /\ callbacks' = {}
  /\ emitting' = TakenOut(emitting, callbacks)
  /\ UNCHANGED <<procs, queue, told>>

SdkNext ==
  \/ \E p \in Procs, c \in Commands : Spawn(p, c)
  \/ RunMicrotask
  \/ \E p \in Procs : Kill(p)
  \/ \E cb \in Callbacks : On(cb) \/ Off(cb) \/ CallReady(cb)
  \/ \E p \in PortNumbers : BindPort(p) \/ UnbindPort(p)
  \/ \E threw \in BOOLEAN : ReadyReturns(threw)
  \/ CallbackReturns \/ Teardown

\* Whenever the stack is empty the microtasks get their turn.
SdkFairness == SF_sdkVars(RunMicrotask)
SdkSpec == SdkInit /\ [][SdkNext]_sdkVars /\ SdkFairness

-----------------------------------------------------------------------------
(***************************************************************************)
(* Correctness.                                                            *)
(***************************************************************************)
\* Every variable keeps its type; an exit promise that is resolved has a closed
\* output behind it.
SdkTypeOK ==
  /\ \A p \in Procs : /\ procs[p].state \in {"none", "spawned", "handed"}
                      /\ procs[p].exit \in {0, 1, 127, Pending}
                      /\ procs[p].exit # Pending => procs[p].closed /\ procs[p].lines > 0
  /\ callbacks \subseteq Callbacks /\ bound \subseteq PortNumbers
  /\ Len(emitting) <= MaxNesting /\ Len(told) <= MaxReady

\* A process has run when the caller of spawn() gets hold of it: its kill() comes
\* too late to keep the exit promise from being resolved.
RunBeforeHanded == \A p \in Procs : procs[p].state = "handed" => procs[p].exit # Pending

\* Every exit promise is resolved, provided that the program's tasks end.
SpawnedExits ==
  []<>(emitting = << >>) =>
    \A p \in Procs : procs[p].state # "none" ~> procs[p].exit # Pending

\* A callback is not called after it was taken out or the container torn down,
\* also when that happens in a callback of the same binding.
ToldOnlyWhileRegistered == \A k \in 1 .. Len(told) : told[k].meant

\* What the container tells its embedder is meant for it, and in time.
EmbedderToldRight == SdkTypeOK /\ RunBeforeHanded /\ ToldOnlyWhileRegistered

\* A binding is announced to all callbacks, also if one of them throws, binds
\* another port or takes others out.
EmissionReachesAll ==
  [][Depth' < Depth => emitting[Depth].left = {}]_sdkVars

\* ... and it tells all that is due.
EmbedderToldAll == EmissionReachesAll /\ SpawnedExits
=============================================================================
