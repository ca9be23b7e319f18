---------------------------- MODULE ProcessManager ----------------------------
(***************************************************************************)
(* Process lifecycle: the ProcessManager on the main thread, its table,    *)
(* monitors and exit promises; the SABPool that hands every process its    *)
(* syscall buffer; the workers that run the programs; and the messages     *)
(* between them.  A system call is three steps here (post, poll, wake):    *)
(* SyscallBridge has the protocol in full.  What this module adds is what  *)
(* happens to a buffer, and to the calls in it, when processes come and    *)
(* go.  A main-thread task is one step, the loop of dispose excepted.      *)
(***************************************************************************)
EXTENDS Naturals, Sequences, FiniteSets

CONSTANTS
  MaxPid,    \* bound: processes spawned in a behaviour
  PoolSize,  \* buffers the pool creates in advance
  Codes,     \* exit codes a program passes to process.exit
  NoCode,    \* no exit code yet
  MaxInbox,  \* bound: uncaught errors queued from one worker
  Wired,     \* was SyscallDispatcher.setProcessManager called?
  MayKill,   \* does the host kill processes or dispose of the manager?
  MayOutlive \* do callbacks of a program run after its main script ended?

ASSUME SizeAssumption ==
  /\ MaxPid \in Nat /\ PoolSize \in Nat /\ MaxInbox \in Nat
  /\ Codes \subseteq Nat /\ NoCode \notin Nat
  /\ Wired \in BOOLEAN /\ MayKill \in BOOLEAN /\ MayOutlive \in BOOLEAN

Pids == 1..MaxPid
Sabs == 1..(PoolSize + MaxPid)
NoSab == 0
KillCode == 143     \* 128 + SIGTERM
DisposeCode == 137  \* SIGKILL
AllCodes == Codes \cup {0, 1, KillCode, DisposeCode}

VARIABLES
  nextPid,   \* the next pid to hand out
  proc,      \* proc[p]: the process table entry
  monitor,   \* monitor[p]: the buffer polled by the interval of p
  pool,      \* free buffers, last in first out
  inUse,     \* buffers handed out
  created,   \* number of buffers ever created
  disposing, \* is the loop of dispose() running?
  buf,       \* buf[s]: the contents of a shared buffer
  worker,    \* worker[p]: the worker thread of p
  poked,     \* workers notified but not yet running again
  inbox,     \* inbox[p]: messages from worker p to the main thread
  promise,   \* promise[p]: the code the exit promise of p resolved to
  wanted,    \* wanted[p]: the code of its main script's first process.exit (history)
  killed     \* processes kill() was applied to (history)

poolVars == <<pool, inUse, created>>
hostVars == <<nextPid, proc, monitor, pool, inUse, created, disposing>>
history == <<wanted, killed>>
vars == <<nextPid, proc, monitor, pool, inUse, created, disposing,
          buf, worker, poked, inbox, promise, wanted, killed>>

-----------------------------------------------------------------------------
(***************************************************************************)
(* Values.                                                                 *)
(***************************************************************************)
Entries == [state : {"absent", "running", "exited"}, code : AllCodes \cup {NoCode},
            sab : Sabs \cup {NoSab}, worker : BOOLEAN]
NoEntry == [state |-> "absent", code |-> NoCode, sab |-> NoSab, worker |-> FALSE]

\* A request records who made it, an answer also whose monitor served it.
Ops == {"none", "fs", "exit", "kill"}
Buffers == [status : {"IDLE", "REQUEST", "RESPONSE"},
            kind : {"zero", "request", "answer"},
            op : Ops, arg : Nat, by : Nat, as : Nat]
Zeroed == [status |-> "IDLE", kind |-> "zero", op |-> "none", arg |-> 0, by |-> 0, as |-> 0]

WorkerStates == {"none", "loaded", "running", "waiting", "idle", "closed", "terminated"}
Workers == [at : WorkerStates, ctx : {"script", "callback"}, op : Ops,
            sab : Sabs \cup {NoSab}, code : AllCodes \cup {NoCode}]
NoWorker == [at |-> "none", ctx |-> "script", op |-> "none", sab |-> NoSab, code |-> NoCode]

Messages == [type : {"exit", "exec-complete", "error"}, code : AllCodes]
Message(t, c) == [type |-> t, code |-> c]

Running(p) == proc[p].state = "running"

-----------------------------------------------------------------------------
Init ==
  /\ nextPid = 1
  /\ proc = [p \in Pids |-> NoEntry]
  /\ monitor = [p \in Pids |-> NoSab]
  /\ pool = [i \in 1..PoolSize |-> i]
  /\ inUse = {}
  /\ created = PoolSize
  /\ disposing = FALSE
  /\ buf = [s \in Sabs |-> Zeroed]
  /\ worker = [p \in Pids |-> NoWorker]
  /\ poked = {}
  /\ inbox = [p \in Pids |-> << >>]
  /\ promise = [p \in Pids |-> NoCode]
  /\ wanted = [p \in Pids |-> NoCode]
  /\ killed = {}

-----------------------------------------------------------------------------
(***************************************************************************)
(* The main thread.                                                        *)
(***************************************************************************)

\* Mutant: the buffer handed out stays in the pool.
AllocateShared(s) ==
  IF pool # << >>
  THEN s = pool[Len(pool)] /\ inUse' = inUse \cup {s} /\ UNCHANGED <<pool, created>>
  ELSE s = created + 1 /\ created' = s /\ inUse' = inUse \cup {s} /\ UNCHANGED pool

\* SABPool.allocate: the most recently released buffer, or a new one.
Allocate(s) ==
  IF pool # << >>
  THEN /\ s = pool[Len(pool)]
       /\ pool' = SubSeq(pool, 1, Len(pool) - 1)
       /\ inUse' = inUse \cup {s}
       /\ UNCHANGED created
  ELSE /\ s = created + 1
       /\ created' = s
       /\ inUse' = inUse \cup {s}
       /\ UNCHANGED pool

Spawn ==
  /\ ~disposing
  /\ nextPid \in Pids
  /\ nextPid' = nextPid + 1
  /\ \E s \in Sabs :
       /\ Allocate(s)
       /\ buf' = [buf EXCEPT ![s] = Zeroed]
       /\ proc' = [proc EXCEPT ![nextPid] =
                     [state |-> "running", code |-> NoCode, sab |-> s, worker |-> TRUE]]
       /\ monitor' = [monitor EXCEPT ![nextPid] = s]
       /\ worker' = [worker EXCEPT ![nextPid].at = "loaded", ![nextPid].sab = s]
  /\ UNCHANGED <<disposing, poked, inbox, promise, wanted, killed>>

\* SABPool.release of the buffer of p, if the entry still has one.
Releases(p) == proc[p].sab \in inUse

\* Mutant: a buffer is put back without asking whether it is in use.
ReleaseAlways(p) ==
  /\ pool' = Append(pool, proc[p].sab)
  /\ inUse' = inUse \ {proc[p].sab}
  /\ UNCHANGED created

\* Mutant: a buffer put back stays in the set of those in use.
ReleaseKeeping(p) ==
  /\ pool' = IF Releases(p) THEN Append(pool, proc[p].sab) ELSE pool
  /\ UNCHANGED <<inUse, created>>

Release(p) ==
  /\ pool' = IF Releases(p) THEN Append(pool, proc[p].sab) ELSE pool
  /\ inUse' = inUse \ {proc[p].sab}
  /\ UNCHANGED created

\* What the buffers hold after the release: a freed one is zeroed.
Wiped(p) == IF Releases(p) THEN [buf EXCEPT ![proc[p].sab] = Zeroed] ELSE buf

\* Mutant: the entry keeps its buffer (entry.syscallBuffer = null is missing).
CleanupKeepingBuffer(p, code) ==
  IF proc[p].state = "absent"
  THEN UNCHANGED <<proc, monitor, pool, inUse, created>>
  ELSE /\ proc' = [proc EXCEPT ![p].state = "exited", ![p].code = code, ![p].worker = FALSE]
       /\ monitor' = [monitor EXCEPT ![p] = NoSab]
       /\ Release(p)

\* Mutant: the interval is not cleared.
CleanupKeepingMonitor(p, code) ==
  IF proc[p].state = "absent"
  THEN UNCHANGED <<proc, monitor, pool, inUse, created>>
  ELSE /\ proc' = [proc EXCEPT ![p] =
                     [state |-> "exited", code |-> code, sab |-> NoSab, worker |-> FALSE]]
       /\ UNCHANGED monitor
       /\ Release(p)

\* Mutant: the exit code is not stored.
CleanupWithoutCode(p, code) ==
  IF proc[p].state = "absent"
  THEN UNCHANGED <<proc, monitor, pool, inUse, created>>
  ELSE /\ proc' = [proc EXCEPT ![p] =
                     [state |-> "exited", code |-> NoCode, sab |-> NoSab, worker |-> FALSE]]
       /\ monitor' = [monitor EXCEPT ![p] = NoSab]
       /\ Release(p)

\* cleanupProcess; it asks only whether there is an entry.
Cleanup(p, code) ==
  IF proc[p].state = "absent"
  THEN UNCHANGED <<proc, monitor, pool, inUse, created>>
  ELSE /\ proc' = [proc EXCEPT ![p] =
                     [state |-> "exited", code |-> code, sab |-> NoSab, worker |-> FALSE]]
       /\ monitor' = [monitor EXCEPT ![p] = NoSab]
       /\ Release(p)

\* kill: the cleanup has removed the worker from the entry, so the
\* terminate() after it is never reached.
Kill(p) ==
  /\ MayKill /\ ~disposing
  /\ Running(p)
  /\ Cleanup(p, KillCode)
  /\ buf' = Wiped(p)
  /\ killed' = killed \cup {p}
  /\ UNCHANGED <<nextPid, disposing, worker, poked, inbox, promise, wanted>>

\* dispose() begins.
Dispose ==
  /\ MayKill /\ ~disposing
  /\ disposing' = TRUE
  /\ UNCHANGED <<nextPid, proc, monitor, pool, inUse, created, buf, worker, poked,
                 inbox, promise, wanted, killed>>

\* One round of its loop: here the worker is terminated first, which also
\* discards what it had posted.
DisposeNext(p) ==
  /\ disposing
  /\ Running(p) /\ \A q \in 1..(p - 1) : ~Running(q)
  /\ Cleanup(p, DisposeCode)
  /\ buf' = Wiped(p)
  /\ worker' = [worker EXCEPT ![p].at = "terminated"]
  /\ inbox' = [inbox EXCEPT ![p] = << >>]
  /\ poked' = poked \ {p}
  /\ UNCHANGED <<nextPid, disposing, promise, wanted, killed>>

\* Mutant: pids start again after a dispose.
DisposeReset ==
  /\ disposing
  /\ \A p \in Pids : ~Running(p)
  /\ disposing' = FALSE
  /\ nextPid' = 1
  /\ proc' = [p \in Pids |-> NoEntry]
  /\ UNCHANGED <<monitor, pool, inUse, created, buf, worker, poked, inbox,
                 promise, wanted, killed>>

\* pidTable.clear().
DisposeDone ==
  /\ disposing
  /\ \A p \in Pids : ~Running(p)
  /\ disposing' = FALSE
  /\ proc' = [p \in Pids |-> NoEntry]
  /\ UNCHANGED <<nextPid, monitor, pool, inUse, created, buf, worker, poked, inbox,
                 promise, wanted, killed>>

\* Does serving this request end a process?  PROCESS_EXIT ends the polling
\* one, PROCESS_KILL another.
Exits(req) == Wired /\ req.op = "exit"
Kills(req) == Wired /\ req.op = "kill" /\ req.arg \in Pids /\ Running(req.arg)
\* Mutant (of Plain): an exit that nobody is wired for is not answered.
NothingElse(req) == req.op # "exit"
Plain(req) == ~Exits(req) /\ ~Kills(req)

\* An interval finds a request in its buffer and serves it for its own
\* process, whoever wrote it.  An exit, when the manager is wired to the
\* dispatcher, frees the buffer first; the answer is written after that.
Poll(p) ==
  LET s == monitor[p]
      req == buf[s]
      Answer(contents) ==
        buf' = [contents EXCEPT ![s] =
                  [req EXCEPT !.status = "RESPONSE", !.kind = "answer", !.as = p]]
  IN
  /\ ~disposing
  /\ s # NoSab /\ req.status = "REQUEST"
  /\ \/ /\ Exits(req)
        /\ Cleanup(p, req.arg)
        /\ Answer(Wiped(p))
        /\ UNCHANGED killed
     \/ /\ Kills(req)
        /\ Cleanup(req.arg, KillCode)
        /\ Answer(Wiped(req.arg))
        /\ killed' = killed \cup {req.arg}
     \/ /\ Plain(req)
        /\ Answer(buf)
        /\ UNCHANGED <<proc, monitor, pool, inUse, created, killed>>
  /\ poked' = poked \cup {q \in Pids : worker[q].at = "waiting" /\ worker[q].sab = s}
  /\ UNCHANGED <<nextPid, disposing, worker, inbox, promise, wanted>>

\* Which messages clean up, and which resolve the exit promise: all of them.
\* Mutants: only 'exit' does.
IsExit(m) == m.type = "exit"
CleansUp(m) == m.type \in {"exit", "exec-complete", "error"}
IsCompletion(m) == m.type = "exec-complete"
Resolves(m) == m.type \in {"exit", "exec-complete", "error"}

\* worker.onmessage and worker.onerror.
Deliver(p) ==
  /\ ~disposing
  /\ inbox[p] # << >>
  /\ IF CleansUp(Head(inbox[p]))
     THEN Cleanup(p, Head(inbox[p]).code) /\ buf' = Wiped(p)
     ELSE UNCHANGED <<proc, monitor, pool, inUse, created, buf>>
  /\ promise' = IF promise[p] = NoCode /\ Resolves(Head(inbox[p]))
                THEN [promise EXCEPT ![p] = Head(inbox[p]).code] ELSE promise
  /\ inbox' = [inbox EXCEPT ![p] = Tail(@)]
  /\ UNCHANGED <<nextPid, disposing, worker, poked, wanted, killed>>

-----------------------------------------------------------------------------
(***************************************************************************)
(* The embedder posts 'exec' through the entry; the worker runs it.        *)
(***************************************************************************)
Exec(p) ==
  /\ ~disposing
  /\ proc[p].worker
  /\ worker[p].at = "loaded"
  /\ worker' = [worker EXCEPT ![p].at = "running", ![p].ctx = "script"]
  /\ UNCHANGED <<hostVars, buf, poked, inbox, promise, history>>

\* syscall() up to Atomics.wait.
Post(p, op, arg) ==
  /\ worker[p].at = "running"
  /\ buf' = [buf EXCEPT ![worker[p].sab] =
               [status |-> "REQUEST", kind |-> "request", op |-> op, arg |-> arg,
                by |-> p, as |-> 0]]
  /\ UNCHANGED <<hostVars, poked, inbox, promise, killed>>

CallFs(p) ==
  /\ Post(p, "fs", 0)
  /\ worker' = [worker EXCEPT ![p].at = "waiting", ![p].op = "fs"]
  /\ UNCHANGED wanted

CallKill(p, q) ==
  /\ MayKill
  /\ Post(p, "kill", q)
  /\ worker' = [worker EXCEPT ![p].at = "waiting", ![p].op = "kill"]
  /\ UNCHANGED wanted

\* process.exit(c).
CallExit(p, c) ==
  /\ Post(p, "exit", c)
  /\ worker' = [worker EXCEPT ![p].at = "waiting", ![p].op = "exit", ![p].code = c]
  /\ wanted' = IF wanted[p] = NoCode /\ worker[p].ctx = "script"
               THEN [wanted EXCEPT ![p] = c] ELSE wanted

\* Did process.exit come back from its system call?
\* Mutant: it neither posts 'exit' nor closes the worker.
ForgetsExit(p) == FALSE
ExitDone(p) == worker[p].op = "exit" /\ buf[worker[p].sab].kind # "zero"

\* Atomics.wait returns: the status differs from REQUEST, or a notify came.
\* Zeroes do not decode, the call throws; anything else is taken for the
\* answer.  process.exit then posts 'exit' and closes the worker, and its
\* closing throw may surface as an error when no script is there to catch it.
Wake(p) ==
  LET s == worker[p].sab IN
  /\ worker[p].at = "waiting"
  /\ p \in poked \/ buf[s].status # "REQUEST"
  /\ poked' = poked \ {p}
  /\ buf' = IF buf[s].kind = "zero" THEN buf ELSE [buf EXCEPT ![s].status = "IDLE"]
  /\ IF ExitDone(p)
     THEN /\ worker' = [worker EXCEPT ![p].at = "closed", ![p].op = "none"]
          /\ \E errors \in IF worker[p].ctx = "callback"
                           THEN {<< >>, << Message("error", 1) >>} ELSE {<< >>} :
               inbox' = [inbox EXCEPT ![p] =
                           @ \o << Message("exit", worker[p].code) >> \o errors]
     ELSE /\ worker' = [worker EXCEPT ![p].at = "running", ![p].op = "none"]
          /\ UNCHANGED inbox
  /\ UNCHANGED <<hostVars, promise, history>>

\* The main script ends, or throws.
EndScript(p, code) ==
  /\ worker[p].at = "running" /\ worker[p].ctx = "script"
  /\ worker' = [worker EXCEPT ![p].at = "idle"]
  /\ inbox' = [inbox EXCEPT ![p] = Append(@, Message("exec-complete", code))]
  /\ UNCHANGED <<hostVars, buf, poked, promise, history>>
Complete(p) == EndScript(p, IF worker[p].code = NoCode THEN 0 ELSE worker[p].code)
Fail(p) == EndScript(p, 1)

\* Timers, promises and stdin handlers the script left behind.
Callback(p) ==
  /\ MayOutlive
  /\ worker[p].at = "idle"
  /\ worker' = [worker EXCEPT ![p].at = "running", ![p].ctx = "callback"]
  /\ UNCHANGED <<hostVars, buf, poked, inbox, promise, history>>

EndCallback(p) ==
  /\ worker[p].at = "running" /\ worker[p].ctx = "callback"
  /\ worker' = [worker EXCEPT ![p].at = "idle"]
  /\ \/ UNCHANGED inbox
     \/ /\ Len(inbox[p]) < MaxInbox
        /\ inbox' = [inbox EXCEPT ![p] = Append(@, Message("error", 1))]
  /\ UNCHANGED <<hostVars, buf, poked, promise, history>>

-----------------------------------------------------------------------------
Host(p) == Kill(p) \/ DisposeNext(p) \/ Poll(p) \/ Deliver(p) \/ Exec(p)

Program(p) == \/ CallFs(p)
              \/ \E q \in Pids : CallKill(p, q)
              \/ \E c \in Codes : CallExit(p, c)
              \/ Complete(p) \/ Fail(p) \/ Callback(p) \/ EndCallback(p)

Next == Spawn \/ Dispose \/ DisposeDone \/ \E p \in Pids : Host(p) \/ Program(p) \/ Wake(p)

Spec == Init /\ [][Next]_vars

(***************************************************************************)
(* Messages are delivered, intervals fire, a blocked worker whose status   *)
(* word has changed is woken (by the notify or by the 5000 ms timeout),    *)
(* and the loop of dispose runs to its end.  Programs need not progress.   *)
(***************************************************************************)
FairSpec == /\ Spec
            /\ WF_vars(DisposeDone)
            /\ \A p \in Pids : /\ WF_vars(Deliver(p))
                               /\ WF_vars(Poll(p))
                               /\ WF_vars(Wake(p))
                               /\ WF_vars(DisposeNext(p))

-----------------------------------------------------------------------------
(***************************************************************************)
(* What holds whatever the host and the programs do.                       *)
(***************************************************************************)

\* Every variable keeps its type.
TypeOK ==
  /\ nextPid \in 1..(MaxPid + 1)
  /\ proc \in [Pids -> Entries]
  /\ monitor \in [Pids -> Sabs \cup {NoSab}]
  /\ pool \in Seq(Sabs) /\ inUse \subseteq Sabs /\ created \in 0..(PoolSize + MaxPid)
  /\ disposing \in BOOLEAN
  /\ buf \in [Sabs -> Buffers]
  /\ worker \in [Pids -> Workers]
  /\ poked \subseteq Pids
  /\ inbox \in [Pids -> Seq(Messages)]
  /\ promise \in [Pids -> AllCodes \cup {NoCode}]
  /\ wanted \in [Pids -> Codes \cup {NoCode}]
  /\ killed \subseteq Pids

\* Every buffer ever created is either free or handed out, never both, and is
\* free at most once: no double release however often a process is cleaned up.
PoolSound ==
  /\ \A i, j \in DOMAIN pool : pool[i] = pool[j] => i = j
  /\ \A i \in DOMAIN pool : pool[i] \notin inUse
  /\ 1..created = inUse \cup {pool[i] : i \in DOMAIN pool}

\* The buffers handed out are those of the running processes, one each.
BufferOwnership ==
  /\ inUse = {proc[p].sab : p \in {q \in Pids : Running(q)}}
  /\ \A p, q \in Pids : Running(p) /\ Running(q) /\ p # q => proc[p].sab # proc[q].sab

\* The pool's books balance: the free buffers and those of the running processes
\* are all there are, and no buffer is counted twice (SABPool, cleanupProcess).
BuffersAccounted == PoolSound /\ BufferOwnership

\* A process is polled as long as it runs and no longer, on its own buffer.
MonitorIffRunning ==
  \A p \in Pids : monitor[p] = IF Running(p) THEN proc[p].sab ELSE NoSab

\* Nobody is told of an exit while the table still shows the process running.
ResolvedMeansExited ==
  \A p \in Pids : promise[p] # NoCode => ~Running(p)

\* A process never comes back: neither its table entry nor its promise.
NeverRevived ==
  [][\A p \in Pids : /\ worker[p].at # "none" /\ ~Running(p) => ~Running(p)'
                     /\ promise[p] # NoCode => promise'[p] = promise[p]]_vars

\* What is known of a process elsewhere, its interval and its exit promise, agrees
\* with the table, however often and in whatever order it is cleaned up.
TableAgrees == MonitorIffRunning /\ ResolvedMeansExited

-----------------------------------------------------------------------------
\* The buffer of a process that runs and waits is the one its interval polls, is
\* not wiped, and holds its own call, executed for nobody else; another call is
\* there only if a program whose process is over still writes to the buffer it
\* was once given ("Each spawned process gets its own Worker,
\* SharedArrayBuffer").
CallsStayOwn ==
  \A p \in Pids : Running(p) /\ worker[p].at = "waiting" =>
     LET m == buf[worker[p].sab] IN
       /\ monitor[p] = worker[p].sab
       /\ m.kind # "zero"
       /\ m.by = p => m.kind = "request" \/ m.as = p
       /\ m.by # p => ~Running(m.by) /\ worker[m.by].sab = worker[p].sab

\* The call in which p ended may have been lost: p was killed, or its exit freed
\* the buffer before it was answered and a later process was given the buffer.
ExitLost(p) ==
  p \in killed \/ (Wired /\ \E q \in Pids : q > p /\ worker[q].sab = worker[p].sab)

\* The exit promise resolves with the code that the main script gave process.exit
\* first, unless that call may have been lost.
ExitCodeHonoured ==
  \A p \in Pids : promise[p] # NoCode /\ wanted[p] # NoCode /\ ~ExitLost(p)
     => promise[p] = wanted[p]

\* The table reports the code of the exit promise, until dispose empties it or a
\* callback that outlived its script throws or exits (cleanupProcess takes the
\* last code it is given).
CodesAgree ==
  \A p \in Pids : promise[p] # NoCode /\ proc[p].state # "absent" /\ worker[p].ctx = "script"
     => proc[p].code = promise[p]

\* The code that is reported, by the promise and by the table, is the one the
\* program gave (exit, the exit and error messages), however processes are
\* killed, disposed of and cleaned up again by late messages.
CodesHonoured == ExitCodeHonoured /\ CodesAgree

-----------------------------------------------------------------------------
(***************************************************************************)
(* A system call is executed for the process that made it: what comments   *)
(* promise, and programs that outlive their process do not keep.           *)
(***************************************************************************)
ServedAsSelf ==
  \A s \in Sabs : buf[s].kind = "answer" => buf[s].as = buf[s].by

-----------------------------------------------------------------------------
(***************************************************************************)
(* What holds of programs that end when their script ends, under a host    *)
(* that neither kills nor is wired to the dispatcher (as src/ leaves it).  *)
(***************************************************************************)

\* Every system call returns.
CallsReturn ==
  \A p \in Pids : worker[p].at = "waiting" ~> worker[p].at # "waiting"

\* A program that calls process.exit has its exit promise resolved.
ExitResolves ==
  \A p \in Pids : wanted[p] # NoCode ~> promise[p] # NoCode

=============================================================================
