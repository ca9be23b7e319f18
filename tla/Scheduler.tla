----------------------------- MODULE Scheduler -----------------------------
(***************************************************************************)
(* The scheduler of the kernel: a queue in order of priority, and the loop *)
(* of run(), which awaits the executor for one task after the other.  Calls*)
(* of the program come between, most of them while a task is being awaited.*)
(***************************************************************************)
EXTENDS Naturals, Sequences, SequencesExt, FiniteSets, FiniteSetsExt

CONSTANT MaxEnqueued   \* bound on the tasks enqueued

ASSUME SchedulerAssumption == MaxEnqueued \in Nat

VARIABLES
  taskQueue,   \* the queue
  nextId,      \* the number of the next task
  awaited,     \* the task whose executor is awaited, Idle if no loop runs
  finished,    \* the tasks that ran to their end or threw, in order
  dropped      \* those that were cancelled, cleared or dequeued by hand

schedulerVars == <<taskQueue, nextId, awaited, finished, dropped>>

Priorities == 0 .. 2
Idle == MaxEnqueued   \* no number of a task
TaskIds == 0 .. MaxEnqueued - 1

SchedulerInit ==
  /\ taskQueue = << >>
  /\ nextId = 0
  /\ awaited = Idle
  /\ finished = << >>
  /\ dropped = {}

-----------------------------------------------------------------------------
\* enqueue(): before the first task of a lower priority.
\* Mutant: before the first of the same priority.
InsertedFirst(queue, task) ==
  LET behind == {i \in 1 .. Len(queue) : queue[i].priority >= task.priority} IN
  IF behind = {} THEN Append(queue, task) ELSE InsertAt(queue, Min(behind), task)
Inserted(queue, task) ==
  LET behind == {i \in 1 .. Len(queue) : queue[i].priority > task.priority} IN
  IF behind = {} THEN Append(queue, task) ELSE InsertAt(queue, Min(behind), task)

Enqueue(priority) ==
  /\ nextId < MaxEnqueued
  /\ nextId' = nextId + 1
  /\ taskQueue' = Inserted(taskQueue, [priority |-> priority, id |-> nextId])
  /\ UNCHANGED <<awaited, finished, dropped>>

Dequeue ==
  /\ taskQueue # << >>
  /\ dropped' = dropped \cup {Head(taskQueue).id}
  /\ taskQueue' = Tail(taskQueue)
  /\ UNCHANGED <<nextId, awaited, finished>>

Cancel(id) ==
  \E i \in 1 .. Len(taskQueue) :
    /\ taskQueue[i].id = id
    /\ taskQueue' = RemoveAt(taskQueue, i)
    /\ dropped' = dropped \cup {id}
    /\ UNCHANGED <<nextId, awaited, finished>>

Clear ==
  /\ dropped' = dropped \cup {taskQueue[i].id : i \in 1 .. Len(taskQueue)}
  /\ taskQueue' = << >>
  /\ UNCHANGED <<nextId, awaited, finished>>

\* The loop up to its next await, or to its end.
\* Mutant: an if in the place of the while, one task for every call of run().
GoesOnOnce ==
  IF taskQueue = << >> \/ awaited # Idle THEN awaited' = Idle /\ UNCHANGED taskQueue
  ELSE awaited' = Head(taskQueue).id /\ taskQueue' = Tail(taskQueue)
GoesOn ==
  IF taskQueue = << >> THEN awaited' = Idle /\ UNCHANGED taskQueue
  ELSE awaited' = Head(taskQueue).id /\ taskQueue' = Tail(taskQueue)

\* run() returns at once if a loop is running.
\* Mutant: it does not look.
MayRunAgain == TRUE
MayRun == awaited = Idle

Run ==
  /\ MayRun /\ GoesOn
  /\ UNCHANGED <<nextId, finished, dropped>>

\* The executor's promise is fulfilled or rejected; run() does not tell.
TaskSettles ==
  /\ awaited # Idle /\ GoesOn
  /\ finished' = Append(finished, awaited)
  /\ UNCHANGED <<nextId, dropped>>

SchedulerNext ==
  \/ \E p \in Priorities : Enqueue(p)
  \/ \E id \in TaskIds : Cancel(id)
  \/ Dequeue \/ Clear \/ Run \/ TaskSettles

\* An executor that never settles would block the queue for good; the tasks of
\* a program are taken to end.
SchedulerSpec == SchedulerInit /\ [][SchedulerNext]_schedulerVars /\ WF_schedulerVars(TaskSettles)

-----------------------------------------------------------------------------
(***************************************************************************)
(* Correctness.                                                            *)
(***************************************************************************)
\* Whoever is ahead in the queue has a higher priority, or the same one and
\* came first.
InOrder ==
  \A i, j \in 1 .. Len(taskQueue) : i < j =>
    \/ taskQueue[i].priority < taskQueue[j].priority
    \/ taskQueue[i].priority = taskQueue[j].priority /\ taskQueue[i].id < taskQueue[j].id

\* Every task enqueued is in one place: waiting, running, over or dropped; none
\* runs twice, and none that was cancelled.
Places(id) ==
  Cardinality({i \in 1 .. Len(taskQueue) : taskQueue[i].id = id})
  + Cardinality({i \in 1 .. Len(finished) : finished[i] = id})
  + (IF awaited = id THEN 1 ELSE 0) + (IF id \in dropped THEN 1 ELSE 0)
EachInOnePlace == \A id \in TaskIds : Places(id) = IF id < nextId THEN 1 ELSE 0

\* The queue keeps its order and its tasks whatever is called while run() awaits.
SchedulerKeepsTasks == InOrder /\ EachInOnePlace

\* A loop that has begun comes to its end, and leaves no task behind, neither one
\* that was enqueued while it was awaiting another nor one that was ahead of it.
TasksRun == awaited # Idle ~> awaited = Idle /\ taskQueue = << >>
=============================================================================
