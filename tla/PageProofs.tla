----------------------------- MODULE PageProofs -----------------------------
(***************************************************************************)
(* Proofs about five parts of the page, for any bounds: the scheduler,     *)
(* whose queue keeps its order and every task exactly one place; the       *)
(* watchers of the file system, which are told once, left out never and not*)
(* called after they have unwatched; the SDK, which settles an exit promise*)
(* before the caller of spawn() gets hold of the process, and calls no     *)
(* callback that is not registered; virtual ports, where a fetch is        *)
(* answered at most once, with the answer to its own request, what is      *)
(* pending is what waits, and the port table agrees with its copy; and the *)
(* file system across reloads, which stays a tree and comes back as saved. *)
(***************************************************************************)
EXTENDS Scheduler, Watchers, WebContainer, Network, Snapshots, SequenceLemmas

(***************************************************************************)
(* The queue of the scheduler.                                             *)
(***************************************************************************)
USE SchedulerAssumption

Tasks == [priority : Priorities, id : TaskIds]
Ids(list) == {list[i].id : i \in 1 .. Len(list)}
Distinct(list) == \A i, j \in 1 .. Len(list) : list[i].id = list[j].id => i = j
Ahead(t, u) ==
  \/ t.priority < u.priority
  \/ t.priority = u.priority /\ t.id < u.id
Sorted(list) == \A i, j \in 1 .. Len(list) : i < j => Ahead(list[i], list[j])
Proper(list) == list \in Seq(Tasks) /\ Distinct(list) /\ Sorted(list)

\* A queue that loses the task at one of its places.
LEMMA LoseOne ==
  ASSUME NEW q, Proper(q), NEW i \in 1 .. Len(q), NEW r \in Seq(Tasks), Len(r) = Len(q) - 1,
         \A k \in 1 .. Len(q) - 1 : r[k] = IF k < i THEN q[k] ELSE q[k + 1]
  PROVE  Proper(r) /\ q[i].id \in Ids(q) /\ Ids(r) = Ids(q) \ {q[i].id}
<1> DEFINE n == Len(q)
<1> DEFINE at(k) == IF k < i THEN k ELSE k + 1
<1>1. n \in Nat /\ i \in 1 .. n /\ Len(r) = n - 1
  BY DEF Proper
<1>2. \A k \in 1 .. n - 1 : r[k] = q[at(k)]
  OBVIOUS
<1>3. \A k \in 1 .. n - 1 : at(k) \in 1 .. n /\ at(k) # i
  BY <1>1
<1>4. \A k, l \in 1 .. n - 1 : (k < l <=> at(k) < at(l)) /\ (k = l <=> at(k) = at(l))
  BY <1>1
<1>5. \A j \in 1 .. n : j # i => \E k \in 1 .. n - 1 : at(k) = j
  <2> SUFFICES ASSUME NEW j \in 1 .. n, j # i PROVE \E k \in 1 .. n - 1 : at(k) = j
    OBVIOUS
  <2>1. CASE j < i
    <3>1. j \in 1 .. n - 1 /\ at(j) = j
      BY <1>1, <2>1
    <3> QED
      BY <3>1
  <2>2. CASE j > i
    <3>1. j - 1 \in 1 .. n - 1 /\ at(j - 1) = j
      BY <1>1, <2>2
    <3> QED
      BY <3>1
  <2> QED
    BY <1>1, <2>1, <2>2
<1>6. Distinct(q) /\ Sorted(q) /\ 1 .. Len(q) = 1 .. n /\ 1 .. Len(r) = 1 .. n - 1
  BY <1>1 DEF Proper
<1> HIDE DEF n, at
<1>7. Distinct(r)
  BY <1>2, <1>3, <1>4, <1>6 DEF Distinct
<1>8. Sorted(r)
  BY <1>2, <1>3, <1>4, <1>6 DEF Sorted
<1>9. q[i].id \in Ids(q)
  BY <1>1, <1>6 DEF Ids
<1>10. ASSUME NEW k \in 1 .. n - 1 PROVE r[k].id \in Ids(q) \ {q[i].id}
  BY <1>1, <1>2, <1>3, <1>6, <1>10 DEF Ids, Distinct
<1>11. ASSUME NEW j \in 1 .. n, q[j].id # q[i].id PROVE q[j].id \in Ids(r)
  BY <1>2, <1>5, <1>6, <1>11 DEF Ids
<1>12. Ids(r) = Ids(q) \ {q[i].id}
  BY <1>6, <1>10, <1>11 DEF Ids
<1> QED
  BY <1>7, <1>8, <1>9, <1>12 DEF Proper

\* The first task leaves the queue: it is dequeued, or run.
LEMMA FirstLeaves ==
  ASSUME NEW q, Proper(q), q # << >>
  PROVE  Proper(Tail(q)) /\ Head(q).id \in Ids(q) /\ Ids(Tail(q)) = Ids(q) \ {Head(q).id}
<1>1. q \in Seq(Tasks)
  BY DEF Proper
<1>2. Tail(q) \in Seq(Tasks) /\ Len(Tail(q)) = Len(q) - 1 /\ Head(q) = q[1] /\ Len(q) \in Nat
  BY <1>1
<1>3. 1 \in 1 .. Len(q)
  BY <1>1
<1>4. \A k \in 1 .. Len(q) - 1 : Tail(q)[k] = IF k < 1 THEN q[k] ELSE q[k + 1]
  BY <1>1
<1>5. Proper(Tail(q)) /\ q[1].id \in Ids(q) /\ Ids(Tail(q)) = Ids(q) \ {q[1].id}
  BY <1>2, <1>3, <1>4, LoseOne
<1> QED
  BY <1>2, <1>5

\* A task is cancelled.
LEMMA OneLeaves ==
  ASSUME NEW q, Proper(q), NEW i \in 1 .. Len(q)
  PROVE  Proper(RemoveAt(q, i)) /\ q[i].id \in Ids(q) /\ Ids(RemoveAt(q, i)) = Ids(q) \ {q[i].id}
<1>1. q \in Seq(Tasks)
  BY DEF Proper
<1> QED
  BY <1>1, Removing, LoseOne

\* A task is enqueued, with a number above all the others.
LEMMA OneEnters ==
  ASSUME NEW q, Proper(q), NEW t \in Tasks, \A id \in Ids(q) : id < t.id
  PROVE  Proper(Inserted(q, t)) /\ Ids(Inserted(q, t)) = Ids(q) \cup {t.id}
<1> DEFINE n == Len(q)
<1> DEFINE behind == {i \in 1 .. Len(q) : q[i].priority > t.priority}
<1> DEFINE r == Inserted(q, t)
<1>1. q \in Seq(Tasks) /\ n \in Nat /\ \A k \in 1 .. n : q[k] \in Tasks /\ q[k].id < t.id
  BY DEF Proper, Ids
<1>2. \E i \in 1 .. n + 1 :
        /\ r \in Seq(Tasks) /\ Len(r) = n + 1
        /\ \A k \in 1 .. n + 1 : r[k] = IF k < i THEN q[k] ELSE IF k = i THEN t ELSE q[k - 1]
        /\ \A k \in 1 .. n : k < i => q[k].priority <= t.priority
        /\ i <= n => q[i].priority > t.priority
  <2>1. CASE behind = {}
    <3>1. r = Append(q, t)
      BY <2>1 DEF Inserted
    <3>2. r \in Seq(Tasks) /\ Len(r) = n + 1 /\ r[n + 1] = t /\ \A k \in 1 .. n : r[k] = q[k]
      BY <1>1, <3>1
    <3>3. \A k \in 1 .. n : q[k].priority <= t.priority
      BY <1>1, <2>1 DEF Tasks, Priorities
    <3>4. n + 1 \in 1 .. n + 1 /\ ~ (n + 1 <= n) /\ \A k \in 1 .. n + 1 : (k \in 1 .. n /\ k < n + 1) \/ k = n + 1
      BY <1>1
    <3> HIDE DEF n, r
    <3> QED
      BY <1>1, <3>2, <3>3, <3>4
  <2>2. CASE behind # {}
    <3> DEFINE i == Min(behind)
    <3>1. behind \in SUBSET Nat
      OBVIOUS
    <3>2. i \in behind /\ \A x \in behind : i <= x
      <4> HIDE DEF behind
      <4> QED
        BY <2>2, <3>1, LeastNumber
    <3>3. i \in 1 .. n /\ q[i].priority > t.priority
      BY <3>2
    <3>4. r = InsertAt(q, i, t)
      BY <2>2 DEF Inserted
    <3>5. \A k \in 1 .. n : k < i => q[k].priority <= t.priority
      <4> SUFFICES ASSUME NEW k \in 1 .. n, k < i PROVE ~ (q[k].priority > t.priority)
        BY <1>1 DEF Tasks, Priorities
      <4>1. i \in Int /\ k \in Int /\ k < i
        BY <1>1, <3>3
      <4>2. k \notin behind
        <5> HIDE DEF i, behind
        <5> QED
          BY <3>2, <4>1
      <4> QED
        BY <4>2
    <3> HIDE DEF i, r
    <3>6. /\ r \in Seq(Tasks) /\ Len(r) = n + 1
          /\ \A k \in 1 .. n + 1 : r[k] = IF k < i THEN q[k] ELSE IF k = i THEN t ELSE q[k - 1]
      BY <1>1, <3>3, <3>4, Inserting
    <3>7. i \in 1 .. n + 1 /\ (i <= n => q[i].priority > t.priority)
      BY <1>1, <3>3
    <3> QED
      BY <3>5, <3>6, <3>7
  <2> QED
    BY <2>1, <2>2
<1> HIDE DEF n, r
<1>3. PICK i \in 1 .. n + 1 :
        /\ r \in Seq(Tasks) /\ Len(r) = n + 1
        /\ \A k \in 1 .. n + 1 : r[k] = IF k < i THEN q[k] ELSE IF k = i THEN t ELSE q[k - 1]
        /\ \A k \in 1 .. n : k < i => q[k].priority <= t.priority
        /\ i <= n => q[i].priority > t.priority
  BY <1>2
<1>4. Distinct(q) /\ Sorted(q) /\ 1 .. Len(q) = 1 .. n /\ 1 .. Len(r) = 1 .. n + 1
  BY <1>3 DEF Proper, n
<1>5. \A k \in 1 .. n + 1 :
        /\ k < i => k \in 1 .. n /\ r[k] = q[k]
        /\ k > i => k - 1 \in 1 .. n /\ r[k] = q[k - 1]
        /\ k = i => r[k] = t
  BY <1>1, <1>3
<1>6. \A k \in 1 .. n : k >= i => q[k].priority > t.priority
  <2> SUFFICES ASSUME NEW k \in 1 .. n, k > i PROVE q[k].priority > t.priority
    BY <1>1, <1>3
  <2>1. i \in 1 .. n /\ Ahead(q[i], q[k]) /\ q[i] \in Tasks /\ q[k] \in Tasks
    BY <1>1, <1>4 DEF Sorted
  <2> QED
    BY <1>1, <1>3, <2>1 DEF Ahead, Tasks, Priorities
<1>7. Distinct(r)
  <2> SUFFICES ASSUME NEW k \in 1 .. n + 1, NEW l \in 1 .. n + 1, r[k].id = r[l].id, k < l PROVE FALSE
    BY <1>1, <1>4 DEF Distinct
  <2>1. \A j \in 1 .. n : q[j].id # t.id /\ q[j].id \in Nat
    BY <1>1 DEF Tasks, TaskIds
  <2>2. \A j, m \in 1 .. n : q[j].id = q[m].id => j = m
    BY <1>4 DEF Distinct
  <2>3. CASE k = i
    <3>1. l - 1 \in 1 .. n /\ r[l] = q[l - 1] /\ r[k] = t
      BY <1>5, <2>3
    <3> QED
      BY <2>1, <3>1
  <2>4. CASE l = i
    <3>1. k \in 1 .. n /\ r[k] = q[k] /\ r[l] = t
      BY <1>5, <2>4
    <3> QED
      BY <2>1, <3>1
  <2>5. CASE k < i /\ l > i
    <3>1. k \in 1 .. n /\ l - 1 \in 1 .. n /\ r[k] = q[k] /\ r[l] = q[l - 1] /\ k # l - 1
      BY <1>1, <1>3, <1>5, <2>5
    <3> QED
      BY <2>2, <3>1
  <2>6. CASE l < i
    <3>1. k \in 1 .. n /\ l \in 1 .. n /\ r[k] = q[k] /\ r[l] = q[l]
      BY <1>1, <1>3, <1>5, <2>6
    <3> QED
      BY <1>1, <2>2, <3>1
  <2>7. CASE k > i
    <3>1. k - 1 \in 1 .. n /\ l - 1 \in 1 .. n /\ r[k] = q[k - 1] /\ r[l] = q[l - 1] /\ k - 1 # l - 1
      BY <1>1, <1>3, <1>5, <2>7
    <3> QED
      BY <2>2, <3>1
  <2> QED
    BY <1>1, <1>3, <2>3, <2>4, <2>5, <2>6, <2>7
<1>8. Sorted(r)
  <2> SUFFICES ASSUME NEW k \in 1 .. n + 1, NEW l \in 1 .. n + 1, k < l PROVE Ahead(r[k], r[l])
    BY <1>4 DEF Sorted
  <2>1. \A j, m \in 1 .. n : j < m => Ahead(q[j], q[m])
    BY <1>4 DEF Sorted
  <2>2. CASE k = i
    <3>1. l - 1 \in 1 .. n /\ l - 1 >= i /\ r[l] = q[l - 1] /\ r[k] = t
      BY <1>1, <1>3, <1>5, <2>2
    <3>2. q[l - 1].priority > t.priority /\ q[l - 1] \in Tasks
      BY <1>1, <1>6, <3>1
    <3>3. t.priority \in Nat /\ q[l - 1].priority \in Nat
      BY <3>2 DEF Tasks, Priorities
    <3>4. Ahead(t, q[l - 1])
      BY <3>2, <3>3 DEF Ahead
    <3> QED
      BY <3>1, <3>4
  <2>3. CASE l = i
    <3>1. k \in 1 .. n /\ r[k] = q[k] /\ r[l] = t /\ q[k].priority <= t.priority /\ q[k].id < t.id
      BY <1>1, <1>3, <1>5, <2>3
    <3>2. q[k] \in Tasks
      BY <1>1, <3>1
    <3> QED
      BY <3>1, <3>2 DEF Ahead, Tasks, Priorities
  <2>4. CASE k # i /\ l # i
    <3>1. CASE l < i
      BY <1>1, <1>3, <1>5, <2>1, <3>1
    <3>2. CASE k > i
      <4>1. k - 1 \in 1 .. n /\ l - 1 \in 1 .. n /\ k - 1 < l - 1 /\ r[k] = q[k - 1] /\ r[l] = q[l - 1]
        BY <1>1, <1>3, <1>5, <3>2
      <4> QED
        BY <2>1, <4>1
    <3>3. CASE k < i /\ l > i
      <4>1. k \in 1 .. n /\ l - 1 \in 1 .. n /\ k < l - 1 /\ r[k] = q[k] /\ r[l] = q[l - 1]
        BY <1>1, <1>3, <1>5, <3>3
      <4> QED
        BY <2>1, <4>1
    <3> QED
      BY <1>1, <1>3, <2>4, <3>1, <3>2, <3>3
  <2> QED
    BY <2>2, <2>3, <2>4
<1>9. Ids(r) = Ids(q) \cup {t.id}
  <2>1. ASSUME NEW k \in 1 .. n + 1 PROVE r[k].id \in Ids(q) \cup {t.id}
    <3>1. \A j \in 1 .. n : q[j].id \in Ids(q)
      BY <1>4 DEF Ids
    <3>2. k < i \/ k = i \/ k > i
      BY <1>1, <1>3
    <3> QED
      BY <1>5, <3>1, <3>2
  <2>2. ASSUME NEW j \in 1 .. n PROVE q[j].id \in Ids(r)
    <3>1. CASE j < i
      <4>1. j \in 1 .. n + 1 /\ r[j] = q[j]
        BY <1>1, <1>5, <3>1
      <4> QED
        BY <1>4, <4>1 DEF Ids
    <3>2. CASE ~ (j < i)
      <4>1. j + 1 \in 1 .. n + 1 /\ r[j + 1] = q[j]
        BY <1>1, <1>3, <1>5, <3>2
      <4> QED
        BY <1>4, <4>1 DEF Ids
    <3> QED
      BY <3>1, <3>2
  <2>3. t.id \in Ids(r)
    BY <1>3, <1>4, <1>5 DEF Ids
  <2> QED
    BY <1>4, <2>1, <2>2, <2>3 DEF Ids
<1> QED
  BY <1>3, <1>7, <1>8, <1>9 DEF Proper, r

-----------------------------------------------------------------------------
\* Every task enqueued is in one of four places.
Ends == {finished[k] : k \in 1 .. Len(finished)}
Running == {awaited} \ {Idle}

SchedulerInv ==
  /\ Proper(taskQueue)
  /\ nextId \in 0 .. MaxEnqueued /\ awaited \in 0 .. MaxEnqueued /\ finished \in Seq(TaskIds)
  /\ \A j, k \in 1 .. Len(finished) : finished[j] = finished[k] => j = k
  /\ Ids(taskQueue) \cup Ends \cup Running \cup dropped = 0 .. nextId - 1
  /\ Ids(taskQueue) \cap Ends = {} /\ Ids(taskQueue) \cap Running = {} /\ Ids(taskQueue) \cap dropped = {}
  /\ Ends \cap Running = {} /\ Ends \cap dropped = {} /\ Running \cap dropped = {}

LEMMA SchedulerInitially == SchedulerInit => SchedulerInv
<1> SUFFICES ASSUME SchedulerInit PROVE SchedulerInv
  OBVIOUS
<1>1. taskQueue = << >> /\ finished = << >> /\ Ids(taskQueue) = {} /\ Ends = {} /\ Running = {} /\ dropped = {}
  BY DEF SchedulerInit, Ids, Ends, Running
<1>2. Proper(taskQueue)
  BY <1>1 DEF Proper, Distinct, Sorted
<1> QED
  BY <1>1, <1>2 DEF SchedulerInit, SchedulerInv, Idle

LEMMA EnqueueKeeps == ASSUME SchedulerInv, NEW p \in Priorities, Enqueue(p) PROVE SchedulerInv'
<1> DEFINE t == [priority |-> p, id |-> nextId]
<1>1. /\ nextId < MaxEnqueued /\ nextId' = nextId + 1 /\ taskQueue' = Inserted(taskQueue, t)
      /\ UNCHANGED <<awaited, finished, dropped>>
  BY DEF Enqueue
<1>2. nextId \in TaskIds /\ t \in Tasks /\ t.id = nextId
  BY <1>1 DEF SchedulerInv, Tasks, TaskIds
<1>3. \A id \in Ids(taskQueue) : id < t.id
  BY <1>2 DEF SchedulerInv
<1> HIDE DEF t
<1>4. Proper(taskQueue') /\ Ids(taskQueue') = Ids(taskQueue) \cup {nextId}
  BY <1>1, <1>2, <1>3, OneEnters DEF SchedulerInv
<1>5. Ends' = Ends /\ Running' = Running
  BY <1>1 DEF Ends, Running
<1>6. 0 .. nextId' - 1 = (0 .. nextId - 1) \cup {nextId} /\ nextId' \in 0 .. MaxEnqueued /\ nextId \notin 0 .. nextId - 1
  BY <1>1, <1>2 DEF TaskIds
<1> QED
  BY <1>1, <1>4, <1>5, <1>6 DEF SchedulerInv

\* A task leaves the queue and is dropped: dequeued by hand, or cancelled.
LEMMA DropKeeps ==
  ASSUME SchedulerInv, NEW id \in Ids(taskQueue), Proper(taskQueue'),
         Ids(taskQueue') = Ids(taskQueue) \ {id}, dropped' = dropped \cup {id},
         UNCHANGED <<nextId, awaited, finished>>
  PROVE  SchedulerInv'
<1>1. Ends' = Ends /\ Running' = Running
  BY DEF Ends, Running
<1> QED
  BY <1>1 DEF SchedulerInv

LEMMA DequeueKeeps == ASSUME SchedulerInv, Dequeue PROVE SchedulerInv'
<1>1. Proper(taskQueue) /\ taskQueue # << >>
  BY DEF SchedulerInv, Dequeue
<1> QED
  BY <1>1, FirstLeaves, DropKeeps DEF Dequeue

LEMMA CancelKeeps == ASSUME SchedulerInv, NEW id \in TaskIds, Cancel(id) PROVE SchedulerInv'
<1>1. PICK i \in 1 .. Len(taskQueue) :
        /\ taskQueue[i].id = id /\ taskQueue' = RemoveAt(taskQueue, i) /\ dropped' = dropped \cup {id}
        /\ UNCHANGED <<nextId, awaited, finished>>
  BY DEF Cancel
<1>2. Proper(taskQueue') /\ id \in Ids(taskQueue) /\ Ids(taskQueue') = Ids(taskQueue) \ {id}
  BY <1>1, OneLeaves DEF SchedulerInv
<1> QED
  BY <1>1, <1>2, DropKeeps

LEMMA ClearKeeps == ASSUME SchedulerInv, Clear PROVE SchedulerInv'
<1>1. /\ taskQueue' = << >> /\ dropped' = dropped \cup Ids(taskQueue)
      /\ UNCHANGED <<nextId, awaited, finished>>
  BY DEF Clear, Ids
<1>2. Ids(taskQueue') = {} /\ Proper(taskQueue')
  BY <1>1 DEF Ids, Proper, Distinct, Sorted
<1>3. Ends' = Ends /\ Running' = Running
  BY <1>1 DEF Ends, Running
<1> QED
  BY <1>1, <1>2, <1>3 DEF SchedulerInv

\* What the loop does to the queue and the task it awaits.
LEMMA LoopGoesOn ==
  ASSUME SchedulerInv, GoesOn
  PROVE  /\ Proper(taskQueue') /\ awaited' \in 0 .. MaxEnqueued
         /\ Ids(taskQueue') \cup Running' = Ids(taskQueue) /\ Ids(taskQueue') \cap Running' = {}
<1>1. CASE taskQueue = << >>
  <2>1. taskQueue' = << >> /\ awaited' = Idle
    BY <1>1 DEF GoesOn
  <2>2. Running' = {} /\ Ids(taskQueue) = {} /\ Ids(taskQueue') = {}
    BY <1>1, <2>1 DEF Running, Ids
  <2> QED
    BY <1>1, <2>1, <2>2 DEF SchedulerInv, Idle
<1>2. CASE taskQueue # << >>
  <2>1. taskQueue' = Tail(taskQueue) /\ awaited' = Head(taskQueue).id
    BY <1>2 DEF GoesOn
  <2>2. /\ Proper(taskQueue') /\ awaited' \in Ids(taskQueue)
        /\ Ids(taskQueue') = Ids(taskQueue) \ {awaited'}
    BY <1>2, <2>1, FirstLeaves DEF SchedulerInv
  <2>3. awaited' \in 0 .. MaxEnqueued - 1
    BY <2>2 DEF SchedulerInv
  <2>4. Running' = {awaited'}
    BY <2>3 DEF Running, Idle
  <2> QED
    BY <2>2, <2>3, <2>4
<1> QED
  BY <1>1, <1>2

LEMMA RunKeeps == ASSUME SchedulerInv, Run PROVE SchedulerInv'
<1>1. GoesOn /\ Running = {} /\ UNCHANGED <<nextId, finished, dropped>>
  BY DEF Run, MayRun, Running
<1>2. Ends' = Ends
  BY <1>1 DEF Ends
<1> QED
  BY <1>1, <1>2, LoopGoesOn DEF SchedulerInv

LEMMA SettleKeeps == ASSUME SchedulerInv, TaskSettles PROVE SchedulerInv'
<1>1. GoesOn /\ Running = {awaited} /\ finished' = Append(finished, awaited) /\ UNCHANGED <<nextId, dropped>>
  BY DEF TaskSettles, Running
<1>2. awaited \in TaskIds
  BY <1>1 DEF SchedulerInv, Running, TaskIds, Idle
<1>3. /\ finished' \in Seq(TaskIds) /\ Len(finished) \in Nat /\ Len(finished') = Len(finished) + 1
      /\ finished'[Len(finished) + 1] = awaited
      /\ \A k \in 1 .. Len(finished) : finished'[k] = finished[k]
  BY <1>1, <1>2, AppendProperties DEF SchedulerInv
<1>4. 1 .. Len(finished') = (1 .. Len(finished)) \cup {Len(finished) + 1}
  BY <1>3
<1>5. Ends' = Ends \cup {awaited}
  BY <1>3, <1>4 DEF Ends
<1>6. awaited \notin Ends
  BY <1>1 DEF SchedulerInv
<1>7. \A j, k \in 1 .. Len(finished') : finished'[j] = finished'[k] => j = k
  BY <1>3, <1>4, <1>6 DEF SchedulerInv, Ends
<1> QED
  BY <1>1, <1>3, <1>5, <1>7, LoopGoesOn DEF SchedulerInv

LEMMA SchedulerStep == SchedulerInv /\ [SchedulerNext]_schedulerVars => SchedulerInv'
<1> SUFFICES ASSUME SchedulerInv, [SchedulerNext]_schedulerVars PROVE SchedulerInv'
  OBVIOUS
<1>1. ASSUME UNCHANGED schedulerVars PROVE SchedulerInv'
  BY <1>1 DEF schedulerVars, SchedulerInv, Ends, Running
<1> QED
  BY <1>1, EnqueueKeeps, DequeueKeeps, CancelKeeps, ClearKeeps, RunKeeps, SettleKeeps DEF SchedulerNext

\* The places of the tasks are kept by every operation of the scheduler.
THEOREM SchedulerInvariant == SchedulerSpec => []SchedulerInv
BY SchedulerInitially, SchedulerStep, PTL DEF SchedulerSpec

\* Whatever is enqueued, cancelled, dequeued or cleared while run() awaits an
\* executor, the queue stays in order of priority and arrival, and every task
\* is in one place: waiting, running, over or dropped (scheduler.ts: enqueue,
\* dequeue, cancel, clear, run).
THEOREM TasksAreKept == SchedulerSpec => []SchedulerKeepsTasks
<1>1. SchedulerInv => SchedulerKeepsTasks
  <2> SUFFICES ASSUME SchedulerInv PROVE SchedulerKeepsTasks
    OBVIOUS
  <2>1. taskQueue \in Seq(Tasks) /\ Distinct(taskQueue) /\ Sorted(taskQueue) /\ Len(taskQueue) \in Nat
    BY DEF SchedulerInv, Proper
  <2>2. InOrder
    BY <2>1 DEF InOrder, Sorted, Ahead
  <2>3. ASSUME NEW id \in TaskIds PROVE Places(id) = IF id < nextId THEN 1 ELSE 0
    <3> DEFINE P == {k \in 1 .. Len(taskQueue) : taskQueue[k].id = id}
    <3> DEFINE R == {k \in 1 .. Len(finished) : finished[k] = id}
    <3>1. Cardinality(P) = IF id \in Ids(taskQueue) THEN 1 ELSE 0
      <4>1. (\A j, k \in P : j = k) /\ (P = {} <=> id \notin Ids(taskQueue))
        BY <2>1 DEF Distinct, Ids
      <4> HIDE DEF P
      <4> QED
        BY <4>1, AtMostOne
    <3>2. Cardinality(R) = IF id \in Ends THEN 1 ELSE 0
      <4>1. (\A j, k \in R : j = k) /\ (R = {} <=> id \notin Ends)
        BY DEF SchedulerInv, Ends
      <4> HIDE DEF R
      <4> QED
        BY <4>1, AtMostOne
    <3>3. awaited = id <=> id \in Running
      BY DEF Running, TaskIds, Idle
    <3>4. id < nextId <=> id \in Ids(taskQueue) \cup Ends \cup Running \cup dropped
      BY DEF SchedulerInv, TaskIds
    <3>5. Places(id) = (IF id \in Ids(taskQueue) THEN 1 ELSE 0) + (IF id \in Ends THEN 1 ELSE 0)
                         + (IF id \in Running THEN 1 ELSE 0) + (IF id \in dropped THEN 1 ELSE 0)
      BY <3>1, <3>2, <3>3 DEF Places
    <3> QED
      BY <3>4, <3>5 DEF SchedulerInv
  <2> QED
    BY <2>2, <2>3 DEF SchedulerKeepsTasks, EachInOnePlace
<1> QED
  BY <1>1, SchedulerInvariant, PTL

-----------------------------------------------------------------------------
(***************************************************************************)
(* The watchers and the notifications under way.                           *)
(***************************************************************************)
Frames == [paths : Seq(WatchPaths), last : Nat, told : Seq(Nat), due : SUBSET Nat, calling : BOOLEAN]
Seen(ws, p) == {w.id : w \in {v \in ws : Sees(v, p)}}

\* A notification, with the watchers there are: it has told nobody twice, and nobody
\* ahead of its place in the map; whoever is due has been told or is ahead of it.
Sound(f, ws) ==
  /\ f \in Frames /\ f.paths # << >>
  /\ \A i, j \in 1 .. Len(f.told) : f.told[i] = f.told[j] => i = j
  /\ \A i \in 1 .. Len(f.told) : f.told[i] <= f.last
  /\ \A id \in f.due : id <= f.last => \E i \in 1 .. Len(f.told) : f.told[i] = id
  /\ \A id \in f.due : id > f.last => id \in Seen(ws, Head(f.paths))

Numbered(ws, n) == \A w \in ws : w.id \in 1 .. n

WatchersInv ==
  /\ watched \in Nat /\ Numbered(watchers, watched)
  /\ notifying \in Seq(Frames) /\ \A k \in 1 .. Len(notifying) : Sound(notifying[k], watchers)

LEMMA SoundWithMore ==
  ASSUME NEW f, NEW ws, Sound(f, ws), NEW more, ws \subseteq more
  PROVE  Sound(f, more)
<1>1. \A p : Seen(ws, p) \subseteq Seen(more, p)
  BY DEF Seen
<1> QED
  BY <1>1 DEF Sound

LEMMA SoundWithout ==
  ASSUME NEW f, NEW ws, Sound(f, ws), NEW gone
  PROVE  Sound([f EXCEPT !.due = @ \ gone], {w \in ws : w.id \notin gone})
<1> DEFINE g == [f EXCEPT !.due = @ \ gone]
<1> DEFINE left == {w \in ws : w.id \notin gone}
<1>1. g \in Frames /\ g.paths = f.paths /\ g.last = f.last /\ g.told = f.told /\ g.due = f.due \ gone
  BY DEF Sound, Frames
<1>2. Seen(ws, Head(f.paths)) \ gone \subseteq Seen(left, Head(f.paths))
  BY DEF Seen
<1> HIDE DEF g, left
<1>3. Sound(g, left)
  BY <1>1, <1>2 DEF Sound
<1> QED
  BY <1>3 DEF g, left

LEMMA SoundStart ==
  ASSUME NEW ws, NEW n \in Nat, Numbered(ws, n), NEW paths \in Seq(WatchPaths), paths # << >>
  PROVE  Sound([paths |-> paths, last |-> 0, told |-> << >>, due |-> Seen(ws, Head(paths)), calling |-> FALSE], ws)
<1> DEFINE f == [paths |-> paths, last |-> 0, told |-> << >>, due |-> Seen(ws, Head(paths)), calling |-> FALSE]
<1>1. \A id \in Seen(ws, Head(paths)) : id \in Nat /\ id > 0
  BY DEF Seen, Numbered
<1>2. f \in Frames /\ f.paths = paths /\ f.last = 0 /\ Len(f.told) = 0 /\ f.due = Seen(ws, Head(paths))
  BY <1>1 DEF Frames
<1> HIDE DEF f
<1>3. Sound(f, ws)
  BY <1>1, <1>2 DEF Sound
<1> QED
  BY <1>3 DEF f

LEMMA SoundCall ==
  ASSUME NEW f, NEW ws, Sound(f, ws), NEW id \in Nat, id > f.last,
         \A other \in Seen(ws, Head(f.paths)) : other > f.last => id <= other
  PROVE  Sound([f EXCEPT !.last = id, !.told = Append(@, id), !.calling = TRUE], ws)
<1> DEFINE g == [f EXCEPT !.last = id, !.told = Append(@, id), !.calling = TRUE]
<1> DEFINE n == Len(f.told)
<1>1. f \in Frames /\ f.told \in Seq(Nat) /\ f.last \in Nat /\ f.due \subseteq Nat /\ n \in Nat
  BY DEF Sound, Frames
<1>2. /\ g \in Frames /\ g.paths = f.paths /\ g.last = id /\ g.told = Append(f.told, id) /\ g.due = f.due
  <2>1. Append(f.told, id) \in Seq(Nat)
    BY <1>1
  <2> QED
    BY <1>1, <2>1 DEF Frames
<1>3. /\ Len(g.told) = n + 1 /\ g.told[n + 1] = id
      /\ \A k \in 1 .. n : g.told[k] = f.told[k]
  BY <1>1, <1>2, AppendProperties
<1>4. 1 .. n + 1 = (1 .. n) \cup {n + 1} /\ 1 .. Len(f.told) = 1 .. n /\ 1 .. Len(g.told) = 1 .. n + 1
  BY <1>1, <1>3
<1>5. \A k \in 1 .. n : f.told[k] \in Nat
  BY <1>1
<1> HIDE DEF g, n
<1>6. \A k \in 1 .. n : f.told[k] < id
  BY <1>1, <1>4, <1>5 DEF Sound
<1>7. \A j, k \in 1 .. n + 1 : g.told[j] = g.told[k] => j = k
  <2>1. \A j, k \in 1 .. n : f.told[j] = f.told[k] => j = k
    BY <1>4 DEF Sound
  <2> QED
    BY <1>3, <1>4, <1>5, <1>6, <2>1
<1>8. \A k \in 1 .. n + 1 : g.told[k] <= id
  BY <1>3, <1>4, <1>5, <1>6
<1>9. ASSUME NEW x \in f.due, x <= id PROVE \E k \in 1 .. n + 1 : g.told[k] = x
  <2>1. CASE x <= f.last
    <3>1. PICK k \in 1 .. n : f.told[k] = x
      BY <1>4, <1>9, <2>1 DEF Sound
    <3> QED
      BY <1>3, <1>4, <3>1
  <2>2. CASE x > f.last
    <3>1. x \in Seen(ws, Head(f.paths))
      BY <1>9, <2>2 DEF Sound
    <3>2. x = id
      BY <1>1, <1>9, <2>2, <3>1
    <3> QED
      BY <1>3, <1>4, <3>2
  <2> QED
    BY <1>1, <2>1, <2>2
<1>10. ASSUME NEW x \in f.due, x > id PROVE x \in Seen(ws, Head(f.paths))
  <2>1. x > f.last
    BY <1>1, <1>10
  <2> QED
    BY <2>1 DEF Sound
<1>11. Sound(g, ws)
  BY <1>2, <1>4, <1>7, <1>8, <1>9, <1>10 DEF Sound
<1> QED
  BY <1>11 DEF g

LEMMA SoundReturn ==
  ASSUME NEW f, NEW ws, Sound(f, ws)
  PROVE  Sound([f EXCEPT !.calling = FALSE], ws)
<1> DEFINE g == [f EXCEPT !.calling = FALSE]
<1>1. g \in Frames /\ g.paths = f.paths /\ g.last = f.last /\ g.told = f.told /\ g.due = f.due
  BY DEF Sound, Frames
<1> HIDE DEF g
<1>2. Sound(g, ws)
  BY <1>1 DEF Sound
<1> QED
  BY <1>2 DEF g

LEMMA WatchersInitially == WatchersInit => WatchersInv
BY DEF WatchersInit, WatchersInv, Numbered

LEMMA WatchKeeps ==
  ASSUME WatchersInv, NEW path, NEW recursive, Watch(path, recursive) PROVE WatchersInv'
<1>1. watched' = watched + 1 /\ watchers \subseteq watchers' /\ UNCHANGED notifying
  BY DEF Watch
<1>2. \A w \in watchers' : w \in watchers \/ w.id = watched'
  BY DEF Watch
<1>3. watched' \in Nat /\ Numbered(watchers', watched')
  BY <1>1, <1>2 DEF WatchersInv, Numbered
<1>4. \A k \in 1 .. Len(notifying) : Sound(notifying[k], watchers')
  BY <1>1, SoundWithMore DEF WatchersInv
<1> QED
  BY <1>1, <1>3, <1>4 DEF WatchersInv

LEMMA UnregisterKeeps == ASSUME WatchersInv, NEW gone, Unregister(gone) PROVE WatchersInv'
<1>1. /\ watchers' = {w \in watchers : w.id \notin gone} /\ UNCHANGED watched
      /\ notifying' = [k \in DOMAIN notifying |-> [notifying[k] EXCEPT !.due = @ \ gone]]
  BY DEF Unregister
<1>2. Len(notifying) \in Nat /\ DOMAIN notifying = 1 .. Len(notifying)
  BY DEF WatchersInv
<1>3. \A k \in 1 .. Len(notifying) : Sound([notifying[k] EXCEPT !.due = @ \ gone], watchers')
  BY <1>1, SoundWithout DEF WatchersInv
<1>4. notifying' \in Seq(Frames) /\ Len(notifying') = Len(notifying)
      /\ \A k \in 1 .. Len(notifying) : Sound(notifying'[k], watchers')
  <2>1. \A k \in 1 .. Len(notifying) : [notifying[k] EXCEPT !.due = @ \ gone] \in Frames
    BY <1>3 DEF Sound
  <2>2. notifying' \in [1 .. Len(notifying) -> Frames]
    BY <1>1, <1>2, <2>1
  <2>3. notifying' \in Seq(Frames) /\ Len(notifying') = Len(notifying)
    BY <1>2, <2>2
  <2> QED
    BY <1>1, <1>2, <1>3, <2>3
<1>5. Numbered(watchers', watched')
  BY <1>1 DEF WatchersInv, Numbered
<1> QED
  BY <1>1, <1>4, <1>5 DEF WatchersInv

\* The innermost notification is exchanged.
LEMMA ExchangeKeeps ==
  ASSUME WatchersInv, notifying # << >>, NEW f, Sound(f, watchers),
         notifying' = [notifying EXCEPT ![Len(notifying)] = f], UNCHANGED <<watchers, watched>>
  PROVE  WatchersInv'
<1> DEFINE n == Len(notifying)
<1>1. notifying \in Seq(Frames) /\ n \in Nat \ {0} /\ n \in 1 .. n
  BY DEF WatchersInv
<1>2. f \in Frames
  BY DEF Sound
<1>3. /\ notifying' \in Seq(Frames) /\ Len(notifying') = n
      /\ \A k \in 1 .. n : notifying'[k] = IF k = n THEN f ELSE notifying[k]
  BY <1>1, <1>2, ExceptSeq
<1> QED
  BY <1>3 DEF WatchersInv

\* A notification begins.
LEMMA BeginKeeps ==
  ASSUME WatchersInv, NEW s \in Seq(Frames), \A k \in 1 .. Len(s) : Sound(s[k], watchers),
         NEW paths \in Seq(WatchPaths), paths # << >>,
         notifying' = Append(s, Start(paths)), UNCHANGED <<watchers, watched>>
  PROVE  WatchersInv'
<1>1. Start(paths) = [paths |-> paths, last |-> 0, told |-> << >>, due |-> Seen(watchers, Head(paths)), calling |-> FALSE]
  BY DEF Start, Matching, Seen
<1>2. Sound(Start(paths), watchers)
  BY <1>1, SoundStart DEF WatchersInv
<1>3. Start(paths) \in Frames
  BY <1>2 DEF Sound
<1> DEFINE f == Start(paths)
<1> HIDE DEF f
<1>4. f \in Frames /\ Sound(f, watchers) /\ notifying' = Append(s, f)
  BY <1>2, <1>3 DEF f
<1>5. /\ notifying' \in Seq(Frames) /\ Len(notifying') = Len(s) + 1 /\ notifying'[Len(s) + 1] = f
      /\ \A k \in 1 .. Len(s) : notifying'[k] = s[k]
  BY <1>4, AppendProperties
<1>6. \A k \in 1 .. Len(s) + 1 : k \in 1 .. Len(s) \/ k = Len(s) + 1
  OBVIOUS
<1> QED
  BY <1>4, <1>5, <1>6 DEF WatchersInv

LEMMA InnermostSound ==
  ASSUME WatchersInv, notifying # << >>
  PROVE  /\ Last(notifying) = notifying[Len(notifying)] /\ Sound(Last(notifying), watchers)
         /\ Len(notifying) \in 1 .. Len(notifying)
<1>1. notifying \in Seq(Frames)
  BY DEF WatchersInv
<1>2. Last(notifying) = notifying[Len(notifying)] /\ Len(notifying) \in Nat \ {0}
  BY <1>1, Innermost
<1>3. Len(notifying) \in 1 .. Len(notifying)
  BY <1>2
<1> QED
  BY <1>2, <1>3 DEF WatchersInv

LEMMA CallWatcherKeeps == ASSUME WatchersInv, CallWatcher PROVE WatchersInv'
<1> DEFINE f == Last(notifying)
<1>1. /\ notifying # << >> /\ UNCHANGED <<watchers, watched>>
      /\ \E id \in AheadOf(f) :
           /\ \A other \in AheadOf(f) : id <= other
           /\ notifying' = [notifying EXCEPT ![Len(notifying)] = [f EXCEPT !.last = id, !.told = Append(@, id), !.calling = TRUE]]
  BY DEF CallWatcher
<1>2. Sound(f, watchers)
  BY <1>1, InnermostSound
<1> HIDE DEF f
<1>3. PICK id \in AheadOf(f) :
        /\ \A other \in AheadOf(f) : id <= other
        /\ notifying' = [notifying EXCEPT ![Len(notifying)] = [f EXCEPT !.last = id, !.told = Append(@, id), !.calling = TRUE]]
  BY <1>1
<1>4. AheadOf(f) = {x \in Seen(watchers, Head(f.paths)) : x > f.last}
  BY DEF AheadOf, Matching, Seen
<1>5. id \in Nat
  BY <1>3, <1>4 DEF Seen, WatchersInv, Numbered
<1>6. Sound([f EXCEPT !.last = id, !.told = Append(@, id), !.calling = TRUE], watchers)
  BY <1>2, <1>3, <1>4, <1>5, SoundCall
<1> QED
  BY <1>1, <1>3, <1>6, ExchangeKeeps

LEMMA CallbackEndsKeeps == ASSUME WatchersInv, CallbackEnds PROVE WatchersInv'
<1> DEFINE f == notifying[Len(notifying)]
<1>1. /\ notifying # << >> /\ UNCHANGED <<watchers, watched>>
      /\ notifying' = [notifying EXCEPT ![Len(notifying)] = [f EXCEPT !.calling = FALSE]]
  BY DEF CallbackEnds
<1>2. Sound(f, watchers)
  BY <1>1, InnermostSound
<1>3. Sound([f EXCEPT !.calling = FALSE], watchers)
  BY <1>2, SoundReturn
<1> QED
  BY <1>1, <1>3, ExchangeKeeps

LEMMA NotifyEndsKeeps == ASSUME WatchersInv, NotifyEnds PROVE WatchersInv'
<1> DEFINE f == Last(notifying)
<1> DEFINE rest == Tail(f.paths)
<1> DEFINE s == Front(notifying)
<1>1. /\ notifying # << >> /\ UNCHANGED <<watchers, watched>>
      /\ notifying' = IF rest = << >> THEN s ELSE Append(s, Start(rest))
  BY DEF NotifyEnds
<1>2. s \in Seq(Frames) /\ \A k \in 1 .. Len(s) : Sound(s[k], watchers)
  <2>1. notifying \in Seq(Frames)
    BY DEF WatchersInv
  <2>2. /\ Len(notifying) \in Nat \ {0} /\ s \in Seq(Frames) /\ Len(s) = Len(notifying) - 1
        /\ \A k \in 1 .. Len(notifying) - 1 : s[k] = notifying[k]
    BY <1>1, <2>1, Innermost
  <2> HIDE DEF s
  <2> QED
    BY <2>2 DEF WatchersInv
<1>3. rest \in Seq(WatchPaths)
  <2>1. Sound(f, watchers)
    BY <1>1, InnermostSound
  <2> HIDE DEF f
  <2>2. f.paths \in Seq(WatchPaths) /\ f.paths # << >>
    BY <2>1 DEF Sound, Frames
  <2> QED
    BY <2>2
<1> HIDE DEF f, rest, s
<1>4. CASE rest = << >>
  BY <1>1, <1>2, <1>4 DEF WatchersInv
<1>5. CASE rest # << >>
  BY <1>1, <1>2, <1>3, <1>5, BeginKeeps
<1> QED
  BY <1>4, <1>5

LEMMA WatchersStep == WatchersInv /\ [WatchersNext]_watcherVars => WatchersInv'
<1> SUFFICES ASSUME WatchersInv, [WatchersNext]_watcherVars PROVE WatchersInv'
  OBVIOUS
<1>1. ASSUME NEW paths \in Seq(WatchPaths), paths # << >>, Changed(paths) PROVE WatchersInv'
  BY <1>1, BeginKeeps DEF Changed, WatchersInv
<1>2. \A p, q \in WatchPaths : <<p>> \in Seq(WatchPaths) /\ <<p, q>> \in Seq(WatchPaths) /\ <<p>> # << >> /\ <<p, q>> # << >>
  OBVIOUS
<1>3. ASSUME NEW p \in WatchPaths, NEW q \in WatchPaths, Changed(<<p>>) \/ Changed(<<p, q>>) PROVE WatchersInv'
  BY <1>1, <1>2, <1>3
<1>4. ASSUME NEW id, Unwatch(id) PROVE WatchersInv'
  BY <1>4, UnregisterKeeps DEF Unwatch
<1>5. ASSUME ClearWatchers PROVE WatchersInv'
  BY <1>5, UnregisterKeeps DEF ClearWatchers
<1>6. CASE UNCHANGED watcherVars
  BY <1>6 DEF watcherVars, WatchersInv
<1> QED
  BY <1>3, <1>4, <1>5, <1>6, WatchKeeps, CallWatcherKeeps, CallbackEndsKeeps, NotifyEndsKeeps DEF WatchersNext

\* Every notification under way stays sound, whatever the callbacks do.
THEOREM WatchersInvariant == WatchersSpec => []WatchersInv
BY WatchersInitially, WatchersStep, PTL DEF WatchersSpec

\* Only a call adds to what a notification has told.
LEMMA CallsAreRegistered == WatchersInv /\ [WatchersNext]_watcherVars => CallsRegistered \/ UNCHANGED watcherVars
<1> SUFFICES ASSUME WatchersInv, WatchersNext,
                    NEW k \in DOMAIN notifying \cap DOMAIN notifying',
                    notifying'[k].told # notifying[k].told, notifying'[k].calling
    PROVE  Registered(Last(notifying'[k].told))
  BY DEF CallsRegistered
<1>1. /\ notifying \in Seq(Frames) /\ DOMAIN notifying = 1 .. Len(notifying) /\ Len(notifying) \in Nat
      /\ k \in 1 .. Len(notifying) /\ notifying[k] \in Frames
  BY DEF WatchersInv
<1>2. ASSUME UNCHANGED notifying PROVE FALSE
  BY <1>2
<1>3. ASSUME NEW gone, Unregister(gone) PROVE FALSE
  <2>1. notifying'[k] = [notifying[k] EXCEPT !.due = @ \ gone]
    BY <1>1, <1>3 DEF Unregister
  <2> QED
    BY <1>1, <2>1 DEF Frames
<1>4. ASSUME NEW paths, Changed(paths) PROVE FALSE
  BY <1>1, <1>4 DEF Changed
<1>5. ASSUME CallbackEnds PROVE FALSE
  <2>1. notifying'[k] = IF k = Len(notifying) THEN [notifying[k] EXCEPT !.calling = FALSE] ELSE notifying[k]
    BY <1>1, <1>5 DEF CallbackEnds
  <2> QED
    BY <1>1, <2>1 DEF Frames
<1>6. ASSUME NotifyEnds PROVE FALSE
  <2> DEFINE s == Front(notifying)
  <2> DEFINE rest == Tail(Last(notifying).paths)
  <2>1. notifying # << >> /\ notifying' = IF rest = << >> THEN s ELSE Append(s, Start(rest))
    BY <1>6 DEF NotifyEnds
  <2>2. s \in Seq(Frames) /\ Len(s) = Len(notifying) - 1 /\ \A j \in 1 .. Len(notifying) - 1 : s[j] = notifying[j]
    BY <1>1, <2>1, Innermost
  <2>3. ~ Start(rest).calling
    BY DEF Start
  <2> HIDE DEF s, rest
  <2>4. CASE rest = << >>
    BY <1>1, <2>1, <2>2, <2>4
  <2>5. CASE rest # << >>
    <3> DEFINE f == Start(rest)
    <3> HIDE DEF f
    <3>1. notifying' = Append(s, f) /\ ~ f.calling
      BY <2>1, <2>3, <2>5 DEF f
    <3>2. \A j \in 1 .. Len(s) : notifying'[j] = s[j]
      BY <2>2, <3>1
    <3>3. notifying'[Len(s) + 1] = f
      BY <2>2, <3>1
    <3> QED
      BY <1>1, <2>2, <3>1, <3>2, <3>3
  <2> QED
    BY <2>4, <2>5
<1>7. ASSUME CallWatcher PROVE Registered(Last(notifying'[k].told))
  <2> DEFINE f == Last(notifying)
  <2>1. notifying # << >> /\ \E id \in AheadOf(f) :
          notifying' = [notifying EXCEPT ![Len(notifying)] = [f EXCEPT !.last = id, !.told = Append(@, id), !.calling = TRUE]]
    BY <1>7 DEF CallWatcher
  <2>2. f = notifying[Len(notifying)] /\ f \in Frames
    BY <2>1, InnermostSound DEF Sound
  <2> HIDE DEF f
  <2>3. PICK id \in AheadOf(f) :
          notifying' = [notifying EXCEPT ![Len(notifying)] = [f EXCEPT !.last = id, !.told = Append(@, id), !.calling = TRUE]]
    BY <2>1
  <2>4. id \in Nat /\ Registered(id)
    BY DEF AheadOf, Matching, Registered, WatchersInv, Numbered
  <2>5. k = Len(notifying)
    BY <1>1, <2>2, <2>3
  <2>6. notifying'[k].told = Append(f.told, id)
    BY <1>1, <2>2, <2>3, <2>5 DEF Frames
  <2>7. f.told \in Seq(Nat)
    BY <2>2 DEF Frames
  <2>8. Last(Append(f.told, id)) = id
    BY <2>4, <2>7 DEF Last
  <2> QED
    BY <2>4, <2>6, <2>8
<1>8. ASSUME NEW path, NEW recursive, Watch(path, recursive) PROVE FALSE
  BY <1>2, <1>8 DEF Watch
<1> QED
  BY <1>3, <1>4, <1>5, <1>6, <1>7, <1>8 DEF WatchersNext, Unwatch, ClearWatchers

\* Callbacks may watch, unwatch, clear and change files while they are called: a
\* watcher is told of a change once, whoever was due and did not unwatch is told
\* before the operation returns, and nobody is called after unwatching
\* (watcher.ts: watch, notify, clear; the facade's rename).
THEOREM WatchersAreTold == WatchersSpec => WatchersAgree
<1>1. WatchersInv => ToldOnce /\ NobodyLeftOut
  <2> SUFFICES ASSUME WatchersInv, NEW k \in DOMAIN notifying
      PROVE  LET f == notifying[k] IN
             /\ \A i, j \in DOMAIN f.told : f.told[i] = f.told[j] => i = j
             /\ ~f.calling /\ AheadOf(f) = {} => f.due \subseteq ToSet(f.told)
    BY DEF ToldOnce, NobodyLeftOut
  <2> DEFINE f == notifying[k]
  <2>1. Sound(f, watchers)
    BY DEF WatchersInv
  <2> HIDE DEF f
  <2>2. DOMAIN f.told = 1 .. Len(f.told) /\ f.last \in Nat /\ f.due \subseteq Nat
    BY <2>1 DEF Sound, Frames
  <2>3. \A i, j \in DOMAIN f.told : f.told[i] = f.told[j] => i = j
    BY <2>1, <2>2 DEF Sound
  <2>4. ASSUME AheadOf(f) = {}, NEW id \in f.due PROVE id \in ToSet(f.told)
    <3>1. ~ (id > f.last)
      BY <2>1, <2>4 DEF Sound, AheadOf, Matching, Seen
    <3> QED
      BY <2>1, <2>2, <3>1 DEF Sound, ToSet
  <2> QED
    BY <2>3, <2>4 DEF f
<1>2. WatchersInv /\ [WatchersNext]_watcherVars => [CallsRegistered]_watcherVars
  BY CallsAreRegistered
<1> QED
  BY <1>1, <1>2, WatchersInvariant, PTL DEF WatchersSpec, WatchersAgree

-----------------------------------------------------------------------------
(***************************************************************************)
(* The SDK: processes, the microtask queue and the callbacks.              *)
(***************************************************************************)
Microtasks == [kind : {"run", "hand"}, of : Procs, cmd : Commands]
Processes == [state : {"none", "spawned", "handed"}, lines : Nat, closed : BOOLEAN,
              exit : {0, 1, 127, Pending}]
Emissions == [port : PortNumbers, left : SUBSET Callbacks, calling : BOOLEAN]

\* The types of the variables.
SdkTypes ==
  /\ procs \in [Procs -> Processes]
  /\ queue \in Seq(Microtasks)
  /\ callbacks \subseteq Callbacks /\ bound \subseteq PortNumbers
  /\ emitting \in Seq(Emissions) /\ Len(emitting) <= MaxNesting
  /\ told \in Seq([callback : Callbacks, port : PortNumbers, meant : BOOLEAN]) /\ Len(told) <= MaxReady

\* The output of a process is closed when its exit promise is settled.
ClosedOnExit == \A p \in Procs : procs[p].exit # Pending => procs[p].closed /\ procs[p].lines > 0

\* Whose tasks are in the queue: a process that is new has none, one that is
\* spawned has run or is going to run before it is handed over, and none comes
\* after that.
OfProc(p, kind) == {k \in 1 .. Len(queue) : queue[k].of = p /\ queue[k].kind = kind}
RunsFirst ==
  \A p \in Procs :
    /\ procs[p].state # "handed" /\ procs[p].exit = Pending => ~procs[p].closed
    /\ procs[p].state = "none" => procs[p].exit = Pending
    /\ procs[p].state = "none" => OfProc(p, "run") \cup OfProc(p, "hand") = {}
    /\ procs[p].exit = Pending =>
         \A k \in OfProc(p, "hand") : \E j \in OfProc(p, "run") : j < k

\* An emission is to call only callbacks that are registered.
LeftRegistered == \A k \in 1 .. Len(emitting) : emitting[k].left \subseteq callbacks

SdkInv == SdkTypes /\ ClosedOnExit /\ RunsFirst /\ RunBeforeHanded /\ LeftRegistered /\ ToldOnlyWhileRegistered

-----------------------------------------------------------------------------
USE WebContainerAssumption

LEMMA SdkInitially == SdkInit => SdkInv
<1>1. SdkInit => SdkTypes
  BY DEF SdkInit, SdkTypes, NewProc, Processes
<1>2. SdkInit => ClosedOnExit /\ RunsFirst /\ RunBeforeHanded
  BY DEF SdkInit, NewProc, ClosedOnExit, RunsFirst, OfProc, RunBeforeHanded
<1>3. SdkInit => LeftRegistered /\ ToldOnlyWhileRegistered
  BY DEF SdkInit, LeftRegistered, ToldOnlyWhileRegistered
<1> QED
  BY <1>1, <1>2, <1>3 DEF SdkInv

\* What a task does to its process.
LEMMA RanSettles ==
  ASSUME NEW s \in Processes, NEW c
  PROVE  /\ Ran(s, c) \in Processes
         /\ Ran(s, c).state = s.state
         /\ s.closed => Ran(s, c) = s
         /\ ~s.closed => Ran(s, c).closed /\ Ran(s, c).lines > 0 /\ Ran(s, c).exit \in {0, 1, 127}
<1>1. Code(c) \in {0, 1, 127} /\ Lines(c) \in {1, 2}
  BY DEF Code, Lines
<1>2. CASE s.closed
  BY <1>2 DEF Ran
<1>3. CASE ~s.closed
  <2>1. Ran(s, c) = [state |-> s.state, lines |-> Lines(c), closed |-> TRUE, exit |-> Code(c)]
    BY <1>3 DEF Ran, Processes
  <2> QED
    BY <1>1, <1>3, <2>1 DEF Processes
<1> QED
  BY <1>2, <1>3

-----------------------------------------------------------------------------
\* spawn() queues the run before the hand-over.
LEMMA SpawnKeeps == ASSUME SdkInv, NEW p \in Procs, NEW c \in Commands, Spawn(p, c) PROVE SdkInv'
<1> DEFINE run == [kind |-> "run", of |-> p, cmd |-> c]
           hand == [kind |-> "hand", of |-> p, cmd |-> c]
           n == Len(queue)
<1>1. /\ procs[p].state = "none"
      /\ procs' = [procs EXCEPT ![p].state = "spawned"]
      /\ queue' = queue \o <<run, hand>>
      /\ UNCHANGED <<callbacks, bound, emitting, disposed, told>>
  BY DEF Spawn, Queued
<1>2. run \in Microtasks /\ hand \in Microtasks
  BY DEF Microtasks
<1>3. /\ queue \in Seq(Microtasks) /\ procs \in [Procs -> Processes]
      /\ n \in Nat
  BY DEF SdkInv, SdkTypes
<1>4. /\ queue' \in Seq(Microtasks) /\ Len(queue') = n + 2
      /\ \A k \in 1 .. n : queue'[k] = queue[k]
      /\ queue'[n + 1] = run /\ queue'[n + 2] = hand
  <2> HIDE DEF run, hand
  <2> QED
    BY <1>1, <1>2, <1>3
<1>5. /\ procs' \in [Procs -> Processes]
      /\ procs'[p] = [procs[p] EXCEPT !.state = "spawned"]
      /\ procs'[p].state = "spawned" /\ procs'[p].exit = procs[p].exit
      /\ procs'[p].closed = procs[p].closed /\ procs'[p].lines = procs[p].lines
      /\ \A q \in Procs : q # p => procs'[q] = procs[q]
  BY <1>1, <1>3 DEF Processes
<1>6. SdkTypes'
  BY <1>1, <1>4, <1>5 DEF SdkInv, SdkTypes
<1>7. ClosedOnExit' /\ RunBeforeHanded'
  BY <1>5 DEF SdkInv, ClosedOnExit, RunBeforeHanded
<1>8. RunsFirst'
  <2> SUFFICES ASSUME NEW q \in Procs
               PROVE  /\ procs'[q].state # "handed" /\ procs'[q].exit = Pending => ~procs'[q].closed
                      /\ procs'[q].state = "none" => procs'[q].exit = Pending
                      /\ procs'[q].state = "none" => OfProc(q, "run")' \cup OfProc(q, "hand")' = {}
                      /\ procs'[q].exit = Pending =>
                           \A k \in OfProc(q, "hand")' : \E j \in OfProc(q, "run")' : j < k
    BY DEF RunsFirst
  <2>1. CASE q # p
    <3>1. OfProc(q, "run")' = OfProc(q, "run") /\ OfProc(q, "hand")' = OfProc(q, "hand")
      <4>1. run.of = p /\ hand.of = p
        OBVIOUS
      <4>2. \A k \in 1 .. n + 2 : k \in 1 .. n \/ k = n + 1 \/ k = n + 2
        BY <1>3
      <4> HIDE DEF run, hand
      <4> QED
        BY <1>3, <1>4, <2>1, <4>1, <4>2 DEF OfProc
    <3> QED
      BY <3>1, <2>1, <1>5 DEF SdkInv, RunsFirst
  <2>2. CASE q = p
    <3>1. n + 1 \in OfProc(q, "run")'
      BY <1>3, <1>4, <2>2 DEF OfProc
    <3>2. OfProc(q, "hand")' \subseteq {n + 2}
      <4>1. OfProc(q, "hand") = {}
        BY <1>1, <2>2 DEF SdkInv, RunsFirst
      <4>2. \A k \in 1 .. n + 2 : k \in 1 .. n \/ k = n + 1 \/ k = n + 2
        BY <1>3
      <4> QED
        BY <1>3, <1>4, <4>1, <4>2 DEF OfProc
    <3>3. n + 1 < n + 2
      BY <1>3
    <3> QED
      BY <1>1, <1>5, <2>2, <3>1, <3>2, <3>3 DEF SdkInv, RunsFirst
  <2> QED
    BY <2>1, <2>2
<1>9. LeftRegistered' /\ ToldOnlyWhileRegistered'
  BY <1>1 DEF SdkInv, LeftRegistered, ToldOnlyWhileRegistered
<1> QED
  BY <1>6, <1>7, <1>8, <1>9 DEF SdkInv

\* A task runs: the promise of its process is settled from here on.
LEMMA MicrotaskKeeps == ASSUME SdkInv, RunMicrotask PROVE SdkInv'
<1> DEFINE t == Head(queue)
           p == t.of
<1>1. /\ queue # << >> /\ queue' = Tail(queue)
      /\ procs' = [procs EXCEPT ![p] = IF t.kind = "run" THEN Ran(@, t.cmd) ELSE [@ EXCEPT !.state = "handed"]]
      /\ UNCHANGED <<callbacks, bound, emitting, disposed, told>>
  BY DEF RunMicrotask
<1>2. /\ queue \in Seq(Microtasks) /\ procs \in [Procs -> Processes]
      /\ Len(queue) \in Nat \ {0} /\ t = queue[1] /\ t \in Microtasks
      /\ queue' \in Seq(Microtasks) /\ Len(queue') = Len(queue) - 1
      /\ \A k \in 1 .. Len(queue') : queue'[k] = queue[k + 1]
  BY <1>1 DEF SdkInv, SdkTypes
<1>3. p \in Procs /\ t.kind \in {"run", "hand"} /\ procs[p] \in Processes
  BY <1>2 DEF Microtasks
<1>4. procs[p].state # "none"
  <2>1. 1 \in OfProc(p, t.kind)
    BY <1>2 DEF OfProc
  <2> QED
    BY <1>3, <2>1 DEF SdkInv, RunsFirst
<1>5. t.kind = "hand" => procs[p].exit # Pending
  <2> SUFFICES ASSUME t.kind = "hand", procs[p].exit = Pending PROVE FALSE
    OBVIOUS
  <2>1. 1 \in OfProc(p, "hand")
    BY <1>2 DEF OfProc
  <2>2. PICK j \in OfProc(p, "run") : j < 1
    BY <2>1, <1>3 DEF SdkInv, RunsFirst
  <2> QED
    BY <2>2 DEF OfProc
<1>6. /\ procs' \in [Procs -> Processes]
      /\ \A q \in Procs : q # p => procs'[q] = procs[q]
      /\ procs'[p] = IF t.kind = "run" THEN Ran(procs[p], t.cmd) ELSE [procs[p] EXCEPT !.state = "handed"]
  <2>1. Ran(procs[p], t.cmd) \in Processes
    BY <1>3, RanSettles
  <2>2. [procs[p] EXCEPT !.state = "handed"] \in Processes
    BY <1>3 DEF Processes
  <2> HIDE DEF p, t
  <2> QED
    BY <1>1, <1>2, <1>3, <2>1, <2>2
<1>7. procs'[p].exit # Pending
  <2>1. CASE t.kind = "hand"
    BY <1>3, <1>5, <1>6, <2>1 DEF Processes
  <2>2. CASE t.kind = "run" /\ procs[p].exit # Pending
    <3>1. procs[p].closed
      BY <1>3, <2>2 DEF SdkInv, ClosedOnExit
    <3> QED
      BY <1>3, <1>6, <2>2, <3>1, RanSettles
  <2>3. CASE t.kind = "run" /\ procs[p].exit = Pending
    <3>1. ~procs[p].closed
      BY <1>3, <2>3 DEF SdkInv, RunsFirst, RunBeforeHanded
    <3>2. procs'[p].exit \in {0, 1, 127}
      BY <1>3, <1>6, <2>3, <3>1, RanSettles
    <3> QED
      BY <3>2
  <2> QED
    BY <1>3, <2>1, <2>2, <2>3
<1>8. procs'[p].closed /\ procs'[p].lines > 0 /\ procs'[p].state # "none"
  <2>1. CASE t.kind = "hand"
    <3>1. procs[p].closed /\ procs[p].lines > 0
      BY <1>3, <1>5, <2>1 DEF SdkInv, ClosedOnExit
    <3> QED
      BY <1>3, <1>6, <2>1, <3>1 DEF Processes
  <2>2. CASE t.kind = "run"
    <3>1. procs[p].closed => procs[p].lines > 0
      BY <1>3 DEF SdkInv, ClosedOnExit, RunsFirst, RunBeforeHanded
    <3> QED
      BY <1>3, <1>4, <1>6, <2>2, <3>1, RanSettles DEF Processes
  <2> QED
    BY <1>3, <2>1, <2>2
<1>9. SdkTypes' /\ ClosedOnExit' /\ RunBeforeHanded'
  BY <1>1, <1>2, <1>6, <1>7, <1>8 DEF SdkInv, SdkTypes, ClosedOnExit, RunBeforeHanded
<1>10. RunsFirst'
  <2> SUFFICES ASSUME NEW q \in Procs
               PROVE  /\ procs'[q].state # "handed" /\ procs'[q].exit = Pending => ~procs'[q].closed
                      /\ procs'[q].state = "none" => procs'[q].exit = Pending
                      /\ procs'[q].state = "none" => OfProc(q, "run")' \cup OfProc(q, "hand")' = {}
                      /\ procs'[q].exit = Pending =>
                           \A k \in OfProc(q, "hand")' : \E j \in OfProc(q, "run")' : j < k
    BY DEF RunsFirst
  <2>1. CASE q = p
    BY <1>7, <1>8, <2>1
  <2>2. CASE q # p
    <3>1. \A k \in 1 .. Len(queue'), kind \in {"run", "hand"} :
             k \in OfProc(q, kind)' <=> k + 1 \in OfProc(q, kind)
      BY <1>2 DEF OfProc
    <3>2. \A kind \in {"run", "hand"} : \A j \in OfProc(q, kind) : j - 1 \in OfProc(q, kind)'
      <4> SUFFICES ASSUME NEW kind \in {"run", "hand"}, NEW j \in OfProc(q, kind) PROVE j - 1 \in OfProc(q, kind)'
        OBVIOUS
      <4>1. j \in 1 .. Len(queue) /\ j # 1
        BY <1>2, <2>2 DEF OfProc
      <4>2. j - 1 \in 1 .. Len(queue') /\ (j - 1) + 1 = j
        BY <4>1, <1>2
      <4> QED
        BY <3>1, <4>2
    <3>3. procs'[q].state = "none" => OfProc(q, "run")' \cup OfProc(q, "hand")' = {}
      <4>1. \A kind \in {"run", "hand"} : \A k \in OfProc(q, kind)' : k \in 1 .. Len(queue')
        BY DEF OfProc
      <4> QED
        BY <1>6, <2>2, <3>1, <4>1 DEF SdkInv, RunsFirst
    <3>4. ASSUME procs'[q].exit = Pending, NEW k \in OfProc(q, "hand")'
          PROVE  \E j \in OfProc(q, "run")' : j < k
      <4>1. k \in 1 .. Len(queue') /\ k + 1 \in OfProc(q, "hand")
        BY <3>1 DEF OfProc
      <4>2. PICK j \in OfProc(q, "run") : j < k + 1
        BY <1>6, <2>2, <3>4, <4>1 DEF SdkInv, RunsFirst
      <4>3. j \in 1 .. Len(queue)
        BY DEF OfProc
      <4> QED
        BY <1>2, <3>2, <4>1, <4>2, <4>3
    <3> QED
      BY <1>6, <2>2, <3>3, <3>4 DEF SdkInv, RunsFirst
  <2> QED
    BY <2>1, <2>2
<1>11. LeftRegistered' /\ ToldOnlyWhileRegistered'
  BY <1>1 DEF SdkInv, LeftRegistered, ToldOnlyWhileRegistered
<1> QED
  BY <1>9, <1>10, <1>11 DEF SdkInv

\* kill() closes the output of a process that has run.
LEMMA KillKeeps == ASSUME SdkInv, NEW p \in Procs, Kill(p) PROVE SdkInv'
<1>1. /\ procs[p].state = "handed" /\ procs' = [procs EXCEPT ![p].closed = TRUE]
      /\ UNCHANGED <<queue, callbacks, bound, emitting, disposed, told>>
  BY DEF Kill
<1>2. procs \in [Procs -> Processes]
  BY DEF SdkInv, SdkTypes
<1>3. /\ procs' \in [Procs -> Processes]
      /\ \A q \in Procs : procs'[q].state = procs[q].state /\ procs'[q].exit = procs[q].exit /\ procs'[q].lines = procs[q].lines
      /\ procs'[p].closed
      /\ \A q \in Procs : q # p => procs'[q].closed = procs[q].closed
  BY <1>1, <1>2 DEF Processes
<1>4. SdkTypes' /\ ClosedOnExit' /\ RunBeforeHanded'
  BY <1>1, <1>3 DEF SdkInv, SdkTypes, ClosedOnExit, RunBeforeHanded
<1>5. \A q \in Procs, kind \in {"run", "hand"} : OfProc(q, kind)' = OfProc(q, kind)
  BY <1>1 DEF OfProc
<1>6. RunsFirst'
  BY <1>1, <1>3, <1>5 DEF SdkInv, RunsFirst
<1> QED
  BY <1>1, <1>4, <1>6 DEF SdkInv, LeftRegistered, ToldOnlyWhileRegistered

-----------------------------------------------------------------------------
\* What concerns the ports leaves the processes alone.
LEMMA PortsApart ==
  ASSUME SdkInv, UNCHANGED <<procs, queue>>,
         callbacks' \subseteq Callbacks, bound' \subseteq PortNumbers,
         emitting' \in Seq(Emissions), Len(emitting') <= MaxNesting,
         \A k \in 1 .. Len(emitting') : emitting'[k].left \subseteq callbacks',
         told' \in Seq([callback : Callbacks, port : PortNumbers, meant : BOOLEAN]),
         Len(told') <= MaxReady, \A k \in 1 .. Len(told') : told'[k].meant
  PROVE  SdkInv'
<1>1. SdkTypes'
  BY DEF SdkInv, SdkTypes
<1>2. ClosedOnExit' /\ RunBeforeHanded'
  BY DEF SdkInv, ClosedOnExit, RunBeforeHanded
<1>3. \A q \in Procs, kind \in {"run", "hand"} : OfProc(q, kind)' = OfProc(q, kind)
  BY DEF OfProc
<1>4. RunsFirst'
  BY <1>3 DEF SdkInv, RunsFirst
<1> QED
  BY <1>1, <1>2, <1>4 DEF SdkInv, LeftRegistered, ToldOnlyWhileRegistered

\* What the invariant says of the emissions, as the steps use it.
LEMMA EmissionsAre ==
  ASSUME SdkInv
  PROVE  /\ callbacks \subseteq Callbacks /\ bound \subseteq PortNumbers
         /\ emitting \in Seq(Emissions) /\ Len(emitting) \in Nat /\ Len(emitting) <= MaxNesting
         /\ \A k \in 1 .. Len(emitting) : emitting[k] \in Emissions /\ emitting[k].left \subseteq callbacks
         /\ told \in Seq([callback : Callbacks, port : PortNumbers, meant : BOOLEAN])
         /\ Len(told) \in Nat /\ Len(told) <= MaxReady /\ \A k \in 1 .. Len(told) : told[k].meant
BY DEF SdkInv, SdkTypes, LeftRegistered, ToldOnlyWhileRegistered

LEMMA OnKeeps == ASSUME SdkInv, NEW cb \in Callbacks, On(cb) PROVE SdkInv'
<1>1. /\ callbacks' = callbacks \cup {cb} /\ UNCHANGED <<procs, queue, bound, disposed, told>>
      /\ emitting' = [k \in 1 .. Len(emitting) |-> [emitting[k] EXCEPT !.left = @ \cup {cb}]]
  BY DEF On, Added
<1>2. \A k \in 1 .. Len(emitting) : /\ [emitting[k] EXCEPT !.left = @ \cup {cb}] \in Emissions
                                    /\ [emitting[k] EXCEPT !.left = @ \cup {cb}].left = emitting[k].left \cup {cb}
  BY EmissionsAre DEF Emissions
<1>3. emitting' \in Seq(Emissions) /\ Len(emitting') = Len(emitting)
  BY <1>1, <1>2, EmissionsAre
<1>4. \A k \in 1 .. Len(emitting') : emitting'[k].left \subseteq callbacks'
  BY <1>1, <1>2, <1>3, EmissionsAre
<1> QED
  BY <1>1, <1>3, <1>4, EmissionsAre, PortsApart

\* Off() and teardown() take callbacks out of every emission.
LEMMA TakingOut ==
  ASSUME SdkInv, NEW cbs \in SUBSET Callbacks, callbacks' = callbacks \ cbs,
         emitting' = TakenOut(emitting, cbs), UNCHANGED <<procs, queue, told>>, bound' \subseteq PortNumbers
  PROVE  SdkInv'
<1>1. emitting' = [k \in 1 .. Len(emitting) |-> [emitting[k] EXCEPT !.left = @ \ cbs]]
  BY DEF TakenOut
<1>2. \A k \in 1 .. Len(emitting) : /\ [emitting[k] EXCEPT !.left = @ \ cbs] \in Emissions
                                    /\ [emitting[k] EXCEPT !.left = @ \ cbs].left = emitting[k].left \ cbs
  BY EmissionsAre DEF Emissions
<1>3. emitting' \in Seq(Emissions) /\ Len(emitting') = Len(emitting)
  BY <1>1, <1>2, EmissionsAre
<1>4. \A k \in 1 .. Len(emitting') : emitting'[k].left = emitting[k].left \ cbs
  BY <1>1, <1>2, <1>3, EmissionsAre
<1>5. \A k \in 1 .. Len(emitting') : emitting[k].left \subseteq callbacks
  BY <1>3, EmissionsAre
<1>6. \A k \in 1 .. Len(emitting') : emitting'[k].left \subseteq callbacks'
  BY <1>4, <1>5
<1> QED
  BY <1>3, <1>6, EmissionsAre, PortsApart

LEMMA OffKeeps == ASSUME SdkInv, NEW cb \in Callbacks, Off(cb) PROVE SdkInv'
BY TakingOut, EmissionsAre DEF Off

LEMMA TeardownKeeps == ASSUME SdkInv, Teardown PROVE SdkInv'
<1>1. callbacks \in SUBSET Callbacks /\ callbacks' = callbacks \ callbacks
  BY EmissionsAre DEF Teardown
<1> QED
  BY <1>1, TakingOut DEF Teardown

LEMMA BindKeeps == ASSUME SdkInv, NEW p \in PortNumbers, BindPort(p) PROVE SdkInv'
<1> DEFINE e == [port |-> p, left |-> callbacks, calling |-> FALSE]
<1>1. e \in Emissions /\ e.left = callbacks
  BY EmissionsAre DEF Emissions
<1>2. /\ emitting' = Append(emitting, e) /\ UNCHANGED <<procs, queue, callbacks, told>>
      /\ bound' \subseteq PortNumbers /\ Len(emitting) < MaxNesting
  BY EmissionsAre DEF BindPort
<1> HIDE DEF e
<1>3. /\ emitting' \in Seq(Emissions) /\ Len(emitting') = Len(emitting) + 1
      /\ \A k \in 1 .. Len(emitting') : emitting'[k] = IF k <= Len(emitting) THEN emitting[k] ELSE e
  BY <1>1, <1>2, EmissionsAre
<1>4. \A k \in 1 .. Len(emitting') : emitting'[k].left \subseteq callbacks'
  BY <1>1, <1>2, <1>3, EmissionsAre
<1> QED
  BY <1>2, <1>3, <1>4, EmissionsAre, PortsApart

LEMMA UnbindKeeps == ASSUME SdkInv, NEW p \in PortNumbers, UnbindPort(p) PROVE SdkInv'
<1>1. UNCHANGED <<procs, queue, callbacks, emitting, told>> /\ bound' \subseteq PortNumbers
  BY EmissionsAre DEF UnbindPort
<1> QED
  BY <1>1, EmissionsAre, PortsApart

\* The callback that is called is one that is left, hence registered.
LEMMA CallKeeps == ASSUME SdkInv, NEW cb \in Callbacks, CallReady(cb) PROVE SdkInv'
<1> DEFINE d == Len(emitting)
           e == [emitting[d] EXCEPT !.left = @ \ {cb}, !.calling = TRUE]
           call == [callback |-> cb, port |-> emitting[d].port, meant |-> cb \in callbacks]
<1>1. /\ d \in 1 .. Len(emitting) /\ cb \in emitting[d].left /\ Len(told) < MaxReady
      /\ UNCHANGED <<procs, queue, callbacks, bound>>
      /\ told' = Append(told, call)
  BY EmissionsAre DEF CallReady, Depth
<1>2. e \in Emissions /\ e.left \subseteq emitting[d].left
  BY <1>1, EmissionsAre DEF Emissions
<1>3. emitting' = [emitting EXCEPT ![d] = e]
  BY <1>1, EmissionsAre DEF CallReady, Depth, Emissions
<1>4. call \in [callback : Callbacks, port : PortNumbers, meant : BOOLEAN] /\ call.meant
  BY <1>1, EmissionsAre DEF Emissions
<1> HIDE DEF e, call
<1>5. emitting' \in Seq(Emissions) /\ Len(emitting') = Len(emitting)
  BY <1>1, <1>2, <1>3, EmissionsAre
<1>6. ASSUME NEW k \in 1 .. Len(emitting') PROVE emitting'[k].left \subseteq callbacks'
  <2>1. k \in 1 .. Len(emitting) /\ emitting[k].left \subseteq callbacks
    BY <1>5, EmissionsAre
  <2>2. emitting'[k] = IF k = d THEN e ELSE emitting[k]
    BY <1>3, <2>1, EmissionsAre
  <2>3. emitting'[k].left \subseteq emitting[k].left
    BY <1>2, <2>2
  <2> QED
    BY <1>1, <2>1, <2>3
<1>7. /\ told' \in Seq([callback : Callbacks, port : PortNumbers, meant : BOOLEAN])
      /\ Len(told') = Len(told) + 1
      /\ \A k \in 1 .. Len(told') : told'[k] = IF k <= Len(told) THEN told[k] ELSE call
  BY <1>1, <1>4, EmissionsAre
<1>8. \A k \in 1 .. Len(told') : told'[k].meant
  BY <1>4, <1>7, EmissionsAre
<1> QED
  BY <1>1, <1>5, <1>6, <1>7, <1>8, EmissionsAre, PortsApart

LEMMA ReturnKeeps == ASSUME SdkInv, NEW threw \in BOOLEAN, ReadyReturns(threw) PROVE SdkInv'
<1> DEFINE d == Len(emitting)
           e == [emitting[d] EXCEPT !.calling = FALSE]
<1>1. d \in 1 .. Len(emitting) /\ UNCHANGED <<procs, queue, callbacks, bound, told>>
  BY EmissionsAre DEF ReadyReturns, Depth
<1>2. e \in Emissions /\ e.left = emitting[d].left
  BY <1>1, EmissionsAre DEF Emissions
<1>3. emitting' = [emitting EXCEPT ![d] = e]
  BY DEF ReadyReturns, ReturnsOrThrows, Depth
<1> HIDE DEF e
<1>4. emitting' \in Seq(Emissions) /\ Len(emitting') = Len(emitting)
  BY <1>1, <1>2, <1>3, EmissionsAre
<1>5. ASSUME NEW k \in 1 .. Len(emitting') PROVE emitting'[k].left \subseteq callbacks'
  <2>1. k \in 1 .. Len(emitting) /\ emitting[k].left \subseteq callbacks
    BY <1>4, EmissionsAre
  <2>2. emitting'[k] = IF k = d THEN e ELSE emitting[k]
    BY <1>3, <2>1, EmissionsAre
  <2> QED
    BY <1>1, <1>2, <2>1, <2>2
<1> QED
  BY <1>1, <1>4, <1>5, EmissionsAre, PortsApart

LEMMA BindReturnsKeeps == ASSUME SdkInv, CallbackReturns PROVE SdkInv'
<1>1. Len(emitting) > 0 /\ emitting' = SubSeq(emitting, 1, Len(emitting) - 1)
      /\ UNCHANGED <<procs, queue, callbacks, bound, told>>
  BY DEF CallbackReturns, Depth
<1> DEFINE n == Len(emitting) - 1
<1>2. /\ emitting' \in Seq(Emissions) /\ Len(emitting') = n
      /\ \A k \in 1 .. Len(emitting') : emitting'[k] = emitting[k]
  <2>1. n \in Nat /\ n <= Len(emitting)
    BY <1>1, EmissionsAre
  <2>2. emitting' = [k \in 1 .. n |-> emitting[k]]
    BY <1>1, <2>1, EmissionsAre
  <2>3. \A k \in 1 .. n : emitting[k] \in Emissions
    BY <2>1, EmissionsAre
  <2> HIDE DEF n
  <2> QED
    BY <2>1, <2>2, <2>3
<1>3. \A k \in 1 .. Len(emitting') : emitting'[k].left \subseteq callbacks'
  BY <1>1, <1>2, EmissionsAre
<1> QED
  BY <1>1, <1>2, <1>3, EmissionsAre, PortsApart

-----------------------------------------------------------------------------
LEMMA SdkStep == SdkInv /\ [SdkNext]_sdkVars => SdkInv'
<1> SUFFICES ASSUME SdkInv, [SdkNext]_sdkVars PROVE SdkInv'
  OBVIOUS
<1>1. ASSUME NEW p \in Procs, NEW c \in Commands, Spawn(p, c) PROVE SdkInv'
  BY <1>1, SpawnKeeps
<1>2. CASE RunMicrotask
  BY <1>2, MicrotaskKeeps
<1>3. ASSUME NEW p \in Procs, Kill(p) PROVE SdkInv'
  BY <1>3, KillKeeps
<1>4. ASSUME NEW cb \in Callbacks, On(cb) \/ Off(cb) \/ CallReady(cb) PROVE SdkInv'
  BY <1>4, OnKeeps, OffKeeps, CallKeeps
<1>5. ASSUME NEW p \in PortNumbers, BindPort(p) \/ UnbindPort(p) PROVE SdkInv'
  BY <1>5, BindKeeps, UnbindKeeps
<1>6. ASSUME NEW threw \in BOOLEAN, ReadyReturns(threw) PROVE SdkInv'
  BY <1>6, ReturnKeeps
<1>7. CASE CallbackReturns \/ Teardown
  BY <1>7, BindReturnsKeeps, TeardownKeeps
<1>8. CASE UNCHANGED sdkVars
  <2>1. UNCHANGED <<procs, queue, callbacks, bound, emitting, disposed, told>>
    BY <1>8 DEF sdkVars
  <2> QED
    BY <2>1, EmissionsAre, PortsApart
<1> QED
  BY <1>1, <1>2, <1>3, <1>4, <1>5, <1>6, <1>7, <1>8 DEF SdkNext

\* The invariant holds in every state of every execution.
THEOREM SdkInvariant == SdkSpec => []SdkInv
BY SdkInitially, SdkStep, PTL DEF SdkSpec

\* A process has run, with its output closed and its exit promise settled, when
\* the caller of spawn() gets hold of it, and no callback of 'server-ready' is
\* called after it was taken out (container.ts: spawn, on, teardown).
THEOREM ToldRight == SdkSpec => []EmbedderToldRight
<1>1. SdkInv => EmbedderToldRight
  <2> SUFFICES ASSUME SdkInv PROVE SdkTypeOK
    BY DEF SdkInv, EmbedderToldRight
  <2>1. \A p \in Procs : procs[p] \in Processes
    BY DEF SdkInv, SdkTypes
  <2>2. \A p \in Procs : /\ procs[p].state \in {"none", "spawned", "handed"}
                         /\ procs[p].exit \in {0, 1, 127, Pending}
                         /\ procs[p].exit # Pending => procs[p].closed /\ procs[p].lines > 0
    BY <2>1 DEF SdkInv, ClosedOnExit, Processes
  <2> QED
    BY <2>2, EmissionsAre DEF SdkTypeOK
<1> QED
  BY <1>1, SdkInvariant, PTL

-----------------------------------------------------------------------------
(***************************************************************************)
(* Virtual ports: the fetches of the page.                                 *)
(***************************************************************************)
HIDE SchedulerAssumption
HIDE WebContainerAssumption

Outcomes == {"answer", "502", "504"} \X Nat \X Fetches
FetchRecords == [state : {"none", "reading", "waiting", "answered", "over", "dropped"}, port : Ports \cup {Absent},
                 handler : Nat, id : Nat, answers : Seq(Outcomes), threw : Nat]
Bindings == [type : {"port-bind", "port-unbind"}, port : Ports, handler : Nat]

\* The types of the variables the service worker's answers depend on.
Types ==
  /\ binds \in Nat /\ channel \in Seq(Bindings) /\ handlers \in [Ports -> Nat]
  /\ counter \in Nat /\ fetch \in [Fetches -> FetchRecords]
  /\ requests \in [Handlers -> SUBSET [id : Nat, fetch : Fetches, answered : Nat]]
  /\ replies \in [Handlers -> Seq([id : Nat, fetch : Fetches])]
  /\ DOMAIN pending \subseteq 1 .. counter
  /\ \A id \in DOMAIN pending : pending[id] \in Fetches

\* The service worker knows of a fetch: its id is one that this service worker has
\* given out, and to no other fetch that it knows of.
Known(f) == fetch[f].state \in {"reading", "waiting", "answered"}
IdsApart ==
  /\ \A f \in Fetches : fetch[f].state = "none" => fetch[f].id = 0
  /\ \A f \in Fetches : fetch[f].state \in {"reading", "waiting"} => fetch[f].id \in 1 .. counter
  /\ \A f \in Fetches : Known(f) => fetch[f].id \in 0 .. counter
  /\ \A f, g \in Fetches : Known(f) /\ Known(g) /\ fetch[f].id = fetch[g].id /\ fetch[f].id # 0 => f = g

\* A pending request is that of a fetch which waits under this very id, and every
\* fetch that waits is pending.
PendingOwn == \A id \in DOMAIN pending : fetch[pending[id]].state = "waiting" /\ fetch[pending[id]].id = id
WaitingPending ==
  \A f \in Fetches : fetch[f].state = "waiting" => fetch[f].id \in DOMAIN pending /\ pending[fetch[f].id] = f

\* The answers a fetch may have.
OwnOutcome(a, f) == a[3] = f /\ (a[1] = "answer" => a[2] = fetch[f].handler)
OwnAnswers(f) ==
  /\ fetch[f].state \in {"none", "reading", "waiting"} => fetch[f].answers = << >>
  /\ Len(fetch[f].answers) <= 1
  /\ \A k \in 1 .. Len(fetch[f].answers) : OwnOutcome(fetch[f].answers[k], f)
AnswersOwn == \A f \in Fetches : OwnAnswers(f)

\* A request or a reply at handler h is about the fetch that waits for it there, if
\* any does; no fetch is going to send a second one under the same id.
OwnMessage(m, h) ==
  /\ m.id \in 1 .. counter
  /\ m.id \in DOMAIN pending => pending[m.id] = m.fetch /\ fetch[m.fetch].handler = h
  /\ \A g \in Fetches : fetch[g].state = "reading" => fetch[g].id # m.id
RequestsOwn == \A h \in Handlers : \A r \in requests[h] : OwnMessage(r, h)
RepliesOwn == \A h \in Handlers : \A k \in 1 .. Len(replies[h]) : OwnMessage(replies[h][k], h)

IInv == Types /\ IdsApart /\ PendingOwn /\ WaitingPending /\ AnswersOwn /\ RequestsOwn /\ RepliesOwn

-----------------------------------------------------------------------------
USE NetworkAssumption

LEMMA Initially == NetworkInit => IInv
<1> SUFFICES ASSUME NetworkInit PROVE IInv
  OBVIOUS
<1>1. DOMAIN pending = {}
  BY DEF NetworkInit
<1>2. Types
  BY <1>1 DEF NetworkInit, Types, FetchRecords
<1>3. IdsApart /\ PendingOwn /\ WaitingPending /\ AnswersOwn
  BY <1>1 DEF NetworkInit, IdsApart, Known, PendingOwn, WaitingPending, AnswersOwn, OwnAnswers
<1>4. RequestsOwn /\ RepliesOwn
  BY DEF NetworkInit, RequestsOwn, RepliesOwn
<1> QED
  BY <1>2, <1>3, <1>4 DEF IInv

\* What happens to the port table does not concern the fetches.
LEMMA TableApart ==
  ASSUME IInv, UNCHANGED <<counter, pending, fetch, requests, replies>>,
         binds' \in Nat, channel' \in Seq(Bindings), handlers' \in [Ports -> Nat]
  PROVE  IInv'
<1>1. Types'
  BY DEF IInv, Types
<1>2. IdsApart' /\ PendingOwn' /\ WaitingPending' /\ AnswersOwn'
  BY DEF IInv, IdsApart, Known, PendingOwn, WaitingPending, AnswersOwn, OwnAnswers, OwnOutcome
<1>3. RequestsOwn' /\ RepliesOwn'
  BY DEF IInv, RequestsOwn, RepliesOwn, OwnMessage
<1> QED
  BY <1>1, <1>2, <1>3 DEF IInv

\* A binding is told of or not, as the host has it.
LEMMA ToldIs ==
  ASSUME NEW ch \in Seq(Bindings), NEW p \in Ports, NEW h \in Nat
  PROVE  /\ ch \o Told(p, h) = IF carries THEN Append(ch, BindMessage(p, h)) ELSE ch
         /\ ch \o Told(p, h) \in Seq(Bindings)
<1> DEFINE m == BindMessage(p, h)
<1>1. m \in Bindings
  BY DEF BindMessage, Bindings
<1> HIDE DEF m
<1>2. ch \o <<m>> = Append(ch, m) /\ Append(ch, m) \in Seq(Bindings) /\ ch \o << >> = ch
  BY <1>1
<1> QED
  BY <1>2 DEF Told, m

LEMMA TableKeeps == ASSUME IInv, Table PROVE IInv'
<1>1. binds \in Nat /\ channel \in Seq(Bindings) /\ handlers \in [Ports -> Nat]
  BY DEF IInv, Types
<1>2. \A p \in Ports, h \in Nat : BindMessage(p, h) \in Bindings /\ UnbindMessage(p) \in Bindings
  BY DEF BindMessage, UnbindMessage, Bindings
<1>3. ASSUME NEW p \in Ports, NEW pid \in Pids, Bind(p, pid) PROVE IInv'
  <2>1. /\ binds' = binds + 1 /\ channel' = channel \o Told(p, binds + 1)
        /\ UNCHANGED <<counter, pending, fetch, requests, replies, handlers>>
    BY <1>3 DEF Bind, workerVars
  <2>2. binds + 1 \in Nat
    BY <1>1
  <2>3. channel' \in Seq(Bindings)
    BY <1>1, <2>1, <2>2, ToldIs
  <2> QED
    BY <1>1, <2>1, <2>2, <2>3, TableApart
<1>4. ASSUME NEW p \in Ports, Unbind(p) PROVE IInv'
  BY <1>1, <1>2, <1>4, TableApart DEF Unbind, workerVars
<1>5. ASSUME NEW p \in Ports, SweepPasses(p) PROVE IInv'
  BY <1>1, <1>5, TableApart DEF SweepPasses, workerVars
<1>6. ASSUME NEW pid \in Pids \cup {Absent}, SweepStarts(pid) PROVE IInv'
  BY <1>1, <1>6, TableApart DEF SweepStarts, workerVars
<1>7. ASSUME NEW p \in Ports, NEW rebinds \in Ports \cup {Absent}, NEW pid \in Pids, SweepVisits(p, rebinds, pid)
      PROVE  IInv'
  <2>1. /\ binds' = IF rebinds # Absent THEN binds + 1 ELSE binds
        /\ channel' = Append(channel, UnbindMessage(p))
                        \o (IF rebinds # Absent THEN Told(rebinds, binds + 1) ELSE << >>)
        /\ UNCHANGED <<counter, pending, fetch, requests, replies, handlers>>
    BY <1>7 DEF SweepVisits, workerVars
  <2>2. Append(channel, UnbindMessage(p)) \in Seq(Bindings)
    BY <1>1, <1>2
  <2>3. CASE rebinds = Absent
    <3>1. channel' = Append(channel, UnbindMessage(p)) \o << >> /\ << >> \in Seq(Bindings)
      BY <2>1, <2>3
    <3>2. channel' \in Seq(Bindings)
      BY <2>2, <3>1
    <3> QED
      BY <1>1, <2>1, <2>3, <3>2, TableApart
  <2>4. CASE rebinds # Absent
    <3>1. rebinds \in Ports /\ binds + 1 \in Nat
      BY <1>1, <2>4
    <3>2. channel' \in Seq(Bindings)
      BY <2>1, <2>2, <2>4, <3>1, ToldIs
    <3> QED
      BY <1>1, <2>1, <2>4, <3>2, TableApart
  <2> QED
    BY <2>3, <2>4
<1>8. CASE SweepEnds
  BY <1>1, <1>8, TableApart DEF SweepEnds, workerVars
<1> QED
  BY <1>3, <1>4, <1>5, <1>6, <1>7, <1>8 DEF Table

LEMMA ReceiveKeeps == ASSUME IInv, ReceiveBinding PROVE IInv'
<1>1. /\ channel # << >> /\ channel \in Seq(Bindings) /\ handlers \in [Ports -> Nat] /\ binds \in Nat
      /\ channel' = Tail(channel) /\ handlers' = [handlers EXCEPT ![Head(channel).port] = Head(channel).handler]
      /\ UNCHANGED <<binds, counter, pending, fetch, requests, replies>>
  BY DEF IInv, Types, ReceiveBinding, Applied, tableVars
<1>2. Head(channel) \in Bindings /\ Tail(channel) \in Seq(Bindings)
  BY <1>1
<1>3. handlers' \in [Ports -> Nat]
  BY <1>1, <1>2 DEF Bindings
<1> QED
  BY <1>1, <1>2, <1>3, TableApart

-----------------------------------------------------------------------------
\* A service worker that has stopped knows of no fetch.
LEMMA StopKeeps == ASSUME IInv, Stop PROVE IInv'
<1>1. /\ \A f \in Fetches : fetch[f].state \notin {"reading", "waiting", "dropped"}
      /\ handlers' = [p \in Ports |-> 0] /\ counter' = 0 /\ pending' = << >> /\ channel' = << >>
      /\ fetch' = [f \in Fetches |-> [fetch[f] EXCEPT !.state = IF @ = "answered" THEN "over" ELSE @]]
      /\ requests' = [h \in Handlers |-> {}] /\ replies' = [h \in Handlers |-> << >>]
      /\ binds' = binds
  BY DEF Stop, tableVars
<1>2. /\ DOMAIN pending' = {}
      /\ fetch \in [Fetches -> FetchRecords] /\ binds \in Nat
  BY <1>1 DEF IInv, Types
<1>3. ASSUME NEW f \in Fetches
      PROVE  /\ fetch'[f] \in FetchRecords
             /\ fetch'[f].state = "none" \/ fetch'[f].state = "over"
             /\ fetch'[f].state = "none" => fetch[f].state = "none"
             /\ fetch'[f].answers = fetch[f].answers /\ fetch'[f].handler = fetch[f].handler
             /\ fetch'[f].id = fetch[f].id
  BY <1>1, <1>2 DEF FetchRecords
<1>4. Types'
  <2>1. fetch' \in [Fetches -> FetchRecords]
    BY <1>1, <1>3
  <2>2. DOMAIN pending' \subseteq 1 .. counter' /\ \A id \in DOMAIN pending' : pending'[id] \in Fetches
    BY <1>2
  <2>3. channel' \in Seq(Bindings) /\ handlers' \in [Ports -> Nat] /\ binds' \in Nat /\ counter' \in Nat
    BY <1>1, <1>2
  <2>4. /\ requests' \in [Handlers -> SUBSET [id : Nat, fetch : Fetches, answered : Nat]]
        /\ replies' \in [Handlers -> Seq([id : Nat, fetch : Fetches])]
    BY <1>1 DEF Handlers
  <2> QED
    BY <2>1, <2>2, <2>3, <2>4 DEF Types, Handlers
<1>5. IdsApart'
  BY <1>3 DEF IInv, IdsApart, Known
<1>6. PendingOwn' /\ WaitingPending'
  BY <1>2, <1>3 DEF PendingOwn, WaitingPending
<1>7. AnswersOwn'
  BY <1>3 DEF IInv, AnswersOwn, OwnAnswers, OwnOutcome
<1>8. RequestsOwn' /\ RepliesOwn'
  BY <1>1 DEF RequestsOwn, RepliesOwn
<1> QED
  BY <1>4, <1>5, <1>6, <1>7, <1>8 DEF IInv

\* Requests and replies are no concern of a step that registers nothing.
LEMMA MessagesStay ==
  ASSUME IInv, NEW m, NEW h, OwnMessage(m, h), counter' = counter,
         \A id \in DOMAIN pending' : id \in DOMAIN pending /\ pending'[id] = pending[id],
         \A g \in Fetches : fetch[g].state # "none" => fetch'[g].handler = fetch[g].handler,
         \A g \in Fetches : fetch'[g].state = "reading" => fetch[g].state = "reading" /\ fetch'[g].id = fetch[g].id
  PROVE  OwnMessage(m, h)'
<1>1. m.id \in DOMAIN pending' => pending'[m.id] = m.fetch /\ fetch'[m.fetch].handler = h
  <2> SUFFICES ASSUME m.id \in DOMAIN pending' PROVE pending'[m.id] = m.fetch /\ fetch'[m.fetch].handler = h
    OBVIOUS
  <2>1. m.id \in DOMAIN pending /\ pending'[m.id] = pending[m.id]
    OBVIOUS
  <2>2. m.fetch \in Fetches /\ fetch[m.fetch].state = "waiting"
    BY <2>1 DEF IInv, Types, PendingOwn, OwnMessage
  <2> QED
    BY <2>1, <2>2 DEF OwnMessage
<1> QED
  BY <1>1 DEF OwnMessage

\* What is left of Types when the port table is not concerned.
LEMMA TypesStay ==
  ASSUME IInv, UNCHANGED <<binds, channel, handlers>>, counter' \in Nat, fetch' \in [Fetches -> FetchRecords],
         requests' \in [Handlers -> SUBSET [id : Nat, fetch : Fetches, answered : Nat]],
         replies' \in [Handlers -> Seq([id : Nat, fetch : Fetches])],
         \A id \in DOMAIN pending' : id \in 1 .. counter' /\ pending'[id] \in Fetches
  PROVE  Types'
<1>1. binds \in Nat /\ channel \in Seq(Bindings) /\ handlers \in [Ports -> Nat]
  BY DEF IInv, Types
<1>2. DOMAIN pending' \subseteq 1 .. counter'
  OBVIOUS
<1> QED
  BY <1>1, <1>2 DEF Types, Handlers

\* The invariant's types, as the steps use them.
LEMMA TypesAre ==
  ASSUME IInv
  PROVE  /\ counter \in Nat /\ fetch \in [Fetches -> FetchRecords] /\ handlers \in [Ports -> Nat]
         /\ requests \in [Handlers -> SUBSET [id : Nat, fetch : Fetches, answered : Nat]]
         /\ replies \in [Handlers -> Seq([id : Nat, fetch : Fetches])]
         /\ \A id \in DOMAIN pending : id \in 1 .. counter /\ pending[id] \in Fetches
BY DEF IInv, Types

\* One fetch gets the answers it may have.
LEMMA AnswersStay ==
  ASSUME IInv, NEW f \in Fetches, \A g \in Fetches : g # f => fetch'[g] = fetch[g], OwnAnswers(f)'
  PROVE  AnswersOwn'
<1>1. ASSUME NEW g \in Fetches, g # f PROVE OwnAnswers(g)'
  <2>1. fetch'[g] = fetch[g]
    BY <1>1
  <2> QED
    BY <2>1 DEF IInv, AnswersOwn, OwnAnswers, OwnOutcome
<1> QED
  BY <1>1 DEF AnswersOwn

\* A fetch that does not wait, and did not, has nothing to do with what is pending.
LEMMA PendingStays ==
  ASSUME IInv, NEW f \in Fetches, \A g \in Fetches : g # f => fetch'[g] = fetch[g],
         fetch[f].state # "waiting", fetch'[f].state # "waiting", pending' = pending
  PROVE  PendingOwn' /\ WaitingPending'
<1>1. \A id \in DOMAIN pending : pending[id] \in Fetches /\ pending[id] # f
  BY TypesAre DEF IInv, PendingOwn
<1>2. PendingOwn'
  BY <1>1 DEF IInv, PendingOwn
<1>3. WaitingPending'
  BY DEF IInv, WaitingPending
<1> QED
  BY <1>2, <1>3

LEMMA UnknownKeeps == ASSUME IInv, NEW f \in Fetches, NEW p \in Ports, FetchUnknown(f, p) PROVE IInv'
<1> DEFINE a == <<"502", 0, f>>
<1>1. /\ fetch[f].state = "none" /\ fetch \in [Fetches -> FetchRecords] /\ fetch[f].answers = << >> /\ fetch[f].id = 0
      /\ UNCHANGED <<binds, channel, handlers, counter, pending, requests, replies>>
  BY DEF IInv, Types, AnswersOwn, OwnAnswers, IdsApart, FetchUnknown, tableVars, workerVars
<1>2. a \in Outcomes /\ a[3] = f /\ a[1] # "answer"
  BY DEF Outcomes
<1>3. /\ fetch' \in [Fetches -> FetchRecords]
      /\ \A g \in Fetches : g # f => fetch'[g] = fetch[g]
      /\ fetch'[f].state = "answered" /\ fetch'[f].answers = <<a>>
      /\ fetch'[f].handler = fetch[f].handler /\ fetch'[f].id = 0
  <2>1. fetch' = [[fetch EXCEPT ![f].state = "answered", ![f].answers = Append(@, a)] EXCEPT ![f].port = p]
    BY DEF FetchUnknown, Answers
  <2>2. fetch' = [fetch EXCEPT ![f] = [fetch[f] EXCEPT !.state = "answered", !.answers = Append(@, a), !.port = p]]
    BY <1>1, <2>1 DEF FetchRecords
  <2> HIDE DEF a
  <2>3. Append(fetch[f].answers, a) = <<a>> /\ <<a>> \in Seq(Outcomes)
    BY <1>1, <1>2
  <2> QED
    BY <1>1, <1>2, <2>2, <2>3 DEF FetchRecords
<1> HIDE DEF a
<1>4. Types'
  BY <1>1, <1>3, TypesAre, TypesStay
<1>5. IdsApart'
  <2>1. \A g \in Fetches : /\ fetch'[g].id = fetch[g].id
                           /\ g # f /\ Known(g)' => Known(g)
                           /\ fetch'[g].state \in {"reading", "waiting"} => fetch[g].state = fetch'[g].state
                           /\ fetch'[g].state = "none" => fetch[g].state = "none"
    BY <1>1, <1>3 DEF Known
  <2>2. \A g \in Fetches : Known(g)' /\ fetch'[g].id # 0 => Known(g)
    BY <1>3, <2>1
  <2>3. \A g \in Fetches : Known(g)' => fetch'[g].id \in 0 .. counter
    BY <1>3, <2>1, TypesAre DEF IInv, IdsApart
  <2>4. \A g, k \in Fetches : Known(g)' /\ Known(k)' /\ fetch'[g].id = fetch'[k].id /\ fetch'[g].id # 0 => g = k
    BY <2>1, <2>2 DEF IInv, IdsApart
  <2> QED
    BY <1>1, <2>1, <2>3, <2>4 DEF IInv, IdsApart
<1>6. PendingOwn' /\ WaitingPending'
  BY <1>1, <1>3, PendingStays
<1>7. AnswersOwn'
  <2>1. Len(fetch'[f].answers) = 1 /\ \A k \in 1 .. 1 : fetch'[f].answers[k] = a
    BY <1>3
  <2>2. OwnOutcome(a, f)'
    BY <1>2 DEF OwnOutcome
  <2>3. OwnAnswers(f)'
    BY <1>3, <2>1, <2>2 DEF OwnAnswers
  <2> QED
    BY <1>3, <2>3, AnswersStay
<1>8. RequestsOwn' /\ RepliesOwn'
  <2>1. \A m, h : OwnMessage(m, h) => OwnMessage(m, h)'
    BY <1>1, <1>3, MessagesStay
  <2> QED
    BY <1>1, <2>1 DEF IInv, RequestsOwn, RepliesOwn
<1> QED
  BY <1>4, <1>5, <1>6, <1>7, <1>8 DEF IInv

Reading(s, p, h, n) == [s EXCEPT !.state = "reading", !.port = p, !.handler = h, !.id = n + 1]
LEMMA ReadingIs ==
  ASSUME NEW s \in FetchRecords, NEW p \in Ports, NEW h \in Nat, NEW n \in Nat
  PROVE  /\ Reading(s, p, h, n) \in FetchRecords
         /\ Reading(s, p, h, n).state = "reading" /\ Reading(s, p, h, n).answers = s.answers
         /\ Reading(s, p, h, n).id = n + 1
<1>1. n + 1 \in Nat
  OBVIOUS
<1> QED
  BY <1>1 DEF Reading, FetchRecords

\* A request has an id that no other one has.
LEMMA KnownKeeps == ASSUME IInv, NEW f \in Fetches, NEW p \in Ports, FetchKnown(f, p) PROVE IInv'
<1>1. /\ fetch[f].state = "none" /\ fetch \in [Fetches -> FetchRecords] /\ fetch[f].answers = << >>
      /\ counter \in Nat /\ counter' = counter + 1 /\ handlers[p] \in Nat
      /\ fetch' = [fetch EXCEPT ![f].state = "reading", ![f].port = p,
                                ![f].handler = handlers[p], ![f].id = counter + 1]
      /\ UNCHANGED <<binds, channel, handlers, pending, requests, replies>>
  BY DEF IInv, Types, AnswersOwn, OwnAnswers, FetchKnown, RequestId, tableVars, workerVars
<1>2. /\ fetch' \in [Fetches -> FetchRecords]
      /\ \A g \in Fetches : g # f => fetch'[g] = fetch[g]
      /\ fetch'[f].state = "reading" /\ fetch'[f].answers = << >> /\ fetch'[f].id = counter + 1
  <2>1. fetch' = [fetch EXCEPT ![f] = Reading(fetch[f], p, handlers[p], counter)]
    BY <1>1 DEF FetchRecords, Reading
  <2>2. fetch[f] \in FetchRecords /\ handlers[p] \in Nat /\ counter \in Nat /\ fetch \in [Fetches -> FetchRecords]
    BY <1>1
  <2> DEFINE r == Reading(fetch[f], p, handlers[p], counter)
  <2>3. r \in FetchRecords /\ r.state = "reading" /\ r.answers = fetch[f].answers /\ r.id = counter + 1
    <3>1. \A s \in FetchRecords : Reading(s, p, handlers[p], counter).answers = s.answers
      BY <2>2, ReadingIs
    <3>2. Reading(fetch[f], p, handlers[p], counter).answers = fetch[f].answers
      BY <2>2, <3>1
    <3>3. Reading(fetch[f], p, handlers[p], counter) \in FetchRecords
      BY <2>2, ReadingIs
    <3>4. Reading(fetch[f], p, handlers[p], counter).state = "reading"
      BY <2>2, ReadingIs
    <3>5. Reading(fetch[f], p, handlers[p], counter).id = counter + 1
      BY <2>2, ReadingIs
    <3> QED
      BY <3>2, <3>3, <3>4, <3>5
  <2>4. fetch' = [fetch EXCEPT ![f] = r]
    BY <2>1
  <2>5. fetch[f].answers = << >>
    BY <1>1
  <2> HIDE DEF r
  <2> QED
    BY <2>2, <2>3, <2>4, <2>5
<1>3. Types'
  <2>1. \A id \in DOMAIN pending' : id \in 1 .. counter' /\ pending'[id] \in Fetches
    BY <1>1, TypesAre
  <2>2. UNCHANGED <<binds, channel, handlers, requests, replies>> /\ counter' \in Nat
    BY <1>1
  <2> QED
    BY <1>2, <2>1, <2>2, TypesAre, TypesStay
<1>4. IdsApart'
  <2>1. \A g \in Fetches : g # f /\ Known(g)' => Known(g) /\ fetch'[g].id = fetch[g].id /\ fetch'[g].id \in 0 .. counter
    BY <1>2 DEF IInv, IdsApart, Known
  <2>2. \A g \in Fetches : fetch'[g].state = "none" => fetch'[g].id = 0
    BY <1>2 DEF IInv, IdsApart
  <2>3. \A g \in Fetches : fetch'[g].state \in {"reading", "waiting"} => fetch'[g].id \in 1 .. counter'
    BY <1>1, <1>2 DEF IInv, IdsApart
  <2>4. \A g \in Fetches : Known(g)' => fetch'[g].id \in 0 .. counter'
    BY <1>1, <1>2, <2>1
  <2>5. \A g, k \in Fetches : Known(g)' /\ Known(k)' /\ fetch'[g].id = fetch'[k].id /\ fetch'[g].id # 0 => g = k
    BY <1>1, <1>2, <2>1 DEF IInv, IdsApart
  <2> QED
    BY <2>2, <2>3, <2>4, <2>5 DEF IdsApart, Known
<1>5. PendingOwn' /\ WaitingPending'
  BY <1>1, <1>2, PendingStays
<1>6. AnswersOwn'
  <2>1. Len(fetch'[f].answers) = 0
    BY <1>2
  <2> QED
    BY <1>2, <2>1, AnswersStay DEF OwnAnswers
<1>7. \A m, h : OwnMessage(m, h) => OwnMessage(m, h)'
  <2> SUFFICES ASSUME NEW m, NEW h, OwnMessage(m, h) PROVE OwnMessage(m, h)'
    OBVIOUS
  <2>1. m.id \in 1 .. counter /\ m.id # counter + 1 /\ m.id \in 1 .. counter'
    BY <1>1 DEF OwnMessage
  <2>2. ASSUME m.id \in DOMAIN pending' PROVE pending'[m.id] = m.fetch /\ fetch'[m.fetch].handler = h
    <3>1. pending[m.id] = m.fetch /\ fetch[m.fetch].handler = h /\ m.fetch \in Fetches /\ fetch[m.fetch].state = "waiting"
      BY <1>1, <2>2 DEF IInv, Types, PendingOwn, OwnMessage
    <3> QED
      BY <1>1, <1>2, <3>1
  <2>3. \A g \in Fetches : fetch'[g].state = "reading" => fetch'[g].id # m.id
    BY <1>2, <2>1 DEF OwnMessage
  <2> QED
    BY <2>1, <2>2, <2>3 DEF OwnMessage
<1>8. RequestsOwn' /\ RepliesOwn'
  BY <1>1, <1>7 DEF IInv, RequestsOwn, RepliesOwn
<1> QED
  BY <1>3, <1>4, <1>5, <1>6, <1>8 DEF IInv

\* The request is registered before it is sent; no other one has its id.
LEMMA ForwardKeeps == ASSUME IInv, NEW f \in Fetches, ForwardToHandler(f) PROVE IInv'
<1> DEFINE id == fetch[f].id
           t == fetch[f].handler
           new == [id |-> id, fetch |-> f, answered |-> 0]
<1>1. /\ fetch[f].state = "reading" /\ fetch \in [Fetches -> FetchRecords] /\ fetch[f].answers = << >>
      /\ id \in 1 .. counter /\ counter \in Nat
      /\ UNCHANGED <<binds, channel, handlers, counter, replies>>
  BY DEF IInv, Types, IdsApart, AnswersOwn, OwnAnswers, ForwardToHandler, tableVars
<1>2. /\ fetch' = [fetch EXCEPT ![f].state = "waiting"]
      /\ pending' = [i \in DOMAIN pending \cup {id} |-> IF i = id THEN f ELSE pending[i]]
      /\ requests' = [requests EXCEPT ![t] = @ \cup {new}]
  BY DEF ForwardToHandler, Target
<1>3. id \notin DOMAIN pending
  BY <1>1, TypesAre DEF IInv, PendingOwn, IdsApart, Known
<1>4. /\ fetch' \in [Fetches -> FetchRecords]
      /\ \A g \in Fetches : g # f => fetch'[g] = fetch[g]
      /\ fetch'[f].state = "waiting" /\ fetch'[f].answers = << >> /\ fetch'[f].id = id /\ fetch'[f].handler = t
  BY <1>1, <1>2 DEF FetchRecords
<1>5. new \in [id : Nat, fetch : Fetches, answered : Nat] /\ new.id = id /\ new.fetch = f
  BY <1>1
<1> HIDE DEF new, id, t
<1>6. /\ DOMAIN pending' = DOMAIN pending \cup {id} /\ pending'[id] = f
      /\ \A i \in DOMAIN pending : pending'[i] = pending[i]
  BY <1>2, <1>3
<1>7. requests' \in [Handlers -> SUBSET [id : Nat, fetch : Fetches, answered : Nat]]
      /\ \A h \in Handlers : \A r \in requests'[h] : r \in requests[h] \/ (r = new /\ h = t)
  BY <1>2, <1>5, TypesAre
<1>8. Types'
  <2>1. \A i \in DOMAIN pending' : i \in 1 .. counter' /\ pending'[i] \in Fetches
    BY <1>1, <1>6, TypesAre
  <2> QED
    BY <1>1, <1>4, <1>7, <2>1, TypesAre, TypesStay
<1>9. IdsApart'
  <2>1. \A g \in Fetches : fetch'[g].id = fetch[g].id /\ (Known(g)' <=> Known(g))
                          /\ (fetch'[g].state \in {"reading", "waiting"} <=> fetch[g].state \in {"reading", "waiting"})
                          /\ (fetch'[g].state = "none" => fetch[g].state = "none")
    BY <1>1, <1>4 DEF Known, id
  <2> QED
    BY <1>1, <2>1 DEF IInv, IdsApart
<1>10. PendingOwn'
  <2>1. \A i \in DOMAIN pending : pending[i] \in Fetches /\ pending[i] # f
    BY <1>1, TypesAre DEF IInv, PendingOwn
  <2> QED
    BY <1>4, <1>6, <2>1 DEF IInv, PendingOwn
<1>11. WaitingPending'
  BY <1>4, <1>6 DEF IInv, WaitingPending
<1>12. AnswersOwn'
  <2>1. Len(fetch'[f].answers) = 0
    BY <1>4
  <2>2. OwnAnswers(f)'
    BY <1>4, <2>1 DEF OwnAnswers
  <2> QED
    BY <1>4, <2>2, AnswersStay
<1>13. \A m, h : OwnMessage(m, h) => OwnMessage(m, h)'
  <2> SUFFICES ASSUME NEW m, NEW h, OwnMessage(m, h) PROVE OwnMessage(m, h)'
    OBVIOUS
  <2>1. m.id # id /\ m.id \in 1 .. counter'
    BY <1>1 DEF OwnMessage, id
  <2>2. ASSUME m.id \in DOMAIN pending' PROVE pending'[m.id] = m.fetch /\ fetch'[m.fetch].handler = h
    <3>1. m.id \in DOMAIN pending
      BY <1>6, <2>1, <2>2
    <3>2. pending[m.id] = m.fetch /\ fetch[m.fetch].handler = h /\ m.fetch \in Fetches
      BY <3>1, TypesAre DEF OwnMessage
    <3>3. fetch'[m.fetch].handler = fetch[m.fetch].handler
      BY <1>4, <3>2 DEF t
    <3> QED
      BY <1>6, <3>1, <3>2, <3>3
  <2>3. \A g \in Fetches : fetch'[g].state = "reading" => fetch'[g].id # m.id
    BY <1>4 DEF OwnMessage
  <2> QED
    BY <2>1, <2>2, <2>3 DEF OwnMessage
<1>14. ASSUME NEW m, NEW h, m = new, h = t PROVE OwnMessage(m, h)'
  <2>1. \A g \in Fetches : fetch'[g].state = "reading" => fetch'[g].id # id
    BY <1>1, <1>4 DEF IInv, IdsApart, Known, id
  <2>2. pending'[id] = f /\ fetch'[f].handler = t /\ id \in 1 .. counter'
    BY <1>1, <1>4, <1>6
  <2> QED
    BY <1>5, <1>14, <2>1, <2>2 DEF OwnMessage
<1>15. RequestsOwn'
  BY <1>7, <1>13, <1>14 DEF IInv, RequestsOwn
<1>16. RepliesOwn'
  BY <1>1, <1>13 DEF IInv, RepliesOwn
<1> QED
  BY <1>8, <1>9, <1>10, <1>11, <1>12, <1>15, <1>16 DEF IInv

-----------------------------------------------------------------------------
\* A fetch waits no more, and its request is no longer pending.
LEMMA SettlingKeeps ==
  ASSUME IInv, NEW f \in Fetches, fetch[f].state = "waiting",
         NEW r \in FetchRecords, r.state \in {"answered", "over", "dropped"},
         r.id = fetch[f].id, r.handler = fetch[f].handler,
         Len(r.answers) <= 1, \A k \in 1 .. Len(r.answers) : OwnOutcome(r.answers[k], f),
         fetch' = [fetch EXCEPT ![f] = r],
         pending' = Without(fetch[f].id), UNCHANGED <<binds, channel, handlers, counter, requests>>,
         replies' \in [Handlers -> Seq([id : Nat, fetch : Fetches])],
         \A h \in Handlers : \A k \in 1 .. Len(replies'[h]) : OwnMessage(replies'[h][k], h)
  PROVE  IInv'
<1> DEFINE id == fetch[f].id
<1>1. /\ fetch \in [Fetches -> FetchRecords] /\ fetch[f] \in FetchRecords /\ fetch[f].answers = << >>
      /\ counter \in Nat
  BY DEF IInv, Types, AnswersOwn, OwnAnswers
<1>2. /\ \A i \in DOMAIN pending' : i \in DOMAIN pending /\ i # id /\ pending'[i] = pending[i]
      /\ \A i \in DOMAIN pending : i # id => i \in DOMAIN pending'
  BY DEF Without
<1>5. /\ fetch' \in [Fetches -> FetchRecords]
      /\ \A g \in Fetches : g # f => fetch'[g] = fetch[g]
      /\ fetch'[f] = r /\ fetch'[f].state \in {"answered", "over", "dropped"}
      /\ fetch'[f].id = id /\ fetch'[f].handler = fetch[f].handler
  BY <1>1
<1> HIDE DEF id
<1>6. Types'
  <2>1. \A i \in DOMAIN pending' : i \in 1 .. counter' /\ pending'[i] \in Fetches
    BY <1>2, TypesAre
  <2> QED
    BY <1>1, <1>5, <2>1, TypesAre, TypesStay
<1>7. IdsApart'
  <2>1. \A g \in Fetches : fetch'[g].id = fetch[g].id /\ (Known(g)' => Known(g))
                          /\ (fetch'[g].state \in {"reading", "waiting"} => fetch[g].state \in {"reading", "waiting"})
                          /\ (fetch'[g].state = "none" => fetch[g].state = "none")
    BY <1>5 DEF Known, id
  <2> QED
    BY <2>1 DEF IInv, IdsApart
<1>8. PendingOwn'
  <2>1. \A i \in DOMAIN pending' : pending[i] \in Fetches /\ pending[i] # f
    BY <1>2, TypesAre DEF IInv, PendingOwn, id
  <2> QED
    BY <1>2, <1>5, <2>1 DEF IInv, PendingOwn
<1>9. WaitingPending'
  <2> SUFFICES ASSUME NEW g \in Fetches, fetch'[g].state = "waiting"
               PROVE  fetch'[g].id \in DOMAIN pending' /\ pending'[fetch'[g].id] = g
    BY DEF WaitingPending
  <2>1. g # f /\ fetch'[g] = fetch[g]
    BY <1>5
  <2>2. fetch[g].id \in DOMAIN pending /\ pending[fetch[g].id] = g
    BY <2>1 DEF IInv, WaitingPending
  <2>3. fetch[g].id # id
    BY <2>1, <2>2 DEF IInv, WaitingPending, id
  <2> QED
    BY <1>2, <2>1, <2>2, <2>3
<1>10. AnswersOwn'
  <2>1. \A k \in 1 .. Len(r.answers) : OwnOutcome(r.answers[k], f)'
    BY <1>5 DEF OwnOutcome
  <2>2. OwnAnswers(f)'
    BY <1>5, <2>1 DEF OwnAnswers
  <2> QED
    BY <1>5, <2>2, AnswersStay
<1>11. \A m, h : OwnMessage(m, h) => OwnMessage(m, h)'
  <2>1. \A g \in Fetches : fetch'[g].handler = fetch[g].handler
                           /\ (fetch'[g].state = "reading" => fetch[g].state = "reading" /\ fetch'[g].id = fetch[g].id)
    BY <1>5
  <2> QED
    BY <1>2, <2>1, MessagesStay
<1>12. RequestsOwn'
  BY <1>11 DEF IInv, RequestsOwn
<1>13. RepliesOwn'
  <2>1. \A h \in Handlers : \A k \in 1 .. Len(replies'[h]) : \A m : m = replies'[h][k] => OwnMessage(m, h)'
    BY <1>11
  <2> QED
    BY <2>1 DEF RepliesOwn, Handlers
<1> QED
  BY <1>6, <1>7, <1>8, <1>9, <1>10, <1>12, <1>13 DEF IInv

\* ... as it is answered.
LEMMA AnsweringKeeps ==
  ASSUME IInv, NEW f \in Fetches, fetch[f].state = "waiting",
         NEW a \in Outcomes, OwnOutcome(a, f), NEW s \in {"answered", "over"},
         fetch' = [fetch EXCEPT ![f] = [fetch[f] EXCEPT !.state = s, !.answers = Append(@, a)]],
         pending' = Without(fetch[f].id), UNCHANGED <<binds, channel, handlers, counter, requests>>,
         replies' \in [Handlers -> Seq([id : Nat, fetch : Fetches])],
         \A h \in Handlers : \A k \in 1 .. Len(replies'[h]) : OwnMessage(replies'[h][k], h)
  PROVE  IInv'
<1> DEFINE r == [fetch[f] EXCEPT !.state = s, !.answers = Append(@, a)]
           own == r.answers
<1>1. fetch[f] \in FetchRecords /\ fetch[f].answers = << >>
  BY DEF IInv, Types, AnswersOwn, OwnAnswers
<1>2. <<a>> \in Seq(Outcomes) /\ Append(fetch[f].answers, a) = <<a>>
  BY <1>1
<1>3. r \in FetchRecords /\ r.state = s /\ own = <<a>> /\ r.id = fetch[f].id /\ r.handler = fetch[f].handler
  BY <1>1, <1>2 DEF FetchRecords
<1>4. fetch' = [fetch EXCEPT ![f] = r]
  OBVIOUS
<1> HIDE DEF own
<1>5. Len(own) <= 1 /\ \A k \in 1 .. Len(own) : OwnOutcome(own[k], f)
  <2>1. Len(own) = 1 /\ \A k \in 1 .. 1 : own[k] = a
    BY <1>3
  <2> QED
    BY <2>1
<1>6. Len(r.answers) <= 1 /\ \A k \in 1 .. Len(r.answers) : OwnOutcome(r.answers[k], f)
  BY <1>5 DEF own
<1> HIDE DEF r
<1> QED
  BY <1>3, <1>4, <1>6, SettlingKeeps

\* ... or as the answer to it is thrown away.
LEMMA DroppingKeeps ==
  ASSUME IInv, NEW f \in Fetches, fetch[f].state = "waiting", NEW h \in Nat, fetch' = Dropped(f, h),
         pending' = Without(fetch[f].id), UNCHANGED <<binds, channel, handlers, counter, requests>>,
         replies' \in [Handlers -> Seq([id : Nat, fetch : Fetches])],
         \A g \in Handlers : \A k \in 1 .. Len(replies'[g]) : OwnMessage(replies'[g][k], g)
  PROVE  IInv'
<1> DEFINE r == [fetch[f] EXCEPT !.state = "dropped", !.threw = h]
<1>1. fetch \in [Fetches -> FetchRecords] /\ fetch[f] \in FetchRecords /\ Len(fetch[f].answers) = 0
  BY DEF IInv, Types, AnswersOwn, OwnAnswers
<1>2. /\ r \in FetchRecords /\ r.state = "dropped" /\ r.id = fetch[f].id /\ r.handler = fetch[f].handler
      /\ r.answers = fetch[f].answers
  BY <1>1 DEF FetchRecords
<1>3. fetch' = [fetch EXCEPT ![f] = r]
  BY <1>1 DEF Dropped, FetchRecords
<1>4. Len(r.answers) = 0
  BY <1>1, <1>2
<1> HIDE DEF r
<1>5. Len(r.answers) <= 1 /\ \A k \in 1 .. Len(r.answers) : OwnOutcome(r.answers[k], f)
  BY <1>4
<1> QED
  BY <1>2, <1>3, <1>5, SettlingKeeps

\* The timer of a fetch only answers it if it waits.
LEMMA TimerKeeps == ASSUME IInv, NEW f \in Fetches, TimerFires(f) PROVE IInv'
<1>1. /\ fetch[f].state \in {"waiting", "answered"} /\ fetch[f].id # 0 /\ Timeout(f)
      /\ fetch \in [Fetches -> FetchRecords] /\ fetch[f] \in FetchRecords
      /\ UNCHANGED <<binds, channel, handlers, counter, requests, replies>>
  BY DEF IInv, Types, TimerFires, tableVars
<1>2. CASE fetch[f].id \in DOMAIN pending
  <2> DEFINE a == <<"504", 0, f>>
  <2>1. fetch[f].state = "waiting"
    <3>1. pending[fetch[f].id] \in Fetches /\ fetch[pending[fetch[f].id]].state = "waiting"
          /\ fetch[pending[fetch[f].id]].id = fetch[f].id
      BY <1>2, TypesAre DEF IInv, PendingOwn
    <3>2. pending[fetch[f].id] = f
      BY <1>1, <3>1 DEF IInv, IdsApart, Known
    <3> QED
      BY <3>1, <3>2
  <2>2. a \in Outcomes /\ OwnOutcome(a, f)
    BY DEF Outcomes, OwnOutcome
  <2>3. fetch' = [fetch EXCEPT ![f] = [fetch[f] EXCEPT !.state = "over", !.answers = Append(@, a)]]
    BY <1>1, <1>2 DEF Timeout, Answers, FetchRecords
  <2>4. pending' = Without(fetch[f].id)
    BY <1>1, <1>2 DEF Timeout
  <2> HIDE DEF a
  <2>5. \A h \in Handlers : \A k \in 1 .. Len(replies'[h]) : OwnMessage(replies'[h][k], h)
    BY <1>1 DEF IInv, RepliesOwn
  <2> QED
    BY <1>1, <2>1, <2>2, <2>3, <2>4, <2>5, TypesAre, AnsweringKeeps
<1>3. CASE fetch[f].id \notin DOMAIN pending
  <2>1. fetch[f].state = "answered"
    BY <1>1, <1>3 DEF IInv, WaitingPending
  <2>a. pending' = pending /\ fetch' = [fetch EXCEPT ![f].state = "over"]
    BY <1>1, <1>3 DEF Timeout
  <2>2. /\ pending' = pending
        /\ fetch' \in [Fetches -> FetchRecords]
        /\ \A g \in Fetches : g # f => fetch'[g] = fetch[g]
        /\ fetch'[f].state = "over" /\ fetch'[f].answers = fetch[f].answers
        /\ fetch'[f].id = fetch[f].id /\ fetch'[f].handler = fetch[f].handler
    BY <1>1, <2>a DEF FetchRecords
  <2>3. Types'
    BY <1>1, <2>2, TypesAre, TypesStay
  <2>4. IdsApart'
    <3>1. \A g \in Fetches : fetch'[g].id = fetch[g].id /\ (Known(g)' => Known(g))
                            /\ (fetch'[g].state \in {"reading", "waiting"} => fetch[g].state \in {"reading", "waiting"})
                            /\ (fetch'[g].state = "none" => fetch[g].state = "none")
      BY <2>2 DEF Known
    <3> QED
      BY <1>1, <3>1 DEF IInv, IdsApart
  <2>5. PendingOwn' /\ WaitingPending'
    BY <2>1, <2>2, PendingStays
  <2>6. OwnAnswers(f)'
    BY <2>1, <2>2 DEF IInv, AnswersOwn, OwnAnswers, OwnOutcome
  <2>7. AnswersOwn'
    BY <2>2, <2>6, AnswersStay
  <2>8. \A m, h : OwnMessage(m, h) => OwnMessage(m, h)'
    BY <1>1, <2>2, MessagesStay
  <2>9. RequestsOwn' /\ RepliesOwn'
    BY <1>1, <2>8 DEF IInv, RequestsOwn, RepliesOwn
  <2> QED
    BY <2>3, <2>4, <2>5, <2>7, <2>9 DEF IInv
<1> QED
  BY <1>2, <1>3

LEMMA HeadAndTail ==
  ASSUME NEW S, NEW q \in Seq(S), q # << >>
  PROVE  /\ Len(q) \in Nat \ {0} /\ Head(q) = q[1] /\ Head(q) \in S
         /\ Tail(q) \in Seq(S) /\ Len(Tail(q)) = Len(q) - 1
         /\ \A k \in 1 .. Len(Tail(q)) : Tail(q)[k] = q[k + 1]
OBVIOUS

\* An answer goes to the fetch that waits for it, if one does.
LEMMA ResponseKeeps == ASSUME IInv, NEW h \in Handlers, HandlePortResponse(h) PROVE IInv'
<1> DEFINE reply == Head(replies[h])
<1>1. /\ replies[h] # << >> /\ replies' = [replies EXCEPT ![h] = Tail(@)]
      /\ UNCHANGED <<binds, channel, handlers, counter, requests>>
  BY DEF HandlePortResponse, tableVars
<1>2. /\ replies[h] \in Seq([id : Nat, fetch : Fetches]) /\ Len(replies[h]) \in Nat \ {0}
      /\ reply = replies[h][1] /\ reply \in [id : Nat, fetch : Fetches] /\ OwnMessage(reply, h)
  <2>1. replies[h] \in Seq([id : Nat, fetch : Fetches])
    BY TypesAre
  <2>2. /\ Len(replies[h]) \in Nat \ {0} /\ reply = replies[h][1]
        /\ reply \in [id : Nat, fetch : Fetches]
    BY <1>1, <2>1, HeadAndTail
  <2>3. 1 \in 1 .. Len(replies[h])
    BY <2>2
  <2> QED
    BY <2>1, <2>2, <2>3 DEF IInv, RepliesOwn
<1>3. /\ Tail(replies[h]) \in Seq([id : Nat, fetch : Fetches]) /\ Len(Tail(replies[h])) = Len(replies[h]) - 1
      /\ \A k \in 1 .. Len(Tail(replies[h])) : Tail(replies[h])[k] = replies[h][k + 1]
  BY <1>1, <1>2, HeadAndTail
<1>4. /\ replies' \in [Handlers -> Seq([id : Nat, fetch : Fetches])]
      /\ \A g \in Handlers : replies'[g] = IF g = h THEN Tail(replies[h]) ELSE replies[g]
  BY <1>1, <1>3, TypesAre
<1>5. ASSUME NEW g \in Handlers, NEW k \in 1 .. Len(replies'[g]) PROVE OwnMessage(replies'[g][k], g)
  <2>1. CASE g = h
    <3>1. k \in 1 .. Len(Tail(replies[h])) /\ k + 1 \in 1 .. Len(replies[h])
      BY <1>2, <1>3, <1>4, <2>1
    <3>2. replies'[g][k] = replies[h][k + 1]
      BY <1>3, <1>4, <2>1, <3>1
    <3> QED
      BY <2>1, <3>1, <3>2 DEF IInv, RepliesOwn
  <2>2. CASE g # h
    BY <1>4, <2>2 DEF IInv, RepliesOwn
  <2> QED
    BY <2>1, <2>2
<1>6. CASE reply.id \in DOMAIN pending
  <2> DEFINE f == pending[reply.id]
             a == <<"answer", h, reply.fetch>>
  <2>1. /\ f \in Fetches /\ fetch[f].state = "waiting" /\ fetch[f].id = reply.id
        /\ f = reply.fetch /\ fetch[f].handler = h
    BY <1>2, <1>6, TypesAre DEF IInv, PendingOwn, OwnMessage
  <2>2. a \in Outcomes /\ OwnOutcome(a, f)
    BY <1>2, <2>1 DEF Outcomes, OwnOutcome, Handlers
  <2>3. pending' = Without(reply.id) /\ (fetch' = Resolved(f, h, reply) \/ fetch' = Dropped(f, h))
    BY <1>6 DEF HandlePortResponse, Settled
  <2>4. fetch \in [Fetches -> FetchRecords] /\ fetch[f] \in FetchRecords
    BY <2>1, TypesAre
  <2>5. CASE fetch' = Resolved(f, h, reply)
    <3>1. fetch' = [Answers(f, a) EXCEPT ![f].state = IF fetch[f].state = "over" THEN "over" ELSE @]
      BY <2>5 DEF Resolved
    <3> HIDE DEF a, f
    <3>2. fetch' = [fetch EXCEPT ![f] = [fetch[f] EXCEPT !.state = "answered", !.answers = Append(@, a)]]
      BY <2>1, <2>4, <3>1 DEF Answers, FetchRecords
    <3> QED
      BY <1>1, <1>4, <1>5, <2>1, <2>2, <2>3, <3>2, AnsweringKeeps
  <2>6. CASE fetch' = Dropped(f, h)
    <3>1. h \in Nat
      BY DEF Handlers
    <3> HIDE DEF f
    <3> QED
      BY <1>1, <1>4, <1>5, <2>1, <2>3, <2>6, <3>1, DroppingKeeps
  <2> QED
    BY <2>3, <2>5, <2>6
<1>7. CASE reply.id \notin DOMAIN pending
  <2>1. pending' = pending /\ fetch' = fetch
    BY <1>7 DEF HandlePortResponse
  <2>2. Types'
    BY <1>1, <1>4, <2>1, TypesAre, TypesStay
  <2>3. IdsApart' /\ PendingOwn' /\ WaitingPending' /\ AnswersOwn'
    BY <1>1, <2>1 DEF IInv, IdsApart, Known, PendingOwn, WaitingPending, AnswersOwn, OwnAnswers, OwnOutcome
  <2>4. \A m, g : OwnMessage(m, g) => OwnMessage(m, g)'
    BY <1>1, <2>1 DEF OwnMessage
  <2>5. RequestsOwn'
    BY <1>1, <2>4 DEF IInv, RequestsOwn
  <2>6. RepliesOwn'
    <3>1. \A g \in Handlers : \A k \in 1 .. Len(replies'[g]) : \A m : m = replies'[g][k] => OwnMessage(m, g)'
      BY <1>5, <2>4
    <3> QED
      BY <3>1 DEF RepliesOwn, Handlers
  <2> QED
    BY <2>2, <2>3, <2>5, <2>6 DEF IInv
<1> QED
  BY <1>6, <1>7

\* A server answers as it has been asked.
LEMMA ServerKeeps == ASSUME IInv, NEW h \in Handlers, ServerAnswers(h) PROVE IInv'
<1>1. PICK r \in requests[h] :
        /\ requests' = [requests EXCEPT ![h] = (@ \ {r}) \cup {[r EXCEPT !.answered = @ + 1]}]
        /\ replies' = [replies EXCEPT ![h] = Append(@, [id |-> r.id, fetch |-> r.fetch])]
        /\ UNCHANGED <<tableVars, channel, workerVars, hostVars, fetch>>
  BY DEF ServerAnswers
<1> DEFINE again == [r EXCEPT !.answered = @ + 1]
           reply == [id |-> r.id, fetch |-> r.fetch]
<1>2. UNCHANGED <<binds, channel, handlers, counter, pending, fetch>>
  BY <1>1 DEF tableVars, workerVars
<1>3. r \in [id : Nat, fetch : Fetches, answered : Nat] /\ OwnMessage(r, h)
  BY TypesAre DEF IInv, RequestsOwn
<1>4. /\ again \in [id : Nat, fetch : Fetches, answered : Nat] /\ again.id = r.id /\ again.fetch = r.fetch
      /\ reply \in [id : Nat, fetch : Fetches] /\ reply.id = r.id /\ reply.fetch = r.fetch
  BY <1>3
<1> HIDE DEF again, reply
<1>5. OwnMessage(again, h) /\ OwnMessage(reply, h)
  BY <1>3, <1>4 DEF OwnMessage
<1>6. /\ requests' \in [Handlers -> SUBSET [id : Nat, fetch : Fetches, answered : Nat]]
      /\ \A g \in Handlers : \A m \in requests'[g] : m \in requests[g] \/ (m = again /\ g = h)
  BY <1>1, <1>4, TypesAre DEF again
<1>7. /\ replies' \in [Handlers -> Seq([id : Nat, fetch : Fetches])]
      /\ \A g \in Handlers : replies'[g] = IF g = h THEN Append(replies[h], reply) ELSE replies[g]
  <2>1. replies[h] \in Seq([id : Nat, fetch : Fetches])
    BY TypesAre
  <2>2. Append(replies[h], reply) \in Seq([id : Nat, fetch : Fetches])
    BY <1>4, <2>1
  <2>3. replies' = [replies EXCEPT ![h] = Append(replies[h], reply)]
    BY <1>1 DEF reply
  <2> QED
    BY <2>2, <2>3, TypesAre
<1>8. \A m, g : OwnMessage(m, g) => OwnMessage(m, g)'
  BY <1>2 DEF OwnMessage
<1>9. Types'
  BY <1>2, <1>6, <1>7, TypesAre, TypesStay
<1>10. IdsApart' /\ PendingOwn' /\ WaitingPending' /\ AnswersOwn'
  BY <1>2 DEF IInv, IdsApart, Known, PendingOwn, WaitingPending, AnswersOwn, OwnAnswers, OwnOutcome
<1>11. RequestsOwn'
  BY <1>5, <1>6, <1>8 DEF IInv, RequestsOwn, Handlers
<1>12. RepliesOwn'
  <2> SUFFICES ASSUME NEW g \in Handlers, NEW k \in 1 .. Len(replies'[g]), NEW m, m = replies'[g][k]
               PROVE  OwnMessage(m, g)'
    BY DEF RepliesOwn, Handlers
  <2>1. CASE g = h
    <3>1. replies[h] \in Seq([id : Nat, fetch : Fetches]) /\ replies'[g] = Append(replies[h], reply)
      BY <1>7, <2>1, TypesAre
    <3>2. m = reply \/ \E j \in 1 .. Len(replies[h]) : m = replies[h][j]
      BY <1>4, <3>1
    <3> QED
      BY <1>5, <1>8, <2>1, <3>2 DEF IInv, RepliesOwn
  <2>2. CASE g # h
    BY <1>7, <1>8, <2>2 DEF IInv, RepliesOwn
  <2> QED
    BY <2>1, <2>2
<1> QED
  BY <1>9, <1>10, <1>11, <1>12 DEF IInv

-----------------------------------------------------------------------------
LEMMA StepKeeps == IInv /\ [NetworkNext]_networkVars => IInv'
<1> SUFFICES ASSUME IInv, [NetworkNext]_networkVars PROVE IInv'
  OBVIOUS
<1>1. CASE Table
  BY <1>1, TableKeeps
<1>2. CASE Worker
  BY <1>2, ReceiveKeeps, StopKeeps, UnknownKeeps, KnownKeeps, ForwardKeeps, TimerKeeps, ResponseKeeps DEF Worker
<1>3. ASSUME NEW h \in Handlers, ServerAnswers(h) PROVE IInv'
  BY <1>3, ServerKeeps
<1>4. CASE UNCHANGED networkVars
  <2>1. UNCHANGED <<binds, channel, handlers, counter, pending, fetch, requests, replies>>
    BY <1>4 DEF networkVars
  <2>2. binds \in Nat /\ channel \in Seq(Bindings) /\ handlers \in [Ports -> Nat]
    BY DEF IInv, Types
  <2> QED
    BY <2>1, <2>2, TableApart
<1> QED
  BY <1>1, <1>2, <1>3, <1>4 DEF NetworkNext

\* The invariant holds in every state of every execution.
THEOREM NetworkInvariant == NetworkSpec => []IInv
BY Initially, StepKeeps, PTL DEF NetworkSpec

\* What takes a fetch that was dropped there.
StaysDropped(f) == fetch'[f] = fetch[f]
NotDropped(f) == fetch[f].state # "dropped" /\ fetch'[f].state # "dropped" /\ fetch'[f].threw = fetch[f].threw
DropsOwn(f) ==
  /\ fetch[f].state = "waiting" /\ fetch'[f].state = "dropped" /\ fetch'[f].answers = << >>
  /\ fetch'[f].handler = fetch[f].handler /\ fetch'[f].handler # 0 /\ fetch'[f].threw = fetch'[f].handler

LEMMA StepDrops ==
  ASSUME IInv, [NetworkNext]_networkVars
  PROVE  \A f \in Fetches : StaysDropped(f) \/ NotDropped(f) \/ DropsOwn(f)
<1> DEFINE Goal == \A f \in Fetches : StaysDropped(f) \/ NotDropped(f) \/ DropsOwn(f)
<1>1. fetch \in [Fetches -> FetchRecords]
  BY TypesAre
<1>2. ASSUME UNCHANGED fetch PROVE Goal
  BY <1>2 DEF StaysDropped
<1>3. ASSUME NEW f \in Fetches, NEW p \in Ports, FetchUnknown(f, p) PROVE Goal
  <2>1. fetch[f].state = "none" /\ fetch' = [Answers(f, <<"502", 0, f>>) EXCEPT ![f].port = p]
    BY <1>3 DEF FetchUnknown
  <2> QED
    BY <1>1, <2>1 DEF Answers, FetchRecords, StaysDropped, NotDropped
<1>4. ASSUME NEW f \in Fetches, NEW p \in Ports, FetchKnown(f, p) PROVE Goal
  <2>1. fetch[f].state = "none" /\ fetch' = [fetch EXCEPT ![f].state = "reading", ![f].port = p,
                                                         ![f].handler = handlers[p], ![f].id = RequestId(counter)]
    BY <1>4 DEF FetchKnown
  <2> QED
    BY <1>1, <2>1 DEF FetchRecords, StaysDropped, NotDropped
<1>5. ASSUME NEW f \in Fetches, ForwardToHandler(f) PROVE Goal
  <2>1. fetch[f].state = "reading" /\ fetch' = [fetch EXCEPT ![f].state = "waiting"]
    BY <1>5 DEF ForwardToHandler
  <2> QED
    BY <1>1, <2>1 DEF FetchRecords, StaysDropped, NotDropped
<1>6. ASSUME NEW f \in Fetches, TimerFires(f) PROVE Goal
  <2>1. /\ fetch[f].state \in {"waiting", "answered"}
        /\ fetch' = [fetch EXCEPT ![f].state = "over"] \/ fetch' = [Answers(f, <<"504", 0, f>>) EXCEPT ![f].state = "over"]
    BY <1>6 DEF TimerFires, Timeout
  <2> QED
    BY <1>1, <2>1 DEF Answers, FetchRecords, StaysDropped, NotDropped
<1>7. ASSUME Stop PROVE Goal
  <2>1. /\ fetch' = [f \in Fetches |-> [fetch[f] EXCEPT !.state = IF @ = "answered" THEN "over" ELSE @]]
        /\ \A f \in Fetches : fetch[f].state # "dropped"
    BY <1>7 DEF Stop
  <2> QED
    BY <1>1, <2>1 DEF FetchRecords, NotDropped
<1>8. ASSUME NEW h \in Handlers, HandlePortResponse(h) PROVE Goal
  <2> DEFINE reply == Head(replies[h])
             f == pending[reply.id]
  <2>1. CASE reply.id \notin DOMAIN pending
    BY <1>2, <1>8, <2>1 DEF HandlePortResponse
  <2>2. CASE reply.id \in DOMAIN pending
    <3>1. replies[h] # << >> /\ (fetch' = Resolved(f, h, reply) \/ fetch' = Dropped(f, h))
      BY <1>8, <2>2 DEF HandlePortResponse
    <3>2. OwnMessage(reply, h)
      <4>1. replies[h] \in Seq([id : Nat, fetch : Fetches])
        BY TypesAre
      <4>2. reply = replies[h][1] /\ 1 \in 1 .. Len(replies[h])
        BY <3>1, <4>1, HeadAndTail
      <4> QED
        BY <4>2 DEF IInv, RepliesOwn
    <3>3. /\ f \in Fetches /\ fetch[f].state = "waiting" /\ fetch[f].handler = h /\ h # 0
          /\ fetch[f].answers = << >>
      BY <2>2, <3>2, TypesAre DEF IInv, PendingOwn, OwnMessage, AnswersOwn, OwnAnswers, Handlers
    <3> HIDE DEF f, reply
    <3>4. CASE fetch' = Resolved(f, h, reply)
      BY <1>1, <3>3, <3>4 DEF Resolved, Answers, FetchRecords, StaysDropped, NotDropped
    <3>5. CASE fetch' = Dropped(f, h)
      BY <1>1, <3>3, <3>5 DEF Dropped, FetchRecords, StaysDropped, DropsOwn
    <3> QED
      BY <3>1, <3>4, <3>5
  <2> QED
    BY <2>1, <2>2
<1>9. ASSUME NEW h \in Handlers, ServerAnswers(h) PROVE Goal
  BY <1>2, <1>9 DEF ServerAnswers
<1>10. ASSUME Table \/ ReceiveBinding \/ UNCHANGED networkVars PROVE Goal
  BY <1>2, <1>10 DEF Table, Bind, Unbind, SweepPasses, SweepStarts, SweepVisits, SweepEnds, ReceiveBinding, networkVars
<1> HIDE DEF Goal
<1>11. Goal
  BY <1>3, <1>4, <1>5, <1>6, <1>7, <1>8, <1>9, <1>10 DEF NetworkNext, Worker
<1> QED
  BY <1>11 DEF Goal

LEMMA DropsStayOwn == IInv /\ DroppedByOwn /\ [NetworkNext]_networkVars => DroppedByOwn'
BY StepDrops DEF DroppedByOwn, StaysDropped, NotDropped, DropsOwn

\* However servers answer, late, repeatedly or never, whenever ports are bound anew
\* and the service worker is stopped, a fetch is answered at most once, with the
\* answer to its own request by the handler it was sent to, it goes without one for
\* good only when that handler replied with what no Response can be made of, and
\* exactly the requests of the waiting fetches are pending (service-worker.ts:
\* forwardToHandler, handlePortResponse and its 30 s timer).
THEOREM RequestsAreMatched == NetworkSpec => []RequestsMatch
<1>1. IInv => AnsweredOnceByOwn /\ PendingIsWaiting
  <2> SUFFICES ASSUME IInv PROVE AnsweredOnceByOwn /\ PendingIsWaiting
    OBVIOUS
  <2>1. AnsweredOnceByOwn
    BY DEF IInv, AnswersOwn, OwnAnswers, OwnOutcome, AnsweredOnceByOwn
  <2>2. PendingIsWaiting
    BY DEF IInv, PendingOwn, WaitingPending, PendingIsWaiting
  <2> QED
    BY <2>1, <2>2 DEF PendingIsWaiting
<1>2. NetworkInit => DroppedByOwn
  BY DEF NetworkInit, DroppedByOwn
<1>3. NetworkSpec => NetworkInit /\ [][NetworkNext]_networkVars
  BY DEF NetworkSpec
<1>4. NetworkSpec => []DroppedByOwn
  BY <1>2, <1>3, NetworkInvariant, DropsStayOwn, PTL
<1>5. (AnsweredOnceByOwn /\ PendingIsWaiting) /\ DroppedByOwn => RequestsMatch
  BY DEF RequestsMatch
<1> QED
  BY <1>1, <1>4, <1>5, NetworkInvariant, PTL

-----------------------------------------------------------------------------
(***************************************************************************)
(* The port table and its copy in the service worker.  A message means a   *)
(* binding exactly if it carries a handler.                                *)
(***************************************************************************)
Plain(m) == m.type = "port-bind" <=> m.handler # 0

\* Once the messages ch have reached it, a service worker with handlers hs has the
\* handlers of the table tab.
TableTold(hs, ch, tab) ==
  \A p \in Ports :
    /\ (\A k \in 1 .. Len(ch) : ch[k].port # p) => hs[p] = tab[p]
    /\ \A k \in 1 .. Len(ch) :
         ch[k].port = p /\ (\A l \in 1 .. Len(ch) : ch[l].port = p => l <= k) => ch[k].handler = tab[p]

\* The message before ch[k] about the same port.
Before(ch, l, k) ==
  /\ l < k /\ ch[l].port = ch[k].port
  /\ \A m \in 1 .. Len(ch) : ch[m].port = ch[k].port /\ m < k => m <= l

InTurns(hs, ch) ==
  \A k \in 1 .. Len(ch) :
    /\ (\A l \in 1 .. Len(ch) : l < k => ch[l].port # ch[k].port) =>
         (ch[k].type = "port-bind" <=> hs[ch[k].port] = 0)
    /\ \A l \in 1 .. Len(ch) : Before(ch, l, k) => ch[l].type # ch[k].type

Agree(hs, ch, tab) ==
  /\ \A k \in 1 .. Len(ch) : Plain(ch[k])
  /\ TableTold(hs, ch, tab) /\ InTurns(hs, ch)

PortRecords == [pid : Pids \cup {Absent}, handler : Nat]
HandlersOf(tab) == [p \in Ports |-> tab[p].handler]

PortTypes ==
  /\ ports \in [Ports -> PortRecords]
  /\ sweep \in [on : BOOLEAN, pid : Pids \cup {Absent}, left : SUBSET Ports]
  /\ stops \in Nat
  /\ \A p \in Ports : ports[p].handler = 0 <=> ports[p] = Free

\* Handlers are numbered as far as bindings were made.
PortsNumbered ==
  /\ \A p \in Ports : ports[p].handler <= binds /\ handlers[p] <= binds
  /\ \A k \in 1 .. Len(channel) : channel[k].handler <= binds

\* A loop over the table has bound ports ahead of it.
LeftIsBound == sweep.on => sweep.left \subseteq Bound

\* The service worker hears of everything.
Hears == stops = 0 /\ carries

PortsInv ==
  /\ PortTypes /\ PortsNumbered /\ SweepLeavesNone /\ LeftIsBound
  /\ Hears => Agree(handlers, channel, HandlersOf(ports))

-----------------------------------------------------------------------------
\* Another message about a port, which says what changes in the table.
LEMMA OneMoreSaid ==
  ASSUME NEW hs \in [Ports -> Nat], NEW ch \in Seq(Bindings), NEW tab \in [Ports -> Nat],
         Agree(hs, ch, tab), NEW m \in Bindings, Plain(m), m.handler # 0 <=> tab[m.port] = 0
  PROVE  Agree(hs, Append(ch, m), [tab EXCEPT ![m.port] = m.handler])
<1> DEFINE new == Append(ch, m)
<1> DEFINE n == Len(ch)
<1>1. /\ n \in Nat /\ Len(new) = n + 1 /\ new[n + 1] = m
      /\ \A k \in 1 .. n : new[k] = ch[k] /\ ch[k] \in Bindings
      /\ 1 .. Len(new) = (1 .. n) \cup {n + 1}
      /\ m.port \in Ports /\ m.handler \in Nat
  <2>1. n \in Nat /\ Len(new) = n + 1 /\ new[n + 1] = m
    OBVIOUS
  <2>2. \A k \in 1 .. n : new[k] = ch[k] /\ ch[k] \in Bindings
    OBVIOUS
  <2>3. 1 .. Len(new) = (1 .. n) \cup {n + 1}
    <3> HIDE DEF new, n
    <3> QED
      BY <2>1
  <2>4. m.port \in Ports /\ m.handler \in Nat
    BY DEF Bindings
  <2> QED
    BY <2>1, <2>2, <2>3, <2>4
<1> HIDE DEF new, n
<1>2. Agree(hs, ch, tab) /\ 1 .. Len(ch) = 1 .. n
  BY DEF n
<1>3. \A k \in 1 .. Len(new) : Plain(new[k])
  BY <1>1, <1>2 DEF Agree
<1>4. TableTold(hs, new, [tab EXCEPT ![m.port] = m.handler])
  <2> SUFFICES ASSUME NEW p \in Ports
      PROVE  /\ (\A k \in 1 .. Len(new) : new[k].port # p) => hs[p] = tab[p] /\ p # m.port
             /\ \A k \in 1 .. Len(new) :
                  new[k].port = p /\ (\A l \in 1 .. Len(new) : new[l].port = p => l <= k)
                    => new[k].handler = [tab EXCEPT ![m.port] = m.handler][p]
    BY DEF TableTold
  <2>1. (\A k \in 1 .. Len(new) : new[k].port # p) => hs[p] = tab[p] /\ p # m.port
    BY <1>1, <1>2 DEF Agree, TableTold
  <2>2. ASSUME NEW k \in 1 .. Len(new), new[k].port = p,
               \A l \in 1 .. Len(new) : new[l].port = p => l <= k
        PROVE  new[k].handler = [tab EXCEPT ![m.port] = m.handler][p]
    <3>1. CASE p = m.port
      <4>1. k = n + 1
        BY <1>1, <2>2, <3>1
      <4> QED
        BY <1>1, <3>1, <4>1
    <3>2. CASE p # m.port
      <4>1. k \in 1 .. n /\ ch[k].port = p /\ \A l \in 1 .. n : ch[l].port = p => l <= k
        BY <1>1, <2>2, <3>2
      <4>2. ch[k].handler = tab[p]
        BY <1>2, <4>1 DEF Agree, TableTold
      <4> QED
        BY <1>1, <3>2, <4>1, <4>2
    <3> QED
      BY <3>1, <3>2
  <2> QED
    BY <2>1, <2>2
<1>5. InTurns(hs, new)
  <2> SUFFICES ASSUME NEW k \in 1 .. Len(new)
      PROVE  /\ (\A l \in 1 .. Len(new) : l < k => new[l].port # new[k].port) =>
                  (new[k].type = "port-bind" <=> hs[new[k].port] = 0)
             /\ \A l \in 1 .. Len(new) : Before(new, l, k) => new[l].type # new[k].type
    BY DEF InTurns
  <2>1. CASE k \in 1 .. n
    <3>1. ASSUME \A l \in 1 .. Len(new) : l < k => new[l].port # new[k].port
          PROVE  new[k].type = "port-bind" <=> hs[new[k].port] = 0
      <4>1. \A l \in 1 .. n : l < k => ch[l].port # ch[k].port
        BY <1>1, <2>1, <3>1
      <4> QED
        BY <1>1, <1>2, <2>1, <4>1 DEF Agree, InTurns
    <3>2. ASSUME NEW l \in 1 .. Len(new), Before(new, l, k)
          PROVE  new[l].type # new[k].type
      <4>1. l \in 1 .. n /\ Before(ch, l, k)
        BY <1>1, <1>2, <2>1, <3>2 DEF Before
      <4> QED
        BY <1>1, <1>2, <2>1, <4>1 DEF Agree, InTurns
    <3> QED
      BY <3>1, <3>2
  <2>2. CASE k = n + 1
    <3>1. ASSUME \A l \in 1 .. Len(new) : l < k => new[l].port # new[k].port
          PROVE  new[k].type = "port-bind" <=> hs[new[k].port] = 0
      <4>0. \A l \in 1 .. n : l \in 1 .. Len(new) /\ l < k /\ new[l] = ch[l]
        BY <1>1, <2>2
      <4>a. new[k] = m
        BY <1>1, <2>2
      <4>1. \A l \in 1 .. n : ch[l].port # m.port
        BY <3>1, <4>0, <4>a
      <4>2. hs[m.port] = tab[m.port]
        BY <1>1, <1>2, <4>1 DEF Agree, TableTold
      <4> QED
        BY <1>1, <2>2, <4>2 DEF Plain
    <3>2. ASSUME NEW l \in 1 .. Len(new), Before(new, l, k)
          PROVE  new[l].type # new[k].type
      <4>1. l \in 1 .. n /\ ch[l].port = m.port /\ \A j \in 1 .. n : ch[j].port = m.port => j <= l
        <5>1. l < k /\ new[l].port = new[k].port
          BY <3>2 DEF Before
        <5>2. \A j \in 1 .. Len(new) : new[j].port = new[k].port /\ j < k => j <= l
          BY <3>2 DEF Before
        <5>3. new[k] = m /\ l \in 1 .. n /\ new[l] = ch[l]
          BY <1>1, <2>2, <5>1
        <5>4. \A j \in 1 .. n : j \in 1 .. Len(new) /\ j < k /\ new[j] = ch[j]
          BY <1>1, <2>2
        <5>5. \A j \in 1 .. n : ch[j].port = m.port => j <= l
          BY <5>2, <5>3, <5>4
        <5> QED
          BY <5>1, <5>3, <5>5
      <4>2. ch[l].handler = tab[m.port] /\ Plain(ch[l])
        BY <1>1, <1>2, <4>1 DEF Agree, TableTold
      <4> QED
        BY <1>1, <2>2, <4>1, <4>2 DEF Plain, Bindings
    <3> QED
      BY <3>1, <3>2
  <2> QED
    BY <1>1, <2>1, <2>2
<1> QED
  BY <1>3, <1>4, <1>5 DEF Agree, new

\* The last message about a port.
LEMMA LastAbout ==
  ASSUME NEW hs, NEW ch, NEW tab, TableTold(hs, ch, tab), NEW p \in Ports, NEW k \in 1 .. Len(ch),
         ch[k].port = p, \A l \in 1 .. Len(ch) : ch[l].port = p => l <= k
  PROVE  ch[k].handler = tab[p]
BY DEF TableTold

\* The first message arrives.
LEMMA FirstHeard ==
  ASSUME NEW hs \in [Ports -> Nat], NEW ch \in Seq(Bindings), NEW tab \in [Ports -> Nat],
         Agree(hs, ch, tab), ch # << >>
  PROVE  Agree([hs EXCEPT ![Head(ch).port] = Head(ch).handler], Tail(ch), tab)
<1> DEFINE rest == Tail(ch)
<1> DEFINE m == ch[1]
<1> DEFINE n == Len(ch)
<1> DEFINE heard == [hs EXCEPT ![m.port] = m.handler]
<1>1. /\ n \in Nat /\ n >= 1 /\ Len(rest) = n - 1 /\ Head(ch) = m
      /\ \A k \in 1 .. n - 1 : rest[k] = ch[k + 1]
      /\ \A k \in 1 .. n : ch[k] \in Bindings
  <2>1. n \in Nat /\ n >= 1 /\ Len(rest) = n - 1
    OBVIOUS
  <2>2. Head(ch) = m
    OBVIOUS
  <2>3. \A k \in 1 .. n - 1 : rest[k] = ch[k + 1]
    OBVIOUS
  <2>4. \A k \in 1 .. n : ch[k] \in Bindings
    OBVIOUS
  <2> QED
    BY <2>1, <2>2, <2>3, <2>4
<1>2. m \in Bindings /\ m.port \in Ports /\ m.handler \in Nat
  BY <1>1 DEF Bindings
<1>3. Agree(hs, ch, tab) /\ 1 .. Len(ch) = 1 .. n /\ 1 .. Len(rest) = 1 .. n - 1
  BY <1>1
<1>4. \A p \in Ports : heard[p] = IF p = m.port THEN m.handler ELSE hs[p]
  BY <1>2
<1>5. ch[1] = m
  OBVIOUS
<1> HIDE DEF rest, m, n, heard
<1>6. \A k \in 1 .. Len(rest) : Plain(rest[k])
  BY <1>1, <1>3 DEF Agree
<1>7. TableTold(heard, rest, tab)
  <2> SUFFICES ASSUME NEW p \in Ports
      PROVE  /\ (\A k \in 1 .. Len(rest) : rest[k].port # p) => heard[p] = tab[p]
             /\ \A k \in 1 .. Len(rest) :
                  rest[k].port = p /\ (\A l \in 1 .. Len(rest) : rest[l].port = p => l <= k)
                    => rest[k].handler = tab[p]
    BY DEF TableTold
  <2>1. ASSUME \A k \in 1 .. Len(rest) : rest[k].port # p PROVE heard[p] = tab[p]
    <3>1. \A k \in 2 .. n : ch[k].port # p
      <4> SUFFICES ASSUME NEW k \in 2 .. n PROVE ch[k].port # p
        OBVIOUS
      <4>1. k - 1 \in 1 .. n - 1 /\ (k - 1) + 1 = k
        BY <1>1
      <4> QED
        BY <1>1, <1>3, <2>1, <4>1
    <3>2. CASE p = m.port
      <4>1. \A l \in 1 .. n : ch[l].port = p => l <= 1
        BY <1>1, <3>1
      <4>2. 1 \in 1 .. Len(ch) /\ ch[1].port = p /\ \A l \in 1 .. Len(ch) : ch[l].port = p => l <= 1
        BY <1>1, <1>3, <1>5, <3>2, <4>1
      <4>3. ch[1].handler = tab[p]
        BY <1>3, <4>2 DEF Agree, TableTold
      <4> QED
        BY <1>4, <1>5, <3>2, <4>3
    <3>3. CASE p # m.port
      <4>1. \A l \in 1 .. n : ch[l].port # p
        BY <1>1, <1>5, <3>1, <3>3
      <4> QED
        BY <1>1, <1>3, <1>4, <3>3, <4>1 DEF Agree, TableTold
    <3> QED
      BY <3>2, <3>3
  <2>2. ASSUME NEW k \in 1 .. Len(rest), rest[k].port = p,
               \A l \in 1 .. Len(rest) : rest[l].port = p => l <= k
        PROVE  rest[k].handler = tab[p]
    <3>1. k + 1 \in 1 .. n /\ ch[k + 1].port = p
      BY <1>1, <1>3, <2>2
    <3>2. \A l \in 1 .. n : ch[l].port = p => l <= k + 1
      <4> SUFFICES ASSUME NEW l \in 1 .. n, ch[l].port = p, l # 1 PROVE l <= k + 1
        BY <1>1
      <4>1. l - 1 \in 1 .. n - 1 /\ (l - 1) + 1 = l
        BY <1>1
      <4>2. rest[l - 1].port = p
        BY <1>1, <4>1
      <4>3. l - 1 <= k /\ k \in Nat
        BY <1>1, <1>3, <2>2, <4>1, <4>2
      <4> QED
        BY <4>3
    <3>3. TableTold(hs, ch, tab)
      BY DEF Agree
    <3>4. ch[k + 1].handler = tab[p]
      <4>1. k + 1 \in 1 .. Len(ch) /\ ch[k + 1].port = p
        BY <1>3, <3>1
      <4>2. \A l \in 1 .. Len(ch) : ch[l].port = p => l <= k + 1
        BY <1>3, <3>2
      <4> QED
        BY <3>3, <4>1, <4>2, LastAbout
    <3>5. rest[k] = ch[k + 1]
      BY <1>1, <1>3
    <3> QED
      BY <3>4, <3>5
  <2> QED
    BY <2>1, <2>2
<1>8. InTurns(heard, rest)
  <2> SUFFICES ASSUME NEW k \in 1 .. Len(rest)
      PROVE  /\ (\A l \in 1 .. Len(rest) : l < k => rest[l].port # rest[k].port) =>
                  (rest[k].type = "port-bind" <=> heard[rest[k].port] = 0)
             /\ \A l \in 1 .. Len(rest) : Before(rest, l, k) => rest[l].type # rest[k].type
    BY DEF InTurns
  <2>1. k + 1 \in 1 .. n /\ rest[k] = ch[k + 1] /\ ch[k + 1].port \in Ports
    BY <1>1, <1>3 DEF Bindings
  <2>2. ASSUME \A l \in 1 .. Len(rest) : l < k => rest[l].port # rest[k].port
        PROVE  rest[k].type = "port-bind" <=> heard[rest[k].port] = 0
    <3>1. \A l \in 2 .. n : l < k + 1 => ch[l].port # ch[k + 1].port
      <4> SUFFICES ASSUME NEW l \in 2 .. n, l < k + 1 PROVE ch[l].port # ch[k + 1].port
        OBVIOUS
      <4>1. l - 1 \in 1 .. n - 1 /\ (l - 1) + 1 = l /\ l - 1 < k
        BY <1>1
      <4> QED
        BY <1>1, <1>3, <2>1, <2>2, <4>1
    <3>2. CASE ch[k + 1].port = m.port
      <4>1. Before(ch, 1, k + 1)
        BY <1>1, <1>3, <1>5, <2>1, <3>1, <3>2 DEF Before
      <4>2. m.type # ch[k + 1].type /\ Plain(m)
        BY <1>1, <1>3, <1>5, <2>1, <4>1 DEF Agree, InTurns
      <4>3. ch[k + 1] \in Bindings
        BY <1>1, <2>1
      <4> QED
        BY <1>2, <1>4, <2>1, <3>2, <4>2, <4>3 DEF Plain, Bindings
    <3>3. CASE ch[k + 1].port # m.port
      <4>1. \A l \in 1 .. n : l < k + 1 => ch[l].port # ch[k + 1].port
        BY <1>1, <1>5, <3>1, <3>3
      <4>2. ch[k + 1].type = "port-bind" <=> hs[ch[k + 1].port] = 0
        BY <1>3, <2>1, <4>1 DEF Agree, InTurns
      <4>3. heard[rest[k].port] = hs[ch[k + 1].port]
        BY <1>4, <2>1, <3>3
      <4> QED
        BY <2>1, <4>2, <4>3
    <3> QED
      BY <3>2, <3>3
  <2>3. ASSUME NEW l \in 1 .. Len(rest), Before(rest, l, k)
        PROVE  rest[l].type # rest[k].type
    <3>1. l + 1 \in 1 .. n /\ rest[l] = ch[l + 1] /\ l + 1 < k + 1 /\ ch[l + 1].port = ch[k + 1].port
      BY <1>1, <1>3, <2>1, <2>3 DEF Before
    <3>2. \A j \in 1 .. n : ch[j].port = ch[k + 1].port /\ j < k + 1 => j <= l + 1
      <4> SUFFICES ASSUME NEW j \in 1 .. n, ch[j].port = ch[k + 1].port, j < k + 1, j # 1 PROVE j <= l + 1
        BY <1>1, <3>1
      <4>1. j - 1 \in 1 .. n - 1 /\ (j - 1) + 1 = j /\ j - 1 < k
        BY <1>1
      <4>2. rest[j - 1].port = rest[k].port
        BY <1>1, <2>1, <4>1
      <4>3. j - 1 <= l
        BY <1>3, <2>3, <4>1, <4>2 DEF Before
      <4> QED
        BY <1>1, <4>3
    <3>3. Before(ch, l + 1, k + 1)
      BY <1>3, <3>1, <3>2 DEF Before
    <3> QED
      BY <1>3, <2>1, <3>1, <3>3 DEF Agree, InTurns
  <2> QED
    BY <2>2, <2>3
<1> QED
  BY <1>1, <1>6, <1>7, <1>8 DEF Agree, heard, rest

-----------------------------------------------------------------------------
LEMMA TableSet ==
  ASSUME NEW tab \in [Ports -> PortRecords], NEW p \in Ports, NEW r \in PortRecords
  PROVE  /\ HandlersOf(tab) \in [Ports -> Nat] /\ HandlersOf(tab)[p] = tab[p].handler
         /\ HandlersOf([tab EXCEPT ![p] = r]) = [HandlersOf(tab) EXCEPT ![p] = r.handler]
         /\ [tab EXCEPT ![p] = r] \in [Ports -> PortRecords]
BY DEF HandlersOf, PortRecords

LEMMA Records ==
  /\ Free \in PortRecords /\ Free.handler = 0
  /\ \A pid \in Pids, h \in Nat : [pid |-> pid, handler |-> h] \in PortRecords
  /\ \A p \in Ports : UnbindMessage(p) \in Bindings /\ Plain(UnbindMessage(p))
                      /\ UnbindMessage(p).port = p /\ UnbindMessage(p).handler = 0
  /\ \A p \in Ports, h \in Nat \ {0} :
       BindMessage(p, h) \in Bindings /\ Plain(BindMessage(p, h))
       /\ BindMessage(p, h).port = p /\ BindMessage(p, h).handler = h
BY DEF Free, PortRecords, UnbindMessage, BindMessage, Bindings, Plain

\* A port changes hands, and a message says so.
LEMMA ChangeSaid ==
  ASSUME NEW hs \in [Ports -> Nat], NEW ch \in Seq(Bindings), NEW tab \in [Ports -> PortRecords],
         NEW m \in Bindings, Plain(m), NEW r \in PortRecords, r.handler = m.handler,
         m.handler # 0 <=> tab[m.port].handler = 0, Agree(hs, ch, HandlersOf(tab))
  PROVE  Agree(hs, Append(ch, m), HandlersOf([tab EXCEPT ![m.port] = r]))
<1>1. m.port \in Ports
  BY DEF Bindings
<1>2. HandlersOf(tab) \in [Ports -> Nat] /\ HandlersOf(tab)[m.port] = tab[m.port].handler
  BY <1>1, TableSet
<1>3. HandlersOf([tab EXCEPT ![m.port] = r]) = [HandlersOf(tab) EXCEPT ![m.port] = m.handler]
  BY <1>1 DEF HandlersOf, PortRecords
<1>4. Agree(hs, Append(ch, m), [HandlersOf(tab) EXCEPT ![m.port] = m.handler])
  <2> DEFINE t == HandlersOf(tab)
  <2>1. t \in [Ports -> Nat] /\ Agree(hs, ch, t) /\ (m.handler # 0 <=> t[m.port] = 0)
    BY <1>2
  <2> HIDE DEF t
  <2>2. Agree(hs, Append(ch, m), [t EXCEPT ![m.port] = m.handler])
    BY <2>1, OneMoreSaid
  <2> QED
    BY <2>2 DEF t
<1> QED
  BY <1>3, <1>4

LEMMA PortsInitially == NetworkInit => PortsInv
<1> SUFFICES ASSUME NetworkInit PROVE PortsInv
  OBVIOUS
<1>1. PortTypes /\ PortsNumbered
  BY DEF NetworkInit, PortTypes, PortsNumbered, PortRecords, Free, NoSweep
<1>2. SweepLeavesNone /\ LeftIsBound
  BY DEF NetworkInit, SweepLeavesNone, LeftIsBound, NoSweep
<1>3. channel = << >> /\ Len(channel) = 0 /\ \A p \in Ports : handlers[p] = 0 /\ HandlersOf(ports)[p] = 0
  BY DEF NetworkInit, HandlersOf, Free
<1>4. Agree(handlers, channel, HandlersOf(ports))
  BY <1>3 DEF Agree, TableTold, InTurns
<1> QED
  BY <1>1, <1>2, <1>4 DEF PortsInv

\* Fewer than all the entries of a table are numbered as far as before.
LEMMA NumberedWith ==
  ASSUME NEW n \in Nat, NEW ch \in Seq(Bindings), NEW m \in Bindings, m.handler <= n,
         \A k \in 1 .. Len(ch) : ch[k].handler <= n
  PROVE  \A k \in 1 .. Len(Append(ch, m)) : Append(ch, m)[k].handler <= n
<1>1. \A k \in 1 .. Len(ch) : Append(ch, m)[k] = ch[k]
  OBVIOUS
<1>2. Append(ch, m)[Len(ch) + 1] = m /\ Len(Append(ch, m)) = Len(ch) + 1 /\ Len(ch) \in Nat
  OBVIOUS
<1>3. \A k \in 1 .. Len(ch) + 1 : k \in 1 .. Len(ch) \/ k = Len(ch) + 1
  BY <1>2
<1> QED
  BY <1>1, <1>2, <1>3

LEMMA NetworkTypes ==
  ASSUME IInv
  PROVE  binds \in Nat /\ channel \in Seq(Bindings) /\ handlers \in [Ports -> Nat]
BY DEF IInv, Types

LEMMA NumberedUpTo ==
  ASSUME IInv, PortsInv, NEW n \in Nat, binds <= n
  PROVE  /\ \A q \in Ports : ports[q].handler <= n /\ handlers[q] <= n
         /\ \A k \in 1 .. Len(channel) : channel[k].handler <= n
<1>1. binds \in Nat
  BY NetworkTypes
<1>2. ASSUME NEW q \in Ports PROVE ports[q].handler <= n /\ handlers[q] <= n
  <2>1. ports[q].handler \in Nat /\ handlers[q] \in Nat
    BY NetworkTypes DEF PortsInv, PortTypes, PortRecords
  <2>2. ports[q].handler <= binds /\ handlers[q] <= binds
    BY DEF PortsInv, PortsNumbered
  <2> QED
    BY <1>1, <2>1, <2>2
<1>3. ASSUME NEW k \in 1 .. Len(channel) PROVE channel[k].handler <= n
  <2>1. channel[k] \in Bindings
    BY NetworkTypes
  <2>2. channel[k].handler \in Nat
    BY <2>1 DEF Bindings
  <2>3. channel[k].handler <= binds
    BY DEF PortsInv, PortsNumbered
  <2> QED
    BY <1>1, <2>2, <2>3
<1> QED
  BY <1>2, <1>3

LEMMA BindPorts ==
  ASSUME IInv, PortsInv, NEW p \in Ports, NEW pid \in Pids, Bind(p, pid)
  PROVE  PortsInv'
<1> DEFINE h == binds + 1
<1> DEFINE r == [pid |-> pid, handler |-> h]
<1> DEFINE m == BindMessage(p, h)
<1>0. /\ ~sweep.on /\ ports[p] = Free /\ binds' = h
      /\ ports' = [ports EXCEPT ![p] = r] /\ channel' = channel \o Told(p, h)
      /\ UNCHANGED <<sweep, handlers, carries, stops>>
  BY DEF Bind, Bindable, workerVars, hostVars
<1>1. /\ ~sweep.on /\ ports[p] = Free /\ binds' = h
      /\ ports' = [ports EXCEPT ![p] = r]
      /\ carries => channel' = Append(channel, m)
      /\ ~carries => channel' = channel
      /\ UNCHANGED <<sweep, handlers, carries, stops>>
  <2>1. h \in Nat
    BY NetworkTypes
  <2> HIDE DEF h, r
  <2> QED
    BY <1>0, <2>1, NetworkTypes, ToldIs
<1>2. h \in Nat \ {0} /\ r \in PortRecords /\ r.handler = h /\ r # Free
  BY NetworkTypes, Records DEF Free
<1>3. m \in Bindings /\ m.handler = h /\ m.port = p /\ Plain(m)
  BY <1>2, Records
<1> HIDE DEF r, m
<1>4. PortTypes'
  <2>1. ports' \in [Ports -> PortRecords]
    BY <1>1, <1>2 DEF PortsInv, PortTypes
  <2>2. \A q \in Ports : ports'[q].handler = 0 <=> ports'[q] = Free
    BY <1>1, <1>2 DEF PortsInv, PortTypes
  <2> QED
    BY <1>1, <2>1, <2>2 DEF PortsInv, PortTypes
<1>5. PortsNumbered'
  <2> h \in Nat /\ h <= h /\ binds <= h
    BY NetworkTypes
  <2>1. \A q \in Ports : ports[q].handler <= h /\ handlers[q] <= h
    BY NumberedUpTo
  <2>2. \A k \in 1 .. Len(channel) : channel[k].handler <= h
    BY NumberedUpTo
  <2>3. \A k \in 1 .. Len(channel') : channel'[k].handler <= h
    <3> HIDE DEF h
    <3> QED
      BY <1>1, <1>3, <2>2, NumberedWith, NetworkTypes
  <2>4. \A q \in Ports : ports'[q].handler <= h
    <3> HIDE DEF h
    <3> QED
      BY <1>1, <1>2, <2>1 DEF PortsInv, PortTypes
  <2> QED
    BY <1>1, <2>1, <2>3, <2>4 DEF PortsNumbered
<1>6. SweepLeavesNone' /\ LeftIsBound'
  BY <1>1 DEF SweepLeavesNone, LeftIsBound
<1>7. Hears' => Agree(handlers', channel', HandlersOf(ports'))
  <2> HIDE DEF h
  <2> SUFFICES ASSUME Hears PROVE Agree(handlers, Append(channel, m), HandlersOf([ports EXCEPT ![m.port] = r]))
    BY <1>1, <1>3 DEF Hears
  <2>1. ports[m.port].handler = 0 /\ (m.handler # 0 <=> ports[m.port].handler = 0) /\ r.handler = m.handler
    BY <1>1, <1>2, <1>3, Records
  <2>2. ports \in [Ports -> PortRecords] /\ Agree(handlers, channel, HandlersOf(ports))
    BY DEF PortsInv, PortTypes
  <2> QED
    BY <1>2, <1>3, <2>1, <2>2, ChangeSaid, NetworkTypes
<1> QED
  BY <1>4, <1>5, <1>6, <1>7 DEF PortsInv

\* Unbinding: of one port, or in a loop.
LEMMA Unbound ==
  ASSUME IInv, PortsInv, NEW p \in Ports, ports[p] # Free, NEW n \in Nat, binds <= n
  PROVE  LET gone == [ports EXCEPT ![p] = Free]
             ch == Append(channel, UnbindMessage(p))
         IN  /\ gone \in [Ports -> PortRecords] /\ ch \in Seq(Bindings)
             /\ \A q \in Ports : gone[q].handler = 0 <=> gone[q] = Free
             /\ \A q \in Ports : gone[q].handler <= n
             /\ \A k \in 1 .. Len(ch) : ch[k].handler <= n
             /\ Hears => Agree(handlers, ch, HandlersOf(gone))
<1> DEFINE gone == [ports EXCEPT ![p] = Free]
<1> DEFINE m == UnbindMessage(p)
<1>1. ports \in [Ports -> PortRecords] /\ ports[p].handler # 0
  BY DEF PortsInv, PortTypes
<1>2. m \in Bindings /\ m.handler = 0 /\ m.port = p /\ Plain(m) /\ 0 <= n
  BY Records
<1>3. gone \in [Ports -> PortRecords] /\ \A q \in Ports : gone[q] = IF q = p THEN Free ELSE ports[q]
  BY <1>1, Records
<1>4. \A q \in Ports : gone[q].handler = 0 <=> gone[q] = Free
  BY <1>3, Records DEF PortsInv, PortTypes
<1>5. \A q \in Ports : ports[q].handler <= n
  BY NumberedUpTo
<1>6. \A q \in Ports : gone[q].handler <= n
  BY <1>2, <1>3, <1>5, Records
<1>7. \A k \in 1 .. Len(channel) : channel[k].handler <= n
  BY NumberedUpTo
<1>8. \A k \in 1 .. Len(Append(channel, m)) : Append(channel, m)[k].handler <= n
  <2> HIDE DEF m
  <2> QED
    BY <1>2, <1>7, NumberedWith, NetworkTypes
<1>9. Append(channel, m) \in Seq(Bindings)
  BY <1>2, NetworkTypes
<1>10. Hears => Agree(handlers, Append(channel, m), HandlersOf(gone))
  <2> HIDE DEF m
  <2> QED
    BY <1>1, <1>2, ChangeSaid, Records, NetworkTypes DEF PortsInv
<1> QED
  BY <1>3, <1>4, <1>6, <1>8, <1>9, <1>10

LEMMA UnbindPorts ==
  ASSUME IInv, PortsInv, NEW p \in Ports, Unbind(p)
  PROVE  PortsInv'
<1>1. /\ ~sweep.on /\ ports[p] # Free /\ ports' = [ports EXCEPT ![p] = Free]
      /\ channel' = Append(channel, UnbindMessage(p))
      /\ UNCHANGED <<sweep, binds, handlers, carries, stops>>
  BY DEF Unbind, Bound, workerVars, hostVars
<1>2. binds \in Nat /\ binds <= binds
  BY NetworkTypes
<1>3. /\ ports' \in [Ports -> PortRecords]
      /\ \A q \in Ports : ports'[q].handler = 0 <=> ports'[q] = Free
      /\ \A q \in Ports : ports'[q].handler <= binds
      /\ \A k \in 1 .. Len(channel') : channel'[k].handler <= binds
      /\ Hears => Agree(handlers, channel', HandlersOf(ports'))
  BY <1>1, <1>2, Unbound
<1>4. PortTypes' /\ PortsNumbered' /\ SweepLeavesNone' /\ LeftIsBound'
  BY <1>1, <1>3 DEF PortsInv, PortTypes, PortsNumbered, SweepLeavesNone, LeftIsBound
<1> QED
  BY <1>1, <1>3, <1>4 DEF PortsInv, Hears

\* The record of the loop, once an entry is behind it and others may be ahead.
LEMMA SweepOn ==
  ASSUME PortsInv, sweep.on, NEW left \in SUBSET Ports, sweep' = [sweep EXCEPT !.left = left]
  PROVE  /\ sweep'.on /\ sweep'.pid = sweep.pid /\ sweep'.left = left
         /\ sweep' \in [on : BOOLEAN, pid : Pids \cup {Absent}, left : SUBSET Ports]
BY DEF PortsInv, PortTypes

\* The loop visits an entry that it removes, and no listener binds a port.
LEMMA VisitAlone ==
  ASSUME IInv, PortsInv, NEW p \in Ports, NEW pid \in Pids, SweepVisits(p, Absent, pid)
  PROVE  PortsInv'
<1> DEFINE left == sweep.left \ {p}
<1> DEFINE ch == Append(channel, UnbindMessage(p))
<1>1. /\ sweep.on /\ p \in sweep.left /\ binds' = binds
      /\ ports' = [ports EXCEPT ![p] = Free] /\ channel' = ch \o << >>
      /\ sweep' = [sweep EXCEPT !.left = left]
      /\ UNCHANGED <<handlers, carries, stops>>
  BY DEF SweepVisits, workerVars, hostVars
<1>2. binds \in Nat /\ binds <= binds /\ ports[p] # Free /\ left \in SUBSET Ports
  BY <1>1, NetworkTypes DEF PortsInv, LeftIsBound, Bound, PortTypes
<1>3. /\ ports' \in [Ports -> PortRecords] /\ ch \in Seq(Bindings)
      /\ \A q \in Ports : ports'[q].handler = 0 <=> ports'[q] = Free
      /\ \A q \in Ports : ports'[q].handler <= binds
      /\ \A k \in 1 .. Len(ch) : ch[k].handler <= binds
      /\ Hears => Agree(handlers, ch, HandlersOf(ports'))
  BY <1>1, <1>2, Unbound
<1>4. channel' = ch
  <2> HIDE DEF ch
  <2> QED
    BY <1>1, <1>3
<1>5. /\ sweep'.on /\ sweep'.pid = sweep.pid /\ sweep'.left = left
      /\ sweep' \in [on : BOOLEAN, pid : Pids \cup {Absent}, left : SUBSET Ports]
  BY <1>1, <1>2, SweepOn
<1>6. \A q \in Ports : ports'[q] = IF q = p THEN Free ELSE ports[q]
  BY <1>1 DEF PortsInv, PortTypes
<1>7. PortTypes' /\ PortsNumbered'
  <2> HIDE DEF ch, left
  <2> QED
    BY <1>1, <1>3, <1>4, <1>5 DEF PortsInv, PortTypes, PortsNumbered
<1>8. SweepLeavesNone' /\ LeftIsBound'
  BY <1>1, <1>5, <1>6 DEF PortsInv, SweepLeavesNone, LeftIsBound, Bound, Matches
<1> QED
  BY <1>1, <1>3, <1>4, <1>7, <1>8 DEF PortsInv, Hears

\* The loop visits an entry that it removes; what a listener binds meanwhile is
\* ahead of it.
LEMMA VisitRebinding ==
  ASSUME IInv, PortsInv, NEW p \in Ports, NEW q \in Ports, q # Absent, NEW pid \in Pids,
         SweepVisits(p, q, pid)
  PROVE  PortsInv'
<1> DEFINE h == binds + 1
<1> DEFINE gone == [ports EXCEPT ![p] = Free]
<1> DEFINE ch == Append(channel, UnbindMessage(p))
<1> DEFINE r == [pid |-> pid, handler |-> h]
<1> DEFINE m == BindMessage(q, h)
<1> DEFINE left == (sweep.left \ {p}) \cup {q}
<1>1. /\ sweep.on /\ p \in sweep.left /\ gone[q] = Free /\ binds' = h
      /\ ports' = [gone EXCEPT ![q] = r] /\ channel' = ch \o Told(q, h)
      /\ sweep' = [sweep EXCEPT !.left = left]
      /\ UNCHANGED <<handlers, carries, stops>>
  BY DEF SweepVisits, workerVars, hostVars, Visited
<1>2. h \in Nat \ {0} /\ binds <= h /\ h <= h /\ ports[p] # Free /\ left \in SUBSET Ports
  BY <1>1, NetworkTypes DEF PortsInv, LeftIsBound, Bound, PortTypes
<1>3. r \in PortRecords /\ r.handler = h /\ r # Free
  BY <1>2, Records DEF Free
<1>4. m \in Bindings /\ m.handler = h /\ m.port = q /\ Plain(m)
  BY <1>2, Records
<1>5. /\ gone \in [Ports -> PortRecords] /\ ch \in Seq(Bindings)
      /\ \A x \in Ports : gone[x].handler = 0 <=> gone[x] = Free
      /\ \A x \in Ports : gone[x].handler <= h
      /\ \A k \in 1 .. Len(ch) : ch[k].handler <= h
      /\ Hears => Agree(handlers, ch, HandlersOf(gone))
  <2>1. h \in Nat
    BY <1>2
  <2> HIDE DEF h
  <2> QED
    BY <1>2, <2>1, Unbound
<1>6. /\ sweep'.on /\ sweep'.pid = sweep.pid /\ sweep'.left = left
      /\ sweep' \in [on : BOOLEAN, pid : Pids \cup {Absent}, left : SUBSET Ports]
  BY <1>1, <1>2, SweepOn
<1>7. \A x \in Ports : gone[x] = IF x = p THEN Free ELSE ports[x]
  BY DEF PortsInv, PortTypes
<1>8. (carries => channel' = Append(ch, m)) /\ (~carries => channel' = ch)
  <2>1. h \in Nat
    BY <1>2
  <2> HIDE DEF h, ch, gone, r, left
  <2> QED
    BY <1>1, <1>5, <2>1, ToldIs
<1> HIDE DEF gone, ch, r, m, h
<1>9. ports' \in [Ports -> PortRecords] /\ \A x \in Ports : ports'[x] = IF x = q THEN r ELSE gone[x]
  BY <1>1, <1>3, <1>5
<1>10. \A k \in 1 .. Len(channel') : channel'[k].handler <= h
  BY <1>2, <1>4, <1>5, <1>8, NumberedWith
<1>11. PortTypes'
  BY <1>1, <1>2, <1>3, <1>5, <1>6, <1>9 DEF PortsInv, PortTypes
<1>12. PortsNumbered'
  <2>1. \A x \in Ports : handlers[x] <= h
    BY <1>2, NumberedUpTo
  <2>2. \A x \in Ports : ports'[x].handler <= h
    BY <1>2, <1>3, <1>5, <1>9
  <2> QED
    BY <1>1, <1>10, <2>1, <2>2 DEF PortsNumbered
<1>13. SweepLeavesNone' /\ LeftIsBound'
  <2>1. sweep.pid = Absent \/ \A x \in Ports : ports'[x].pid = sweep.pid => x = q \/ (x # p /\ ports[x].pid = sweep.pid)
    <3>1. Free.pid = Absent
      BY DEF Free
    <3> QED
      BY <1>7, <1>9, <3>1
  <2>2. \A x \in Ports : ports'[x] # Free <=> x = q \/ (x # p /\ ports[x] # Free)
    BY <1>3, <1>7, <1>9
  <2> QED
    BY <1>1, <1>6, <2>1, <2>2 DEF PortsInv, SweepLeavesNone, LeftIsBound, Bound, Matches
<1>14. Hears' => Agree(handlers', channel', HandlersOf(ports'))
  <2>1. gone[m.port].handler = 0
    BY <1>1, <1>4, Records
  <2> SUFFICES ASSUME Hears PROVE Agree(handlers, Append(ch, m), HandlersOf([gone EXCEPT ![m.port] = r]))
    BY <1>1, <1>4, <1>8 DEF Hears
  <2>2. m.handler # 0 <=> gone[m.port].handler = 0
    BY <1>2, <1>4, <2>1
  <2>3. handlers \in [Ports -> Nat] /\ Agree(handlers, ch, HandlersOf(gone))
    BY <1>5, NetworkTypes
  <2> QED
    BY <1>3, <1>4, <1>5, <2>2, <2>3, ChangeSaid
<1> QED
  BY <1>11, <1>12, <1>13, <1>14 DEF PortsInv

\* The loop starts, passes over an entry of another process, and ends.
LEMMA SweepPorts ==
  ASSUME PortsInv, UNCHANGED <<ports, binds, channel, handlers, carries, stops>>,
         \/ \E pid \in Pids \cup {Absent} : SweepStarts(pid)
         \/ \E p \in Ports : SweepPasses(p)
         \/ SweepEnds
  PROVE  PortsInv'
<1>1. PortsNumbered' /\ (Hears' => Agree(handlers', channel', HandlersOf(ports')))
  BY DEF PortsInv, PortsNumbered, Hears
<1>2. ASSUME NEW pid \in Pids \cup {Absent}, SweepStarts(pid)
      PROVE  PortTypes' /\ SweepLeavesNone' /\ LeftIsBound'
  <2>1. sweep' = [on |-> TRUE, pid |-> pid, left |-> Bound] /\ Bound \subseteq Ports
    BY <1>2 DEF SweepStarts, Bound
  <2> QED
    BY <2>1 DEF PortsInv, PortTypes, SweepLeavesNone, LeftIsBound, Bound
<1>3. ASSUME NEW p \in Ports, SweepPasses(p)
      PROVE  PortTypes' /\ SweepLeavesNone' /\ LeftIsBound'
  <2>1. sweep.on /\ ~Matches(p) /\ sweep' = [sweep EXCEPT !.left = sweep.left \ {p}]
        /\ sweep.left \ {p} \in SUBSET Ports
    BY <1>3 DEF SweepPasses, PortsInv, PortTypes
  <2>2. /\ sweep'.on /\ sweep'.pid = sweep.pid /\ sweep'.left = sweep.left \ {p}
        /\ sweep' \in [on : BOOLEAN, pid : Pids \cup {Absent}, left : SUBSET Ports]
    BY <2>1, SweepOn
  <2> QED
    BY <2>1, <2>2 DEF PortsInv, PortTypes, SweepLeavesNone, LeftIsBound, Bound, Matches
<1>4. ASSUME SweepEnds PROVE PortTypes' /\ SweepLeavesNone' /\ LeftIsBound'
  <2>1. sweep' = NoSweep
    BY <1>4 DEF SweepEnds
  <2>2. ~NoSweep.on /\ NoSweep \in [on : BOOLEAN, pid : Pids \cup {Absent}, left : SUBSET Ports]
    BY DEF NoSweep
  <2> QED
    BY <2>1, <2>2 DEF PortsInv, PortTypes, SweepLeavesNone, LeftIsBound
<1> QED
  BY <1>1, <1>2, <1>3, <1>4 DEF PortsInv

\* The service worker hears of a binding.
LEMMA ReceivePorts == ASSUME IInv, PortsInv, ReceiveBinding PROVE PortsInv'
<1> DEFINE m == Head(channel)
<1>1. /\ channel # << >> /\ channel' = Tail(channel)
      /\ handlers' = [handlers EXCEPT ![m.port] = m.handler]
      /\ UNCHANGED <<ports, sweep, binds, carries, stops>>
  BY DEF ReceiveBinding, Applied, tableVars, hostVars
<1>2. channel \in Seq(Bindings) /\ handlers \in [Ports -> Nat]
  BY NetworkTypes
<1>3. m = channel[1] /\ Len(channel) \in Nat /\ 1 \in 1 .. Len(channel)
  BY <1>1, <1>2
<1>4. m.handler <= binds
  BY <1>3 DEF PortsInv, PortsNumbered
<1>5. \A k \in 1 .. Len(channel') : k + 1 \in 1 .. Len(channel) /\ channel'[k] = channel[k + 1]
  BY <1>1, <1>2
<1>6. PortsNumbered'
  <2>1. \A q \in Ports : handlers'[q] = IF q = m.port THEN m.handler ELSE handlers[q]
    BY <1>1, <1>2
  <2> HIDE DEF m
  <2>2. \A q \in Ports : handlers'[q] <= binds
    BY <1>4, <2>1 DEF PortsInv, PortsNumbered
  <2>3. \A k \in 1 .. Len(channel') : channel'[k].handler <= binds
    BY <1>5 DEF PortsInv, PortsNumbered
  <2>4. \A q \in Ports : ports[q].handler <= binds
    BY DEF PortsInv, PortsNumbered
  <2> QED
    BY <1>1, <2>2, <2>3, <2>4 DEF PortsNumbered
<1>7. PortTypes' /\ SweepLeavesNone' /\ LeftIsBound'
  BY <1>1 DEF PortsInv, PortTypes, SweepLeavesNone, LeftIsBound, Bound, Matches
<1>8. Hears' => Agree(handlers', channel', HandlersOf(ports'))
  <2> SUFFICES ASSUME Hears PROVE Agree([handlers EXCEPT ![m.port] = m.handler], Tail(channel), HandlersOf(ports))
    BY <1>1 DEF Hears
  <2>1. HandlersOf(ports) \in [Ports -> Nat] /\ Agree(handlers, channel, HandlersOf(ports))
    BY DEF PortsInv, PortTypes, HandlersOf, PortRecords
  <2> HIDE DEF m
  <2> QED
    BY <1>1, <1>2, <2>1, FirstHeard DEF m
<1> QED
  BY <1>6, <1>7, <1>8 DEF PortsInv

\* A service worker that has been stopped is no longer told of every binding.
LEMMA StopPorts == ASSUME IInv, PortsInv, Stop PROVE PortsInv'
<1>1. stops' = stops + 1 /\ handlers' = [p \in Ports |-> 0] /\ channel' = << >>
      /\ UNCHANGED <<ports, sweep, binds>>
  BY DEF Stop, tableVars
<1>2. stops' \in Nat /\ stops' # 0
  BY <1>1 DEF PortsInv, PortTypes
<1>3. PortTypes' /\ SweepLeavesNone' /\ LeftIsBound'
  BY <1>1, <1>2 DEF PortsInv, PortTypes, SweepLeavesNone, LeftIsBound, Bound, Matches
<1>4. PortsNumbered'
  BY <1>1, NetworkTypes DEF PortsInv, PortsNumbered
<1> QED
  BY <1>2, <1>3, <1>4 DEF PortsInv, Hears

LEMMA PortsStay ==
  ASSUME PortsInv, UNCHANGED <<ports, sweep, binds, channel, handlers, carries, stops>>
  PROVE  PortsInv'
BY DEF PortsInv, PortTypes, PortsNumbered, SweepLeavesNone, LeftIsBound, Bound, Matches, Hears

LEMMA StepKeepsPorts == IInv /\ PortsInv /\ [NetworkNext]_networkVars => PortsInv'
<1> SUFFICES ASSUME IInv, PortsInv, [NetworkNext]_networkVars PROVE PortsInv'
  OBVIOUS
<1>1. ASSUME NEW p \in Ports, NEW pid \in Pids, Bind(p, pid) PROVE PortsInv'
  BY <1>1, BindPorts
<1>2. ASSUME NEW p \in Ports, Unbind(p) PROVE PortsInv'
  BY <1>2, UnbindPorts
<1>3. ASSUME NEW p \in Ports, NEW rebinds \in Ports \cup {Absent}, NEW pid \in Pids, SweepVisits(p, rebinds, pid)
      PROVE  PortsInv'
  <2>1. CASE rebinds = Absent
    BY <1>3, <2>1, VisitAlone
  <2>2. CASE rebinds # Absent
    BY <1>3, <2>2, VisitRebinding
  <2> QED
    BY <2>1, <2>2
<1>4. ASSUME NEW pid \in Pids \cup {Absent}, SweepStarts(pid) PROVE PortsInv'
  BY <1>4, SweepPorts DEF SweepStarts, workerVars, hostVars
<1>5. ASSUME NEW p \in Ports, SweepPasses(p) PROVE PortsInv'
  BY <1>5, SweepPorts DEF SweepPasses, workerVars, hostVars
<1>6. ASSUME SweepEnds PROVE PortsInv'
  BY <1>6, SweepPorts DEF SweepEnds, workerVars, hostVars
<1>7. ASSUME ReceiveBinding PROVE PortsInv'
  BY <1>7, ReceivePorts
<1>8. ASSUME Stop PROVE PortsInv'
  BY <1>8, StopPorts
<1>9. ASSUME NEW f \in Fetches, NEW p \in Ports, FetchUnknown(f, p) \/ FetchKnown(f, p) PROVE PortsInv'
  BY <1>9, PortsStay DEF FetchUnknown, FetchKnown, tableVars, workerVars, hostVars
<1>10. ASSUME NEW f \in Fetches, ForwardToHandler(f) \/ TimerFires(f) PROVE PortsInv'
  BY <1>10, PortsStay DEF ForwardToHandler, TimerFires, tableVars, hostVars
<1>11. ASSUME NEW h \in Handlers, HandlePortResponse(h) \/ ServerAnswers(h) PROVE PortsInv'
  BY <1>11, PortsStay DEF HandlePortResponse, ServerAnswers, tableVars, workerVars, hostVars
<1>12. CASE UNCHANGED networkVars
  BY <1>12, PortsStay DEF networkVars
<1> QED
  BY <1>1, <1>2, <1>3, <1>4, <1>5, <1>6, <1>7, <1>8, <1>9, <1>10, <1>11, <1>12 DEF NetworkNext, Table, Worker

THEOREM PortsInvariant == NetworkSpec => []PortsInv
<1>1. NetworkSpec => NetworkInit /\ [][NetworkNext]_networkVars
  BY DEF NetworkSpec
<1> QED
  BY <1>1, NetworkInvariant, PortsInitially, StepKeepsPorts, PTL

\* A channel that carries no handlers: the service worker hears of unbinding alone.
NoHandler(m) == m.type = "port-unbind" /\ m.handler = 0
Untold ==
  ~carries => /\ \A p \in Ports : handlers[p] = 0
              /\ \A k \in 1 .. Len(channel) : NoHandler(channel[k])
              /\ \A f \in Fetches : fetch[f].state \in {"none", "answered", "over"}

LEMMA UntoldInitially == NetworkInit => Untold
<1> SUFFICES ASSUME NetworkInit PROVE Untold
  OBVIOUS
<1>1. Len(channel) = 0
  BY DEF NetworkInit
<1> QED
  BY <1>1 DEF NetworkInit, Untold

LEMMA OneMoreUntold ==
  ASSUME IInv, NEW p \in Ports, \A k \in 1 .. Len(channel) : NoHandler(channel[k]),
         NEW ch, ch = Append(channel, UnbindMessage(p))
  PROVE  ch \in Seq(Bindings) /\ \A k \in 1 .. Len(ch) : NoHandler(ch[k])
<1>1. channel \in Seq(Bindings) /\ UnbindMessage(p) \in Bindings /\ NoHandler(UnbindMessage(p))
  BY NetworkTypes DEF UnbindMessage, Bindings, NoHandler
<1>2. /\ Len(channel) \in Nat /\ Len(ch) = Len(channel) + 1 /\ ch[Len(channel) + 1] = UnbindMessage(p)
      /\ \A k \in 1 .. Len(channel) : ch[k] = channel[k]
  BY <1>1
<1>3. ASSUME NEW k \in 1 .. Len(ch) PROVE NoHandler(ch[k])
  <2>1. k \in 1 .. Len(channel) \/ k = Len(channel) + 1
    BY <1>2
  <2> QED
    BY <1>1, <1>2, <2>1
<1> QED
  BY <1>1, <1>3

LEMMA HostStays == [NetworkNext]_networkVars => UNCHANGED carries
<1>1. Table => UNCHANGED carries
  BY DEF Table, Bind, Unbind, SweepPasses, SweepStarts, SweepVisits, SweepEnds, hostVars
<1>2. Worker => UNCHANGED carries
  BY DEF Worker, ReceiveBinding, Stop, FetchUnknown, FetchKnown, ForwardToHandler, TimerFires,
         HandlePortResponse, hostVars
<1>3. \A h \in Handlers : ServerAnswers(h) => UNCHANGED carries
  BY DEF ServerAnswers, hostVars
<1> QED
  BY <1>1, <1>2, <1>3 DEF NetworkNext, networkVars

LEMMA StepKeepsUntold == IInv /\ Untold /\ [NetworkNext]_networkVars => Untold'
<1> SUFFICES ASSUME IInv, Untold, [NetworkNext]_networkVars, ~carries PROVE Untold'
  BY HostStays DEF Untold
<1>1. /\ \A p \in Ports : handlers[p] = 0
      /\ \A k \in 1 .. Len(channel) : NoHandler(channel[k])
      /\ \A f \in Fetches : fetch[f].state \in {"none", "answered", "over"}
      /\ binds \in Nat /\ channel \in Seq(Bindings) /\ handlers \in [Ports -> Nat]
      /\ fetch \in [Fetches -> FetchRecords]
  BY NetworkTypes, TypesAre DEF Untold
<1>2. ASSUME UNCHANGED <<handlers, channel, fetch>> PROVE Untold'
  BY <1>1, <1>2 DEF Untold
<1>3. ASSUME NEW p \in Ports, NEW pid \in Pids, Bind(p, pid) PROVE Untold'
  <2>1. channel' = channel \o Told(p, binds + 1) /\ binds + 1 \in Nat /\ UNCHANGED <<handlers, fetch>>
    BY <1>1, <1>3 DEF Bind, workerVars
  <2> QED
    BY <1>1, <1>2, <2>1, ToldIs
<1>4. ASSUME NEW p \in Ports, Unbind(p) PROVE Untold'
  <2>1. channel' = Append(channel, UnbindMessage(p)) /\ UNCHANGED <<handlers, fetch>>
    BY <1>4 DEF Unbind, workerVars
  <2> QED
    BY <1>1, <2>1, OneMoreUntold DEF Untold
<1>5. ASSUME NEW p \in Ports, NEW rebinds \in Ports \cup {Absent}, NEW pid \in Pids, SweepVisits(p, rebinds, pid)
      PROVE  Untold'
  <2> DEFINE ch == Append(channel, UnbindMessage(p))
  <2>1. /\ channel' = ch \o (IF rebinds # Absent THEN Told(rebinds, binds + 1) ELSE << >>)
        /\ UNCHANGED <<handlers, fetch>> /\ binds + 1 \in Nat
    BY <1>1, <1>5 DEF SweepVisits, workerVars
  <2>2. ch \in Seq(Bindings) /\ \A k \in 1 .. Len(ch) : NoHandler(ch[k])
    BY <1>1, OneMoreUntold
  <2> HIDE DEF ch
  <2>3. channel' = ch
    BY <2>1, <2>2, ToldIs
  <2> QED
    BY <1>1, <2>1, <2>2, <2>3 DEF Untold
<1>6. ASSUME ReceiveBinding PROVE Untold'
  <2>1. /\ channel # << >> /\ channel' = Tail(channel) /\ fetch' = fetch
        /\ handlers' = [handlers EXCEPT ![Head(channel).port] = Head(channel).handler]
    BY <1>6 DEF ReceiveBinding, Applied
  <2>2. /\ Head(channel) = channel[1] /\ 1 \in 1 .. Len(channel)
        /\ \A k \in 1 .. Len(Tail(channel)) : k + 1 \in 1 .. Len(channel) /\ Tail(channel)[k] = channel[k + 1]
    BY <1>1, <2>1
  <2>3. Head(channel).handler = 0
    BY <1>1, <2>2 DEF NoHandler
  <2>4. \A p \in Ports : handlers'[p] = 0
    BY <1>1, <2>1, <2>3
  <2>5. \A k \in 1 .. Len(channel') : NoHandler(channel'[k])
    BY <1>1, <2>1, <2>2
  <2> QED
    BY <1>1, <2>1, <2>4, <2>5 DEF Untold
<1>7. ASSUME Stop PROVE Untold'
  <2>1. /\ handlers' = [p \in Ports |-> 0] /\ channel' = << >>
        /\ fetch' = [f \in Fetches |-> [fetch[f] EXCEPT !.state = IF @ = "answered" THEN "over" ELSE @]]
    BY <1>7 DEF Stop
  <2>2. \A f \in Fetches : fetch'[f].state \in {"none", "over"}
    BY <1>1, <2>1 DEF FetchRecords
  <2>3. Len(channel') = 0
    BY <2>1
  <2> QED
    BY <2>1, <2>2, <2>3 DEF Untold
<1>8. ASSUME NEW f \in Fetches, NEW p \in Ports, FetchUnknown(f, p) PROVE Untold'
  <2>1. fetch' = [Answers(f, <<"502", 0, f>>) EXCEPT ![f].port = p] /\ UNCHANGED <<handlers, channel>>
    BY <1>8 DEF FetchUnknown, workerVars
  <2>2. \A g \in Fetches : fetch'[g].state \in {fetch[g].state, "answered"}
    BY <1>1, <2>1 DEF Answers, FetchRecords
  <2> QED
    BY <1>1, <2>1, <2>2 DEF Untold
<1>9. ASSUME NEW f \in Fetches, TimerFires(f) PROVE Untold'
  <2>1. /\ fetch[f].state = "answered" /\ UNCHANGED <<handlers, channel>>
        /\ fetch' = [fetch EXCEPT ![f].state = "over"] \/ fetch' = [Answers(f, <<"504", 0, f>>) EXCEPT ![f].state = "over"]
    BY <1>1, <1>9 DEF TimerFires, Timeout
  <2>2. ASSUME NEW g \in Fetches PROVE fetch'[g].state = fetch[g].state \/ fetch'[g].state = "over"
    BY <1>1, <2>1 DEF Answers, FetchRecords
  <2> QED
    BY <1>1, <2>1, <2>2 DEF Untold
<1>10. /\ \A f \in Fetches, p \in Ports : ~FetchKnown(f, p)
       /\ \A f \in Fetches : ~ForwardToHandler(f)
  BY <1>1 DEF FetchKnown, ForwardToHandler
<1>11. ASSUME NEW h \in Handlers, HandlePortResponse(h) PROVE Untold'
  <2>1. \A id \in DOMAIN pending : pending[id] \in Fetches /\ fetch[pending[id]].state = "waiting"
    BY TypesAre DEF IInv, PendingOwn
  <2>2. DOMAIN pending = {}
    BY <1>1, <2>1
  <2>3. UNCHANGED <<handlers, channel, fetch>>
    BY <1>11, <2>2 DEF HandlePortResponse
  <2> QED
    BY <1>2, <2>3
<1>12. ASSUME NEW h \in Handlers, ServerAnswers(h) PROVE Untold'
  BY <1>2, <1>12 DEF ServerAnswers, workerVars
<1>13. ASSUME \/ \E pid \in Pids \cup {Absent} : SweepStarts(pid)
              \/ \E p \in Ports : SweepPasses(p)
              \/ SweepEnds
              \/ UNCHANGED networkVars
       PROVE  Untold'
  BY <1>2, <1>13 DEF SweepStarts, SweepPasses, SweepEnds, workerVars, networkVars
<1>14. Table => Untold'
  BY <1>3, <1>4, <1>5, <1>13 DEF Table
<1>15. Worker => Untold'
  <2> SUFFICES ASSUME Worker PROVE Untold'
    OBVIOUS
  <2>1. \/ ReceiveBinding \/ Stop
        \/ \E f \in Fetches, p \in Ports : FetchUnknown(f, p)
        \/ \E f \in Fetches : TimerFires(f)
        \/ \E h \in Handlers : HandlePortResponse(h)
    BY <1>10 DEF Worker
  <2> QED
    BY <1>6, <1>7, <1>8, <1>9, <1>11, <2>1
<1> QED
  BY <1>12, <1>13, <1>14, <1>15 DEF NetworkNext

THEOREM UntoldInvariant == NetworkSpec => []Untold
<1>1. NetworkSpec => NetworkInit /\ [][NetworkNext]_networkVars
  BY DEF NetworkSpec
<1> QED
  BY <1>1, NetworkInvariant, UntoldInitially, StepKeepsUntold, PTL

\* However ports are bound and unbound, singly and in the loops of unbindByPid()
\* and clear(), and whatever programs bind again in reply, the messages under way
\* bring a service worker that was never stopped to the table of the main thread,
\* say bind and unbind of a port by turns, where the channel carries the handlers;
\* where it does not, the service worker takes no port for bound.  A loop passes
\* over no entry it was asked to remove (port-table.ts: bind, unbind, unbindByPid,
\* clear; notifyPortBind; the handler of 'wc-network' messages in service-worker.ts).
THEOREM PortsAreAgreed == NetworkSpec => []PortsAgree
<1>1. IInv /\ PortsInv /\ Untold => PortsAgree
  <2> SUFFICES ASSUME IInv, PortsInv, Untold PROVE PortsAgree
    OBVIOUS
  <2>1. NetworkTypeOK
    <3>1. \A p \in Ports : ports[p] \in [pid : Pids \cup {Absent}, handler : 0 .. binds] /\ handlers[p] \in 0 .. binds
      <4> SUFFICES ASSUME NEW p \in Ports
          PROVE  ports[p] \in [pid : Pids \cup {Absent}, handler : 0 .. binds] /\ handlers[p] \in 0 .. binds
        OBVIOUS
      <4>1. ports[p] \in PortRecords /\ handlers[p] \in Nat /\ binds \in Nat
        BY NetworkTypes DEF PortsInv, PortTypes
      <4>2. ports[p].handler <= binds /\ handlers[p] <= binds
        BY DEF PortsInv, PortsNumbered
      <4> QED
        BY <4>1, <4>2 DEF PortRecords
    <3>2. ports \in [Ports -> [pid : Pids \cup {Absent}, handler : 0 .. binds]]
      BY <3>1 DEF PortsInv, PortTypes
    <3>3. handlers \in [Ports -> 0 .. binds]
      BY <3>1, NetworkTypes
    <3>4. sweep.left \subseteq Ports
      BY DEF PortsInv, PortTypes
    <3>5. DOMAIN pending \subseteq 1 .. counter
      BY DEF IInv, Types
    <3>6. \A f \in Fetches : fetch[f].state \in {"none", "reading", "waiting", "answered", "over", "dropped"}
      BY DEF IInv, Types, FetchRecords
    <3> QED
      BY <3>2, <3>3, <3>4, <3>5, <3>6 DEF NetworkTypeOK
  <2>2. SweepLeavesNone
    BY DEF PortsInv
  <2>3. ASSUME Hears PROVE WorkerCatchesUp /\ BindsAndUnbindsAlternate
    <3>1. TableTold(handlers, channel, HandlersOf(ports)) /\ InTurns(handlers, channel)
      BY <2>3 DEF PortsInv, Agree
    <3>2. WorkerCatchesUp
      BY <3>1 DEF TableTold, WorkerCatchesUp, About, IsLast, HandlersOf
    <3>3. BindsAndUnbindsAlternate
      BY <3>1 DEF InTurns, Before, BindsAndUnbindsAlternate, About, IsLast
    <3> QED
      BY <3>2, <3>3
  <2>4. WorkerCatchesUp /\ BindsAndUnbindsAlternate
    BY <2>3 DEF Hears, WorkerCatchesUp, BindsAndUnbindsAlternate
  <2>5. WorkerNeverTold
    BY DEF Untold, NoHandler, WorkerNeverTold
  <2> QED
    BY <2>1, <2>2, <2>4, <2>5 DEF PortsAgree
<1> QED
  BY <1>1, NetworkInvariant, PortsInvariant, UntoldInvariant, PTL

-----------------------------------------------------------------------------
(***************************************************************************)
(* The file system across reloads.  What is proved of the file system in   *)
(* VFSProofs is cited from there; the page's instance of it is the same,   *)
(* recursion by recursion.                                                 *)
(***************************************************************************)
HIDE NetworkAssumption
\* The proofs about the file system, of the page's table.
V == INSTANCE VFSProofs WITH
  inodes <- table, counter <- nextInode, Names <- EntryNames, NoName <- "noname",
  Paths <- DirPaths, Targets <- {}, NoTarget <- "nowhere", MaxIno <- MaxInode, MaxSymlinkDepth <- 1

\* The directories are paths below the root.
LEMMA DirType ==
  /\ Dirs \in Seq(Seq(EntryNames)) /\ Len(Dirs) \in Nat /\ DOMAIN Dirs = 1 .. Len(Dirs)
  /\ \A j \in DOMAIN Dirs : Dirs[j] \in Seq(EntryNames) /\ Dirs[j] # << >> /\ Len(Dirs[j]) \in Nat
<1> DEFINE D == Seq(EntryNames) \ {<< >>}
<1>1. Dirs \in Seq(D)
  BY SnapshotsAssumption
<1>2. \A d \in D : d \in Seq(EntryNames) /\ d # << >>
  OBVIOUS
<1> HIDE DEF D
<1>3. Len(Dirs) \in Nat /\ DOMAIN Dirs = 1 .. Len(Dirs) /\ \A j \in 1 .. Len(Dirs) : Dirs[j] \in D
  BY <1>1
<1>4. ASSUME NEW j \in DOMAIN Dirs
      PROVE  Dirs[j] \in Seq(EntryNames) /\ Dirs[j] # << >> /\ Len(Dirs[j]) \in Nat
  <2>1. Dirs[j] \in D
    BY <1>3
  <2>2. Dirs[j] \in Seq(EntryNames) /\ Dirs[j] # << >>
    BY <1>2, <2>1
  <2> QED
    BY <2>2
<1>5. Dirs \in Seq(Seq(EntryNames))
  <2>1. D \subseteq Seq(EntryNames)
    BY <1>2
  <2> QED
    BY <1>1, <2>1
<1> QED
  BY <1>3, <1>4, <1>5

\* What the proofs about the file system assume is so of the page's.
LEMMA PageFiles == V!VFSAssumption /\ V!PathsAssumption
<1>1. ASSUME NEW j \in DOMAIN Dirs, NEW n \in 1 .. Len(Dirs[j])
      PROVE  /\ SubSeq(Dirs[j], 1, n) \in Seq(EntryNames) /\ Len(SubSeq(Dirs[j], 1, n)) = n
             /\ \A k \in 1 .. n : SubSeq(SubSeq(Dirs[j], 1, n), 1, k) = SubSeq(Dirs[j], 1, k)
  <2>1. Dirs[j] \in Seq(EntryNames)
    BY DirType
  <2>2. /\ SubSeq(Dirs[j], 1, n) \in Seq(EntryNames) /\ Len(SubSeq(Dirs[j], 1, n)) = n
        /\ \A i \in 1 .. n : SubSeq(Dirs[j], 1, n)[i] = Dirs[j][i]
    BY <2>1
  <2>3. ASSUME NEW k \in 1 .. n
        PROVE  SubSeq(SubSeq(Dirs[j], 1, n), 1, k) = SubSeq(Dirs[j], 1, k)
    <3> DEFINE a == SubSeq(Dirs[j], 1, n)
    <3>1. a \in Seq(EntryNames) /\ Len(a) = n
      BY <2>2
    <3> HIDE DEF a
    <3>2. SubSeq(a, 1, k) \in Seq(EntryNames) /\ Len(SubSeq(a, 1, k)) = k
          /\ \A i \in 1 .. k : SubSeq(a, 1, k)[i] = a[i]
      BY <3>1
    <3>3. SubSeq(Dirs[j], 1, k) \in Seq(EntryNames) /\ Len(SubSeq(Dirs[j], 1, k)) = k
          /\ \A i \in 1 .. k : SubSeq(Dirs[j], 1, k)[i] = Dirs[j][i]
      BY <2>1
    <3>4. \A i \in 1 .. k : SubSeq(a, 1, k)[i] = SubSeq(Dirs[j], 1, k)[i]
      BY <2>2, <3>2, <3>3 DEF a
    <3> DEFINE b == SubSeq(a, 1, k)
    <3> DEFINE c == SubSeq(Dirs[j], 1, k)
    <3>5. b \in Seq(EntryNames) /\ c \in Seq(EntryNames)
          /\ Len(b) = Len(c) /\ \A i \in 1 .. Len(b) : b[i] = c[i]
      BY <3>2, <3>3, <3>4
    <3> HIDE DEF b, c
    <3>6. b = c
      BY <3>5
    <3> QED
      BY <3>6 DEF a, b, c
  <2> QED
    BY <2>2, <2>3
<1>2. DirPaths \subseteq Seq(EntryNames)
  BY <1>1 DEF DirPaths
<1>3. V!VFSAssumption
  BY <1>2, SnapshotsAssumption DEF V!VFSAssumption
<1>4. V!PathsAssumption
  <2>1. ASSUME NEW p \in DirPaths, NEW k \in 1 .. Len(p) PROVE SubSeq(p, 1, k) \in DirPaths
    <3>0. PICK j \in DOMAIN Dirs : \E n \in 1 .. Len(Dirs[j]) : p = SubSeq(Dirs[j], 1, n)
      BY DEF DirPaths
    <3>1. PICK n \in 1 .. Len(Dirs[j]) : p = SubSeq(Dirs[j], 1, n)
      BY <3>0
    <3>2. k \in 1 .. n /\ SubSeq(p, 1, k) = SubSeq(Dirs[j], 1, k)
      BY <1>1, <3>1
    <3>3. Len(Dirs[j]) \in Nat
      BY DirType
    <3>4. k \in 1 .. Len(Dirs[j])
      BY <3>2, <3>3
    <3> QED
      BY <3>2, <3>4 DEF DirPaths
  <2> QED
    BY <2>1 DEF V!PathsAssumption
<1> QED
  BY <1>3, <1>4

\* ... and its directories are the paths below the root.
LEMMA DirsArePaths ==
  Dirs \in Seq(DirPaths) /\ << >> \notin DirPaths /\ DirPaths \subseteq Seq(EntryNames)
<1>1. PICK m \in Nat : m = Len(Dirs) /\ DOMAIN Dirs = 1 .. m
  BY DirType
<1>2. ASSUME NEW j \in DOMAIN Dirs, NEW n \in 1 .. Len(Dirs[j])
      PROVE  SubSeq(Dirs[j], 1, n) \in Seq(EntryNames) /\ Len(SubSeq(Dirs[j], 1, n)) = n /\ n >= 1
  BY DirType
<1>3. << >> \notin DirPaths /\ DirPaths \subseteq Seq(EntryNames)
  BY <1>2 DEF DirPaths
<1>4. ASSUME NEW j \in 1 .. m PROVE Dirs[j] \in DirPaths
  <2>1. Dirs[j] \in Seq(EntryNames) /\ Dirs[j] # << >> /\ j \in DOMAIN Dirs
    BY <1>1, DirType
  <2>2. Len(Dirs[j]) \in Nat \ {0} /\ SubSeq(Dirs[j], 1, Len(Dirs[j])) = Dirs[j]
    BY <2>1
  <2>3. Len(Dirs[j]) \in 1 .. Len(Dirs[j])
    BY <2>2
  <2>4. \E n \in 1 .. Len(Dirs[j]) : Dirs[j] = SubSeq(Dirs[j], 1, n)
    BY <2>2, <2>3
  <2> QED
    BY <2>1, <2>4 DEF DirPaths
<1>5. Dirs \in Seq(DirPaths)
  BY <1>1, <1>4, DirType
<1> QED
  BY <1>3, <1>5

\* The two instances of the file system are one.
LEMMA SameValues ==
  /\ V!Ids = Fs!Ids /\ V!Root = Fs!Root /\ V!None = Fs!None /\ V!ENOENT = Fs!ENOENT
  /\ V!NotMaking = Fs!NotMaking /\ V!Empty = Fs!Empty /\ V!NoInode = Fs!NoInode
  /\ V!AllNames = Fs!AllNames /\ V!Inodes = Fs!Inodes /\ V!Entries = Fs!Entries
  /\ V!Idle = Fs!Idle /\ V!Types = Fs!Types
BY DEF V!Ids, V!Root, V!None, V!ENOENT, V!NotMaking, V!Empty, V!NoInode, V!AllNames,
       V!Inodes, V!Entries, V!Types, V!Idle, Fs!Ids, Fs!Root, Fs!None, Fs!ENOENT,
       Fs!NotMaking, Fs!Empty, Fs!NoInode, Fs!AllNames, Fs!Inodes, Fs!Entries, Fs!Types,
       Fs!Idle
\* ... of the same inodes ...
LEMMA SameInodes ==
  /\ \A i : V!TypeOf(i) = Fs!TypeOf(i) /\ V!IsDir(i) = Fs!IsDir(i) /\ V!Exists(i) = Fs!Exists(i)
  /\ \A i, n : V!Child(i, n) = Fs!Child(i, n)
  /\ \A a, b : V!New(a, b) = Fs!New(a, b)
BY DEF V!TypeOf, V!IsDir, V!Exists, V!Child, V!New, V!Ids, V!Empty, V!None, Fs!TypeOf,
       Fs!IsDir, Fs!Exists, Fs!Child, Fs!New, Fs!Ids, Fs!Empty, Fs!None
\* ... and the same tree.
LEMMA SameSound == V!Sound = Fs!Sound
BY DEF V!Sound, V!EntriesExist, V!RootUnnamed, V!NoEmptyName, V!NamedAtMostOnce,
       V!NothingLost, V!OnlyDirsHaveEntries, V!NoCycle, V!Named, V!TypeOf, V!IsDir,
       V!Exists, V!Child, V!Ids, V!Root, V!None, V!AllNames, V!Empty, Fs!Sound,
       Fs!EntriesExist, Fs!RootUnnamed, Fs!NoEmptyName, Fs!NamedAtMostOnce, Fs!NothingLost,
       Fs!OnlyDirsHaveEntries, Fs!NoCycle, Fs!Named, Fs!TypeOf, Fs!IsDir, Fs!Exists,
       Fs!Child, Fs!Ids, Fs!Root, Fs!None, Fs!AllNames, Fs!Empty
\* The calls of the one are those of the other.
LEMMA SameCalls ==
  /\ \A a, b, c : V!Create(a, b, c) = Fs!Create(a, b, c)
  /\ \A a, b, c : V!RemoveInode(a, b, c) = Fs!RemoveInode(a, b, c)
  /\ \A a : V!Subtree(a) = Fs!Subtree(a)
  /\ \A a, b, c, d, e : V!Moved(a, b, c, d, e) = Fs!Moved(a, b, c, d, e)
<1>2. \A a, b, c : V!Create(a, b, c) = Fs!Create(a, b, c)
  BY DEF V!Create, V!FreshId, Fs!Create, Fs!FreshId
<1>3. \A a, b, c : V!RemoveInode(a, b, c) = Fs!RemoveInode(a, b, c)
  BY DEF V!RemoveInode, V!NoInode, V!Empty, V!None, Fs!RemoveInode, Fs!NoInode, Fs!Empty, Fs!None
<1>4. \A a : V!Subtree(a) = Fs!Subtree(a)
  BY DEF V!Subtree, V!Closed, V!Child, V!None, V!Ids, Fs!Subtree, Fs!Closed, Fs!Child,
         Fs!None, Fs!Ids
<1>5. \A a, b, c, d, e : V!Moved(a, b, c, d, e) = Fs!Moved(a, b, c, d, e)
  BY DEF V!Moved, V!NoInode, V!Empty, V!Child, V!None, V!Ids, Fs!Moved, Fs!NoInode,
         Fs!Empty, Fs!Child, Fs!None, Fs!Ids
<1> QED
  BY <1>2, <1>3, <1>4, <1>5

\* So is one turn of resolvePath's loop ...
LEMMA SameSegments ==
  /\ \A i, k, p, f, h : V!Segment(i, k, p, f, h) = Fs!Segment(i, k, p, f, h)
  /\ \A i, p, f, h : V!Ended(i, p, f, h) = Fs!Ended(i, p, f, h)
  /\ \A p : V!Parent(p) = Fs!Parent(p) /\ V!BaseOf(p) = Fs!BaseOf(p)
<1>1. \A i, k, p, f, h : V!Segment(i, k, p, f, h) = Fs!Segment(i, k, p, f, h)
  BY DEF V!Segment, V!Jump, V!Normal, V!Parent, V!TypeOf, V!IsDir, V!Exists, V!Child, V!Ids,
         V!None, V!ENOENT, V!ENOTDIR, Fs!Segment, Fs!Jump, Fs!Normal, Fs!Parent, Fs!TypeOf,
         Fs!IsDir, Fs!Exists, Fs!Child, Fs!Ids, Fs!None, Fs!ENOENT, Fs!ENOTDIR
<1>2. \A i, p, f, h : V!Ended(i, p, f, h) = Fs!Ended(i, p, f, h)
  BY DEF V!Ended, V!Jump, V!Normal, V!Parent, V!LinkBase, V!TypeOf, V!Ids, Fs!Ended,
         Fs!Jump, Fs!Normal, Fs!Parent, Fs!LinkBase, Fs!TypeOf, Fs!Ids
<1>3. \A p : V!Parent(p) = Fs!Parent(p) /\ V!BaseOf(p) = Fs!BaseOf(p)
  BY DEF V!Parent, Fs!Parent, V!BaseOf, Fs!BaseOf
<1> QED
  BY <1>1, <1>2, <1>3

\* ... and its recursive functions, which are the same by induction: over the names
\* of a path, and over the depth of links.
FsWalk(p, follow, hops) ==
  CHOOSE W : W = [k \in 0 .. Len(p) |->
                    IF k = 0 THEN Fs!Root ELSE Fs!Segment(W[k - 1], k, p, follow, hops)]
FsHops ==
  CHOOSE R : R = [d \in Nat |->
                    [p \in Seq(EntryNames) |->
                       IF d > 1 THEN Fs!ENOENT
                       ELSE Fs!Ended(Fs!Walked(p, TRUE, R[d + 1]), p, TRUE, R[d + 1])]]

\* The operators that resolve paths are these functions.
LEMMA FsRecursionsAre ==
  /\ \A p, follow, hops : Fs!Walked(p, follow, hops) = FsWalk(p, follow, hops)[Len(p)]
  /\ \A p, follow : Fs!Resolve(p, follow)
                         = Fs!Ended(Fs!Walked(p, follow, FsHops[1]), p, follow, FsHops[1])
<1>1. \A p, follow, hops : Fs!Walked(p, follow, hops) = FsWalk(p, follow, hops)[Len(p)]
  BY DEF Fs!Walked, FsWalk
<1>2. \A p, follow : Fs!Resolve(p, follow)
                         = Fs!Ended(Fs!Walked(p, follow, FsHops[1]), p, follow, FsHops[1])
  BY DEF Fs!Resolve, FsHops
<1> QED
  BY <1>1, <1>2

\* A path is walked the same way ...
LEMMA SameWalk ==
  ASSUME V!Linked, NEW p \in Seq(EntryNames), NEW f \in BOOLEAN, NEW h \in V!Hopping
  PROVE  Fs!Walked(p, f, h) = V!Walked(p, f, h)
<1> DEFINE W == V!Walk(p, f, h)
<1>1. PICK n \in Nat : n = Len(p)
  OBVIOUS
<1>2. /\ V!Walked(p, f, h) = W[n] /\ W[0] = V!Root
      /\ \A k \in 1 .. n : W[k] = V!Segment(W[k - 1], k, p, f, h)
  BY <1>1, PageFiles, V!Walking
<1> HIDE DEF W
<1> DEFINE X == [k \in 0 .. n |-> W[k]]
<1>3. \A k \in 0 .. n : X[k] = IF k = 0 THEN Fs!Root ELSE Fs!Segment(X[k - 1], k, p, f, h)
  <2>1. ASSUME NEW k \in 1 .. n PROVE X[k] = Fs!Segment(X[k - 1], k, p, f, h)
    <3>1. k - 1 \in 0 .. n /\ k \in 0 .. n
      OBVIOUS
    <3>2. X[k] = W[k] /\ X[k - 1] = W[k - 1]
      BY <3>1
    <3> HIDE DEF X
    <3> QED
      BY <1>2, <3>2, SameSegments
  <2>2. 0 \in 0 .. n /\ X[0] = Fs!Root
    BY <1>2, SameValues
  <2> HIDE DEF X
  <2> QED
    BY <2>1, <2>2
<1> DEFINE F(Y) == [k \in 0 .. n |-> IF k = 0 THEN Fs!Root ELSE Fs!Segment(Y[k - 1], k, p, f, h)]
<1>4. X = F(X)
  <2>1. X = [k \in 0 .. n |-> X[k]]
    OBVIOUS
  <2> HIDE DEF X
  <2> QED
    BY <1>3, <2>1
<1> DEFINE Y == FsWalk(p, f, h)
<1>5. Y = F(Y)
  <2> HIDE DEF X
  <2> QED
    BY <1>1, <1>4 DEF FsWalk
<1> HIDE DEF Y, X
<1>6. Y[0] = Fs!Root /\ \A k \in 1 .. n : Y[k] = Fs!Segment(Y[k - 1], k, p, f, h)
  BY <1>5
<1> HIDE DEF F
<1> DEFINE P == {k \in 0 .. n : Y[k] = W[k]}
<1>7. 0 \in P
  BY <1>2, <1>6, SameValues
<1>8. ASSUME NEW k \in 1 .. n, k - 1 \in P PROVE k \in P
  <2>1. Y[k - 1] = W[k - 1]
    BY <1>8
  <2>2. Y[k] = W[k]
    BY <1>2, <1>6, <2>1, SameSegments
  <2> QED
    BY <2>2
<1>9. \A k \in 0 .. n : k \in P
  <2> HIDE DEF P
  <2> QED
    BY <1>7, <1>8, CountingUp
<1>10. Y[n] = W[n]
  BY <1>9
<1> QED
  BY <1>1, <1>2, <1>10, FsRecursionsAre DEF Y

\* ... and resolves to the same inode.
LEMMA SameResolve ==
  ASSUME V!Linked, NEW p \in Seq(EntryNames), NEW f \in BOOLEAN
  PROVE  Fs!Resolve(p, f) = V!Resolve(p, f)
<1> DEFINE H == V!Hops
<1>1. /\ \A d \in Nat : H[d] \in V!Hopping
      /\ \A d \in Nat, q \in Seq(EntryNames) :
           H[d][q] = IF d > 1 THEN V!ENOENT
                     ELSE V!Ended(V!Walked(q, TRUE, H[d + 1]), q, TRUE, H[d + 1])
  BY PageFiles, V!Resolving
<1>2. V!Resolve(p, f) = V!Ended(V!Walked(p, f, H[1]), p, f, H[1])
  BY PageFiles, V!RecursionsAre
<1> HIDE DEF H
<1> DEFINE T(R, d) == [q \in Seq(EntryNames) |->
                         IF d > 1 THEN Fs!ENOENT
                         ELSE Fs!Ended(Fs!Walked(q, TRUE, R[d + 1]), q, TRUE, R[d + 1])]
<1> DEFINE X == [d \in Nat |-> H[d]]
<1>3. ASSUME NEW d \in Nat PROVE X[d] = T(X, d)
  <2>1. d + 1 \in Nat /\ X[d] = H[d] /\ X[d + 1] = H[d + 1]
    OBVIOUS
  <2>2. H[d] \in V!Hopping /\ H[d + 1] \in V!Hopping
    BY <1>1, <2>1
  <2>3. ASSUME NEW q \in Seq(EntryNames) PROVE H[d][q] = T(X, d)[q]
    <3>1. Fs!Walked(q, TRUE, H[d + 1]) = V!Walked(q, TRUE, H[d + 1])
      BY <2>2, SameWalk
    <3>2. H[d][q] = IF d > 1 THEN Fs!ENOENT
                    ELSE Fs!Ended(Fs!Walked(q, TRUE, H[d + 1]), q, TRUE, H[d + 1])
      BY <1>1, <3>1, SameSegments, SameValues
    <3> HIDE DEF X
    <3> QED
      BY <2>1, <3>2
  <2>4. H[d] = [q \in Seq(EntryNames) |-> H[d][q]]
    BY <2>2 DEF V!Hopping
  <2> HIDE DEF X
  <2> QED
    BY <2>1, <2>3, <2>4
<1>4. X = [d \in Nat |-> T(X, d)]
  <2>1. X = [d \in Nat |-> X[d]]
    OBVIOUS
  <2> HIDE DEF X, T
  <2> QED
    BY <1>3, <2>1
<1> DEFINE G == FsHops
<1>5. G = [d \in Nat |-> T(G, d)]
  <2> HIDE DEF X
  <2> QED
    BY <1>4 DEF FsHops
<1> HIDE DEF G
<1>6. G[1] = T(G, 1) /\ G[2] = T(G, 2)
  <2> HIDE DEF T
  <2> QED
    BY <1>5
<1>7. H[1] = T(X, 1) /\ H[2] = T(X, 2) /\ X[2] = H[2] /\ X[1] = H[1]
  <2>1. X[1] = T(X, 1) /\ X[2] = T(X, 2)
    <3> HIDE DEF X, T
    <3> QED
      BY <1>3
  <2> QED
    BY <2>1
<1> HIDE DEF X
<1>8. G[1] = H[1]
  <2>1. T(X, 2) = T(G, 2)
    <3>1. T(G, 2) = [q \in Seq(EntryNames) |-> Fs!ENOENT]
      OBVIOUS
    <3>2. T(X, 2) = [q \in Seq(EntryNames) |-> Fs!ENOENT]
      OBVIOUS
    <3> HIDE DEF T
    <3> QED
      BY <3>1, <3>2
  <2>2. X[2] = G[2]
    <3> HIDE DEF T
    <3> QED
      BY <1>6, <1>7, <2>1
  <2>3. T(X, 1) = T(G, 1)
    <3>1. 1 + 1 = 2
      OBVIOUS
    <3> QED
      BY <2>2, <3>1, Zenon
  <2> HIDE DEF T
  <2> QED
    BY <1>6, <1>7, <2>3
<1>9. Fs!Walked(p, f, H[1]) = V!Walked(p, f, H[1])
  BY <1>1, SameWalk
<1>10. Fs!Resolve(p, f) = Fs!Ended(Fs!Walked(p, f, G[1]), p, f, G[1])
  BY FsRecursionsAre DEF G
<1> QED
  BY <1>2, <1>8, <1>9, <1>10, SameSegments

\* A table without links, whose root is a directory and no entry, and which has
\* no entries where it has no inode: so is every table, however often restored.
CleanTable(t) ==
  /\ t \in [V!Ids -> V!Inodes]
  /\ t[V!Root].type = "directory"
  /\ \A i \in V!Ids : t[i].type # "symlink"
  /\ \A i \in V!Ids, n \in V!AllNames :
        /\ t[i].children[n] # V!Root
        /\ t[i].type = "none" => t[i].children[n] = V!None

\* A table that is a tree of names.
SoundTable(t) ==
  /\ \A i \in V!Ids, n \in V!AllNames :
        LET c == t[i].children[n] IN c # V!None => c \in V!Ids /\ t[c].type # "none"
  /\ \A i \in V!Ids : t[i].children["noname"] = V!None
  /\ \A i, j \in V!Ids, m, n \in V!AllNames :
        t[i].children[m] = t[j].children[n] /\ t[i].children[m] # V!None => i = j /\ m = n
  /\ \A i \in V!Ids \ {V!Root} :
        t[i].type # "none" => \E j \in V!Ids, n \in V!AllNames : t[j].children[n] = i
  /\ \A i \in V!Ids : t[i].type # "directory" => t[i].children = V!Empty
  /\ \A D \in SUBSET V!Ids : D # {} =>
        \E i \in D : \A j \in D, n \in V!AllNames : t[j].children[n] # i

\* Of the table in use that is what the file system calls sound.
LEMMA SoundIs ==
  /\ CleanTable(table) => (V!Sound <=> SoundTable(table))
  /\ CleanTable(table') => (V!Sound' <=> SoundTable(table'))
<1>1. V!Root \in V!Ids
  BY PageFiles, V!InTable
<1>2. CleanTable(table) => (V!Sound <=> SoundTable(table))
  BY <1>1 DEF
         CleanTable, SoundTable, V!Sound, V!EntriesExist, V!RootUnnamed, V!NoEmptyName,
         V!NamedAtMostOnce, V!NothingLost, V!OnlyDirsHaveEntries, V!NoCycle, V!Named,
         V!TypeOf, V!IsDir, V!Exists, V!Child
<1>3. CleanTable(table') => (V!Sound' <=> SoundTable(table'))
  BY <1>1 DEF
         CleanTable, SoundTable, V!Sound, V!EntriesExist, V!RootUnnamed, V!NoEmptyName,
         V!NamedAtMostOnce, V!NothingLost, V!OnlyDirsHaveEntries, V!NoCycle, V!Named,
         V!TypeOf, V!IsDir, V!Exists, V!Child
<1> QED
  BY <1>2, <1>3

\* A clean table, in the words of the file system.
LEMMA CleanIs ==
  /\ CleanTable(table) <=>
       /\ table \in [V!Ids -> V!Inodes] /\ V!IsDir(V!Root) /\ V!NoLinks
       /\ \A i \in V!Ids, n \in V!AllNames :
             V!Child(i, n) # V!Root /\ (~V!Exists(i) => V!Child(i, n) = V!None)
  /\ CleanTable(table') <=>
       /\ table' \in [V!Ids -> V!Inodes] /\ V!TypeOf(V!Root)' = "directory"
       /\ \A i \in V!Ids : V!TypeOf(i)' # "symlink"
       /\ \A i \in V!Ids, n \in V!AllNames :
             V!Child(i, n)' # V!Root /\ (V!TypeOf(i)' = "none" => V!Child(i, n)' = V!None)
<1>1. V!Root \in V!Ids
  BY PageFiles, V!InTable
<1> QED
  BY <1>1 DEF CleanTable, V!NoLinks, V!TypeOf, V!IsDir, V!Exists, V!Child

\* Tables of files and directories link nowhere.
LEMMA CleanLinked == CleanTable(table) => V!Linked
<1>1. V!Root \in V!Ids
  BY PageFiles, V!InTable
<1> QED
  BY <1>1, CleanIs DEF V!Linked, V!NoLinks

\* The numbers of inodes.
LEMMA IdsAre ==
  /\ MaxInode \in Nat /\ V!Ids = 0 .. MaxInode /\ V!Root = 0 /\ V!None = -1
  /\ Fs!Ids = V!Ids /\ Fs!Root = 0 /\ Fs!None = -1
<1>1. MaxInode \in Nat
  BY PageFiles DEF V!VFSAssumption
<1> QED
  BY <1>1 DEF V!Ids, V!Root, V!None, Fs!Ids, Fs!Root, Fs!None

\* The table of a first boot has the root alone; where it has no inode, it has no entry.
LEMMA FreshIs ==
  /\ FreshTable[V!Root] = [type |-> "directory", children |-> V!Empty, target |-> "nowhere"]
  /\ \A x \in V!Entries : [FreshTable[V!Root] EXCEPT !.children = x]
                           = [type |-> "directory", children |-> x, target |-> "nowhere"]
  /\ \A x \in V!Entries : [type |-> "directory", children |-> x, target |-> "nowhere"] \in V!Inodes
  /\ V!NoInode.type = "none"
  /\ V!NoInode = [type |-> "none", children |-> V!Empty, target |-> "nowhere"]
  /\ \A i \in V!Ids : i # V!Root => FreshTable[i] = V!NoInode
  /\ FreshTable = [i \in V!Ids |-> FreshTable[i]]
  /\ V!Empty \in V!Entries /\ \A n \in V!AllNames : V!Empty[n] = V!None
<1>1. Fs!New("directory", "nowhere")
        = [type |-> "directory", children |-> Fs!Empty, target |-> "nowhere"]
  BY DEF Fs!New
<1>2. Fs!Root \in Fs!Ids
  BY IdsAre
<1>3. FreshTable[Fs!Root] = Fs!New("directory", "nowhere")
  BY <1>2 DEF FreshTable
<1>4. \A i \in Fs!Ids : i # Fs!Root => FreshTable[i] = Fs!NoInode
  BY DEF FreshTable
<1>5. V!NoInode = [type |-> "none", children |-> V!Empty, target |-> "nowhere"]
  BY DEF V!NoInode
<1>6. FreshTable = [i \in Fs!Ids |-> FreshTable[i]]
  BY DEF FreshTable
<1>7. \A n \in V!AllNames : V!Empty[n] = V!None
  BY DEF V!Empty, V!AllNames
<1>8. V!Empty \in V!Entries
  BY PageFiles, V!InodeType
<1>9. FreshTable[V!Root] = [type |-> "directory", children |-> V!Empty, target |-> "nowhere"]
  BY <1>1, <1>3, SameValues
<1>10. \A i \in V!Ids : i # V!Root => FreshTable[i] = V!NoInode
  BY <1>4, SameValues
<1>11. ASSUME NEW x \in V!Entries
       PROVE  [FreshTable[V!Root] EXCEPT !.children = x]
                = [type |-> "directory", children |-> x, target |-> "nowhere"]
  <2> DEFINE R == [type : {"directory"}, children : V!Entries, target : {"nowhere"}]
  <2>1. FreshTable[V!Root] \in R
    BY <1>8, <1>9
  <2>2. PICK e \in R : e = FreshTable[V!Root]
    BY <2>1
  <2>3. [e EXCEPT !.children = x] \in R /\ [e EXCEPT !.children = x].children = x
    OBVIOUS
  <2>4. \A r \in R : r = [type |-> "directory", children |-> r.children, target |-> "nowhere"]
    OBVIOUS
  <2> HIDE DEF R
  <2> QED
    BY <2>2, <2>3, <2>4
<1>12. \A x \in V!Entries :
          [type |-> "directory", children |-> x, target |-> "nowhere"] \in V!Inodes
  BY DEF V!Inodes, V!Types
<1>13. V!NoInode.type = "none"
  BY <1>5
<1> QED
  BY <1>5, <1>6, <1>7, <1>8, <1>9, <1>10, <1>11, <1>12, <1>13, SameValues

\* The numbers of a table are counted through by their ranks.
LEMMA Ranks ==
  ASSUME NEW t
  PROVE  /\ Cardinality(IdsOf(t)) \in 0 .. MaxInode /\ IdsOf(t) \subseteq 1 .. MaxInode
         /\ \A k \in 1 .. Cardinality(IdsOf(t)) : \E i \in IdsOf(t) : Rank(i, t) = k
<1> DEFINE S == IdsOf(t)
<1> DEFINE M == MaxInode
<1> DEFINE B(m) == {j \in S : j <= m}
<1>1. M \in Nat /\ S \subseteq 1 .. M
  BY IdsAre DEF IdsOf
<1>2. IsFiniteSet(1 .. M) /\ Cardinality(1 .. M) = M
  BY <1>1, FS_Interval
<1>3. IsFiniteSet(S) /\ Cardinality(S) \in Nat /\ Cardinality(S) <= M
  BY <1>1, <1>2, FS_Subset, FS_CardinalityType
<1>4. \A j \in S : j \in Int /\ 1 <= j /\ j <= M
  BY <1>1
<1>5. \A i \in S : Rank(i, t) = Cardinality(B(i))
  BY DEF Rank
<1> HIDE DEF S, M
<1>6. \A m : IsFiniteSet(B(m)) /\ Cardinality(B(m)) \in Nat
  BY <1>3, FS_Subset, FS_CardinalityType
<1> DEFINE P == {m \in 0 .. M : \A k \in 1 .. Cardinality(B(m)) : \E i \in S : Rank(i, t) = k}
<1>7. 0 \in P
  <2>1. B(0) = {}
    BY <1>4
  <2>2. Cardinality(B(0)) = 0
    BY <2>1, FS_EmptySet
  <2> HIDE DEF B
  <2> QED
    BY <1>1, <2>2
<1>8. ASSUME NEW m \in 1 .. M, m - 1 \in P PROVE m \in P
  <2>1. ASSUME NEW k \in 1 .. Cardinality(B(m)) PROVE \E i \in S : Rank(i, t) = k
    <3>1. CASE m \in S
      <4>1. m \in Int /\ \A j \in Int : (j <= m <=> j <= m - 1 \/ j = m)
        BY <1>1
      <4>2. \A j \in S : j \in B(m) <=> j \in B(m - 1) \/ j = m
        BY <1>4, <3>1, <4>1
      <4>3. m \notin B(m - 1)
        BY <4>1
      <4>4. \A j : j \in B(m) <=> j \in B(m - 1) \cup {m}
        BY <4>2, <3>1
      <4>5. B(m) = B(m - 1) \cup {m} /\ m \notin B(m - 1)
        <5> HIDE DEF B
        <5> QED
          BY <4>3, <4>4
      <4>6. Cardinality(B(m)) = Cardinality(B(m - 1)) + 1
        BY <1>6, <4>5, FS_AddElement
      <4>7. CASE k = Cardinality(B(m))
        BY <1>5, <3>1, <4>7
      <4>8. CASE k # Cardinality(B(m))
        <5>1. k \in 1 .. Cardinality(B(m - 1))
          <6> HIDE DEF B
          <6> QED
            BY <1>6, <4>6, <4>8
        <5> QED
          BY <1>8, <5>1
      <4> QED
        BY <4>7, <4>8
    <3>2. CASE m \notin S
      <4>1. B(m) = B(m - 1)
        BY <1>4, <3>2
      <4> QED
        BY <1>8, <4>1
    <3> QED
      BY <3>1, <3>2
  <2> HIDE DEF B
  <2> QED
    BY <1>1, <2>1
<1>9. M \in P
  <2>1. \A m \in 0 .. M : m \in P
    <3> HIDE DEF P
    <3> QED
      BY <1>1, <1>7, <1>8, CountingUp
  <2> HIDE DEF P
  <2> QED
    BY <1>1, <2>1
<1>10. B(M) = S
  BY <1>4
<1> QED
  <2>1. \A k \in 1 .. Cardinality(S) : \E i \in S : Rank(i, t) = k
    BY <1>9, <1>10
  <2> QED
    BY <1>1, <1>3, <2>1 DEF S, M

\* ... which are the numbers, where there are no gaps.
LEMMA DenseRanks ==
  ASSUME NEW t, Dense(t), NEW k \in IdsOf(t)
  PROVE  (CHOOSE i \in IdsOf(t) : Rank(i, t) = k) = k
<1> DEFINE S == IdsOf(t)
<1>1. PICK c \in Nat : S = 1 .. c
  BY Ranks DEF Dense
<1>2. ASSUME NEW i \in S PROVE Rank(i, t) = i
  <2>1. {j \in S : j <= i} = 1 .. i /\ i \in Nat
    BY <1>1
  <2>2. Cardinality(1 .. i) = i
    BY <2>1, FS_Interval
  <2> QED
    BY <2>1, <2>2 DEF Rank
<1> HIDE DEF S
<1> QED
  BY <1>2 DEF S

\* A table that is restored is clean, and its counter ahead of what is in it ...
LEMMA RestoredClean ==
  ASSUME NEW t, CleanTable(t)
  PROVE  /\ CleanTable(Restored(t)) /\ CounterOf(t) \in 1 .. MaxInode + 1
         /\ \A i \in V!Ids : i >= CounterOf(t) => Restored(t)[i].type = "none"
<1> DEFINE c == Cardinality(IdsOf(t))
<1> DEFINE r == Restored(t)
<1> DEFINE at(k) == CHOOSE i \in IdsOf(t) : Rank(i, t) = k
<1>1. c \in 0 .. MaxInode /\ IdsOf(t) \subseteq 1 .. MaxInode
  BY Ranks
<1>2. ASSUME NEW k \in 1 .. c PROVE at(k) \in IdsOf(t) /\ at(k) \in V!Ids /\ t[at(k)].type # "none"
  <2>1. at(k) \in IdsOf(t)
    BY Ranks
  <2> HIDE DEF at
  <2> QED
    BY <2>1, IdsAre DEF IdsOf
<1>3. /\ r[V!Root] = [FreshTable[V!Root] EXCEPT !.children = t[V!Root].children]
      /\ \A k \in 1 .. c : r[k] = t[at(k)]
      /\ \A k \in V!Ids : k > c => r[k] = V!NoInode
      /\ r = [k \in V!Ids |-> r[k]]
  BY <1>1, IdsAre, SameValues DEF Restored
<1> HIDE DEF r, c, at
<1>4. /\ r[V!Root] \in V!Inodes /\ r[V!Root].type = "directory"
      /\ r[V!Root].children = t[V!Root].children
  <2>1. V!Root \in V!Ids
    BY IdsAre
  <2>2. t[V!Root] \in V!Inodes
    BY <2>1 DEF CleanTable
  <2>3. t[V!Root].children \in V!Entries
    BY <2>2 DEF V!Inodes
  <2>4. r[V!Root] = [type |-> "directory", children |-> t[V!Root].children, target |-> "nowhere"]
    BY <1>3, <2>3, FreshIs
  <2> QED
    BY <2>3, <2>4, FreshIs
<1>5. ASSUME NEW k \in V!Ids
      PROVE  /\ r[k] \in V!Inodes
             /\ (k = V!Root => r[k].type = "directory") /\ r[k].type # "symlink"
             /\ \A n \in V!AllNames : /\ r[k].children[n] # V!Root
                                      /\ r[k].type = "none" => r[k].children[n] = V!None
  <2>1. CASE k = V!Root
    BY <1>4, <2>1 DEF CleanTable
  <2>2. CASE k \in 1 .. c
    <3>1. PICK i \in V!Ids : r[k] = t[i]
      BY <1>2, <1>3, <2>2
    <3>2. k # V!Root
      BY <2>2, IdsAre
    <3> QED
      BY <3>1, <3>2 DEF CleanTable
  <2>3. CASE k > c
    <3>1. r[k] = V!NoInode /\ k # V!Root
      BY <1>1, <1>3, <2>3, IdsAre
    <3>2. V!NoInode \in V!Inodes /\ V!NoInode.type = "none"
          /\ \A n \in V!AllNames : V!NoInode.children[n] = V!None
      BY PageFiles, FreshIs, V!InodeType
    <3> QED
      BY <3>1, <3>2, IdsAre
  <2> QED
    BY <1>1, <2>1, <2>2, <2>3, IdsAre
<1>6. CleanTable(r)
  <2>1. V!Root \in V!Ids
    BY IdsAre
  <2>2. r \in [V!Ids -> V!Inodes]
    BY <1>3, <1>5
  <2> QED
    BY <1>5, <2>1, <2>2 DEF CleanTable
<1>7. CounterOf(t) = 1 + c
  BY DEF CounterOf, c
<1>8. ASSUME NEW i \in V!Ids, i >= CounterOf(t) PROVE r[i].type = "none"
  <2>1. r[i] = V!NoInode
    BY <1>1, <1>3, <1>7, <1>8, IdsAre
  <2> QED
    BY <2>1, FreshIs
<1> QED
  BY <1>1, <1>6, <1>7, <1>8, IdsAre DEF r

\* ... and if there are no gaps, it is the table that was saved.
LEMMA RestoredDense ==
  ASSUME NEW t, CleanTable(t), Dense(t)
  PROVE  Restored(t) = t
<1> DEFINE c == Cardinality(IdsOf(t))
<1> DEFINE r == Restored(t)
<1> DEFINE at(k) == CHOOSE i \in IdsOf(t) : Rank(i, t) = k
<1>1. c \in 0 .. MaxInode /\ IdsOf(t) = 1 .. c
  BY Ranks DEF Dense
<1>2. ASSUME NEW k \in 1 .. c PROVE at(k) = k
  BY <1>1, DenseRanks
<1>3. /\ r[V!Root] = [FreshTable[V!Root] EXCEPT !.children = t[V!Root].children]
      /\ \A k \in 1 .. c : r[k] = t[at(k)]
      /\ \A k \in V!Ids : k > c => r[k] = V!NoInode
      /\ r = [k \in V!Ids |-> r[k]]
  BY <1>1, IdsAre, SameValues DEF Restored
<1>4. ASSUME NEW k \in V!Ids, k > c PROVE t[k].type = "none"
  <2>1. k \notin IdsOf(t) /\ k # Fs!Root /\ k \in Fs!Ids
    BY <1>1, <1>4, IdsAre
  <2> QED
    BY <2>1 DEF IdsOf
<1> HIDE DEF r, c, at
<1>5. ASSUME NEW k \in V!Ids PROVE r[k] = t[k]
  <2>1. CASE k = V!Root
    <3>1. V!Root \in V!Ids
      BY IdsAre
    <3>2. t[V!Root] \in V!Inodes /\ t[V!Root].type = "directory"
      BY <3>1 DEF CleanTable
    <3>3. t[V!Root] = [type |-> "directory", children |-> t[V!Root].children, target |-> "nowhere"]
      BY <3>2 DEF V!Inodes
    <3>4. t[V!Root].children \in V!Entries
      BY <3>2 DEF V!Inodes
    <3>5. r[V!Root] = [type |-> "directory", children |-> t[V!Root].children, target |-> "nowhere"]
      BY <1>3, <3>4, FreshIs
    <3> QED
      BY <2>1, <3>3, <3>5
  <2>2. CASE k \in 1 .. c
    BY <1>2, <1>3, <2>2
  <2>3. CASE k > c
    <3>1. t[k] \in V!Inodes /\ t[k].type = "none" /\ \A n \in V!AllNames : t[k].children[n] = V!None
      BY <1>4, <2>3 DEF CleanTable
    <3>2. t[k].children \in V!Entries /\ t[k].children = V!Empty
      BY <3>1, PageFiles, V!EmptyIs DEF V!Inodes
    <3>3. t[k] = [type |-> "none", children |-> V!Empty, target |-> "nowhere"]
      BY <3>1, <3>2 DEF V!Inodes
    <3> QED
      BY <1>3, <2>3, <3>3 DEF V!NoInode
  <2> QED
    BY <1>1, <2>1, <2>2, <2>3, IdsAre
<1>6. t = [k \in V!Ids |-> t[k]]
  BY DEF CleanTable
<1>7. r = t
  BY <1>3, <1>5, <1>6
<1> QED
  BY <1>7 DEF r

\* Every table is clean: the one in use, the one being written, the one in the storage.
\* As long as none with gaps was restored, all three are trees.
SnapInv ==
  /\ V!IInv /\ CleanTable(table)
  /\ boot \in [todo : Seq(DirPaths), failed : BOOLEAN]
  /\ writing # Nothing => CleanTable(writing)
  /\ saved # Nothing => CleanTable(saved)
  /\ scrambled \in BOOLEAN
  /\ ~scrambled => /\ SoundTable(table)
                   /\ writing # Nothing => SoundTable(writing)
                   /\ saved # Nothing => SoundTable(saved)

\* What a call to the file system keeps.
TreeKept == V!IInv' /\ CleanTable(table') /\ (SoundTable(table) => SoundTable(table'))

\* A turn of mkdir -p is one of the file system, at a path.
LEMMA SameTurn ==
  ASSUME SnapInv, Fs!MkdirTurn
  PROVE  /\ V!MkdirTurn
         /\ SubSeq(making.path, 1, making.upto + 1) \in Seq(EntryNames)
         /\ SubSeq(making.path, 1, making.upto + 1) # << >>
<1> DEFINE p == SubSeq(making.path, 1, making.upto + 1)
<1>1. V!Linked
  BY CleanLinked DEF SnapInv
<1>2. ~V!Idle
  BY SameValues DEF Fs!MkdirTurn
<1>3. p # << >> /\ p \in Seq(EntryNames)
  <2>1. /\ making.path \in DirPaths /\ making.upto + 1 <= Len(making.path) /\ p # << >>
    BY <1>2, PageFiles, V!BaseType DEF SnapInv, V!IInv
  <2>2. making.upto \in Nat /\ making.path \in Seq(EntryNames)
    BY <2>1, DirsArePaths DEF SnapInv, V!IInv, V!TypeOK
  <2> QED
    BY <2>1, <2>2
<1> HIDE DEF p
<1>4. V!Parent(p) \in Seq(EntryNames)
  BY <1>3, PageFiles, V!ParentType
<1>5. V!Resolve(p, TRUE) = Fs!Resolve(p, TRUE)
  BY <1>1, <1>3, SameResolve
<1>6. V!ParentOf(p) = Fs!ParentOf(p)
  <2>1. V!Resolve(V!Parent(p), TRUE) = Fs!Resolve(V!Parent(p), TRUE)
    BY <1>1, <1>4, SameResolve
  <2> QED
    BY <1>3, <2>1, SameSegments DEF V!ParentOf, Fs!ParentOf
<1>7. V!BaseOf(p) = Fs!BaseOf(p)
  BY SameSegments
<1>8. V!MkdirTurn
  BY <1>5, <1>6, <1>7, SameValues, SameInodes, SameCalls DEF V!MkdirTurn, Fs!MkdirTurn, p
<1> QED
  BY <1>3, <1>8 DEF p

\* A new entry.
LEMMA CreateTree ==
  ASSUME SnapInv, NEW d, V!IsDir(d), NEW n \in EntryNames,
         NEW ty \in {"file", "directory"}, V!Child(d, n) = V!None,
         V!Create(d, n, V!New(ty, "nowhere"))
  PROVE  /\ V!TypeOK /\ nextInode \in V!Ids /\ nextInode' = nextInode + 1
         /\ \A i \in V!Ids : i >= nextInode' => ~V!Exists(i)'
         /\ CleanTable(table') /\ (SoundTable(table) => SoundTable(table'))
<1>1. d \in V!Ids /\ V!Exists(d) /\ ty \in V!Types \ {"none"} /\ n \in V!AllNames
  BY PageFiles, V!DirIsId, V!InTable DEF V!Types
<1>2. ~V!Exists(nextInode) /\ d # nextInode
  <2>1. nextInode \in V!Ids => ~V!Exists(nextInode)
    BY IdsAre DEF SnapInv, V!IInv, V!NoneBeyond, V!TypeOK
  <2>2. ~V!Exists(nextInode)
    BY <2>1, PageFiles, V!InTable
  <2> QED
    BY <1>1, <2>2
<1>3. V!IInv /\ V!TypeOK
  BY DEF SnapInv, V!IInv
<1>4. /\ nextInode \in V!Ids /\ nextInode' = nextInode + 1
      /\ table' \in [V!Ids -> V!Inodes]
      /\ \A i \in V!Ids : V!TypeOf(i)' = IF i = nextInode THEN ty ELSE V!TypeOf(i)
      /\ \A i \in V!Ids, m \in V!AllNames :
            V!Child(i, m)' = IF i = nextInode THEN V!None
                             ELSE IF i = d /\ m = n THEN nextInode ELSE V!Child(i, m)
  <2>1. "nowhere" \in {} \cup {"nowhere"} /\ n \in EntryNames \cup {"noname"}
    OBVIOUS
  <2> QED
    BY <1>1, <1>2, <1>3, <2>1, PageFiles, V!CreateChanges
<1>5. \A i \in V!Ids : i >= nextInode' => ~V!Exists(i)'
  BY <1>3, <1>4, IdsAre DEF V!IInv, V!TypeOK, V!NoneBeyond, V!Exists
<1>6. CleanTable(table')
  BY <1>1, <1>2, <1>3, <1>4, CleanIs, IdsAre DEF SnapInv, V!TypeOK, V!IsDir, V!NoLinks, V!Exists
<1>7. V!Sound => V!Sound'
  <2>1. "nowhere" \in {} \cup {"nowhere"}
    OBVIOUS
  <2> QED
    BY <1>1, <1>3, <2>1, PageFiles, V!CreateSound
<1> QED
  BY <1>3, <1>4, <1>5, <1>6, <1>7, SoundIs DEF SnapInv

\* ... by a program.
LEMMA CreateKeeps ==
  ASSUME SnapInv, NEW d, V!IsDir(d), NEW n \in EntryNames,
         NEW ty \in {"file", "directory"}, V!Child(d, n) = V!None,
         V!Create(d, n, V!New(ty, "nowhere")), UNCHANGED making
  PROVE  TreeKept
<1>1. /\ V!TypeOK /\ nextInode \in V!Ids /\ nextInode' = nextInode + 1
      /\ \A i \in V!Ids : i >= nextInode' => ~V!Exists(i)'
      /\ CleanTable(table') /\ (SoundTable(table) => SoundTable(table'))
  BY CreateTree
<1> QED
  BY <1>1, IdsAre DEF TreeKept, V!IInv, V!TypeOK, V!NoneBeyond, CleanTable

\* An entry less.
LEMMA RemoveKeeps ==
  ASSUME SnapInv, NEW d, V!IsDir(d), NEW n \in EntryNames, NEW r, r = V!Child(d, n), V!Exists(r),
         table[r].children = V!Empty,
         V!RemoveInode(r, d, n), nextInode' = nextInode, making' = making
  PROVE  TreeKept
<1>1. d \in V!Ids /\ V!Exists(d) /\ n \in V!AllNames /\ r \in V!Ids
  BY PageFiles, V!DirIsId, V!InTable
<1>2. r # V!Root
  BY <1>1, CleanIs DEF SnapInv
<1>3. V!IInv /\ V!TypeOK
  BY DEF SnapInv, V!IInv
<1>4. /\ table' \in [V!Ids -> V!Inodes]
      /\ \A i \in V!Ids : V!TypeOf(i)' = IF i = r THEN "none" ELSE V!TypeOf(i)
      /\ \A i \in V!Ids, m \in V!AllNames :
            V!Child(i, m)' = IF i = r \/ (i = d /\ m = n) THEN V!None ELSE V!Child(i, m)
  <2>1. n \in EntryNames \cup {"noname"} /\ V!RemoveInode(r, d, n) /\ d \in V!Ids /\ r \in V!Ids
    BY <1>1
  <2> QED
    BY <1>3, <2>1, PageFiles, V!RemoveChanges
<1>5. V!Sound => V!Sound'
  BY <1>1, <1>3, PageFiles, V!RemoveSound
<1>6. V!IInv'
  BY <1>3, <1>4 DEF V!IInv, V!TypeOK, V!NoneBeyond, V!Exists
<1>7. CleanTable(table')
  BY <1>2, <1>4, CleanIs, IdsAre DEF SnapInv, V!IsDir, V!NoLinks, V!Exists
<1> QED
  BY <1>5, <1>6, <1>7, SoundIs DEF TreeKept, SnapInv

\* An entry moved.
LEMMA MoveKeeps ==
  ASSUME SnapInv, NEW d, V!IsDir(d), NEW n \in EntryNames, NEW r, r = V!Child(d, n), V!Exists(r),
         NEW w, V!IsDir(w), NEW m \in EntryNames, V!Child(w, m) = V!None,
         w \notin V!Subtree(r),
         table' = V!Moved(r, d, n, w, m), nextInode' = nextInode, making' = making
  PROVE  TreeKept
<1>1. d \in V!Ids /\ V!Exists(d) /\ n \in V!AllNames /\ r \in V!Ids
      /\ w \in V!Ids /\ V!Exists(w) /\ m \in V!AllNames
  BY PageFiles, V!DirIsId, V!InTable
<1>2. r # V!Root /\ r # V!None
  BY <1>1, CleanIs, IdsAre DEF SnapInv
<1>3. V!IInv /\ V!TypeOK
  BY DEF SnapInv, V!IInv
<1>4. /\ table' \in [V!Ids -> V!Inodes]
      /\ \A i \in V!Ids : V!TypeOf(i)' = IF i = V!Child(w, m) THEN "none" ELSE V!TypeOf(i)
      /\ \A i \in V!Ids, k \in V!AllNames :
            V!Child(i, k)' = IF i = V!Child(w, m) THEN V!None
                             ELSE IF i = w /\ k = m THEN r
                             ELSE IF i = d /\ k = n THEN V!None
                             ELSE V!Child(i, k)
  <2>1. /\ table' = V!Moved(r, d, n, w, m) /\ d \in V!Ids /\ r \in V!Ids /\ w \in V!Ids
        /\ n \in V!AllNames /\ m \in V!AllNames
    BY <1>1
  <2> QED
    BY <1>3, <2>1, PageFiles, V!MovedChanges
<1>5. V!Sound => V!Sound'
  BY <1>1, <1>2, <1>3, PageFiles, V!MovedSound
<1>6. V!None \notin V!Ids
  BY IdsAre
<1>7. V!IInv'
  BY <1>3, <1>4, <1>6 DEF V!IInv, V!TypeOK, V!NoneBeyond, V!Exists
<1>8. CleanTable(table')
  BY <1>1, <1>2, <1>4, <1>6, CleanIs, IdsAre DEF SnapInv, V!IsDir, V!NoLinks, V!Exists
<1> QED
  BY <1>5, <1>7, <1>8, SoundIs DEF TreeKept, SnapInv

\* A turn of mkdir -p.
LEMMA TurnKeeps ==
  ASSUME SnapInv, Fs!MkdirTurn
  PROVE  TreeKept
<1> DEFINE p == SubSeq(making.path, 1, making.upto + 1)
<1>1. V!MkdirTurn /\ p \in Seq(EntryNames) /\ p # << >>
  BY SameTurn
<1>2. V!IInv'
  <2>1. [V!Next]_(V!vars)
    BY <1>1 DEF V!Next
  <2> QED
    BY <2>1, PageFiles, V!IInvStep DEF SnapInv
<1>3. \/ UNCHANGED table
      \/ /\ V!Resolve(p, TRUE) = V!ENOENT /\ V!IsDir(V!ParentOf(p))
         /\ V!Create(V!ParentOf(p), V!BaseOf(p), V!New("directory", "nowhere"))
  BY <1>1 DEF V!MkdirTurn
<1>4. CASE UNCHANGED table
  BY <1>2, <1>4 DEF TreeKept, SnapInv
<1>5. ASSUME V!Resolve(p, TRUE) = V!ENOENT, V!IsDir(V!ParentOf(p)),
             V!Create(V!ParentOf(p), V!BaseOf(p), V!New("directory", "nowhere"))
      PROVE  CleanTable(table') /\ (SoundTable(table) => SoundTable(table'))
  <2> HIDE DEF p
  <2>1. V!BaseOf(p) \in EntryNames
    BY <1>1 DEF V!BaseOf
  <2>2. V!Linked /\ V!NoLinks
    BY CleanLinked, CleanIs DEF SnapInv
  <2>3. V!EntryOf(p) = V!None
    BY <1>1, <1>5, <2>2, PageFiles, V!MissesEntry
  <2>4. V!Child(V!ParentOf(p), V!BaseOf(p)) = V!None
    BY <2>3 DEF V!EntryOf
  <2> QED
    BY <1>5, <2>1, <2>4, CreateTree
<1> QED
  BY <1>2, <1>3, <1>4, <1>5 DEF TreeKept

\* The table of a first boot is a tree: the root.
LEMMA FreshGood == CleanTable(FreshTable) /\ SoundTable(FreshTable)
<1>1. V!Root = 0 /\ V!None = -1 /\ V!Root \in V!Ids /\ V!None \notin V!Ids
      /\ "noname" \in V!AllNames
  BY IdsAre DEF V!AllNames
<1>2. ASSUME NEW i \in V!Ids
      PROVE  /\ FreshTable[i] \in V!Inodes /\ FreshTable[i].children = V!Empty
             /\ FreshTable[i].type = IF i = V!Root THEN "directory" ELSE "none"
  <2>1. CASE i = V!Root
    BY <2>1, FreshIs
  <2>2. CASE i # V!Root
    <3>1. FreshTable[i] = V!NoInode /\ V!NoInode.children = V!Empty /\ V!NoInode.type = "none"
      BY <2>2, FreshIs
    <3> QED
      BY <2>2, <3>1, PageFiles, V!InodeType
  <2> QED
    BY <2>1, <2>2
<1>3. \A i \in V!Ids, n \in V!AllNames : FreshTable[i].children[n] = V!None
  BY <1>2, FreshIs
<1>4. FreshTable \in [V!Ids -> V!Inodes]
  BY <1>2, FreshIs
<1>5. CleanTable(FreshTable)
  BY <1>1, <1>2, <1>3, <1>4 DEF CleanTable
<1>6. SoundTable(FreshTable)
  <2>1. \A D \in SUBSET V!Ids : D # {} =>
          \E i \in D : \A j \in D, n \in V!AllNames : FreshTable[j].children[n] # i
    BY <1>1, <1>3
  <2> QED
    BY <1>1, <1>2, <1>3, <2>1 DEF SoundTable
<1> QED
  BY <1>5, <1>6

\* The invariant holds before the first boot ...
LEMMA SnapInvInit == SnapshotsInit => SnapInv
<1> SUFFICES ASSUME SnapshotsInit PROVE SnapInv
  OBVIOUS
<1>1. table = FreshTable /\ nextInode = 1 /\ making = V!NotMaking
  BY SameValues DEF SnapshotsInit
<1>2. CleanTable(table) /\ SoundTable(table)
  BY <1>1, FreshGood
<1>3. V!IInv
  <2>1. V!TypeOK
    <3>1. making \in [path : DirPaths \cup {<< >>}, upto : Nat]
      BY <1>1 DEF V!NotMaking
    <3>2. nextInode \in 1 .. MaxInode + 1
      BY <1>1, IdsAre
    <3> QED
      BY <1>1, <1>2, <3>1, <3>2 DEF V!TypeOK, CleanTable
  <2>2. ASSUME NEW i \in V!Ids, i >= nextInode PROVE ~V!Exists(i)
    <3>1. table[i] = V!NoInode
      BY <1>1, <2>2, FreshIs, IdsAre
    <3> QED
      BY <3>1, FreshIs DEF V!Exists, V!TypeOf
  <2> QED
    BY <2>1, <2>2 DEF V!IInv, V!NoneBeyond
<1>4. boot = [todo |-> Dirs, failed |-> FALSE]
      /\ writing = Nothing /\ saved = Nothing /\ scrambled = FALSE
  BY DEF SnapshotsInit
<1>5. boot \in [todo : Seq(DirPaths), failed : BOOLEAN]
  BY <1>4, DirsArePaths
<1> QED
  BY <1>2, <1>3, <1>4, <1>5 DEF SnapInv

\* What keeps the tree and leaves what is saved alone keeps the invariant.
LEMMA KeptInv ==
  ASSUME SnapInv, TreeKept, boot' \in [todo : Seq(DirPaths), failed : BOOLEAN],
         writing' = writing, saved' = saved, scrambled' = scrambled
  PROVE  SnapInv'
BY DEF SnapInv, TreeKept

\* What leaves the table alone keeps it.
LEMMA SameTree ==
  ASSUME SnapInv, table' = table, nextInode' = nextInode, V!TypeOK'
  PROVE  TreeKept
BY DEF SnapInv, TreeKept, V!IInv, V!NoneBeyond, V!Exists, V!TypeOf

\* A reload keeps the invariant, and brings back what was saved.
LEMMA ReloadInv ==
  ASSUME SnapInv, Reload
  PROVE  SnapInv' /\ (saved # Nothing /\ Dense(saved) => table' = saved)
<1>1. /\ making' = V!NotMaking /\ boot' = [todo |-> Dirs, failed |-> FALSE]
      /\ writing' = Nothing /\ saved' = saved
      /\ scrambled' = (scrambled \/ (saved # Nothing /\ ~Dense(saved)))
  BY SameValues DEF Reload
<1>2. /\ CleanTable(table') /\ nextInode' \in 1 .. MaxInode + 1
      /\ \A i \in V!Ids : i >= nextInode' => table'[i].type = "none"
      /\ saved # Nothing /\ Dense(saved) => table' = saved
      /\ saved = Nothing => SoundTable(table')
  <2>1. CASE saved = Nothing
    <3>1. table' = FreshTable /\ nextInode' = 1
      BY <2>1 DEF Reload
    <3>2. \A i \in V!Ids : i >= 1 => FreshTable[i].type = "none"
      BY FreshIs, IdsAre
    <3>3. 1 \in 1 .. MaxInode + 1
      BY IdsAre
    <3> QED
      BY <2>1, <3>1, <3>2, <3>3, FreshGood
  <2>2. CASE saved # Nothing
    <3>1. table' = Restored(saved) /\ nextInode' = CounterOf(saved)
      BY <2>2 DEF Reload
    <3>2. CleanTable(saved)
      BY <2>2 DEF SnapInv
    <3> QED
      BY <2>2, <3>1, <3>2, RestoredClean, RestoredDense
  <2> QED
    BY <2>1, <2>2
<1>3. V!IInv'
  <2>1. making' \in [path : DirPaths \cup {<< >>}, upto : Nat]
    BY <1>1 DEF V!NotMaking
  <2>2. V!TypeOK'
    BY <1>1, <1>2, <2>1 DEF V!TypeOK, CleanTable, V!NotMaking
  <2> QED
    BY <1>2, <2>2 DEF V!IInv, V!NoneBeyond, V!Exists, V!TypeOf
<1>4. boot' \in [todo : Seq(DirPaths), failed : BOOLEAN]
  BY <1>1, DirsArePaths
<1>5. scrambled' \in BOOLEAN /\ (~scrambled' => ~scrambled /\ (saved = Nothing \/ Dense(saved)))
  BY <1>1
<1>6. ~scrambled' => SoundTable(table') /\ (saved # Nothing => SoundTable(saved))
  BY <1>2, <1>5 DEF SnapInv
<1> QED
  BY <1>1, <1>2, <1>3, <1>4, <1>5, <1>6 DEF SnapInv

\* ... and every step keeps it.
LEMMA SnapInvStep ==
  ASSUME SnapInv, [SnapshotsNext]_snapshotVars
  PROVE  SnapInv'
<1>0. boot \in [todo : Seq(DirPaths), failed : BOOLEAN]
  BY DEF SnapInv
<1>1. CASE UNCHANGED snapshotVars
  BY <1>1 DEF
         snapshotVars, SnapInv, V!IInv, V!TypeOK, V!NoneBeyond, V!Exists, V!TypeOf,
         V!NotMaking, V!Ids, V!Inodes
<1>2. CASE BootDirectory
  <2>1. Head(boot.todo) \in DirPaths /\ Tail(boot.todo) \in Seq(DirPaths)
    BY <1>0, <1>2 DEF BootDirectory
  <2>2. boot' \in [todo : Seq(DirPaths), failed : BOOLEAN]
    BY <1>0, <1>2, <2>1 DEF BootDirectory
  <2>3. making' = making \/ making' = [path |-> Head(boot.todo), upto |-> 0]
    BY <1>2 DEF BootDirectory
  <2>4. Head(boot.todo) \in Seq(EntryNames) /\ 0 < Len(Head(boot.todo))
    <3>1. PICK p \in Seq(EntryNames) : p = Head(boot.todo) /\ p # << >>
      BY <2>1, DirsArePaths
    <3> QED
      BY <3>1
  <2>5. UNCHANGED <<table, nextInode, writing, saved, scrambled>>
    BY <1>2 DEF BootDirectory
  <2>6. V!TypeOK
    BY DEF SnapInv, V!IInv
  <2>7. V!TypeOK'
    <3>1. CASE making' = making
      BY <2>5, <2>6, <3>1 DEF V!TypeOK
    <3>2. CASE making' = [path |-> Head(boot.todo), upto |-> 0]
      BY <2>1, <2>4, <2>5, <2>6, <3>2 DEF V!TypeOK
    <3> QED
      BY <2>3, <3>1, <3>2
  <2> QED
    BY <2>2, <2>5, <2>7, SameTree, KeptInv
<1>3. CASE BootTurn
  <2>1. Fs!MkdirTurn /\ UNCHANGED <<writing, saved, scrambled>>
    BY <1>3 DEF BootTurn
  <2>2. boot' = [todo |-> << >>, failed |-> TRUE] \/ boot' = boot
    BY <1>3 DEF BootTurn
  <2>3. boot' \in [todo : Seq(DirPaths), failed : BOOLEAN]
    <3>1. << >> \in Seq(DirPaths)
      OBVIOUS
    <3>2. CASE boot' = [todo |-> << >>, failed |-> TRUE]
      BY <3>1, <3>2
    <3>3. CASE boot' = boot
      BY <1>0, <3>3
    <3> QED
      BY <2>2, <3>2, <3>3
  <2> QED
    BY <2>1, <2>3, TurnKeeps, KeptInv
<1>4. ASSUME NEW d \in Fs!Ids, NEW n \in EntryNames, NEW ty \in {"file", "directory"},
             Create(d, n, ty)
      PROVE  SnapInv'
  <2>1. /\ V!IsDir(d) /\ V!Child(d, n) = V!None /\ V!Create(d, n, V!New(ty, "nowhere"))
        /\ making' = making /\ boot' = boot
        /\ writing' = writing /\ saved' = saved /\ scrambled' = scrambled
    BY <1>4, SameValues, SameInodes, SameCalls DEF Create
  <2>2. TreeKept
    BY <2>1, CreateKeeps
  <2> QED
    BY <1>0, <2>1, <2>2, KeptInv
<1>5. ASSUME NEW d \in Fs!Ids, NEW n \in EntryNames, RemoveEntry(d, n)
      PROVE  SnapInv'
  <2>1. PICK r : r = V!Child(d, n)
    OBVIOUS
  <2>2. /\ V!IsDir(d) /\ V!Exists(r) /\ table[r].children = V!Empty /\ V!RemoveInode(r, d, n)
        /\ nextInode' = nextInode /\ making' = making
        /\ boot' = boot
        /\ writing' = writing /\ saved' = saved /\ scrambled' = scrambled
    BY <1>5, <2>1, SameValues, SameInodes, SameCalls DEF RemoveEntry
  <2>3. TreeKept
    BY <2>1, <2>2, RemoveKeeps
  <2> QED
    BY <1>0, <2>2, <2>3, KeptInv
<1>6. ASSUME NEW d \in Fs!Ids, NEW n \in EntryNames, NEW w \in Fs!Ids, NEW m \in EntryNames,
             Move(d, n, w, m)
      PROVE  SnapInv'
  <2>1. PICK r : r = V!Child(d, n)
    OBVIOUS
  <2>2. /\ V!IsDir(d) /\ V!Exists(r) /\ V!IsDir(w) /\ V!Child(w, m) = V!None
        /\ w \notin V!Subtree(r) /\ table' = V!Moved(r, d, n, w, m)
        /\ nextInode' = nextInode /\ making' = making
        /\ boot' = boot
        /\ writing' = writing /\ saved' = saved /\ scrambled' = scrambled
    BY <1>6, <2>1, SameValues, SameInodes, SameCalls DEF Move
  <2>3. TreeKept
    BY <2>1, <2>2, MoveKeeps
  <2> QED
    BY <1>0, <2>2, <2>3, KeptInv
<1>7. CASE SerializeTable
  <2>1. V!IInv'
    BY <1>7 DEF SerializeTable, SnapInv, V!IInv, V!TypeOK, V!NoneBeyond, V!Exists, V!TypeOf
  <2> QED
    BY <1>7, <2>1 DEF SerializeTable, SnapInv
<1>8. CASE CloseFile
  <2>1. V!IInv'
    BY <1>8 DEF CloseFile, SnapInv, V!IInv, V!TypeOK, V!NoneBeyond, V!Exists, V!TypeOf
  <2> QED
    BY <1>8, <2>1 DEF CloseFile, SnapInv
<1>9. CASE Reload
  BY <1>9, ReloadInv
<1> QED
  BY <1>1, <1>2, <1>3, <1>4, <1>5, <1>6, <1>7, <1>8, <1>9 DEF SnapshotsNext

\* It says that the table is a tree and its counter ahead of the entries.
LEMMA SnapInvMeans == SnapInv => (~scrambled => Fs!Sound /\ NumbersAhead)
<1> SUFFICES ASSUME SnapInv, ~scrambled PROVE Fs!Sound /\ NumbersAhead
  OBVIOUS
<1>1. V!Sound
  BY SoundIs DEF SnapInv
<1>2. ASSUME NEW i \in V!Ids, NEW n \in EntryNames PROVE V!Child(i, n) < nextInode
  <2>1. n \in V!AllNames
    BY DEF V!AllNames
  <2>2. V!Child(i, n) = V!None \/ V!Exists(V!Child(i, n))
    BY <1>1, <2>1 DEF V!Sound, V!EntriesExist
  <2>3. nextInode \in 1 .. MaxInode + 1 /\ \A k \in V!Ids : k >= nextInode => ~V!Exists(k)
    BY DEF SnapInv, V!IInv, V!TypeOK, V!NoneBeyond
  <2>4. V!Exists(V!Child(i, n)) => V!Child(i, n) \in V!Ids
    BY PageFiles, V!InTable
  <2> QED
    BY <2>2, <2>3, <2>4, IdsAre
<1>3. NumbersAhead
  BY <1>2, SameValues, SameInodes DEF NumbersAhead
<1> QED
  BY <1>1, <1>3, SameSound

\* The file system survives reloads: over any number of boots, calls, saves and reloads
\* the table stays a tree with its counter ahead of it, as long as no table with gaps
\* was restored (deserializeTable), and a reload brings back what was saved
\* (saveSnapshot, loadSnapshot).
THEOREM PageSurvives == SnapshotsSpec => SnapshotsRestore
<1>1. SnapshotsInit => SnapInv
  BY SnapInvInit
<1>2. SnapInv /\ [SnapshotsNext]_snapshotVars => SnapInv'
  BY SnapInvStep
<1>3. SnapInv => (~scrambled => Fs!Sound /\ NumbersAhead)
  BY SnapInvMeans
<1>4. SnapInv /\ [SnapshotsNext]_snapshotVars => [KeepsTable]_snapshotVars
  BY ReloadInv DEF KeepsTable
<1> QED
  BY <1>1, <1>2, <1>3, <1>4, PTL DEF SnapshotsSpec, SnapshotsRestore
=============================================================================
