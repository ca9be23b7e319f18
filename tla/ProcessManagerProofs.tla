------------------------- MODULE ProcessManagerProofs -------------------------
(***************************************************************************)
(* Proofs about the process manager, for any number of processes, any pool *)
(* size and any setting of Wired, MayKill and MayOutlive: buffers are      *)
(* neither lost nor released twice nor shared by running processes,        *)
(* exactly the running processes are polled, the calls of those are their  *)
(* own, and exit codes are honoured.                                       *)
(***************************************************************************)
EXTENDS ProcessManager, SequenceTheorems, TLAPS

\* An entry has a buffer exactly while its process runs.
SabIffRunning == \A p \in Pids : proc[p].sab # NoSab <=> Running(p)

\* The types that the pool and the table need.
PoolTypes ==
  /\ proc \in [Pids -> Entries]
  /\ monitor \in [Pids -> Sabs \cup {NoSab}]
  /\ pool \in Seq(Sabs) /\ inUse \subseteq Sabs /\ created \in Nat

Ownership ==
  /\ PoolTypes
  /\ SabIffRunning
  /\ PoolSound
  /\ BufferOwnership
  /\ MonitorIffRunning

\* A pid that has not been handed out has left no trace.
Fresh ==
  /\ nextPid \in Nat \ {0}
  /\ \A p \in Pids : p >= nextPid =>
       /\ proc[p] = NoEntry
       /\ worker[p].at = "none"
       /\ inbox[p] = << >>
       /\ promise[p] = NoCode

\* An exit carries a code, in the buffer and in the worker.
ExitsHaveCodes ==
  /\ \A s \in Sabs : buf[s].op = "exit" => buf[s].arg \in Codes
  /\ \A p \in Pids : worker[p].op = "exit" => worker[p].code \in Codes

IInv == TypeOK /\ Ownership /\ Fresh /\ ExitsHaveCodes /\ ResolvedMeansExited

tableVars == <<proc, monitor, pool, inUse, created>>

-----------------------------------------------------------------------------
USE SizeAssumption

LEMMA Facts == /\ NoSab \notin Sabs /\ Pids \subseteq Nat /\ Sabs \subseteq Nat
               /\ NoCode \notin AllCodes /\ {0, 1, KillCode, DisposeCode} \subseteq AllCodes
<1>1. NoSab \notin Sabs /\ Pids \subseteq Nat /\ Sabs \subseteq Nat
  BY DEF NoSab, Sabs, Pids
<1>2. NoCode \notin AllCodes
  <2>1. AllCodes \subseteq Nat
    BY DEF AllCodes, KillCode, DisposeCode
  <2> QED
    BY <2>1
<1>3. {0, 1, KillCode, DisposeCode} \subseteq AllCodes
  BY DEF AllCodes
<1> QED
  BY <1>1, <1>2, <1>3

LEMMA EmptyPool ==
  /\ [i \in 1..PoolSize |-> i] \in Seq(Sabs)
  /\ DOMAIN [i \in 1..PoolSize |-> i] = 1..PoolSize
BY DEF Sabs

\* Pushing on the pool a buffer that is not in it.
LEMMA Push ==
  ASSUME NEW S, NEW q \in Seq(S), NEW s \in S
  PROVE  /\ Append(q, s) \in Seq(S)
         /\ DOMAIN Append(q, s) = 1..(Len(q) + 1)
         /\ \A i \in 1..Len(q) : Append(q, s)[i] = q[i]
         /\ Append(q, s)[Len(q) + 1] = s
OBVIOUS

\* Popping the last one.
LEMMA Pop ==
  ASSUME NEW S, NEW q \in Seq(S), q # << >>
  PROVE  /\ SubSeq(q, 1, Len(q) - 1) \in Seq(S)
         /\ DOMAIN SubSeq(q, 1, Len(q) - 1) = 1..(Len(q) - 1)
         /\ \A i \in 1..(Len(q) - 1) : SubSeq(q, 1, Len(q) - 1)[i] = q[i]
         /\ Len(q) \in 1..Len(q) /\ Len(q) \in Nat /\ q[Len(q)] \in S
OBVIOUS

\* cleanupProcess keeps the accounts right, for whichever pid and code.
LEMMA CleanupKeepsOwnership ==
  ASSUME Ownership, NEW p \in Pids, NEW code \in AllCodes, Cleanup(p, code)
  PROVE  Ownership'
<1> USE DEF Ownership, PoolTypes
<1>1. CASE proc[p].state = "absent"
  BY <1>1 DEF Cleanup, SabIffRunning, PoolSound, BufferOwnership, MonitorIffRunning, Running
<1>2. CASE proc[p].state # "absent"
  <2>1. /\ proc' = [proc EXCEPT ![p] =
                     [state |-> "exited", code |-> code, sab |-> NoSab, worker |-> FALSE]]
        /\ monitor' = [monitor EXCEPT ![p] = NoSab]
        /\ pool' = IF Releases(p) THEN Append(pool, proc[p].sab) ELSE pool
        /\ inUse' = inUse \ {proc[p].sab}
        /\ created' = created
    BY <1>2 DEF Cleanup, Release
  <2>2. Releases(p) <=> Running(p)
    BY Facts DEF Releases, SabIffRunning, BufferOwnership, Running
  <2>3. proc[p].sab \in Sabs \cup {NoSab}
    BY DEF Entries
  <2>4. PoolTypes'
    <3>1. proc' \in [Pids -> Entries]
      BY <2>1 DEF Entries
    <3>2. pool' \in Seq(Sabs)
      BY <2>1, <2>2, <2>3, Push DEF SabIffRunning
    <3> QED
      BY <2>1, <3>1, <3>2
  <2>5. \A q \in Pids : /\ Running(q)' <=> Running(q) /\ q # p
                        /\ q # p => proc'[q] = proc[q]
                        /\ proc'[p].sab = NoSab
    BY <2>1 DEF Running
  <2>6. SabIffRunning'
    BY <2>5 DEF SabIffRunning
  <2>7. PoolSound'
    <3>1. CASE ~Running(p)
      BY <2>1, <2>2, <2>3, <3>1, Facts DEF PoolSound, Releases
    <3>2. CASE Running(p)
      <4>1. /\ proc[p].sab \in inUse /\ proc[p].sab \in Sabs
            /\ pool' = Append(pool, proc[p].sab)
        BY <2>1, <2>2, <3>2 DEF Releases
      <4>2. /\ DOMAIN pool' = 1..(Len(pool) + 1) /\ DOMAIN pool = 1..Len(pool)
            /\ \A i \in 1..Len(pool) : pool'[i] = pool[i]
            /\ pool'[Len(pool) + 1] = proc[p].sab
            /\ Len(pool) \in Nat
        BY <4>1, Push
      <4>3. {pool'[i] : i \in DOMAIN pool'} = {pool[i] : i \in DOMAIN pool} \cup {proc[p].sab}
        <5>1. \A i \in DOMAIN pool' : pool'[i] \in {pool[j] : j \in DOMAIN pool} \cup {proc[p].sab}
          BY <4>2
        <5>2. \A i \in DOMAIN pool : i \in DOMAIN pool' /\ pool'[i] = pool[i]
          BY <4>2
        <5>3. Len(pool) + 1 \in DOMAIN pool'
          BY <4>2
        <5> QED
          BY <4>2, <5>1, <5>2, <5>3
      <4>4. \A i \in DOMAIN pool : pool[i] # proc[p].sab
        BY <4>1 DEF PoolSound
      <4>5. \A i, j \in DOMAIN pool' : pool'[i] = pool'[j] => i = j
        BY <4>2, <4>4 DEF PoolSound
      <4>6. \A i \in DOMAIN pool' : pool'[i] \notin inUse'
        BY <2>1, <4>2 DEF PoolSound
      <4> QED
        BY <2>1, <4>1, <4>3, <4>5, <4>6 DEF PoolSound
    <3> QED
      BY <3>1, <3>2
  <2>8. BufferOwnership'
    <3>1. inUse' = {proc'[q].sab : q \in {r \in Pids : Running(r)'}}
      BY <2>1, <2>2, <2>5, Facts DEF BufferOwnership, SabIffRunning, Releases
    <3> QED
      BY <3>1, <2>5 DEF BufferOwnership, Running
  <2>9. MonitorIffRunning'
    BY <2>1, <2>5 DEF MonitorIffRunning
  <2> QED
    BY <2>4, <2>6, <2>7, <2>8, <2>9
<1> QED
  BY <1>1, <1>2

\* Spawn takes a buffer nobody has.
LEMMA SpawnKeepsOwnership ==
  ASSUME Ownership, Fresh, Spawn
  PROVE  Ownership'
<1> USE DEF Ownership, PoolTypes
<1>1. PICK s \in Sabs :
        /\ Allocate(s)
        /\ proc' = [proc EXCEPT ![nextPid] =
                     [state |-> "running", code |-> NoCode, sab |-> s, worker |-> TRUE]]
        /\ monitor' = [monitor EXCEPT ![nextPid] = s]
  BY DEF Spawn
<1>2. nextPid \in Pids /\ proc[nextPid] = NoEntry /\ ~Running(nextPid)
  BY DEF Spawn, Fresh, Pids, Running, NoEntry
<1>3. \A q \in Pids : /\ Running(q)' <=> Running(q) \/ q = nextPid
                      /\ q # nextPid => proc'[q] = proc[q]
                      /\ proc'[nextPid].sab = s
  BY <1>1, <1>2 DEF Running
<1>4. /\ s \notin inUse
      /\ inUse' = inUse \cup {s}
      /\ pool' \in Seq(Sabs) /\ created' \in Nat
      /\ PoolSound'
  <2>1. CASE pool # << >>
    <3>1. /\ s = pool[Len(pool)] /\ pool' = SubSeq(pool, 1, Len(pool) - 1)
          /\ inUse' = inUse \cup {s} /\ created' = created
      BY <1>1, <2>1 DEF Allocate
    <3>2. /\ DOMAIN pool' = 1..(Len(pool) - 1) /\ DOMAIN pool = 1..Len(pool)
          /\ \A i \in 1..(Len(pool) - 1) : pool'[i] = pool[i]
          /\ Len(pool) \in DOMAIN pool /\ Len(pool) \in Nat
          /\ pool' \in Seq(Sabs)
      BY <2>1, <3>1, Pop
    <3>3. {pool[i] : i \in DOMAIN pool} = {pool'[i] : i \in DOMAIN pool'} \cup {s}
      <4>1. \A i \in DOMAIN pool : i = Len(pool) \/ i \in DOMAIN pool'
        BY <3>2
      <4>2. \A i \in DOMAIN pool' : i \in DOMAIN pool /\ pool'[i] = pool[i]
        BY <3>2
      <4> QED
        BY <3>1, <3>2, <4>1, <4>2
    <3>4. s \notin inUse
      BY <3>1, <3>2 DEF PoolSound
    <3>5. \A i \in DOMAIN pool' : pool'[i] # s
      BY <3>1, <3>2 DEF PoolSound
    <3>6. /\ \A i, j \in DOMAIN pool' : pool'[i] = pool'[j] => i = j
          /\ \A i \in DOMAIN pool' : pool'[i] \notin inUse'
      BY <3>1, <3>2, <3>5 DEF PoolSound
    <3>7. 1..created' = inUse' \cup {pool'[i] : i \in DOMAIN pool'}
      BY <3>1, <3>3 DEF PoolSound
    <3> QED
      BY <3>1, <3>2, <3>4, <3>6, <3>7 DEF PoolSound
  <2>2. CASE pool = << >>
    <3>1. s = created + 1 /\ created' = s /\ inUse' = inUse \cup {s} /\ pool' = pool
      BY <1>1, <2>2 DEF Allocate
    <3>2. DOMAIN pool = {}
      BY <2>2
    <3>3. inUse = 1..created
      BY <3>2 DEF PoolSound
    <3>4. inUse' = 1..created' /\ s \notin inUse
      BY <3>1, <3>3
    <3> QED
      BY <3>1, <3>2, <3>4, Facts DEF PoolSound
  <2> QED
    BY <2>1, <2>2
<1>5. PoolTypes'
  <2>1. proc' \in [Pids -> Entries]
    BY <1>1 DEF Entries
  <2> QED
    BY <1>1, <1>4, <2>1
<1>6. SabIffRunning'
  BY <1>3, Facts DEF SabIffRunning
<1>7. BufferOwnership'
  <2>1. inUse' = {proc'[q].sab : q \in {r \in Pids : Running(r)'}}
    BY <1>2, <1>3, <1>4 DEF BufferOwnership
  <2>2. \A q \in Pids : Running(q) => proc[q].sab # s
    BY <1>4 DEF BufferOwnership
  <2> QED
    BY <2>1, <2>2, <1>2, <1>3 DEF BufferOwnership, Running
<1>8. MonitorIffRunning'
  BY <1>1, <1>2, <1>3 DEF MonitorIffRunning
<1> QED
  BY <1>4, <1>5, <1>6, <1>7, <1>8

-----------------------------------------------------------------------------
\* The codes that reach cleanupProcess.
LEMMA CodesArePlain ==
  ASSUME IInv
  PROVE  /\ \A p \in Pids : inbox[p] # << >> => Head(inbox[p]).code \in AllCodes
         /\ \A s \in Sabs : buf[s].op = "exit" => buf[s].arg \in AllCodes
         /\ KillCode \in AllCodes /\ DisposeCode \in AllCodes
<1>1. \A p \in Pids : inbox[p] # << >> => Head(inbox[p]).code \in AllCodes
  <2> SUFFICES ASSUME NEW p \in Pids, inbox[p] # << >>
               PROVE  Head(inbox[p]).code \in AllCodes
    OBVIOUS
  <2>1. inbox[p] \in Seq(Messages)
    BY DEF IInv, TypeOK
  <2>2. Head(inbox[p]) \in Messages
    BY <2>1
  <2> QED
    BY <2>2 DEF Messages
<1>2. \A s \in Sabs : buf[s].op = "exit" => buf[s].arg \in AllCodes
  BY DEF IInv, ExitsHaveCodes, AllCodes
<1> QED
  BY <1>1, <1>2, Facts

\* What a step does to the table and the pool: nothing, a cleanup, a spawn, or
\* the clearing of a table in which nothing runs.
LEMMA TableSteps ==
  ASSUME IInv, [Next]_vars
  PROVE  \/ UNCHANGED tableVars
         \/ \E p \in Pids, code \in AllCodes : Cleanup(p, code)
         \/ Spawn
         \/ DisposeDone
<1> USE DEF tableVars
<1>1. CASE UNCHANGED vars \/ Dispose
  BY <1>1 DEF vars, Dispose
<1>2. CASE Spawn \/ DisposeDone
  BY <1>2
<1>3. ASSUME NEW p \in Pids, Kill(p)
      PROVE  \E q \in Pids, code \in AllCodes : Cleanup(q, code)
  BY <1>3, CodesArePlain DEF Kill
<1>4. ASSUME NEW p \in Pids, DisposeNext(p)
      PROVE  \E q \in Pids, code \in AllCodes : Cleanup(q, code)
  BY <1>4, CodesArePlain DEF DisposeNext
<1>5. ASSUME NEW p \in Pids, Poll(p)
      PROVE  \/ UNCHANGED tableVars
             \/ \E q \in Pids, code \in AllCodes : Cleanup(q, code)
  <2>1. monitor[p] \in Sabs
    BY <1>5 DEF Poll, IInv, TypeOK
  <2>2. CASE Exits(buf[monitor[p]])
    <3>1. buf[monitor[p]].arg \in AllCodes
      BY <2>1, <2>2, CodesArePlain DEF Exits
    <3>2. Cleanup(p, buf[monitor[p]].arg)
      BY <1>5, <2>2 DEF Poll, Plain, Exits, Kills
    <3> QED
      BY <3>1, <3>2
  <2>3. CASE Kills(buf[monitor[p]])
    <3>1. buf[monitor[p]].arg \in Pids
      BY <2>3 DEF Kills
    <3>2. Cleanup(buf[monitor[p]].arg, KillCode)
      BY <1>5, <2>3 DEF Poll, Plain, Exits, Kills
    <3> QED
      BY <3>1, <3>2, CodesArePlain
  <2>4. CASE Plain(buf[monitor[p]])
    BY <1>5, <2>4 DEF Poll, Plain
  <2> QED
    BY <2>2, <2>3, <2>4 DEF Plain
<1>6. ASSUME NEW p \in Pids, Deliver(p)
      PROVE  \/ UNCHANGED tableVars
             \/ \E q \in Pids, code \in AllCodes : Cleanup(q, code)
  BY <1>6, CodesArePlain DEF Deliver
<1>7. ASSUME NEW p \in Pids, Exec(p) \/ Program(p) \/ Wake(p)
      PROVE  UNCHANGED tableVars
  BY <1>7 DEF Exec, Program, Wake, CallFs, CallKill, CallExit, Post, Complete, Fail,
     EndScript, Callback, EndCallback, hostVars
<1> QED
  BY <1>1, <1>2, <1>3, <1>4, <1>5, <1>6, <1>7 DEF Next, Host

\* No step mixes up the buffers.
LEMMA OwnershipStep ==
  ASSUME IInv, [Next]_vars
  PROVE  Ownership'
<1>1. Ownership /\ Fresh
  BY DEF IInv
<1>2. CASE UNCHANGED tableVars
  BY <1>1, <1>2 DEF tableVars, Ownership, PoolTypes, SabIffRunning, PoolSound,
     BufferOwnership, MonitorIffRunning, Running
<1>3. CASE \E p \in Pids, code \in AllCodes : Cleanup(p, code)
  BY <1>1, <1>3, CleanupKeepsOwnership
<1>4. CASE Spawn
  BY <1>1, <1>4, SpawnKeepsOwnership
<1>5. CASE DisposeDone
  <2>1. /\ proc' = [p \in Pids |-> NoEntry] /\ UNCHANGED <<monitor, pool, inUse, created>>
        /\ \A p \in Pids : ~Running(p)
    BY <1>5 DEF DisposeDone
  <2>2. \A p \in Pids : ~Running(p)' /\ proc'[p].sab = NoSab
    BY <2>1 DEF NoEntry, Running
  <2>3. inUse' = {} /\ \A p \in Pids : monitor'[p] = NoSab
    BY <1>1, <2>1 DEF Ownership, BufferOwnership, MonitorIffRunning
  <2>4. PoolTypes'
    BY <1>1, <2>1 DEF Ownership, PoolTypes, Entries, NoEntry
  <2>5. PoolSound'
    BY <1>1, <2>1 DEF Ownership, PoolSound
  <2> QED
    BY <2>2, <2>3, <2>4, <2>5 DEF Ownership, SabIffRunning, BufferOwnership, MonitorIffRunning
<1> QED
  BY <1>2, <1>3, <1>4, <1>5, TableSteps

-----------------------------------------------------------------------------
LEMMA BufferType ==
  /\ Zeroed \in Buffers /\ Zeroed.op # "exit"
  /\ \A p, q \in Pids, op \in Ops, n \in Nat :
       [status |-> "REQUEST", kind |-> "request", op |-> op, arg |-> n, by |-> p, as |-> 0]
         \in Buffers
  /\ \A b \in Buffers, p \in Pids :
       /\ [b EXCEPT !.status = "RESPONSE", !.kind = "answer", !.as = p] \in Buffers
       /\ [b EXCEPT !.status = "RESPONSE", !.kind = "answer", !.as = p].op = b.op
       /\ [b EXCEPT !.status = "RESPONSE", !.kind = "answer", !.as = p].arg = b.arg
       /\ [b EXCEPT !.status = "IDLE"] \in Buffers
       /\ [b EXCEPT !.status = "IDLE"].op = b.op /\ [b EXCEPT !.status = "IDLE"].arg = b.arg
BY Facts DEF Zeroed, Buffers, Ops

\* The contents of the buffers after a release.
LEMMA WipedType ==
  ASSUME IInv, NEW p \in Pids
  PROVE  /\ Wiped(p) \in [Sabs -> Buffers]
         /\ \A s \in Sabs : Wiped(p)[s].op = "exit" => Wiped(p)[s].arg \in Codes
<1>1. buf \in [Sabs -> Buffers] /\ \A s \in Sabs : buf[s].op = "exit" => buf[s].arg \in Codes
  BY DEF IInv, TypeOK, ExitsHaveCodes
<1>2. Wiped(p) = buf \/ Wiped(p) = [buf EXCEPT ![proc[p].sab] = Zeroed]
  BY DEF Wiped
<1> QED
  BY <1>1, <1>2, BufferType

\* Buffers stay well formed, and the exits in them keep their codes.
LEMMA BufferStep ==
  ASSUME IInv, [Next]_vars
  PROVE  buf' \in [Sabs -> Buffers] /\ \A s \in Sabs : buf'[s].op = "exit" => buf'[s].arg \in Codes
<1> DEFINE Good(b) == b \in [Sabs -> Buffers] /\ \A s \in Sabs : b[s].op = "exit" => b[s].arg \in Codes
<1> SUFFICES Good(buf')
  OBVIOUS
<1>1. Good(buf) /\ worker \in [Pids -> Workers]
  BY DEF IInv, TypeOK, ExitsHaveCodes
<1>2. CASE UNCHANGED buf
  BY <1>1, <1>2
<1>3. CASE Spawn
  <2>1. PICK s \in Sabs : buf' = [buf EXCEPT ![s] = Zeroed]
    BY <1>3 DEF Spawn
  <2> QED
    BY <1>1, <2>1, BufferType
<1>4. CASE \E p \in Pids : buf' = Wiped(p)
  BY <1>4, WipedType
<1>5. ASSUME NEW p \in Pids, Poll(p) PROVE Good(buf')
  <2> DEFINE s == monitor[p]
  <2> DEFINE a == [buf[s] EXCEPT !.status = "RESPONSE", !.kind = "answer", !.as = p]
  <2>1. s \in Sabs
    BY <1>5 DEF Poll, IInv, TypeOK
  <2>2. \/ buf' = [buf EXCEPT ![s] = a]
        \/ \E q \in Pids : buf' = [Wiped(q) EXCEPT ![s] = a]
    BY <1>5 DEF Poll, Kills
  <2>3. a \in Buffers /\ (a.op = "exit" => a.arg \in Codes)
    <3>1. buf[s] \in Buffers /\ (buf[s].op = "exit" => buf[s].arg \in Codes)
      BY <1>1, <2>1
    <3>2. a \in Buffers /\ a.op = buf[s].op /\ a.arg = buf[s].arg
      BY <3>1, BufferType
    <3> QED
      BY <3>1, <3>2
  <2> HIDE DEF a, s
  <2>4. CASE buf' = [buf EXCEPT ![s] = a]
    BY <1>1, <2>1, <2>3, <2>4
  <2>5. ASSUME NEW q \in Pids, buf' = [Wiped(q) EXCEPT ![s] = a] PROVE Good(buf')
    BY <2>1, <2>3, <2>5, WipedType
  <2> QED
    BY <2>2, <2>4, <2>5
<1>6. ASSUME NEW p \in Pids, NEW op \in Ops, NEW n \in Nat, Post(p, op, n), op = "exit" => n \in Codes
      PROVE  Good(buf')
  <2> DEFINE r == [status |-> "REQUEST", kind |-> "request", op |-> op, arg |-> n,
                   by |-> p, as |-> 0]
  <2>1. r \in Buffers /\ (r.op = "exit" => r.arg \in Codes)
    BY <1>6, BufferType
  <2>2. buf' = [buf EXCEPT ![worker[p].sab] = r]
    BY <1>6 DEF Post
  <2> HIDE DEF r
  <2> QED
    BY <1>1, <2>1, <2>2
<1>7. ASSUME NEW p \in Pids, Wake(p) PROVE Good(buf')
  <2> DEFINE s == worker[p].sab
  <2> DEFINE b == [buf[s] EXCEPT !.status = "IDLE"]
  <2>1. CASE UNCHANGED buf
    BY <1>1, <2>1
  <2>2. CASE buf' = [buf EXCEPT ![s].status = "IDLE"]
    <3>1. CASE s \in Sabs
      <4>1. b \in Buffers /\ (b.op = "exit" => b.arg \in Codes)
        BY <1>1, <3>1, BufferType
      <4>2. buf' = [buf EXCEPT ![s] = b]
        BY <2>2
      <4> HIDE DEF b, s
      <4> QED
        BY <1>1, <3>1, <4>1, <4>2
    <3>2. CASE s \notin Sabs
      <4>1. buf' = buf
        BY <1>1, <2>2, <3>2
      <4> QED
        BY <1>1, <4>1
    <3> QED
      BY <3>1, <3>2
  <2> QED
    BY <1>7, <2>1, <2>2 DEF Wake
<1>8. ASSUME NEW p \in Pids, CallFs(p) \/ (\E q \in Pids : CallKill(p, q))
                              \/ (\E c \in Codes : CallExit(p, c))
      PROVE  Good(buf')
  <2>1. CASE CallFs(p)
    BY <1>6, <2>1 DEF CallFs, Ops
  <2>2. ASSUME NEW q \in Pids, CallKill(p, q) PROVE Good(buf')
    BY <1>6, <2>2, Facts DEF CallKill, Ops
  <2>3. ASSUME NEW c \in Codes, CallExit(p, c) PROVE Good(buf')
    BY <1>6, <2>3 DEF CallExit, Ops
  <2> QED
    BY <1>8, <2>1, <2>2, <2>3
<1>9. ASSUME NEW p \in Pids, Kill(p) \/ DisposeNext(p) \/ Deliver(p)
      PROVE  UNCHANGED buf \/ \E q \in Pids : buf' = Wiped(q)
  BY <1>9 DEF Kill, DisposeNext, Deliver
<1>10. ASSUME NEW p \in Pids, Exec(p) \/ Complete(p) \/ Fail(p) \/ Callback(p) \/ EndCallback(p)
       PROVE  UNCHANGED buf
  BY <1>10 DEF Exec, Complete, Fail, EndScript, Callback, EndCallback
<1>11. CASE Dispose \/ DisposeDone \/ UNCHANGED vars
  BY <1>2, <1>11 DEF Dispose, DisposeDone, vars
<1> HIDE DEF Good
<1> QED
  BY <1>2, <1>3, <1>4, <1>5, <1>7, <1>8, <1>9, <1>10, <1>11 DEF Next, Host, Program

-----------------------------------------------------------------------------
\* Only the worker of the process a step is about changes, and it leaves "none"
\* only in a spawn.
LEMMA WorkerStep ==
  ASSUME IInv, [Next]_vars
  PROVE  /\ worker' \in [Pids -> Workers]
         /\ \A q \in Pids : worker'[q].op = "exit" => worker'[q].code \in Codes
<1> DEFINE Good(w) == w \in Workers /\ (w.op = "exit" => w.code \in Codes)
<1>1. worker \in [Pids -> Workers] /\ \A q \in Pids : Good(worker[q])
  BY DEF IInv, TypeOK, ExitsHaveCodes
<1>2. \/ UNCHANGED worker
      \/ \E p \in Pids, w \in Workers : Good(w) /\ worker' = [worker EXCEPT ![p] = w]
  <2>1. CASE Spawn
    <3>1. PICK s \in Sabs : worker' = [worker EXCEPT ![nextPid].at = "loaded", ![nextPid].sab = s]
      BY <2>1 DEF Spawn
    <3>2. nextPid \in Pids
      BY <2>1 DEF Spawn
    <3> DEFINE w == [worker[nextPid] EXCEPT !.at = "loaded", !.sab = s]
    <3>3. worker' = [worker EXCEPT ![nextPid] = w]
      BY <1>1, <3>1, <3>2
    <3>4. Good(w)
      BY <1>1, <3>2 DEF Workers, WorkerStates, Ops, AllCodes
    <3> QED
      BY <3>2, <3>3, <3>4
  <2>2. ASSUME NEW p \in Pids, DisposeNext(p)
        PROVE  \E w \in Workers : Good(w) /\ worker' = [worker EXCEPT ![p] = w]
    <3> DEFINE w == [worker[p] EXCEPT !.at = "terminated"]
    <3>1. worker' = [worker EXCEPT ![p] = w]
      BY <2>2 DEF DisposeNext
    <3>2. Good(w)
      BY <1>1 DEF Workers, WorkerStates, Ops, AllCodes
    <3> QED
      BY <3>1, <3>2
  <2>3. ASSUME NEW p \in Pids, Exec(p)
        PROVE  \E w \in Workers : Good(w) /\ worker' = [worker EXCEPT ![p] = w]
    <3> DEFINE w == [worker[p] EXCEPT !.at = "running", !.ctx = "script"]
    <3>1. worker' = [worker EXCEPT ![p] = w]
      BY <1>1, <2>3 DEF Exec
    <3>2. Good(w)
      BY <1>1 DEF Workers, WorkerStates, Ops, AllCodes
    <3> QED
      BY <3>1, <3>2
  <2>4. ASSUME NEW p \in Pids, CallFs(p) \/ \E q \in Pids : CallKill(p, q)
        PROVE  \E w \in Workers : Good(w) /\ worker' = [worker EXCEPT ![p] = w]
    <3>1. PICK op \in {"fs", "kill"} :
            worker' = [worker EXCEPT ![p].at = "waiting", ![p].op = op]
      BY <2>4 DEF CallFs, CallKill
    <3> DEFINE w == [worker[p] EXCEPT !.at = "waiting", !.op = op]
    <3>2. worker' = [worker EXCEPT ![p] = w]
      BY <1>1, <3>1
    <3>3. Good(w)
      BY <1>1, <3>1 DEF Workers, WorkerStates, Ops, AllCodes
    <3> QED
      BY <3>2, <3>3
  <2>5. ASSUME NEW p \in Pids, NEW c \in Codes, CallExit(p, c)
        PROVE  \E w \in Workers : Good(w) /\ worker' = [worker EXCEPT ![p] = w]
    <3> DEFINE w == [worker[p] EXCEPT !.at = "waiting", !.op = "exit", !.code = c]
    <3>1. worker' = [worker EXCEPT ![p] = w]
      BY <1>1, <2>5 DEF CallExit
    <3>2. Good(w)
      BY <1>1 DEF Workers, WorkerStates, Ops, AllCodes
    <3> QED
      BY <3>1, <3>2
  <2>6. ASSUME NEW p \in Pids, Wake(p)
        PROVE  \E w \in Workers : Good(w) /\ worker' = [worker EXCEPT ![p] = w]
    <3>1. PICK at \in {"closed", "running"} :
            worker' = [worker EXCEPT ![p].at = at, ![p].op = "none"]
      BY <2>6 DEF Wake
    <3> DEFINE w == [worker[p] EXCEPT !.at = at, !.op = "none"]
    <3>2. worker' = [worker EXCEPT ![p] = w]
      BY <1>1, <3>1
    <3>3. Good(w)
      BY <1>1, <3>1 DEF Workers, WorkerStates, Ops, AllCodes
    <3> QED
      BY <3>2, <3>3
  <2>7. ASSUME NEW p \in Pids, Complete(p) \/ Fail(p) \/ EndCallback(p)
        PROVE  \E w \in Workers : Good(w) /\ worker' = [worker EXCEPT ![p] = w]
    <3> DEFINE w == [worker[p] EXCEPT !.at = "idle"]
    <3>1. worker' = [worker EXCEPT ![p] = w]
      BY <2>7 DEF Complete, Fail, EndScript, EndCallback
    <3>2. Good(w)
      BY <1>1 DEF Workers, WorkerStates, Ops, AllCodes
    <3> QED
      BY <3>1, <3>2
  <2>8. ASSUME NEW p \in Pids, Callback(p)
        PROVE  \E w \in Workers : Good(w) /\ worker' = [worker EXCEPT ![p] = w]
    <3> DEFINE w == [worker[p] EXCEPT !.at = "running", !.ctx = "callback"]
    <3>1. worker' = [worker EXCEPT ![p] = w]
      BY <1>1, <2>8 DEF Callback
    <3>2. Good(w)
      BY <1>1 DEF Workers, WorkerStates, Ops, AllCodes
    <3> QED
      BY <3>1, <3>2
  <2>9. ASSUME NEW p \in Pids, Kill(p) \/ Poll(p) \/ Deliver(p) PROVE UNCHANGED worker
    BY <2>9 DEF Kill, Poll, Deliver
  <2>10. CASE Dispose \/ DisposeDone \/ UNCHANGED vars
    BY <2>10 DEF Dispose, DisposeDone, vars
  <2> HIDE DEF Good
  <2> QED
    BY <2>1, <2>2, <2>3, <2>4, <2>5, <2>6, <2>7, <2>8, <2>9, <2>10 DEF Next, Host, Program
<1> QED
  BY <1>1, <1>2

\* Messages carry codes; promises and histories record them.
LEMMA MessageStep ==
  ASSUME IInv, [Next]_vars
  PROVE  /\ inbox' \in [Pids -> Seq(Messages)]
         /\ promise' \in [Pids -> AllCodes \cup {NoCode}]
         /\ wanted' \in [Pids -> Codes \cup {NoCode}]
         /\ killed' \subseteq Pids /\ poked' \subseteq Pids
         /\ disposing' \in BOOLEAN
<1>1. /\ inbox \in [Pids -> Seq(Messages)]
      /\ promise \in [Pids -> AllCodes \cup {NoCode}]
      /\ wanted \in [Pids -> Codes \cup {NoCode}]
      /\ killed \subseteq Pids /\ poked \subseteq Pids /\ disposing \in BOOLEAN
      /\ worker \in [Pids -> Workers]
  BY DEF IInv, TypeOK
<1>2. ASSUME NEW c \in AllCodes, NEW t \in {"exit", "exec-complete", "error"}
      PROVE  Message(t, c) \in Messages
  BY DEF Message, Messages
<1>3. CASE Spawn \/ Dispose \/ DisposeDone \/ UNCHANGED vars
  BY <1>1, <1>3 DEF Spawn, Dispose, DisposeDone, vars
<1>4. ASSUME NEW p \in Pids, Host(p)
      PROVE  /\ inbox' \in [Pids -> Seq(Messages)]
             /\ promise' \in [Pids -> AllCodes \cup {NoCode}]
             /\ UNCHANGED wanted
             /\ killed' \subseteq Pids /\ poked' \subseteq Pids
             /\ disposing' \in BOOLEAN
  <2>1. CASE Kill(p)
    BY <1>1, <2>1 DEF Kill
  <2>2. CASE DisposeNext(p)
    BY <1>1, <2>2 DEF DisposeNext
  <2>3. CASE Poll(p)
    <3>1. UNCHANGED <<inbox, promise, wanted, disposing>>
      BY <2>3 DEF Poll
    <3>2. poked' \subseteq Pids
      BY <1>1, <2>3 DEF Poll
    <3>3. killed' \subseteq Pids
      BY <1>1, <2>3 DEF Poll, Kills
    <3> QED
      BY <1>1, <3>1, <3>2, <3>3
  <2>4. CASE Deliver(p)
    <3>1. Head(inbox[p]).code \in AllCodes /\ Tail(inbox[p]) \in Seq(Messages)
      BY <1>1, <2>4, CodesArePlain DEF Deliver
    <3>2. promise' = promise \/ promise' = [promise EXCEPT ![p] = Head(inbox[p]).code]
      BY <2>4 DEF Deliver
    <3>3. /\ inbox' = [inbox EXCEPT ![p] = Tail(inbox[p])]
          /\ UNCHANGED <<wanted, killed, poked, disposing>>
      BY <2>4 DEF Deliver
    <3> QED
      BY <1>1, <3>1, <3>2, <3>3
  <2>5. CASE Exec(p)
    BY <1>1, <2>5 DEF Exec, hostVars, history
  <2> QED
    BY <1>4, <2>1, <2>2, <2>3, <2>4, <2>5 DEF Host
<1>5. ASSUME NEW p \in Pids, Program(p) \/ Wake(p)
      PROVE  UNCHANGED <<promise, killed, disposing>> /\ poked' \subseteq Pids
  BY <1>1, <1>5 DEF Program, Wake, CallFs, CallKill, CallExit, Post, Complete, Fail,
     EndScript, Callback, EndCallback, hostVars, history
<1>6. ASSUME NEW p \in Pids, Program(p) \/ Wake(p)
      PROVE  wanted' \in [Pids -> Codes \cup {NoCode}]
  BY <1>1, <1>6 DEF Program, Wake, CallFs, CallKill, CallExit, Post, Complete, Fail,
     EndScript, Callback, EndCallback, history
<1>7. ASSUME NEW p \in Pids, Program(p) \/ Wake(p)
      PROVE  inbox' \in [Pids -> Seq(Messages)]
  <2>1. CASE Wake(p)
    <3>1. CASE ExitDone(p)
      <4>1. worker[p].code \in AllCodes
        BY <3>1 DEF ExitDone, IInv, ExitsHaveCodes, AllCodes
      <4>2. << Message("exit", worker[p].code) >> \in Seq(Messages)
        BY <1>2, <4>1
      <4>3. << Message("error", 1) >> \in Seq(Messages)
        BY <1>2, Facts
      <4>4. PICK e \in {<< >>, << Message("error", 1) >>} :
              inbox' = [inbox EXCEPT ![p] = @ \o << Message("exit", worker[p].code) >> \o e]
        BY <2>1, <3>1 DEF Wake
      <4>5. e \in Seq(Messages)
        <5>1. e = << >> \/ e = << Message("error", 1) >>
          OBVIOUS
        <5>2. << >> \in Seq(Messages)
          OBVIOUS
        <5> QED
          BY <4>3, <5>1, <5>2
      <4>6. inbox[p] \o << Message("exit", worker[p].code) >> \o e \in Seq(Messages)
        BY <1>1, <4>2, <4>5
      <4> QED
        BY <1>1, <4>4, <4>6
    <3>2. CASE ~ExitDone(p)
      BY <1>1, <2>1, <3>2 DEF Wake
    <3> QED
      BY <3>1, <3>2
  <2>2. ASSUME NEW c \in AllCodes, EndScript(p, c) PROVE inbox' \in [Pids -> Seq(Messages)]
    <3>1. Append(inbox[p], Message("exec-complete", c)) \in Seq(Messages)
      BY <1>1, <1>2, <2>2
    <3>2. inbox' = [inbox EXCEPT ![p] = Append(inbox[p], Message("exec-complete", c))]
      BY <2>2 DEF EndScript
    <3> QED
      BY <1>1, <3>1, <3>2
  <2>3. CASE Complete(p) \/ Fail(p)
    <3>1. worker[p].code \in AllCodes \cup {NoCode}
      BY <1>1 DEF Workers
    <3> QED
      BY <2>2, <2>3, <3>1, Facts DEF Complete, Fail
  <2>4. CASE EndCallback(p)
    <3>1. Append(inbox[p], Message("error", 1)) \in Seq(Messages)
      BY <1>1, <1>2, Facts
    <3>2. \/ UNCHANGED inbox
          \/ inbox' = [inbox EXCEPT ![p] = Append(inbox[p], Message("error", 1))]
      BY <2>4 DEF EndCallback
    <3> QED
      BY <1>1, <3>1, <3>2
  <2>5. CASE CallFs(p) \/ (\E q \in Pids : CallKill(p, q)) \/ (\E c \in Codes : CallExit(p, c))
             \/ Callback(p)
    BY <1>1, <2>5 DEF CallFs, CallKill, CallExit, Post, Callback
  <2> QED
    BY <1>7, <2>1, <2>3, <2>4, <2>5 DEF Program
<1> QED
  BY <1>1, <1>3, <1>4, <1>5, <1>6, <1>7 DEF Next

-----------------------------------------------------------------------------
\* Whoever acts has been spawned.
LEMMA ActorsExist ==
  ASSUME IInv, NEW p \in Pids,
         \/ Running(p) \/ worker[p].at # "none" \/ inbox[p] # << >> \/ promise[p] # NoCode
  PROVE  p < nextPid
<1>1. nextPid \in Nat /\ p \in Nat
  BY Facts DEF IInv, Fresh
<1>2. ~(p >= nextPid)
  BY DEF IInv, Fresh, Running, NoEntry
<1> QED
  BY <1>1, <1>2

\* A process runs after a step only if it ran before or has just been spawned.
LEMMA RunningStep ==
  ASSUME IInv, [Next]_vars, NEW p \in Pids
  PROVE  /\ Running(p)' => Running(p) \/ (Spawn /\ p = nextPid)
         /\ ~Spawn /\ proc[p] = NoEntry => proc'[p] = NoEntry
<1>1. proc \in [Pids -> Entries]
  BY DEF IInv, TypeOK
<1>2. CASE UNCHANGED tableVars
  BY <1>2 DEF tableVars, Running
<1>3. CASE \E q \in Pids, code \in AllCodes : Cleanup(q, code)
  <2>1. PICK q \in Pids, code \in AllCodes : Cleanup(q, code)
    BY <1>3
  <2>2. CASE proc[q].state = "absent"
    BY <2>1, <2>2 DEF Cleanup, Running
  <2>3. CASE proc[q].state # "absent"
    BY <1>1, <2>1, <2>3 DEF Cleanup, Running, NoEntry
  <2> QED
    BY <2>2, <2>3
<1>4. CASE Spawn
  BY <1>1, <1>4 DEF Spawn, Running
<1>5. CASE DisposeDone
  BY <1>5 DEF DisposeDone, Running, NoEntry
<1> QED
  BY <1>2, <1>3, <1>4, <1>5, TableSteps

\* A promise changes only when a message settles it, and then the process is over.
LEMMA PromiseStep ==
  ASSUME IInv, [Next]_vars, NEW p \in Pids, promise'[p] # promise[p]
  PROVE  promise[p] = NoCode /\ inbox[p] # << >> /\ ~Running(p)'
<1>1. promise \in [Pids -> AllCodes \cup {NoCode}] /\ proc \in [Pids -> Entries]
  BY DEF IInv, TypeOK
<1>2. PICK q \in Pids : Deliver(q)
  <2>1. CASE Spawn \/ Dispose \/ DisposeDone \/ UNCHANGED vars
    BY <2>1 DEF Spawn, Dispose, DisposeDone, vars
  <2>2. ASSUME NEW q \in Pids, Kill(q) \/ DisposeNext(q) \/ Poll(q) \/ Exec(q)
        PROVE  FALSE
    BY <2>2 DEF Kill, DisposeNext, Poll, Exec
  <2>3. ASSUME NEW q \in Pids, Program(q) \/ Wake(q)
        PROVE  FALSE
    BY <2>3 DEF Program, Wake, CallFs, CallKill, CallExit, Post, Complete, Fail,
       EndScript, Callback, EndCallback
  <2> QED
    BY <2>1, <2>2, <2>3 DEF Next, Host
<1>3. /\ promise[q] = NoCode /\ Resolves(Head(inbox[q])) /\ q = p /\ inbox[q] # << >>
  BY <1>1, <1>2 DEF Deliver
<1>4. Cleanup(p, Head(inbox[p]).code)
  BY <1>2, <1>3 DEF Deliver, Resolves, CleansUp
<1>5. ~Running(p)'
  BY <1>1, <1>4 DEF Cleanup, Running
<1> QED
  BY <1>3, <1>5

LEMMA FreshStep ==
  ASSUME IInv, [Next]_vars
  PROVE  Fresh' /\ nextPid' \in 1..(MaxPid + 1)
<1>1. /\ nextPid \in 1..(MaxPid + 1) /\ Fresh
      /\ worker \in [Pids -> Workers] /\ inbox \in [Pids -> Seq(Messages)]
      /\ promise \in [Pids -> AllCodes \cup {NoCode}] /\ proc \in [Pids -> Entries]
  BY DEF IInv, TypeOK
<1>2. CASE Spawn
  <2>1. /\ nextPid \in Pids /\ nextPid' = nextPid + 1 /\ UNCHANGED <<inbox, promise>>
        /\ \A p \in Pids : p # nextPid => proc'[p] = proc[p] /\ worker'[p] = worker[p]
    BY <1>1, <1>2 DEF Spawn
  <2>2. nextPid' \in 1..(MaxPid + 1) /\ nextPid' \in Nat \ {0}
    BY <1>1, <2>1 DEF Pids
  <2>3. \A p \in Pids : p >= nextPid' => p >= nextPid /\ p # nextPid
    BY <1>1, <2>1, Facts
  <2> QED
    BY <1>1, <2>1, <2>2, <2>3 DEF Fresh
<1>3. CASE ~Spawn
  <2>1. nextPid' = nextPid
    BY <1>3 DEF Next, Host, Program, Dispose, DisposeDone, Kill, DisposeNext, Poll, Deliver, Exec, Wake,
       CallFs, CallKill, CallExit, Post, Complete, Fail, EndScript, Callback, EndCallback,
       hostVars, vars
  <2>2. ASSUME NEW p \in Pids, p >= nextPid
        PROVE  /\ proc'[p] = NoEntry /\ promise'[p] = NoCode
               /\ worker'[p].at = "none" /\ inbox'[p] = << >>
    <3>1. /\ proc[p] = NoEntry /\ promise[p] = NoCode /\ ~Running(p)
          /\ worker[p].at = "none" /\ inbox[p] = << >>
      BY <1>1, <2>2 DEF Fresh, Running, NoEntry
    <3>2. proc'[p] = NoEntry
      BY <1>3, <3>1, RunningStep
    <3>3. promise'[p] = NoCode
      BY <3>1, PromiseStep
    <3>4. worker'[p].at = "none" /\ inbox'[p] = << >>
      <4>1. CASE Dispose \/ DisposeDone \/ UNCHANGED vars
        BY <3>1, <4>1 DEF Dispose, DisposeDone, vars
      <4>2. ASSUME NEW q \in Pids, Kill(q) \/ Poll(q)
            PROVE  UNCHANGED <<worker, inbox>>
        BY <4>2 DEF Kill, Poll
      <4>3. ASSUME NEW q \in Pids, DisposeNext(q) \/ Deliver(q) \/ Exec(q)
            PROVE  worker'[p].at = "none" /\ inbox'[p] = << >>
        BY <1>1, <3>1, <4>3 DEF DisposeNext, Deliver, Exec
      <4>4. ASSUME NEW q \in Pids, Wake(q)
            PROVE  worker'[p].at = "none" /\ inbox'[p] = << >>
        <5>1. q # p
          BY <3>1, <4>4 DEF Wake
        <5> QED
          BY <1>1, <3>1, <4>4, <5>1 DEF Wake
      <4>5. ASSUME NEW q \in Pids, Program(q)
            PROVE  worker'[p].at = "none" /\ inbox'[p] = << >>
        BY <1>1, <3>1, <4>5 DEF Program, CallFs, CallKill, CallExit, Post, Complete, Fail,
           EndScript, Callback, EndCallback
      <4> QED
        BY <1>3, <3>1, <4>1, <4>2, <4>3, <4>4, <4>5 DEF Next, Host
    <3> QED
      BY <3>2, <3>3, <3>4
  <2> QED
    BY <1>1, <2>1, <2>2 DEF Fresh
<1> QED
  BY <1>2, <1>3

LEMMA ResolvedStep ==
  ASSUME IInv, [Next]_vars
  PROVE  ResolvedMeansExited'
<1> SUFFICES ASSUME NEW p \in Pids, promise'[p] # NoCode
             PROVE  ~Running(p)'
  BY DEF ResolvedMeansExited, Running
<1>1. CASE promise'[p] # promise[p]
  BY <1>1, PromiseStep
<1>2. CASE promise'[p] = promise[p]
  <2>1. ~Running(p) /\ p < nextPid
    BY <1>2, ActorsExist DEF IInv, ResolvedMeansExited
  <2>2. p # nextPid
    BY <2>1, Facts DEF IInv, Fresh
  <2> QED
    BY <2>1, <2>2, RunningStep
<1> QED
  BY <1>1, <1>2

\* No more buffers are created than there are processes to need them.
LEMMA CreatedBound == Ownership => created \in 0..(PoolSize + MaxPid)
<1> SUFFICES ASSUME Ownership PROVE created \in 0..(PoolSize + MaxPid)
  OBVIOUS
<1>1. created \in Nat /\ pool \in Seq(Sabs) /\ inUse \subseteq Sabs
  BY DEF Ownership, PoolTypes
<1>2. 1..created \subseteq Sabs
  BY <1>1 DEF Ownership, PoolSound
<1>3. CASE created = 0
  BY <1>3
<1>4. CASE created # 0
  <2>1. created \in 1..created
    BY <1>1, <1>4
  <2> QED
    BY <1>2, <2>1 DEF Sabs
<1> QED
  BY <1>3, <1>4

-----------------------------------------------------------------------------
LEMMA Initially == Init => IInv
<1> SUFFICES ASSUME Init PROVE IInv
  OBVIOUS
<1>1. /\ proc = [p \in Pids |-> NoEntry] /\ worker = [p \in Pids |-> NoWorker]
      /\ pool = [i \in 1..PoolSize |-> i] /\ inUse = {} /\ created = PoolSize
      /\ buf = [s \in Sabs |-> Zeroed]
  BY DEF Init
<1>2. NoEntry \in Entries /\ NoWorker \in Workers /\ NoWorker.op # "exit"
  BY DEF NoEntry, NoWorker, Entries, Workers, WorkerStates, Ops
<1>3. \A p \in Pids : ~Running(p) /\ proc[p].sab = NoSab
  BY <1>1 DEF NoEntry, Running
<1>4. TypeOK
  <2>1. nextPid \in 1..(MaxPid + 1) /\ created \in 0..(PoolSize + MaxPid)
    BY DEF Init
  <2>2. buf \in [Sabs -> Buffers]
    BY <1>1, BufferType
  <2>3. pool \in Seq(Sabs)
    BY <1>1, EmptyPool
  <2>4. inbox \in [Pids -> Seq(Messages)]
    <3>1. << >> \in Seq(Messages)
      OBVIOUS
    <3> QED
      BY <3>1 DEF Init
  <2>5. /\ monitor \in [Pids -> Sabs \cup {NoSab}] /\ disposing \in BOOLEAN
        /\ promise \in [Pids -> AllCodes \cup {NoCode}] /\ wanted \in [Pids -> Codes \cup {NoCode}]
        /\ poked \subseteq Pids /\ killed \subseteq Pids /\ inUse \subseteq Sabs
    BY DEF Init
  <2>6. proc \in [Pids -> Entries] /\ worker \in [Pids -> Workers]
    BY <1>1, <1>2
  <2> QED
    BY <2>1, <2>2, <2>3, <2>4, <2>5, <2>6 DEF TypeOK
<1>5. Ownership
  <2>1. PoolTypes
    BY <1>4, <1>1 DEF TypeOK, PoolTypes
  <2>2. PoolSound
    BY <1>1, EmptyPool DEF PoolSound
  <2>3. SabIffRunning /\ BufferOwnership /\ MonitorIffRunning
    BY <1>1, <1>3 DEF Init, SabIffRunning, BufferOwnership, MonitorIffRunning
  <2> QED
    BY <2>1, <2>2, <2>3 DEF Ownership
<1>6. Fresh
  BY <1>1 DEF Init, Fresh, NoWorker
<1>7. ExitsHaveCodes
  BY <1>1, <1>2, BufferType DEF ExitsHaveCodes
<1>8. ResolvedMeansExited
  BY DEF Init, ResolvedMeansExited
<1> QED
  BY <1>4, <1>5, <1>6, <1>7, <1>8 DEF IInv

LEMMA Inductive == IInv /\ [Next]_vars => IInv'
<1> SUFFICES ASSUME IInv, [Next]_vars PROVE IInv'
  OBVIOUS
<1>1. Ownership'
  BY OwnershipStep
<1>2. Fresh' /\ nextPid' \in 1..(MaxPid + 1)
  BY FreshStep
<1>3. created' \in 0..(PoolSize + MaxPid)
  <2>1. (Ownership => created \in 0..(PoolSize + MaxPid))'
    BY CreatedBound, PTL
  <2> QED
    BY <1>1, <2>1
<1>4. TypeOK'
  BY <1>1, <1>2, <1>3, BufferStep, WorkerStep, MessageStep DEF TypeOK, Ownership, PoolTypes
<1>5. ExitsHaveCodes'
  BY BufferStep, WorkerStep DEF ExitsHaveCodes
<1> QED
  BY <1>1, <1>2, <1>4, <1>5, ResolvedStep DEF IInv

\* The inductive invariant holds of every behaviour of the manager.
THEOREM InvariantHolds == Spec => []IInv
BY Initially, Inductive, PTL DEF Spec

\* Every variable keeps its type; in particular no more buffers are created
\* than the pool and the processes account for.
THEOREM TypeCorrect == Spec => []TypeOK
<1>1. IInv => TypeOK
  BY DEF IInv
<1> QED
  BY <1>1, InvariantHolds, PTL

\* SABPool never frees a buffer twice and never loses one, however often and
\* from wherever a process is cleaned up.
THEOREM PoolStaysSound == Spec => []PoolSound
<1>1. IInv => PoolSound
  BY DEF IInv, Ownership
<1> QED
  BY <1>1, InvariantHolds, PTL

\* The buffers handed out are those of the running processes, one each.
THEOREM RunningOwnBuffers == Spec => []BufferOwnership
<1>1. IInv => BufferOwnership
  BY DEF IInv, Ownership
<1> QED
  BY <1>1, InvariantHolds, PTL

\* The interval of a process polls its own buffer, exactly while it runs.
THEOREM RunningArePolled == Spec => []MonitorIffRunning
<1>1. IInv => MonitorIffRunning
  BY DEF IInv, Ownership
<1> QED
  BY <1>1, InvariantHolds, PTL

\* The exit promise is settled only when the table shows the process exited.
THEOREM ResolvedAreExited == Spec => []ResolvedMeansExited
<1>1. IInv => ResolvedMeansExited
  BY DEF IInv
<1> QED
  BY <1>1, InvariantHolds, PTL

\* The books of the pool balance: the free buffers and those of the running
\* processes are all there are, each counted once.
THEOREM PoolAccounted == Spec => []BuffersAccounted
<1>1. PoolSound /\ BufferOwnership => BuffersAccounted
  BY DEF BuffersAccounted
<1> QED
  BY <1>1, PoolStaysSound, RunningOwnBuffers, PTL

\* Intervals and exit promises agree with the process table.
THEOREM TableIsTrue == Spec => []TableAgrees
<1>1. MonitorIffRunning /\ ResolvedMeansExited => TableAgrees
  BY DEF TableAgrees
<1> QED
  BY <1>1, RunningArePolled, ResolvedAreExited, PTL

\* No late message, poll or disposal brings a process back or settles its
\* exit promise a second time.
THEOREM ProcessesStayDown == Spec => NeverRevived
<1> DEFINE Stays == \A p \in Pids : /\ worker[p].at # "none" /\ ~Running(p) => ~Running(p)'
                                    /\ promise[p] # NoCode => promise'[p] = promise[p]
<1>1. IInv /\ [Next]_vars => [Stays]_vars
  <2> SUFFICES ASSUME IInv, [Next]_vars, NEW p \in Pids
               PROVE  /\ worker[p].at # "none" /\ ~Running(p) => ~Running(p)'
                      /\ promise[p] # NoCode => promise'[p] = promise[p]
    OBVIOUS
  <2>1. ASSUME worker[p].at # "none", ~Running(p)
        PROVE  ~Running(p)'
    <3>1. p # nextPid
      BY <2>1, ActorsExist, Facts DEF IInv, Fresh
    <3> QED
      BY <2>1, <3>1, RunningStep
  <2>2. promise[p] # NoCode => promise'[p] = promise[p]
    BY PromiseStep
  <2> QED
    BY <2>1, <2>2
<1> HIDE DEF Stays
<1>2. Spec => [][Stays]_vars
  BY <1>1, InvariantHolds, PTL DEF Spec
<1> QED
  BY <1>2 DEF NeverRevived, Stays

-----------------------------------------------------------------------------
(***************************************************************************)
(* Whose the contents of the buffers are, however often buffers change     *)
(* hands and whatever is still written to them by programs whose process   *)
(* is over.                                                                *)
(***************************************************************************)
\* A worker keeps the buffer it was started with; of two workers with the same
\* buffer the process of the first no longer runs.
Place(p) ==
  /\ Running(p) => worker[p].at # "none" /\ worker[p].sab = proc[p].sab
  /\ worker[p].at = "none" => worker[p] = NoWorker /\ wanted[p] = NoCode
  /\ worker[p].at # "none" => worker[p].sab \in Sabs
  /\ \A q \in Pids : p < q /\ worker[q].at # "none" /\ worker[q].sab = worker[p].sab
                       => ~Running(p)

Places == \A p \in Pids : Place(p)

\* What lies in a buffer was written by a worker that has it; the call of a process
\* that runs was served by its own interval.
Content(s) ==
  /\ buf[s].status = "REQUEST" => buf[s].kind = "request"
  /\ buf[s].kind # "zero" => /\ buf[s].by \in Pids
                             /\ worker[buf[s].by].at # "none" /\ worker[buf[s].by].sab = s
  /\ buf[s].kind = "answer" /\ Running(buf[s].by) => buf[s].as = buf[s].by

\* While a process that runs waits, its buffer is not wiped.
Held(p) == Running(p) /\ worker[p].at = "waiting" => buf[worker[p].sab].kind # "zero"

CallsInv ==
  /\ Places
  /\ \A s \in Sabs : Content(s)
  /\ \A p \in Pids : Held(p)

\* Running processes have buffers of their own.
LEMMA Apart ==
  ASSUME IInv, NEW p \in Pids, Running(p)
  PROVE  /\ proc[p].sab \in Sabs /\ monitor[p] = proc[p].sab
         /\ proc[p].sab \in inUse
         /\ \A q \in Pids : Running(q) /\ q # p => proc[q].sab # proc[p].sab
<1>1. proc[p].sab # NoSab /\ proc[p].sab \in Sabs \cup {NoSab}
  BY DEF IInv, Ownership, SabIffRunning, PoolTypes, Entries
<1>2. \A q \in Pids : Running(q) /\ q # p => proc[q].sab # proc[p].sab
  BY DEF IInv, Ownership, BufferOwnership
<1>3. proc[p].sab \in inUse
  BY DEF IInv, Ownership, BufferOwnership
<1> QED
  BY <1>1, <1>2, <1>3 DEF IInv, Ownership, MonitorIffRunning

LEMMA Types ==
  ASSUME IInv
  PROVE  /\ proc \in [Pids -> Entries] /\ worker \in [Pids -> Workers]
         /\ inbox \in [Pids -> Seq(Messages)] /\ buf \in [Sabs -> Buffers]
         /\ promise \in [Pids -> AllCodes \cup {NoCode}]
         /\ wanted \in [Pids -> Codes \cup {NoCode}]
         /\ poked \subseteq Pids /\ killed \subseteq Pids
BY DEF IInv, TypeOK

\* The process that is spawned, and the buffer s it gets.
SpawnedWith(s) ==
  /\ nextPid \in Pids /\ ~Running(nextPid) /\ worker[nextPid] = NoWorker
  /\ inbox[nextPid] = << >> /\ promise[nextPid] = NoCode /\ wanted[nextPid] = NoCode
  /\ worker'[nextPid] = [NoWorker EXCEPT !.at = "loaded", !.sab = s]
  /\ \A q \in Pids : q # nextPid => worker'[q] = worker[q] /\ proc'[q] = proc[q]
  /\ proc'[nextPid].state = "running" /\ proc'[nextPid].sab = s
  /\ \A q \in Pids : Running(q) => proc[q].sab # s
  /\ buf' = [buf EXCEPT ![s] = Zeroed]
  /\ \A q \in Pids : worker[q].at # "none" => q < nextPid
  /\ UNCHANGED <<poked, inbox, promise, wanted, killed>>

LEMMA Spawned ==
  ASSUME IInv, Places, Spawn
  PROVE  \E s \in Sabs : SpawnedWith(s)
<1>0. PICK p \in Pids : p = nextPid
  BY DEF Spawn
<1>1. PICK s \in Sabs :
        /\ buf' = [buf EXCEPT ![s] = Zeroed]
        /\ proc' = [proc EXCEPT ![p] = [state |-> "running", code |-> NoCode, sab |-> s, worker |-> TRUE]]
        /\ worker' = [worker EXCEPT ![p].at = "loaded", ![p].sab = s]
  BY <1>0 DEF Spawn
<1>2. UNCHANGED <<poked, inbox, promise, wanted, killed>>
  BY DEF Spawn
<1>3. /\ worker[p].at = "none" /\ ~Running(p) /\ inbox[p] = << >> /\ promise[p] = NoCode
  BY <1>0, Facts DEF IInv, Fresh, Running, NoEntry
<1>4. worker[p] = NoWorker /\ wanted[p] = NoCode
  BY <1>3 DEF Places, Place
<1>5. worker'[p] = [NoWorker EXCEPT !.at = "loaded", !.sab = s]
  BY <1>1, <1>4, Types
<1>6. \A q \in Pids : q # p => worker'[q] = worker[q] /\ proc'[q] = proc[q]
  BY <1>1, Types
<1>7. proc'[p].state = "running" /\ proc'[p].sab = s
  BY <1>1, Types
<1>8. ASSUME NEW q \in Pids, Running(q) PROVE proc[q].sab # s
  <2>1. q # p /\ Running(q)' /\ proc'[q].sab = proc[q].sab
    BY <1>3, <1>6, <1>8 DEF Running
  <2>2. [Next]_vars
    BY DEF Next
  <2>3. BufferOwnership'
    BY <2>2, OwnershipStep DEF Ownership
  <2>4. q # p /\ Running(q)' /\ Running(p)'
    BY <1>7, <2>1 DEF Running
  <2>5. proc'[q].sab # proc'[p].sab
    BY <2>3, <2>4 DEF BufferOwnership
  <2> QED
    BY <1>7, <2>1, <2>5
<1>9. \A q \in Pids : worker[q].at # "none" => q < p
  BY <1>0, ActorsExist
<1>10. SpawnedWith(s)
  BY <1>0, <1>1, <1>2, <1>3, <1>4, <1>5, <1>6, <1>7, <1>8, <1>9 DEF SpawnedWith
<1> QED
  BY <1>10

\* Every other step leaves each worker its buffer, and touches the worker of one
\* process only.
Acts(q) == Exec(q) \/ Program(q) \/ Wake(q) \/ DisposeNext(q)

LEMMA OthersStay ==
  ASSUME IInv, [Next]_vars, ~Spawn, NEW q \in Pids, ~Acts(q)
  PROVE  /\ worker'[q] = worker[q] /\ wanted'[q] = wanted[q]
         /\ ~Deliver(q) => inbox'[q] = inbox[q] /\ promise'[q] = promise[q]
<1> USE Types
<1>1. CASE Dispose \/ DisposeDone \/ UNCHANGED vars
  BY <1>1 DEF Dispose, DisposeDone, vars
<1>2. ASSUME NEW p \in Pids, Kill(p) \/ Poll(p) PROVE UNCHANGED <<worker, wanted, inbox, promise>>
  BY <1>2 DEF Kill, Poll
<1>3. ASSUME NEW p \in Pids, Deliver(p)
      PROVE  /\ UNCHANGED <<worker, wanted>>
             /\ q # p => inbox'[q] = inbox[q] /\ promise'[q] = promise[q]
  BY <1>3 DEF Deliver
<1>4. ASSUME NEW p \in Pids, p # q, DisposeNext(p) \/ Exec(p)
      PROVE  worker'[q] = worker[q] /\ inbox'[q] = inbox[q] /\ UNCHANGED <<wanted, promise>>
  BY <1>4 DEF DisposeNext, Exec, history
<1>5. ASSUME NEW p \in Pids, p # q, Wake(p)
      PROVE  worker'[q] = worker[q] /\ inbox'[q] = inbox[q] /\ UNCHANGED <<wanted, promise>>
  BY <1>5 DEF Wake, history
<1>6. ASSUME NEW p \in Pids, p # q, Program(p)
      PROVE  worker'[q] = worker[q] /\ inbox'[q] = inbox[q] /\ wanted'[q] = wanted[q]
             /\ UNCHANGED promise
  BY <1>6 DEF Program, CallFs, CallKill, CallExit, Post, Complete, Fail, EndScript, Callback,
     EndCallback, history
<1> QED
  BY <1>1, <1>2, <1>3, <1>4, <1>5, <1>6 DEF Next, Host, Acts

\* What the acting worker does to itself.
LEMMA Acting ==
  ASSUME IInv, NEW q \in Pids, Acts(q)
  PROVE  /\ worker'[q].sab = worker[q].sab
         /\ worker[q].at = "none" => worker'[q].at = "terminated" /\ Running(q)
         /\ worker'[q].at # "none"
         /\ worker'[q].at = "waiting" => /\ worker[q].at = "running"
                                         /\ buf'[worker[q].sab].kind = "request" \/ worker[q].sab \notin Sabs
<1>0. worker[q] \in Workers /\ worker \in [Pids -> Workers] /\ buf \in [Sabs -> Buffers]
  BY Types
<1>1. CASE DisposeNext(q)
  BY <1>0, <1>1 DEF DisposeNext, Workers
<1>2. CASE Exec(q)
  BY <1>0, <1>2 DEF Exec, Workers
<1>3. CASE Wake(q)
  BY <1>0, <1>3 DEF Wake, Workers
<1>4. ASSUME NEW op, NEW n, Post(q, op, n)
      PROVE  buf'[worker[q].sab].kind = "request" \/ worker[q].sab \notin Sabs
  BY <1>0, <1>4 DEF Post
<1>5. CASE CallFs(q) \/ (\E r \in Pids : CallKill(q, r)) \/ (\E c \in Codes : CallExit(q, c))
  <2>1. worker[q].at = "running"
    BY <1>5 DEF CallFs, CallKill, CallExit, Post
  <2>2. worker'[q].at = "waiting" /\ worker'[q].sab = worker[q].sab
    BY <1>0, <1>5 DEF CallFs, CallKill, CallExit, Workers
  <2>3. buf'[worker[q].sab].kind = "request" \/ worker[q].sab \notin Sabs
    BY <1>4, <1>5 DEF CallFs, CallKill, CallExit
  <2> QED
    BY <2>1, <2>2, <2>3
<1>6. CASE Complete(q) \/ Fail(q) \/ Callback(q) \/ EndCallback(q)
  BY <1>0, <1>6 DEF Complete, Fail, EndScript, Callback, EndCallback, Workers
<1> QED
  BY <1>1, <1>2, <1>3, <1>5, <1>6 DEF Acts, Program

\* A process that runs after any other step ran before, with the same buffer.
LEMMA RunningKept ==
  ASSUME IInv, [Next]_vars, ~Spawn, NEW p \in Pids, Running(p)'
  PROVE  Running(p) /\ proc'[p].sab = proc[p].sab
<1>1. proc \in [Pids -> Entries]
  BY Types
<1>2. CASE UNCHANGED tableVars
  BY <1>2 DEF tableVars, Running
<1>3. ASSUME NEW q \in Pids, NEW code \in AllCodes, Cleanup(q, code)
      PROVE  Running(p) /\ proc'[p].sab = proc[p].sab
  BY <1>1, <1>3 DEF Cleanup, Running
<1>4. CASE DisposeDone
  BY <1>4 DEF DisposeDone, Running, NoEntry
<1> QED
  BY <1>2, <1>3, <1>4, TableSteps

\* The buffer of r is wiped because r ends.
WipedFor(s, r) ==
  /\ Running(r) /\ proc[r].sab = s /\ ~Running(r)'
  /\ r \in killed' \/ worker'[r].at = "terminated" \/ inbox[r] # << >>

\* What a step does to the contents of the buffer s.
SameCall(s) ==
  buf'[s].by = buf[s].by /\ buf'[s].op = buf[s].op /\ buf'[s].arg = buf[s].arg

BufferMoves(s) ==
  \/ buf'[s] = buf[s]
  \/ buf'[s] = Zeroed /\ \E r \in Pids : WipedFor(s, r)
  \/ \E q \in Pids : /\ worker[q].sab = s /\ worker[q].at = "running"
                     /\ buf'[s].status = "REQUEST" /\ buf'[s].kind = "request" /\ buf'[s].by = q
  \/ \E q \in Pids : /\ Running(q) /\ proc[q].sab = s
                     /\ buf[s].status = "REQUEST"
                     /\ buf'[s].status = "RESPONSE" /\ buf'[s].kind = "answer" /\ buf'[s].as = q
                     /\ SameCall(s)
  \/ /\ buf[s].kind # "zero"
     /\ buf'[s].status = "IDLE" /\ buf'[s].kind = buf[s].kind /\ buf'[s].as = buf[s].as
     /\ SameCall(s)

LEMMA WipedMoves ==
  ASSUME IInv, NEW r \in Pids, NEW s \in Sabs, Wiped(r)[s] # buf[s]
  PROVE  Wiped(r)[s] = Zeroed /\ Running(r) /\ proc[r].sab = s
<1>1. buf \in [Sabs -> Buffers]
  BY Types
<1>2. Releases(r) /\ Wiped(r) = [buf EXCEPT ![proc[r].sab] = Zeroed]
  BY DEF Wiped
<1>3. proc[r].sab = s /\ Wiped(r)[s] = Zeroed
  BY <1>1, <1>2
<1>4. proc[r].sab # NoSab
  BY <1>3, Facts
<1> QED
  BY <1>3, <1>4 DEF IInv, Ownership, SabIffRunning

LEMMA CleanupEnds ==
  ASSUME IInv, NEW p \in Pids, NEW code, Cleanup(p, code)
  PROVE  ~Running(p)'
<1>1. proc \in [Pids -> Entries]
  BY Types
<1> QED
  BY <1>1 DEF Cleanup, Running

LEMMA PollMoves ==
  ASSUME IInv, NEW p \in Pids, Poll(p), NEW s \in Sabs
  PROVE  BufferMoves(s)
<1> DEFINE t == monitor[p]
<1> DEFINE a == [buf[t] EXCEPT !.status = "RESPONSE", !.kind = "answer", !.as = p]
<1>0. buf \in [Sabs -> Buffers] /\ t \in Sabs
  BY DEF Poll, IInv, TypeOK
<1>1. Running(p) /\ proc[p].sab = t /\ buf[t].status = "REQUEST"
  BY DEF Poll, IInv, Ownership, MonitorIffRunning
<1>2. /\ a.status = "RESPONSE" /\ a.kind = "answer" /\ a.as = p
      /\ a.by = buf[t].by /\ a.op = buf[t].op /\ a.arg = buf[t].arg
  BY <1>0 DEF Buffers
<1>3. ASSUME NEW r \in Pids
      PROVE  Wiped(r) \in [Sabs -> Buffers]
  BY WipedType
<1>4. \/ buf' = [buf EXCEPT ![t] = a]
      \/ buf' = [Wiped(p) EXCEPT ![t] = a]
      \/ /\ Kills(buf[t]) /\ Cleanup(buf[t].arg, KillCode)
         /\ buf' = [Wiped(buf[t].arg) EXCEPT ![t] = a] /\ killed' = killed \cup {buf[t].arg}
  BY DEF Poll
<1> HIDE DEF a
<1>5. CASE s = t
  <2>1. buf'[s] = a
    BY <1>0, <1>3, <1>4, <1>5 DEF Kills
  <2> HIDE DEF t
  <2> QED
    BY <1>1, <1>2, <1>5, <2>1 DEF BufferMoves, SameCall
<1>6. CASE s # t
  <2>1. CASE buf' = [buf EXCEPT ![t] = a]
    BY <1>0, <1>6, <2>1 DEF BufferMoves
  <2>2. CASE buf' = [Wiped(p) EXCEPT ![t] = a]
    <3>1. buf'[s] = Wiped(p)[s]
      BY <1>0, <1>3, <1>6, <2>2
    <3>2. Wiped(p)[s] = buf[s]
      BY <1>1, <1>6, WipedMoves
    <3> QED
      BY <3>1, <3>2 DEF BufferMoves
  <2>3. ASSUME Kills(buf[t]), Cleanup(buf[t].arg, KillCode),
               buf' = [Wiped(buf[t].arg) EXCEPT ![t] = a], killed' = killed \cup {buf[t].arg}
        PROVE  BufferMoves(s)
    <3>1. PICK r \in Pids : r = buf[t].arg
      BY <2>3 DEF Kills
    <3>2. buf'[s] = Wiped(r)[s]
      BY <1>0, <1>3, <1>6, <2>3, <3>1
    <3>3. ~Running(r)' /\ r \in killed'
      BY <2>3, <3>1, CleanupEnds
    <3>4. CASE Wiped(r)[s] = buf[s]
      BY <3>2, <3>4 DEF BufferMoves
    <3>5. CASE Wiped(r)[s] # buf[s]
      BY <3>1, <3>2, <3>3, <3>5, WipedMoves DEF BufferMoves, WipedFor
    <3> QED
      BY <3>4, <3>5
  <2> QED
    BY <1>4, <2>1, <2>2, <2>3
<1> QED
  BY <1>5, <1>6

LEMMA WakeMoves ==
  ASSUME IInv, NEW p \in Pids, Wake(p), NEW s \in Sabs
  PROVE  BufferMoves(s)
<1>0. buf \in [Sabs -> Buffers]
  BY Types
<1>1. CASE buf' = buf
  BY <1>1 DEF BufferMoves
<1>2. CASE buf' # buf
  <2>1. /\ buf[worker[p].sab].kind # "zero"
        /\ buf' = [buf EXCEPT ![worker[p].sab].status = "IDLE"]
    BY <1>2 DEF Wake
  <2>2. CASE s # worker[p].sab
    BY <1>0, <2>1, <2>2 DEF BufferMoves
  <2>3. CASE s = worker[p].sab
    <3>1. buf'[s] = [buf[s] EXCEPT !.status = "IDLE"] /\ buf[s] \in Buffers /\ buf[s].kind # "zero"
      BY <1>0, <2>1, <2>3
    <3>2. /\ buf'[s].status = "IDLE" /\ buf'[s].kind = buf[s].kind /\ buf'[s].as = buf[s].as
          /\ SameCall(s)
      BY <3>1 DEF SameCall, Buffers
    <3> QED
      BY <3>1, <3>2 DEF BufferMoves
  <2> QED
    BY <2>2, <2>3
<1> QED
  BY <1>1, <1>2

LEMMA PostMoves ==
  ASSUME IInv, NEW p \in Pids, NEW op, NEW n, Post(p, op, n), NEW s \in Sabs
  PROVE  BufferMoves(s)
<1>0. buf \in [Sabs -> Buffers]
  BY Types
<1> DEFINE b == [status |-> "REQUEST", kind |-> "request", op |-> op, arg |-> n, by |-> p, as |-> 0]
<1>1. buf' = [buf EXCEPT ![worker[p].sab] = b] /\ worker[p].at = "running"
  BY DEF Post
<1>2. b.status = "REQUEST" /\ b.kind = "request" /\ b.by = p
  OBVIOUS
<1> HIDE DEF b
<1>3. CASE s # worker[p].sab
  BY <1>0, <1>1, <1>3 DEF BufferMoves
<1>4. CASE s = worker[p].sab
  <2>1. buf'[s] = b
    BY <1>0, <1>1, <1>4
  <2> QED
    BY <1>1, <1>2, <1>4, <2>1 DEF BufferMoves
<1> QED
  BY <1>3, <1>4

LEMMA Contents ==
  ASSUME IInv, [Next]_vars, ~Spawn, NEW s \in Sabs
  PROVE  BufferMoves(s)
<1>0. buf \in [Sabs -> Buffers] /\ worker \in [Pids -> Workers]
  BY Types
<1>1. CASE buf' = buf
  BY <1>1 DEF BufferMoves
<1>2. ASSUME NEW r \in Pids, buf' = Wiped(r), ~Running(r)',
             r \in killed' \/ worker'[r].at = "terminated" \/ inbox[r] # << >>
      PROVE  BufferMoves(s)
  <2>1. CASE Wiped(r)[s] = buf[s]
    BY <1>2, <2>1 DEF BufferMoves
  <2>2. CASE Wiped(r)[s] # buf[s]
    BY <1>2, <2>2, WipedMoves DEF BufferMoves, WipedFor
  <2> QED
    BY <2>1, <2>2
<1>3. ASSUME NEW p \in Pids, Kill(p) PROVE BufferMoves(s)
  <2>1. buf' = Wiped(p) /\ p \in killed' /\ Cleanup(p, KillCode)
    BY <1>3 DEF Kill
  <2>2. ~Running(p)'
    BY <2>1, CleanupEnds
  <2> QED
    BY <1>2, <2>1, <2>2
<1>4. ASSUME NEW p \in Pids, DisposeNext(p) PROVE BufferMoves(s)
  <2>1. buf' = Wiped(p) /\ worker'[p].at = "terminated" /\ Cleanup(p, DisposeCode)
    BY <1>0, <1>4 DEF DisposeNext, Workers
  <2>2. ~Running(p)'
    BY <2>1, CleanupEnds
  <2> QED
    BY <1>2, <2>1, <2>2
<1>5. ASSUME NEW p \in Pids, Deliver(p) PROVE BufferMoves(s)
  <2>1. CASE CleansUp(Head(inbox[p]))
    <3>1. buf' = Wiped(p) /\ inbox[p] # << >> /\ Cleanup(p, Head(inbox[p]).code)
      BY <1>5, <2>1 DEF Deliver
    <3>2. ~Running(p)'
      BY <3>1, CleanupEnds
    <3> QED
      BY <1>2, <3>1, <3>2
  <2>2. CASE ~CleansUp(Head(inbox[p]))
    BY <1>1, <1>5, <2>2 DEF Deliver
  <2> QED
    BY <2>1, <2>2
<1>6. ASSUME NEW p \in Pids, CallFs(p) \/ (\E q \in Pids : CallKill(p, q)) \/ (\E c \in Codes : CallExit(p, c))
      PROVE  BufferMoves(s)
  BY <1>6, PostMoves DEF CallFs, CallKill, CallExit
<1>7. ASSUME NEW p \in Pids, Exec(p) \/ Complete(p) \/ Fail(p) \/ Callback(p) \/ EndCallback(p)
      PROVE  buf' = buf
  BY <1>7 DEF Exec, Complete, Fail, EndScript, Callback, EndCallback
<1>8. CASE Dispose \/ DisposeDone \/ UNCHANGED vars
  BY <1>1, <1>8 DEF Dispose, DisposeDone, vars
<1> QED
  BY <1>1, <1>3, <1>4, <1>5, <1>6, <1>7, <1>8, PollMoves, WakeMoves DEF Next, Host, Program

-----------------------------------------------------------------------------
\* A worker keeps its buffer, and starts only in a spawn.
LEMMA WorkersKept ==
  ASSUME IInv, Places, [Next]_vars, ~Spawn, NEW q \in Pids
  PROVE  /\ worker'[q].sab = worker[q].sab
         /\ worker'[q].at = "none" <=> worker[q].at = "none"
         /\ worker[q].at = "none" => worker'[q] = worker[q] /\ wanted'[q] = wanted[q]
<1>1. CASE Acts(q)
  <2>1. worker[q].at # "none"
    BY <1>1, Acting DEF Places, Place
  <2> QED
    BY <1>1, <2>1, Acting
<1>2. CASE ~Acts(q)
  BY <1>2, OthersStay
<1> QED
  BY <1>1, <1>2

LEMMA PlacesStep ==
  ASSUME IInv, Places, [Next]_vars
  PROVE  Places'
<1>1. CASE Spawn
  <2>1. PICK s \in Sabs : SpawnedWith(s)
    BY <1>1, Spawned
  <2> DEFINE n == nextPid
  <2>2. ASSUME NEW p \in Pids, p # n PROVE Running(p)' <=> Running(p)
    BY <2>1, <2>2 DEF SpawnedWith, Running
  <2>3. worker'[n].sab = s /\ worker'[n].at = "loaded" /\ n \in Pids
    BY <2>1 DEF SpawnedWith, NoWorker
  <2>4. ASSUME NEW p \in Pids PROVE Place(p)'
    <3>1. CASE p = n
      <4>1. \A q \in Pids : p < q => worker'[q].at = "none"
        <5> SUFFICES ASSUME NEW q \in Pids, p < q PROVE worker'[q].at = "none"
          OBVIOUS
        <5>1. q # n /\ ~(q < n)
          BY <3>1, Facts
        <5> QED
          BY <2>1, <5>1 DEF SpawnedWith
      <4>2. proc'[p].sab = s
        BY <2>1, <3>1 DEF SpawnedWith
      <4> QED
        BY <2>3, <3>1, <4>1, <4>2 DEF Place
    <3>2. CASE p # n
      <4>1. /\ worker'[p] = worker[p] /\ proc'[p] = proc[p] /\ wanted'[p] = wanted[p]
            /\ Running(p)' <=> Running(p)
        BY <2>1, <2>2, <3>2 DEF SpawnedWith
      <4>2. Place(p)
        BY DEF Places
      <4>3. ASSUME NEW q \in Pids, p < q, worker'[q].at # "none", worker'[q].sab = worker'[p].sab
            PROVE  ~Running(p)'
        <5>1. CASE q = n
          <6>1. worker[p].sab = s
            BY <2>3, <4>1, <4>3, <5>1
          <6>2. Running(p) => worker[p].sab = proc[p].sab /\ proc[p].sab # s
            BY <2>1, <4>2 DEF SpawnedWith, Place
          <6> QED
            BY <4>1, <6>1, <6>2
        <5>2. CASE q # n
          <6>1. worker'[q] = worker[q]
            BY <2>1, <5>2 DEF SpawnedWith
          <6> QED
            BY <4>1, <4>2, <4>3, <6>1 DEF Place
        <5> QED
          BY <5>1, <5>2
      <4> QED
        BY <4>1, <4>2, <4>3 DEF Place, Running
    <3> QED
      BY <3>1, <3>2
  <2> QED
    BY <2>4 DEF Places
<1>2. CASE ~Spawn
  <2> SUFFICES ASSUME NEW p \in Pids PROVE Place(p)'
    BY DEF Places
  <2>1. Place(p)
    BY DEF Places
  <2>2. \A q \in Pids : /\ worker'[q].sab = worker[q].sab
                        /\ worker'[q].at = "none" <=> worker[q].at = "none"
                        /\ worker[q].at = "none" => worker'[q] = worker[q] /\ wanted'[q] = wanted[q]
    BY <1>2, WorkersKept
  <2>3. Running(p)' => Running(p) /\ proc'[p].sab = proc[p].sab
    BY <1>2, RunningKept
  <2>4. ASSUME NEW q \in Pids, p < q, worker'[q].at # "none", worker'[q].sab = worker'[p].sab
        PROVE  ~Running(p)'
    BY <2>1, <2>2, <2>3, <2>4 DEF Place
  <2>5. Running(p)' => worker'[p].at # "none" /\ worker'[p].sab = proc'[p].sab
    BY <2>1, <2>2, <2>3 DEF Place
  <2>6. worker'[p].at = "none" => worker'[p] = NoWorker /\ wanted'[p] = NoCode
    BY <2>1, <2>2 DEF Place
  <2>7. worker'[p].at # "none" => worker'[p].sab \in Sabs
    BY <2>1, <2>2 DEF Place
  <2> QED
    BY <2>4, <2>5, <2>6, <2>7 DEF Place, Running
<1> QED
  BY <1>1, <1>2

LEMMA ContentStep ==
  ASSUME IInv, CallsInv, [Next]_vars, NEW s \in Sabs
  PROVE  Content(s)'
<1>0. buf \in [Sabs -> Buffers] /\ Places /\ Content(s)
  BY Types DEF CallsInv
<1>1. CASE Spawn
  <2>1. PICK t \in Sabs : SpawnedWith(t)
    BY <1>0, <1>1, Spawned
  <2>2. CASE s = t
    BY <1>0, <2>1, <2>2 DEF SpawnedWith, Content, Zeroed
  <2>3. CASE s # t
    <3>1. buf'[s] = buf[s]
      BY <1>0, <2>1, <2>3 DEF SpawnedWith
    <3>2. ASSUME buf[s].kind # "zero"
          PROVE  /\ buf[s].by \in Pids /\ worker'[buf[s].by] = worker[buf[s].by]
                 /\ proc'[buf[s].by] = proc[buf[s].by]
      <4>1. buf[s].by \in Pids /\ worker[buf[s].by].at # "none"
        BY <1>0, <3>2 DEF Content
      <4>2. buf[s].by # nextPid
        BY <2>1, <4>1 DEF SpawnedWith, NoWorker
      <4> QED
        BY <2>1, <4>1, <4>2 DEF SpawnedWith
    <3> QED
      BY <1>0, <3>1, <3>2 DEF Content, Running
  <2> QED
    BY <2>2, <2>3
<1>2. CASE ~Spawn
  <2>0. \A q \in Pids : /\ worker'[q].sab = worker[q].sab
                        /\ worker'[q].at = "none" <=> worker[q].at = "none"
                        /\ Running(q)' => Running(q)
    BY <1>0, <1>2, WorkersKept, RunningKept
  <2>1. CASE buf'[s] = buf[s]
    BY <1>0, <2>0, <2>1 DEF Content, Running
  <2>2. CASE buf'[s] = Zeroed
    BY <2>2 DEF Content, Zeroed
  <2>3. ASSUME NEW q \in Pids, worker[q].sab = s, worker[q].at = "running",
               buf'[s].status = "REQUEST", buf'[s].kind = "request", buf'[s].by = q
        PROVE  Content(s)'
    BY <2>0, <2>3 DEF Content
  <2>4. ASSUME NEW q \in Pids, Running(q), proc[q].sab = s, buf[s].status = "REQUEST",
               buf'[s].status = "RESPONSE", buf'[s].kind = "answer", buf'[s].as = q, SameCall(s)
        PROVE  Content(s)'
    <3>1. buf[s].kind = "request" /\ buf'[s].by = buf[s].by
      BY <1>0, <2>4 DEF Content, SameCall
    <3>2. buf[s].by \in Pids /\ worker[buf[s].by].at # "none" /\ worker[buf[s].by].sab = s
      BY <1>0, <3>1 DEF Content
    <3>3. Running(buf[s].by) => buf[s].by = q
      BY <1>0, <2>4, <3>2, Apart DEF Places, Place
    <3>4. proc'[buf[s].by].state = "running" => buf[s].by = q
      BY <2>0, <3>2, <3>3 DEF Running
    <3> QED
      BY <2>0, <2>4, <3>1, <3>2, <3>4 DEF Content, Running
  <2>5. ASSUME buf[s].kind # "zero", buf'[s].status = "IDLE", buf'[s].kind = buf[s].kind,
               buf'[s].as = buf[s].as, SameCall(s)
        PROVE  Content(s)'
    <3>1. buf'[s].by = buf[s].by
      BY <2>5 DEF SameCall
    <3> QED
      BY <1>0, <2>0, <2>5, <3>1 DEF Content, Running
  <2> QED
    BY <1>2, <2>1, <2>2, <2>3, <2>4, <2>5, Contents DEF BufferMoves
<1> QED
  BY <1>1, <1>2

LEMMA HeldStep ==
  ASSUME IInv, CallsInv, [Next]_vars, NEW p \in Pids
  PROVE  Held(p)'
<1>0. buf \in [Sabs -> Buffers] /\ Places /\ Held(p) /\ Place(p)
  BY Types DEF CallsInv, Places
<1> SUFFICES ASSUME Running(p)', worker'[p].at = "waiting"
             PROVE  buf'[worker'[p].sab].kind # "zero"
  BY DEF Held, Running
<1>1. CASE Spawn
  <2>1. PICK t \in Sabs : SpawnedWith(t)
    BY <1>0, <1>1, Spawned
  <2>2. p # nextPid
    BY <2>1 DEF SpawnedWith, NoWorker
  <2>3. worker'[p] = worker[p] /\ proc'[p] = proc[p] /\ Running(p)
    BY <2>1, <2>2 DEF SpawnedWith, Running
  <2>4. worker[p].sab # t /\ worker[p].sab \in Sabs
    BY <1>0, <2>1, <2>3 DEF SpawnedWith, Place
  <2>5. buf'[worker[p].sab] = buf[worker[p].sab]
    BY <1>0, <2>1, <2>4 DEF SpawnedWith
  <2> QED
    BY <1>0, <2>3, <2>5 DEF Held
<1>2. CASE ~Spawn
  <2>1. Running(p) /\ proc'[p].sab = proc[p].sab
    BY <1>2, RunningKept
  <2>2. worker[p].at # "none" /\ worker[p].sab = proc[p].sab /\ worker[p].sab \in Sabs
    BY <1>0, <2>1 DEF Place
  <2>3. worker'[p].sab = worker[p].sab
    BY <1>0, <1>2, WorkersKept
  <2>4. CASE Acts(p)
    BY <2>2, <2>3, <2>4, Acting
  <2>5. CASE ~Acts(p)
    <3> DEFINE s == worker[p].sab
    <3>1. worker[p].at = "waiting" /\ buf[s].kind # "zero"
      BY <1>0, <1>2, <2>1, <2>5, OthersStay DEF Held
    <3>2. ASSUME NEW r \in Pids, WipedFor(s, r) PROVE FALSE
      <4>1. Running(r) /\ proc[r].sab = proc[p].sab /\ ~Running(r)'
        BY <2>2, <3>2 DEF WipedFor
      <4>2. r = p
        BY <2>1, <4>1, Apart
      <4> QED
        BY <4>1, <4>2
    <3>3. BufferMoves(s)
      BY <1>2, <2>2, Contents
    <3> HIDE DEF s
    <3>4. buf'[s].kind # "zero"
      BY <3>1, <3>2, <3>3 DEF BufferMoves
    <3> QED
      BY <2>3, <3>4 DEF s
  <2> QED
    BY <2>4, <2>5
<1> QED
  BY <1>1, <1>2

LEMMA CallsInitially == Init => CallsInv
<1> SUFFICES ASSUME Init PROVE CallsInv
  OBVIOUS
<1>1. /\ \A p \in Pids : ~Running(p) /\ worker[p] = NoWorker /\ wanted[p] = NoCode
      /\ \A s \in Sabs : buf[s] = Zeroed
  BY DEF Init, Running, NoEntry
<1> QED
  BY <1>1 DEF CallsInv, Places, Place, Content, Held, NoWorker, Zeroed

LEMMA CallsStep == IInv /\ CallsInv /\ [Next]_vars => CallsInv'
<1> SUFFICES ASSUME IInv, CallsInv, [Next]_vars PROVE CallsInv'
  OBVIOUS
<1>1. Places'
  BY PlacesStep DEF CallsInv
<1>2. \A s \in Sabs : Content(s)'
  BY ContentStep
<1>3. \A p \in Pids : Held(p)'
  BY HeldStep
<1> QED
  BY <1>1, <1>2, <1>3 DEF CallsInv

\* Whose call a buffer holds, in every behaviour of the manager.
THEOREM CallsInvHolds == Spec => []CallsInv
BY CallsInitially, CallsStep, InvariantHolds, PTL DEF Spec

\* While a process runs and waits, its interval polls the buffer it waits on, the
\* buffer is not wiped, and its own call is executed for nobody else: for any
\* order of kills, exits, disposals and late messages, with or without a manager
\* wired to the dispatcher, and whatever outlives its script.
THEOREM CallsAreOwn == Spec => []CallsStayOwn
<1>1. IInv /\ CallsInv => CallsStayOwn
  <2> SUFFICES ASSUME IInv, CallsInv, NEW p \in Pids, Running(p), worker[p].at = "waiting"
               PROVE  /\ monitor[p] = worker[p].sab
                      /\ buf[worker[p].sab].kind # "zero"
                      /\ buf[worker[p].sab].by = p =>
                           buf[worker[p].sab].kind = "request" \/ buf[worker[p].sab].as = p
                      /\ buf[worker[p].sab].by # p =>
                           /\ ~Running(buf[worker[p].sab].by)
                           /\ worker[buf[worker[p].sab].by].sab = worker[p].sab
    BY DEF CallsStayOwn
  <2> DEFINE s == worker[p].sab
  <2>1. s = proc[p].sab /\ s \in Sabs /\ monitor[p] = s
    BY Apart DEF CallsInv, Places, Place
  <2>2. Content(s) /\ buf[s].kind # "zero" /\ buf[s].kind \in {"zero", "request", "answer"}
    BY <2>1, Types DEF CallsInv, Held, Buffers
  <2>3. /\ buf[s].by \in Pids /\ worker[buf[s].by].sab = s
        /\ buf[s].kind = "request" \/ (Running(buf[s].by) => buf[s].as = buf[s].by)
    BY <2>2 DEF Content
  <2>4. ASSUME buf[s].by # p PROVE ~Running(buf[s].by)
    <3>1. Running(buf[s].by) => proc[buf[s].by].sab = proc[p].sab
      BY <2>1, <2>3 DEF CallsInv, Places, Place
    <3> QED
      BY <2>3, <2>4, <3>1, Apart
  <2> HIDE DEF s
  <2>5. buf[s].by = p => buf[s].kind = "request" \/ buf[s].as = p
    BY <2>3
  <2> QED
    BY <2>1, <2>2, <2>3, <2>4, <2>5 DEF s
<1> QED
  BY <1>1, CallsInvHolds, InvariantHolds, PTL

-----------------------------------------------------------------------------
(***************************************************************************)
(* Exit codes.  A script is heard of once, when it ends; until then nothing*)
(* about its process has been told.                                        *)
(***************************************************************************)
Untold(q) ==
  /\ worker[q].at \in {"none", "loaded"} => worker[q].ctx = "script"
  /\ worker[q].ctx = "script" =>
       IF worker[q].at \in {"none", "loaded", "running", "waiting"}
       THEN inbox[q] = << >> /\ promise[q] = NoCode
       ELSE inbox[q] = << >> \/ (Len(inbox[q]) = 1 /\ promise[q] = NoCode)

\* Unless a manager is wired to the dispatcher, a script ends a process before the
\* process ends, but for kills.
Lives(q) ==
  ~Wired /\ worker[q].ctx = "script" /\ worker[q].at \in {"loaded", "running", "waiting"}
     /\ q \notin killed => Running(q)

\* The code a script gave process.exit is on its way to the promise.
Kept(q) ==
  wanted[q] # NoCode /\ ~ExitLost(q) =>
    /\ worker[q].ctx = "script"
    /\ \/ /\ worker[q].at = "waiting" /\ worker[q].op = "exit" /\ worker[q].code = wanted[q]
          /\ buf[worker[q].sab].kind # "zero"
       \/ /\ worker[q].at = "closed"
          /\ \/ inbox[q] = << Message("exit", wanted[q]) >> /\ promise[q] = NoCode
             \/ inbox[q] = << >> /\ promise[q] = wanted[q]
       \/ /\ worker[q].at = "terminated" /\ inbox[q] = << >>
          /\ promise[q] \in {NoCode, wanted[q]}

\* The table shows what the promise was told.
CodeAgrees(q) ==
  promise[q] # NoCode /\ proc[q].state # "absent" /\ worker[q].ctx = "script"
     => proc[q].code = promise[q]

CodesInv == \A q \in Pids : Untold(q) /\ Lives(q) /\ Kept(q) /\ CodeAgrees(q)

-----------------------------------------------------------------------------
\* What a step does to the worker of q, its messages and its promise.
SameMail(q) == inbox'[q] = inbox[q] /\ promise'[q] = promise[q]
Becomes(q, at, ctx, op) ==
  worker'[q].at = at /\ worker'[q].ctx = ctx /\ worker'[q].op = op

Still(q) == worker'[q] = worker[q] /\ wanted'[q] = wanted[q] /\ SameMail(q)
Told(q) ==
  /\ Deliver(q) /\ worker'[q] = worker[q] /\ wanted'[q] = wanted[q]
  /\ inbox[q] # << >> /\ inbox'[q] = Tail(inbox[q])
  /\ promise'[q] = IF promise[q] = NoCode THEN Head(inbox[q]).code ELSE promise[q]
Terminated(q) ==
  /\ Running(q) /\ Becomes(q, "terminated", worker[q].ctx, worker[q].op)
  /\ wanted'[q] = wanted[q] /\ inbox'[q] = << >> /\ promise'[q] = promise[q]
Started(q) ==
  /\ worker[q].at = "loaded" /\ Becomes(q, "running", "script", worker[q].op)
  /\ wanted'[q] = wanted[q] /\ SameMail(q)
Called(q) ==
  /\ worker[q].at = "running" /\ Becomes(q, "waiting", worker[q].ctx, worker'[q].op)
  /\ wanted'[q] = wanted[q] /\ SameMail(q)
Exited(q) ==
  /\ worker[q].at = "running" /\ Becomes(q, "waiting", worker[q].ctx, "exit")
  /\ wanted'[q] = IF wanted[q] = NoCode /\ worker[q].ctx = "script"
                  THEN worker'[q].code ELSE wanted[q]
  /\ worker[q].sab \in Sabs => buf'[worker[q].sab].kind = "request"
  /\ SameMail(q)
Left(q) ==
  /\ worker[q].at = "waiting" /\ Becomes(q, "closed", worker[q].ctx, "none")
  /\ wanted'[q] = wanted[q] /\ promise'[q] = promise[q]
  /\ worker[q].ctx = "script" /\ inbox[q] = << >>
       => inbox'[q] = << Message("exit", worker[q].code) >>
Returned(q) ==
  /\ worker[q].at = "waiting" /\ ~ExitDone(q) /\ Becomes(q, "running", worker[q].ctx, "none")
  /\ wanted'[q] = wanted[q] /\ SameMail(q)
Ended(q) ==
  /\ worker[q].at = "running" /\ Becomes(q, "idle", "script", worker[q].op)
  /\ wanted'[q] = wanted[q] /\ promise'[q] = promise[q] /\ worker[q].ctx = "script"
  /\ inbox[q] = << >> => Len(inbox'[q]) = 1
CalledBack(q) ==
  /\ worker[q].at \in {"idle", "running"} /\ worker'[q].at \in {"running", "idle"}
  /\ worker'[q].ctx = "callback"
  /\ worker[q].at = "running" => worker[q].ctx = "callback"
  /\ wanted'[q] = wanted[q] /\ promise'[q] = promise[q]

Moves(q) == \/ Still(q) \/ Told(q) \/ Terminated(q) \/ Started(q) \/ Called(q) \/ Exited(q)
            \/ Left(q) \/ Returned(q) \/ Ended(q) \/ CalledBack(q)

LEMMA MovesStep ==
  ASSUME IInv, [Next]_vars, ~Spawn, NEW q \in Pids
  PROVE  Moves(q)
<1>0. /\ worker \in [Pids -> Workers] /\ worker[q] \in Workers
      /\ inbox \in [Pids -> Seq(Messages)] /\ inbox[q] \in Seq(Messages)
      /\ promise \in [Pids -> AllCodes \cup {NoCode}] /\ wanted \in [Pids -> Codes \cup {NoCode}]
      /\ buf \in [Sabs -> Buffers]
  BY Types
<1>1. CASE ~Acts(q) /\ ~Deliver(q)
  BY <1>1, OthersStay DEF Moves, Still, SameMail
<1>2. CASE Deliver(q)
  <2>1. Head(inbox[q]) \in Messages /\ inbox[q] # << >>
    BY <1>0, <1>2 DEF Deliver
  <2>2. Resolves(Head(inbox[q]))
    BY <2>1 DEF Messages, Resolves
  <2>3. Told(q)
    BY <1>0, <1>2, <2>1, <2>2 DEF Deliver, Told
  <2> QED
    BY <2>3 DEF Moves
<1>3. CASE DisposeNext(q)
  <2>1. Running(q) /\ worker'[q] = [worker[q] EXCEPT !.at = "terminated"]
    BY <1>0, <1>3 DEF DisposeNext
  <2>2. wanted'[q] = wanted[q] /\ inbox'[q] = << >> /\ promise'[q] = promise[q]
    BY <1>0, <1>3 DEF DisposeNext
  <2>3. Becomes(q, "terminated", worker[q].ctx, worker[q].op)
    BY <1>0, <2>1 DEF Becomes, Workers
  <2> QED
    BY <2>1, <2>2, <2>3 DEF Moves, Terminated
<1>4. CASE Exec(q)
  <2>1. worker[q].at = "loaded" /\ worker'[q] = [worker[q] EXCEPT !.at = "running", !.ctx = "script"]
    BY <1>0, <1>4 DEF Exec
  <2>2. wanted'[q] = wanted[q] /\ SameMail(q)
    BY <1>4 DEF Exec, history, SameMail
  <2>3. Becomes(q, "running", "script", worker[q].op)
    BY <1>0, <2>1 DEF Becomes, Workers
  <2> QED
    BY <2>1, <2>2, <2>3 DEF Moves, Started
<1>5. CASE CallFs(q) \/ \E r \in Pids : CallKill(q, r)
  <2>1. PICK op \in {"fs", "kill"} : worker'[q] = [worker[q] EXCEPT !.at = "waiting", !.op = op]
    BY <1>0, <1>5 DEF CallFs, CallKill
  <2>2. worker[q].at = "running" /\ wanted'[q] = wanted[q] /\ SameMail(q)
    BY <1>5 DEF CallFs, CallKill, Post, SameMail
  <2>3. Becomes(q, "waiting", worker[q].ctx, worker'[q].op)
    BY <1>0, <2>1 DEF Becomes, Workers
  <2> QED
    BY <2>2, <2>3 DEF Moves, Called
<1>6. ASSUME NEW c \in Codes, CallExit(q, c) PROVE Exited(q)
  <2>1. worker'[q] = [worker[q] EXCEPT !.at = "waiting", !.op = "exit", !.code = c]
    BY <1>0, <1>6 DEF CallExit
  <2>2. worker[q].at = "running" /\ SameMail(q)
    BY <1>6 DEF CallExit, Post, SameMail
  <2>3. Becomes(q, "waiting", worker[q].ctx, "exit") /\ worker'[q].code = c
    BY <1>0, <2>1 DEF Becomes, Workers
  <2>4. wanted'[q] = IF wanted[q] = NoCode /\ worker[q].ctx = "script" THEN c ELSE wanted[q]
    BY <1>0, <1>6 DEF CallExit
  <2>5. worker[q].sab \in Sabs => buf'[worker[q].sab].kind = "request"
    BY <1>0, <1>6 DEF CallExit, Post
  <2> QED
    BY <2>2, <2>3, <2>4, <2>5 DEF Exited
<1>7. CASE Wake(q)
  <2>1. worker[q].at = "waiting" /\ wanted'[q] = wanted[q] /\ promise'[q] = promise[q]
    BY <1>7 DEF Wake, history
  <2>2. CASE ExitDone(q)
    <3>1. worker'[q] = [worker[q] EXCEPT !.at = "closed", !.op = "none"]
      BY <1>0, <1>7, <2>2 DEF Wake
    <3>2. Becomes(q, "closed", worker[q].ctx, "none")
      BY <1>0, <3>1 DEF Becomes, Workers
    <3>3. ASSUME worker[q].ctx = "script", inbox[q] = << >>
          PROVE  inbox'[q] = << Message("exit", worker[q].code) >>
      <4>1. inbox' = [inbox EXCEPT ![q] = @ \o << Message("exit", worker[q].code) >> \o << >>]
        BY <1>7, <2>2, <3>3 DEF Wake
      <4>2. inbox'[q] = << >> \o << Message("exit", worker[q].code) >> \o << >>
        BY <1>0, <3>3, <4>1
      <4> QED
        BY <4>2
    <3> QED
      BY <2>1, <3>2, <3>3 DEF Moves, Left
  <2>3. CASE ~ExitDone(q)
    <3>1. worker'[q] = [worker[q] EXCEPT !.at = "running", !.op = "none"] /\ inbox' = inbox
      BY <1>0, <1>7, <2>3 DEF Wake
    <3>2. Becomes(q, "running", worker[q].ctx, "none")
      BY <1>0, <3>1 DEF Becomes, Workers
    <3> QED
      BY <2>1, <2>3, <3>1, <3>2 DEF Moves, Returned, SameMail
  <2> QED
    BY <2>2, <2>3
<1>8. ASSUME NEW c, EndScript(q, c) PROVE Ended(q)
  <2>1. /\ worker[q].at = "running" /\ worker[q].ctx = "script"
        /\ worker'[q] = [worker[q] EXCEPT !.at = "idle"]
    BY <1>0, <1>8 DEF EndScript
  <2>2. inbox'[q] = Append(inbox[q], Message("exec-complete", c))
    BY <1>0, <1>8 DEF EndScript
  <2>3. wanted'[q] = wanted[q] /\ promise'[q] = promise[q]
    BY <1>8 DEF EndScript, history
  <2>4. Becomes(q, "idle", "script", worker[q].op)
    BY <1>0, <2>1 DEF Becomes, Workers
  <2>5. inbox[q] = << >> => Len(inbox'[q]) = 1
    BY <2>2
  <2> QED
    BY <2>1, <2>3, <2>4, <2>5 DEF Ended
<1>9. CASE Callback(q) \/ EndCallback(q)
  <2>1. CASE Callback(q)
    <3>1. worker[q].at = "idle" /\ worker'[q] = [worker[q] EXCEPT !.at = "running", !.ctx = "callback"]
      BY <1>0, <2>1 DEF Callback
    <3>2. wanted'[q] = wanted[q] /\ promise'[q] = promise[q]
      BY <2>1 DEF Callback, history
    <3>3. worker'[q].at = "running" /\ worker'[q].ctx = "callback"
      BY <1>0, <3>1 DEF Workers
    <3> QED
      BY <3>1, <3>2, <3>3 DEF Moves, CalledBack
  <2>2. CASE EndCallback(q)
    <3>1. /\ worker[q].at = "running" /\ worker[q].ctx = "callback"
          /\ worker'[q] = [worker[q] EXCEPT !.at = "idle"]
      BY <1>0, <2>2 DEF EndCallback
    <3>2. wanted'[q] = wanted[q] /\ promise'[q] = promise[q]
      BY <2>2 DEF EndCallback, history
    <3>3. worker'[q].at = "idle" /\ worker'[q].ctx = "callback"
      BY <1>0, <3>1 DEF Workers
    <3> QED
      BY <3>1, <3>2, <3>3 DEF Moves, CalledBack
  <2> QED
    BY <1>9, <2>1, <2>2
<1> QED
  BY <1>1, <1>2, <1>3, <1>4, <1>5, <1>6, <1>7, <1>8, <1>9
  DEF Acts, Program, Complete, Fail, Moves

-----------------------------------------------------------------------------
\* Kills are remembered.
LEMMA KilledGrows ==
  ASSUME [Next]_vars
  PROVE  killed \subseteq killed'
<1>1. CASE Spawn \/ Dispose \/ DisposeDone \/ UNCHANGED vars
  BY <1>1 DEF Spawn, Dispose, DisposeDone, vars
<1>2. ASSUME NEW p \in Pids, Kill(p) \/ DisposeNext(p) \/ Deliver(p) \/ Exec(p) PROVE killed \subseteq killed'
  BY <1>2 DEF Kill, DisposeNext, Deliver, Exec, history
<1>3. ASSUME NEW p \in Pids, Poll(p) PROVE killed \subseteq killed'
  BY <1>3 DEF Poll
<1>4. ASSUME NEW p \in Pids, Program(p) \/ Wake(p) PROVE killed \subseteq killed'
  BY <1>4 DEF Program, Wake, CallFs, CallKill, CallExit, Post, Complete, Fail,
     EndScript, Callback, EndCallback, history
<1> QED
  BY <1>1, <1>2, <1>3, <1>4 DEF Next, Host

\* Once the call in which a process ended may be lost, it stays so.
LEMMA LostStays ==
  ASSUME IInv, Places, [Next]_vars, NEW p \in Pids, worker[p].at # "none", ExitLost(p)
  PROVE  ExitLost(p)'
<1>1. CASE p \in killed
  BY <1>1, KilledGrows DEF ExitLost
<1>2. ASSUME Wired, NEW q \in Pids, q > p, worker[q].sab = worker[p].sab
      PROVE  ExitLost(p)'
  <2>1. worker[p].sab \in Sabs
    BY DEF Places, Place
  <2>2. worker[q].at # "none"
    BY <1>2, <2>1, Facts DEF Places, Place, NoWorker
  <2>3. CASE Spawn
    <3>1. PICK s \in Sabs : SpawnedWith(s)
      BY <2>3, Spawned
    <3>2. p # nextPid /\ q # nextPid
      BY <2>2, <3>1 DEF SpawnedWith, NoWorker
    <3>3. worker'[p] = worker[p] /\ worker'[q] = worker[q]
      BY <3>1, <3>2 DEF SpawnedWith
    <3> QED
      BY <1>2, <3>3 DEF ExitLost
  <2>4. CASE ~Spawn
    <3>1. worker'[p].sab = worker[p].sab /\ worker'[q].sab = worker[q].sab
      BY <2>4, WorkersKept
    <3> QED
      BY <1>2, <3>1 DEF ExitLost
  <2> QED
    BY <2>3, <2>4
<1> QED
  BY <1>1, <1>2 DEF ExitLost

\* A process stops running because it is killed, disposed of, served an exit, or
\* heard of.
LEMMA StopsRunning ==
  ASSUME IInv, [Next]_vars, NEW q \in Pids, Running(q), ~Running(q)'
  PROVE  q \in killed' \/ worker'[q].at = "terminated" \/ Wired \/ inbox[q] # << >>
<1>0. proc \in [Pids -> Entries] /\ worker \in [Pids -> Workers]
  BY Types
<1>1. ASSUME NEW p \in Pids, NEW code, Cleanup(p, code)
      PROVE  p = q
  BY <1>0, <1>1 DEF Cleanup, Running
<1>2. CASE Spawn
  <2>1. \E s \in Sabs : proc' = [proc EXCEPT ![nextPid] =
                     [state |-> "running", code |-> NoCode, sab |-> s, worker |-> TRUE]]
    BY <1>2 DEF Spawn
  <2> QED
    BY <1>0, <2>1 DEF Running
<1>3. CASE Dispose \/ DisposeDone \/ UNCHANGED vars
  BY <1>3 DEF Dispose, DisposeDone, vars, Running
<1>4. ASSUME NEW p \in Pids, Kill(p) PROVE q \in killed'
  BY <1>1, <1>4 DEF Kill
<1>5. ASSUME NEW p \in Pids, DisposeNext(p) PROVE worker'[q].at = "terminated"
  BY <1>0, <1>1, <1>5 DEF DisposeNext, Workers
<1>6. ASSUME NEW p \in Pids, Poll(p) PROVE Wired
  BY <1>6 DEF Poll, Exits, Kills, Running
<1>7. ASSUME NEW p \in Pids, Deliver(p) PROVE inbox[q] # << >>
  <2>1. CASE CleansUp(Head(inbox[p]))
    BY <1>1, <1>7, <2>1 DEF Deliver
  <2>2. CASE ~CleansUp(Head(inbox[p]))
    BY <1>7, <2>2 DEF Deliver, Running
  <2> QED
    BY <2>1, <2>2
<1>8. ASSUME NEW p \in Pids, Exec(p) \/ Program(p) \/ Wake(p) PROVE FALSE
  BY <1>8 DEF Exec, Program, Wake, CallFs, CallKill, CallExit, Post, Complete, Fail,
     EndScript, Callback, EndCallback, hostVars, Running
<1> QED
  BY <1>2, <1>3, <1>4, <1>5, <1>6, <1>7, <1>8 DEF Next, Host

\* The entry of a process whose promise is settled is rewritten by messages only.
LEMMA EntryStays ==
  ASSUME IInv, [Next]_vars, NEW q \in Pids, promise[q] # NoCode, ~Deliver(q)
  PROVE  proc'[q] = proc[q] \/ proc'[q].state = "absent"
<1>0. proc \in [Pids -> Entries] /\ ~Running(q)
  BY Types DEF IInv, ResolvedMeansExited
<1>1. ASSUME NEW p \in Pids, NEW code, Cleanup(p, code), p # q
      PROVE  proc'[q] = proc[q]
  BY <1>0, <1>1 DEF Cleanup
<1>2. CASE Spawn
  <2>1. q # nextPid
    BY Facts DEF IInv, Fresh
  <2>2. \E s \in Sabs : proc' = [proc EXCEPT ![nextPid] =
                     [state |-> "running", code |-> NoCode, sab |-> s, worker |-> TRUE]]
    BY <1>2 DEF Spawn
  <2> QED
    BY <1>0, <2>1, <2>2
<1>3. CASE Dispose \/ DisposeDone \/ UNCHANGED vars
  BY <1>3 DEF Dispose, DisposeDone, vars, NoEntry
<1>4. ASSUME NEW p \in Pids, Kill(p) \/ DisposeNext(p) PROVE proc'[q] = proc[q]
  <2>1. p # q
    BY <1>0, <1>4 DEF Kill, DisposeNext
  <2> QED
    BY <1>1, <1>4, <2>1 DEF Kill, DisposeNext
<1>5. ASSUME NEW p \in Pids, Poll(p) PROVE proc'[q] = proc[q]
  <2>1. p # q
    BY <1>0, <1>5 DEF Poll, IInv, Ownership, MonitorIffRunning
  <2>2. CASE UNCHANGED proc
    BY <2>2
  <2>3. CASE Cleanup(p, buf[monitor[p]].arg)
    BY <1>1, <2>1, <2>3
  <2>4. CASE Kills(buf[monitor[p]]) /\ Cleanup(buf[monitor[p]].arg, KillCode)
    <3>1. buf[monitor[p]].arg # q /\ buf[monitor[p]].arg \in Pids
      BY <1>0, <2>4 DEF Kills
    <3> QED
      BY <1>1, <2>4, <3>1
  <2> QED
    BY <1>5, <2>2, <2>3, <2>4 DEF Poll
<1>6. ASSUME NEW p \in Pids, Deliver(p) PROVE proc'[q] = proc[q]
  BY <1>1, <1>6 DEF Deliver
<1>7. ASSUME NEW p \in Pids, Exec(p) \/ Program(p) \/ Wake(p) PROVE proc'[q] = proc[q]
  BY <1>7 DEF Exec, Program, Wake, CallFs, CallKill, CallExit, Post, Complete, Fail,
     EndScript, Callback, EndCallback, hostVars
<1> QED
  BY <1>2, <1>3, <1>4, <1>5, <1>6, <1>7 DEF Next, Host

-----------------------------------------------------------------------------
\* The process that is spawned has not been heard of, and wants nothing.
LEMMA SpawnedEnds ==
  ASSUME IInv, Places, [Next]_vars, Spawn, NEW q \in Pids, q = nextPid
  PROVE  Untold(q)' /\ Lives(q)' /\ Kept(q)' /\ CodeAgrees(q)'
<1>1. PICK s \in Sabs : SpawnedWith(s)
  BY Spawned
<1>2. /\ worker'[q].at = "loaded" /\ worker'[q].ctx = "script"
      /\ inbox'[q] = << >> /\ promise'[q] = NoCode /\ wanted'[q] = NoCode
      /\ Running(q)'
  BY <1>1 DEF SpawnedWith, NoWorker, Running
<1> QED
  BY <1>2 DEF Untold, Lives, Kept, CodeAgrees, Running

LEMMA SpawnLeaves ==
  ASSUME IInv, Places, Spawn, NEW q \in Pids, q # nextPid
  PROVE  Still(q) /\ proc'[q] = proc[q]
<1>1. PICK s \in Sabs : SpawnedWith(s)
  BY Spawned
<1> QED
  BY <1>1 DEF SpawnedWith, Still, SameMail

\* What a step does to a process that it does not spawn.
LEMMA MovesAll ==
  ASSUME IInv, Places, [Next]_vars, NEW q \in Pids, ~(Spawn /\ q = nextPid)
  PROVE  Moves(q)
BY MovesStep, SpawnLeaves DEF Moves

LEMMA OnlyOne ==
  ASSUME NEW S, NEW m \in Seq(S), Len(m) = 1
  PROVE  Tail(m) = << >>
<1>1. Len(Tail(m)) = 0 /\ Tail(m) \in Seq(S)
  OBVIOUS
<1> QED
  BY <1>1, EmptySeq

LEMMA UntoldStep ==
  ASSUME IInv, Places, [Next]_vars, NEW q \in Pids, Untold(q), ~(Spawn /\ q = nextPid)
  PROVE  Untold(q)'
<1>0. inbox[q] \in Seq(Messages) /\ worker[q] \in Workers
  BY Types
<1>1. CASE Still(q)
  BY <1>1 DEF Still, SameMail, Untold
<1>2. CASE Told(q)
  <2>1. worker'[q] = worker[q] /\ inbox[q] # << >> /\ inbox'[q] = Tail(inbox[q])
    BY <1>2 DEF Told
  <2>2. worker[q].ctx = "script" => Len(inbox[q]) = 1 /\ worker[q].at \notin {"none", "loaded", "running", "waiting"}
    BY <2>1 DEF Untold
  <2>3. Len(inbox[q]) = 1 => Tail(inbox[q]) = << >>
    BY <1>0, OnlyOne
  <2> QED
    BY <2>1, <2>2, <2>3 DEF Untold
<1>3. CASE Terminated(q)
  BY <1>3 DEF Terminated, Becomes, Untold
<1>4. CASE Started(q) \/ Called(q) \/ Exited(q) \/ Returned(q)
  BY <1>4 DEF Started, Called, Exited, Returned, Becomes, SameMail, Untold
<1>5. CASE Left(q) \/ Ended(q)
  BY <1>5 DEF Left, Ended, Becomes, Untold
<1>6. CASE CalledBack(q)
  BY <1>6 DEF CalledBack, Untold
<1> QED
  BY <1>1, <1>2, <1>3, <1>4, <1>5, <1>6, MovesAll DEF Moves

LEMMA LivesStep ==
  ASSUME IInv, Places, [Next]_vars, NEW q \in Pids, Untold(q), Lives(q), ~(Spawn /\ q = nextPid)
  PROVE  Lives(q)'
<1> SUFFICES ASSUME ~Wired, worker'[q].ctx = "script",
                    worker'[q].at \in {"loaded", "running", "waiting"}, q \notin killed'
             PROVE  Running(q)'
  BY DEF Lives, Running
<1>1. q \notin killed
  BY KilledGrows
<1>2. worker[q].ctx = "script" /\ worker[q].at \in {"loaded", "running", "waiting"}
  <2>1. CASE Still(q) \/ Told(q)
    BY <2>1 DEF Still, Told
  <2>2. CASE Terminated(q) \/ Left(q) \/ Ended(q) \/ CalledBack(q)
    BY <2>2 DEF Terminated, Left, Ended, CalledBack, Becomes
  <2>3. CASE Started(q) \/ Called(q) \/ Exited(q) \/ Returned(q)
    BY <2>3 DEF Started, Called, Exited, Returned, Becomes, Untold
  <2> QED
    BY <2>1, <2>2, <2>3, MovesAll DEF Moves
<1>3. Running(q) /\ inbox[q] = << >>
  BY <1>1, <1>2 DEF Lives, Untold
<1> QED
  BY <1>3, StopsRunning

LEMMA AgreesStep ==
  ASSUME IInv, Places, [Next]_vars, NEW q \in Pids, Untold(q), CodeAgrees(q), ~(Spawn /\ q = nextPid)
  PROVE  CodeAgrees(q)'
<1> SUFFICES ASSUME promise'[q] # NoCode, proc'[q].state # "absent", worker'[q].ctx = "script"
             PROVE  proc'[q].code = promise'[q]
  BY DEF CodeAgrees
<1>0. /\ proc \in [Pids -> Entries] /\ inbox[q] \in Seq(Messages)
      /\ inbox \in [Pids -> Seq(Messages)]
  BY Types
<1>1. CASE Told(q)
  <2>1. worker[q].ctx = "script" /\ inbox[q] # << >> /\ promise[q] = NoCode
    BY <1>1 DEF Told, Untold
  <2>2. promise'[q] = Head(inbox[q]).code /\ Head(inbox[q]) \in Messages
    BY <1>0, <1>1, <2>1 DEF Told
  <2>3. CleansUp(Head(inbox[q]))
    BY <2>2 DEF CleansUp, Messages
  <2>4. Cleanup(q, Head(inbox[q]).code)
    BY <1>1, <2>3 DEF Told, Deliver
  <2> QED
    BY <1>0, <2>2, <2>4 DEF Cleanup
<1>2. CASE ~Told(q)
  <2>1. promise'[q] = promise[q] /\ worker[q].ctx = "script"
    <3>1. CASE Still(q)
      BY <3>1 DEF Still, SameMail
    <3>2. CASE Terminated(q) \/ Left(q) \/ Ended(q) \/ CalledBack(q)
      BY <3>2 DEF Terminated, Left, Ended, CalledBack, Becomes
    <3>3. CASE Started(q) \/ Called(q) \/ Exited(q) \/ Returned(q)
      BY <3>3 DEF Started, Called, Exited, Returned, Becomes, SameMail, Untold
    <3> QED
      BY <1>2, <3>1, <3>2, <3>3, MovesAll DEF Moves
  <2>2. ~Deliver(q)
    <3>1. ASSUME Deliver(q) PROVE Told(q)
      <4>1. worker'[q] = worker[q] /\ wanted'[q] = wanted[q] /\ inbox[q] # << >>
            /\ inbox'[q] = Tail(inbox[q])
        BY <1>0, <3>1 DEF Deliver
      <4> QED
        BY <2>1, <3>1, <4>1 DEF Told
    <3> QED
      BY <1>2, <3>1
  <2>3. proc'[q] = proc[q]
    BY <2>1, <2>2, EntryStays
  <2> QED
    BY <2>1, <2>3 DEF CodeAgrees
<1> QED
  BY <1>1, <1>2

\* The buffer of a script that waits is wiped only if its call counts as lost.
LEMMA NotWiped ==
  ASSUME IInv, CallsInv, [Next]_vars, NEW q \in Pids, Untold(q), Lives(q),
         worker[q].ctx = "script", worker[q].at = "waiting", worker'[q].at = "waiting",
         ~ExitLost(q)', buf[worker[q].sab].kind # "zero"
  PROVE  buf'[worker[q].sab].kind # "zero"
<1>0. /\ buf \in [Sabs -> Buffers] /\ Places /\ Place(q) /\ worker[q].sab \in Sabs
      /\ inbox[q] = << >> /\ worker \in [Pids -> Workers] /\ \A p \in Pids : Place(p)
  BY Types DEF CallsInv, Places, Place, Untold
<1>1. q \notin killed /\ q \notin killed'
  BY KilledGrows DEF ExitLost
<1>2. ~Wired => Running(q)
  BY <1>1 DEF Lives
<1>3. ASSUME NEW r \in Pids, r > q, worker'[r].sab = worker'[q].sab
      PROVE  ~Wired
  BY <1>3 DEF ExitLost
<1>4. CASE Spawn
  <2>1. PICK t \in Sabs : SpawnedWith(t)
    BY <1>0, <1>4, Spawned
  <2>2. nextPid \in Pids /\ worker'[nextPid].sab = t /\ q < nextPid /\ worker'[q] = worker[q]
    BY <2>1 DEF SpawnedWith, NoWorker
  <2>3. worker[q].sab # t
    <3>1. ASSUME worker[q].sab = t PROVE FALSE
      <4>1. ~Wired
        BY <1>3, <2>2, <3>1, Facts
      <4>2. Running(q) /\ proc[q].sab = t
        BY <1>0, <1>2, <3>1, <4>1 DEF Place
      <4> QED
        BY <2>1, <4>2 DEF SpawnedWith
    <3> QED
      BY <3>1
  <2>4. buf'[worker[q].sab] = buf[worker[q].sab]
    BY <1>0, <2>1, <2>3 DEF SpawnedWith
  <2> QED
    BY <2>4
<1>5. CASE ~Spawn
  <2> DEFINE s == worker[q].sab
  <2>1. ASSUME NEW r \in Pids, WipedFor(s, r) PROVE FALSE
    <3>1. Running(r) /\ proc[r].sab = s /\ worker[r].sab = s /\ worker[r].at # "none"
      BY <1>0, <2>1 DEF WipedFor, Place
    <3>2. r # q
      BY <1>0, <1>1, <2>1 DEF WipedFor
    <3>3. ~(r < q)
      BY <1>0, <3>1 DEF Place
    <3>4. r > q
      BY <3>2, <3>3, Facts
    <3>5. worker'[r].sab = worker'[q].sab
      BY <1>0, <1>5, <3>1, WorkersKept
    <3>6. ~Wired
      BY <1>3, <3>4, <3>5
    <3>7. Running(q) /\ proc[q].sab = s
      BY <1>0, <1>2, <3>6 DEF Place
    <3> QED
      BY <3>1, <3>2, <3>7, Apart
  <2>2. BufferMoves(s)
    BY <1>0, <1>5, Contents
  <2> HIDE DEF s
  <2>3. buf[s].kind # "zero"
    BY DEF s
  <2>4. buf'[s].kind # "zero"
    BY <2>1, <2>2, <2>3 DEF BufferMoves
  <2> QED
    BY <2>4 DEF s
<1> QED
  BY <1>4, <1>5

LEMMA KeptStep ==
  ASSUME IInv, CallsInv, [Next]_vars, NEW q \in Pids, Untold(q), Lives(q), Kept(q),
         ~(Spawn /\ q = nextPid)
  PROVE  Kept(q)'
<1>0. /\ Places /\ inbox[q] \in Seq(Messages) /\ worker[q] \in Workers
      /\ wanted \in [Pids -> Codes \cup {NoCode}]
  BY Types DEF CallsInv
<1> SUFFICES ASSUME wanted'[q] # NoCode, ~ExitLost(q)'
             PROVE  /\ worker'[q].ctx = "script"
                    /\ \/ /\ worker'[q].at = "waiting" /\ worker'[q].op = "exit"
                          /\ worker'[q].code = wanted'[q] /\ buf'[worker'[q].sab].kind # "zero"
                       \/ /\ worker'[q].at = "closed"
                          /\ \/ /\ inbox'[q] = << Message("exit", wanted'[q]) >>
                                /\ promise'[q] = NoCode
                             \/ inbox'[q] = << >> /\ promise'[q] = wanted'[q]
                       \/ /\ worker'[q].at = "terminated" /\ inbox'[q] = << >>
                          /\ promise'[q] \in {NoCode, wanted'[q]}
  BY DEF Kept, Message
<1>1. ASSUME wanted[q] # NoCode PROVE ~ExitLost(q)
  <2>1. worker[q].at # "none"
    BY <1>0, <1>1 DEF Places, Place
  <2> QED
    BY <1>0, <2>1, LostStays
<1>2. CASE Exited(q) /\ wanted[q] = NoCode
  <2>1. worker[q].ctx = "script" /\ wanted'[q] = worker'[q].code
    BY <1>2 DEF Exited
  <2>2. worker[q].sab \in Sabs /\ worker[q].at # "none"
    BY <1>0, <1>2 DEF Exited, Places, Place
  <2>3. worker'[q].sab = worker[q].sab
    <3>1. CASE Spawn
      BY <1>0, <3>1, SpawnLeaves DEF Still
    <3>2. CASE ~Spawn
      BY <1>0, <3>2, WorkersKept
    <3> QED
      BY <3>1, <3>2
  <2> QED
    BY <1>2, <2>1, <2>2, <2>3 DEF Exited, Becomes
<1>3. CASE ~(Exited(q) /\ wanted[q] = NoCode)
  <2>1. wanted'[q] = wanted[q]
    <3>1. CASE Exited(q)
      BY <1>3, <3>1 DEF Exited
    <3>2. CASE ~Exited(q)
      BY <3>2, <1>0, MovesAll DEF Moves, Still, Told, Terminated, Started, Called, Left, Returned,
         Ended, CalledBack
    <3> QED
      BY <3>1, <3>2
  <2>2. wanted[q] # NoCode /\ ~ExitLost(q)
    BY <1>1, <2>1
  <2>3. /\ worker[q].ctx = "script"
        /\ \/ /\ worker[q].at = "waiting" /\ worker[q].op = "exit" /\ worker[q].code = wanted[q]
              /\ buf[worker[q].sab].kind # "zero"
           \/ /\ worker[q].at = "closed"
              /\ \/ inbox[q] = << Message("exit", wanted[q]) >> /\ promise[q] = NoCode
                 \/ inbox[q] = << >> /\ promise[q] = wanted[q]
           \/ /\ worker[q].at = "terminated" /\ inbox[q] = << >>
              /\ promise[q] \in {NoCode, wanted[q]}
    BY <2>2 DEF Kept
  <2>4. worker[q].at = "waiting" => inbox[q] = << >> /\ promise[q] = NoCode
    BY <2>3 DEF Untold
  <2>5. CASE Still(q)
    <3>1. worker'[q] = worker[q] /\ inbox'[q] = inbox[q] /\ promise'[q] = promise[q]
      BY <2>5 DEF Still, SameMail
    <3>2. worker[q].at = "waiting" /\ buf[worker[q].sab].kind # "zero"
             => buf'[worker[q].sab].kind # "zero"
      BY <2>3, <3>1, NotWiped
    <3> QED
      BY <2>1, <2>3, <3>1, <3>2
  <2>6. CASE Told(q)
    <3>1. /\ inbox[q] = << Message("exit", wanted[q]) >> /\ promise[q] = NoCode
          /\ worker[q].at = "closed"
      BY <2>3, <2>4, <2>6 DEF Told
    <3>2. Head(inbox[q]).code = wanted[q] /\ Tail(inbox[q]) = << >>
      BY <3>1 DEF Message
    <3> QED
      BY <2>1, <2>3, <2>6, <3>1, <3>2 DEF Told
  <2>7. CASE Terminated(q)
    <3>1. promise[q] = NoCode
      BY <2>7 DEF Terminated, IInv, ResolvedMeansExited
    <3> QED
      BY <2>1, <2>3, <2>7, <3>1 DEF Terminated, Becomes
  <2>8. CASE Left(q)
    BY <2>1, <2>3, <2>4, <2>8 DEF Left, Becomes
  <2>9. CASE Returned(q)
    BY <2>3, <2>9 DEF Returned, ExitDone
  <2>10. CASE Started(q) \/ Called(q) \/ Exited(q) \/ Ended(q) \/ CalledBack(q)
    BY <2>3, <2>10 DEF Started, Called, Exited, Ended, CalledBack
  <2> QED
    BY <1>0, <2>5, <2>6, <2>7, <2>8, <2>9, <2>10, MovesAll DEF Moves
<1> QED
  BY <1>2, <1>3

LEMMA CodesInitially == Init => CodesInv
<1> SUFFICES ASSUME Init, NEW q \in Pids PROVE Untold(q) /\ Lives(q) /\ Kept(q) /\ CodeAgrees(q)
  BY DEF CodesInv
<1>1. /\ worker[q] = NoWorker /\ inbox[q] = << >> /\ promise[q] = NoCode /\ wanted[q] = NoCode
  BY DEF Init
<1> QED
  BY <1>1 DEF NoWorker, Untold, Lives, Kept, CodeAgrees

LEMMA CodesStep == IInv /\ CallsInv /\ CodesInv /\ [Next]_vars => CodesInv'
<1> SUFFICES ASSUME IInv, CallsInv, CodesInv, [Next]_vars, NEW q \in Pids
             PROVE  Untold(q)' /\ Lives(q)' /\ Kept(q)' /\ CodeAgrees(q)'
  BY DEF CodesInv
<1>1. Places /\ Untold(q) /\ Lives(q) /\ Kept(q) /\ CodeAgrees(q)
  BY DEF CallsInv, CodesInv
<1>2. CASE Spawn /\ q = nextPid
  BY <1>1, <1>2, SpawnedEnds
<1>3. CASE ~(Spawn /\ q = nextPid)
  BY <1>1, <1>3, UntoldStep, LivesStep, KeptStep, AgreesStep
<1> QED
  BY <1>2, <1>3

\* What is known of exit codes, in every behaviour of the manager.
THEOREM CodesInvHolds == Spec => []CodesInv
BY CodesInitially, CodesStep, CallsInvHolds, InvariantHolds, PTL DEF Spec

\* The promise resolves with the code the script gave process.exit, unless the
\* process was killed or its exit freed a buffer that was handed out again before
\* the answer came; and the table shows the code of the promise, until dispose
\* empties it or a callback that outlived the script ends the process once more.
THEOREM CodesAreHonoured == Spec => []CodesHonoured
<1>1. CodesInv => CodesHonoured
  <2> SUFFICES ASSUME CodesInv PROVE CodesHonoured
    OBVIOUS
  <2>1. ASSUME NEW p \in Pids, promise[p] # NoCode, wanted[p] # NoCode, ~ExitLost(p)
        PROVE  promise[p] = wanted[p]
    <3>1. Kept(p) /\ Untold(p)
      BY DEF CodesInv
    <3> QED
      BY <2>1, <3>1 DEF Kept, Untold
  <2>2. CodesAgree
    BY DEF CodesInv, CodeAgrees, CodesAgree
  <2> QED
    BY <2>1, <2>2 DEF CodesHonoured, ExitCodeHonoured
<1> QED
  BY <1>1, CodesInvHolds, PTL
=============================================================================
