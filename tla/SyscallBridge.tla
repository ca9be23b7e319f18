---------------------------- MODULE SyscallBridge ----------------------------
(***************************************************************************)
(* The synchronous system call bridge: a worker thread and the main thread *)
(* sharing one buffer per process.  The worker encodes a request, stores   *)
(* STATUS_REQUEST and blocks in Atomics.wait; a 1 ms interval on the main  *)
(* thread polls the status word, decodes the request, dispatches it,       *)
(* encodes the answer over the request, stores STATUS_RESPONSE or          *)
(* STATUS_ERROR and notifies.  Each access to shared memory is a step of   *)
(* its own, so worker and main thread interleave between any two of them.  *)
(***************************************************************************)
EXTENDS Naturals, Sequences

CONSTANTS
  Procs,          \* the worker processes, each with its own buffer
  Reqs,           \* the requests a program can make
  NoReq,          \* no request
  Oversize,       \* requests whose encoding exceeds the payload area
  TextOverflow,   \* requests whose successful answer is too long a text
  BinaryOverflow, \* requests whose successful answer is too large a binary
  Writes,         \* requests executed with binaryData ?? content: FS_WRITEFILE,
                  \* FS_APPENDFILE
  Sends,          \* those of them that are made with binary data
  Reads,          \* requests that return the binary part of their answer:
                  \* FS_READFILE without an encoding
  Brings,         \* those of them whose successful answer has binary data
  Filling,        \* requests whose binary data, sent or brought, ends exactly
                  \* where the payload area ends
  PromptNotify    \* is the main thread never preempted between its two last
                  \* operations, Atomics.store and Atomics.notify?

ASSUME RequestAssumption ==
  /\ Procs # {}
  /\ NoReq \notin Reqs
  /\ Oversize \subseteq Reqs
  /\ TextOverflow \subseteq Reqs
  /\ BinaryOverflow \subseteq Brings
  /\ Sends \subseteq Writes /\ Writes \subseteq Reqs
  /\ Brings \subseteq Reads /\ Reads \subseteq Reqs
  /\ Filling \subseteq Sends \cup Brings
  /\ PromptNotify \in BOOLEAN

VARIABLES
  pc,      \* pc[p]: where the worker of p is
  call,    \* call[p]: the request of its current or last syscall()
  got,     \* got[p]: what that call decoded from the buffer
  answer,  \* answer[p]: what its last finished call returned or threw
  status,  \* status[p]: the status word of p's buffer
  payload, \* payload[p]: the payload area of p's buffer
  host,    \* the main thread
  served,  \* served[p]: what the host dispatched since the call began (history)
  strayed  \* processes woken by the notify of an earlier answer (history)

vars == <<pc, call, got, answer, status, payload, host, served, strayed>>

(***************************************************************************)
(* Values.  A payload is what decodePayload would find: "torn" throws,     *)
(* "clobbered" is the metadata {} of an answer whose binary part did not   *)
(* fit.  Its data is what it would find as binary part, against what the   *)
(* sender meant: "own", also when none was sent and none is found; "lost"; *)
(* or "old", bytes of an earlier message where none were sent.             *)
(***************************************************************************)
Statuses == {"IDLE", "REQUEST", "RESPONSE", "ERROR"}
WorkerPCs == {"user", "encode", "post", "wait", "asleep", "timedOut", "woken",
              "decode", "reset"}
HostPCs == {"idle", "decode", "dispatch", "encode", "publish", "notify"}
Outcomes == {"none", "ok", "err"}

Fates == {"own", "lost", "old"}
Payloads == [kind : {"zero", "torn", "clobbered", "request", "answer"},
             of : Reqs \cup {NoReq}, data : Fates]
Zeroed == [kind |-> "zero", of |-> NoReq, data |-> "own"]
Torn == [kind |-> "torn", of |-> NoReq, data |-> "own"]
Clobbered == [kind |-> "clobbered", of |-> NoReq, data |-> "own"]
Request(r, d) == [kind |-> "request", of |-> r, data |-> d]
Reply(r, d) == [kind |-> "answer", of |-> r, data |-> d]
Decodable(m) == m.kind \notin {"zero", "torn"}

\* The request the dispatcher sees in a decoded payload.
\* Mutant: the payload is passed on instead of its metadata.
MeantWhole(m) == m
Meant(m) == IF m.kind = "request" THEN m.of ELSE NoReq

(***************************************************************************)
(* The binary part of a message.  encodePayload writes it only when there  *)
(* is some, and clears nothing: behind a text that is sent alone lies what *)
(* the messages before it left, which may spell a length and data, unless  *)
(* nothing was ever written.  decodePayload takes data only if it ends     *)
(* before the last byte of the area.                                       *)
(***************************************************************************)
\* Mutant: data is dropped wherever a later message could have ended.
FateOfShort(r, uses, sends) == IF r \notin uses THEN {"own"}
                               ELSE IF r \notin sends THEN {"own", "old"}
                               ELSE {"lost", "own"}
\* A request outside uses is handled without a look at the binary part.
FateOf(r, uses, sends) == IF r \notin uses THEN {"own"}
                          ELSE IF r \notin sends THEN {"own", "old"}
                          ELSE IF r \in Filling THEN {"lost"} ELSE {"own"}
Found(r, uses, sends, before) ==
  FateOf(r, uses, sends) \ (IF before.kind = "zero" THEN {"old"} ELSE {})

Results == [of : Reqs \cup {NoReq}, out : Outcomes, data : Fates]
NoResult == [of |-> NoReq, out |-> "none", data |-> "own"]
Answers == [req : Reqs \cup {NoReq}, out : {"none", "refused", "thrown", "ok", "err"},
            data : Fates]
NoAnswer == [req |-> NoReq, out |-> "none", data |-> "own"]

HostIdle == [at |-> "idle", proc |-> CHOOSE p \in Procs : TRUE,
             meta |-> Zeroed, out |-> "none"]

\* The main thread is in dispatchSyscall for p.
Serving(p) == host.at # "idle" /\ host.proc = p
HostAt(p, l) == host.at = l /\ host.proc = p

-----------------------------------------------------------------------------
Init ==
  /\ pc = [p \in Procs |-> "user"]
  /\ call = [p \in Procs |-> NoReq]
  /\ got = [p \in Procs |-> NoResult]
  /\ answer = [p \in Procs |-> NoAnswer]
  /\ status = [p \in Procs |-> "IDLE"]
  /\ payload = [p \in Procs |-> Zeroed]
  /\ host = HostIdle
  /\ served = [p \in Procs |-> << >>]
  /\ strayed = {}

-----------------------------------------------------------------------------
(***************************************************************************)
(* The worker: syscall().                                                  *)
(***************************************************************************)
Goto(p, l) == pc' = [pc EXCEPT ![p] = l]
Finish(p, out, d) ==
  /\ Goto(p, "user")
  /\ answer' = [answer EXCEPT ![p] = [req |-> call[p], out |-> out, data |-> d]]

Call(p, r) ==
  /\ pc[p] = "user"
  /\ Goto(p, "encode")
  /\ call' = [call EXCEPT ![p] = r]
  /\ served' = [served EXCEPT ![p] = << >>]
  /\ got' = [got EXCEPT ![p] = NoResult]
  /\ UNCHANGED <<answer, status, payload, host, strayed>>

\* Mutant: an encoding that does not fit is posted all the same.
EncodeAnyRequest(p) ==
  /\ pc[p] = "encode"
  /\ \E d \in Found(call[p], Writes, Sends, payload[p]) :
       payload' = [payload EXCEPT ![p] =
                     IF call[p] \in Oversize THEN Torn ELSE Request(call[p], d)]
  /\ Goto(p, "post")
  /\ UNCHANGED <<call, got, answer, status, host, served, strayed>>

\* encodePayload writes the length word before arr.set throws a RangeError.
EncodeRequest(p) ==
  /\ pc[p] = "encode"
  /\ IF call[p] \in Oversize
     THEN /\ payload' = [payload EXCEPT ![p] = Torn]
          /\ Finish(p, "refused", "own")
     ELSE /\ \E d \in Found(call[p], Writes, Sends, payload[p]) :
               payload' = [payload EXCEPT ![p] = Request(call[p], d)]
          /\ Goto(p, "post")
          /\ UNCHANGED answer
  /\ UNCHANGED <<call, got, status, host, served, strayed>>

PostRequest(p) ==
  /\ pc[p] = "post"
  /\ status' = [status EXCEPT ![p] = "REQUEST"]
  /\ Goto(p, "wait")
  /\ UNCHANGED <<call, got, answer, payload, host, served, strayed>>

\* Atomics.wait compares and blocks in one step ("not-equal" when it differs).
WaitForAnswer(p) ==
  /\ pc[p] = "wait"
  /\ Goto(p, IF status[p] = "REQUEST" THEN "asleep" ELSE "woken")
  /\ UNCHANGED <<call, got, answer, status, payload, host, served, strayed>>

\* The 5000 ms limit of Atomics.wait.
WaitTimesOut(p) ==
  /\ pc[p] = "asleep"
  /\ Goto(p, "timedOut")
  /\ UNCHANGED <<call, got, answer, status, payload, host, served, strayed>>

\* Only a timeout with the request still pending waits again.
\* Mutant: a timeout ends the wait.
WaitsOnce(p) == FALSE
WaitsAgain(p) == pc[p] = "timedOut" /\ status[p] = "REQUEST"

LeaveWait(p) ==
  /\ pc[p] \in {"woken", "timedOut"}
  /\ Goto(p, IF WaitsAgain(p) THEN "wait" ELSE "decode")
  /\ UNCHANGED <<call, got, answer, status, payload, host, served, strayed>>

\* A payload that does not parse is tolerated in an error only; the binary
\* part of an error is not looked at.
DecodeAnswer(p) ==
  /\ pc[p] = "decode"
  /\ IF status[p] # "ERROR" /\ ~Decodable(payload[p])
     THEN /\ Finish(p, "thrown", "own")
          /\ UNCHANGED got
     ELSE /\ got' = [got EXCEPT ![p] =
                       IF status[p] = "ERROR"
                       THEN [of |-> payload[p].of, out |-> "err", data |-> "own"]
                       ELSE [of |-> payload[p].of, out |-> "ok",
                             data |-> payload[p].data]]
          /\ Goto(p, "reset")
          /\ UNCHANGED answer
  /\ UNCHANGED <<call, status, payload, host, served, strayed>>

ResetStatus(p) ==
  /\ pc[p] = "reset"
  /\ status' = [status EXCEPT ![p] = "IDLE"]
  /\ Finish(p, got[p].out, got[p].data)
  /\ UNCHANGED <<call, got, payload, host, served, strayed>>

-----------------------------------------------------------------------------
(***************************************************************************)
(* The main thread: one tick of the interval of p at a time.               *)
(***************************************************************************)
Tick(p) ==
  /\ host.at = "idle"
  /\ status[p] = "REQUEST"
  /\ host' = [HostIdle EXCEPT !.at = "decode", !.proc = p]
  /\ UNCHANGED <<pc, call, got, answer, status, payload, served, strayed>>

\* Mutant: a request that does not parse is dropped.
DropTornRequest(p) ==
  /\ HostAt(p, "decode")
  /\ host' = IF Decodable(payload[p])
             THEN [host EXCEPT !.at = "dispatch", !.meta = payload[p]]
             ELSE HostIdle
  /\ UNCHANGED <<pc, call, got, answer, status, payload, served, strayed>>

\* A request that does not parse is answered with EINVAL, undispatched.
DecodeRequest(p) ==
  /\ HostAt(p, "decode")
  /\ host' = IF Decodable(payload[p])
             THEN [host EXCEPT !.at = "dispatch", !.meta = payload[p]]
             ELSE [host EXCEPT !.at = "encode", !.meta = Torn, !.out = "err"]
  /\ UNCHANGED <<pc, call, got, answer, status, payload, served, strayed>>

\* handleSyscall executes the request and catches whatever it throws; a write
\* prefers the binary part over the content of its metadata.  With the
\* metadata {} a read goes to the root directory and fails.
Dispatch(p) ==
  /\ HostAt(p, "dispatch")
  /\ \E out \in IF host.meta.kind = "clobbered" THEN {"err"} ELSE {"ok", "err"} :
        /\ host' = [host EXCEPT !.at = "encode", !.out = out]
        /\ served' = [served EXCEPT ![p] =
                        Append(@, [of |-> Meant(host.meta), out |-> out,
                                   data |-> host.meta.data])]
  /\ UNCHANGED <<pc, call, got, answer, status, payload, strayed>>

Overflows(r, out, class) == out = "ok" /\ r \in class
Lossy == TextOverflow \cup BinaryOverflow

\* The binary part of an answer; that of an error is not looked at.
Replied(r, out, before) == Found(r, IF out = "ok" THEN Reads ELSE {}, Brings, before)

\* Mutant: the length is checked before anything is written.
EncodeIfFits(p) ==
  /\ HostAt(p, "encode")
  /\ LET r == Meant(host.meta) IN
       IF Overflows(r, host.out, Lossy)
       THEN host' = HostIdle /\ UNCHANGED payload
       ELSE /\ \E d \in Replied(r, host.out, payload[p]) :
                 payload' = [payload EXCEPT ![p] = Reply(r, d)]
            /\ host' = [host EXCEPT !.at = "publish"]
  /\ UNCHANGED <<pc, call, got, answer, status, served, strayed>>

\* An answer that does not fit throws out of the interval callback with the
\* status word untouched: the interval fires again.
EncodeAnswer(p) ==
  /\ HostAt(p, "encode")
  /\ LET r == Meant(host.meta) IN
       IF Overflows(r, host.out, TextOverflow)
       THEN payload' = [payload EXCEPT ![p] = Torn] /\ host' = HostIdle
       ELSE IF Overflows(r, host.out, BinaryOverflow)
       THEN payload' = [payload EXCEPT ![p] = Clobbered] /\ host' = HostIdle
       ELSE /\ \E d \in Replied(r, host.out, payload[p]) :
                 payload' = [payload EXCEPT ![p] = Reply(r, d)]
            /\ host' = [host EXCEPT !.at = "publish"]
  /\ UNCHANGED <<pc, call, got, answer, status, served, strayed>>

\* Atomics.notify wakes a worker that is blocked at this moment, no other.
\* Mutant: the notify is forgotten.
NotNotified(p) == pc
Notified(p) == IF pc[p] = "asleep" THEN [pc EXCEPT ![p] = "woken"] ELSE pc

\* Mutant: the error path stores STATUS_RESPONSE.
AlwaysResponse(out) == "RESPONSE"
StatusFor(out) == IF out = "ok" THEN "RESPONSE" ELSE "ERROR"

PublishAnswer(p) ==
  /\ HostAt(p, "publish")
  /\ status' = [status EXCEPT ![p] = StatusFor(host.out)]
  /\ IF PromptNotify
     THEN pc' = Notified(p) /\ host' = HostIdle
     ELSE host' = [host EXCEPT !.at = "notify"] /\ UNCHANGED pc
  /\ UNCHANGED <<call, got, answer, payload, served, strayed>>

NotifyWorker(p) ==
  /\ HostAt(p, "notify")
  /\ pc' = Notified(p)
  /\ host' = HostIdle
  /\ strayed' = IF pc[p] = "asleep" /\ status[p] = "REQUEST" THEN strayed \cup {p} ELSE strayed
  /\ UNCHANGED <<call, got, answer, status, payload, served>>

-----------------------------------------------------------------------------
Worker(p) == \/ EncodeRequest(p) \/ PostRequest(p) \/ WaitForAnswer(p)
             \/ LeaveWait(p) \/ DecodeAnswer(p) \/ ResetStatus(p)

HostTask(p) == \/ DecodeRequest(p) \/ Dispatch(p) \/ EncodeAnswer(p)
               \/ PublishAnswer(p) \/ NotifyWorker(p)

Next == \E p \in Procs : \/ \E r \in Reqs : Call(p, r)
                         \/ Worker(p)
                         \/ WaitTimesOut(p)
                         \/ Tick(p)
                         \/ HostTask(p)

Spec == Init /\ [][Next]_vars

(***************************************************************************)
(* A worker thread that is not blocked runs on; a task of the main thread  *)
(* runs to its end; the interval of every process fires again and again,   *)
(* whatever the intervals of the others do.  Nothing makes a program call, *)
(* and the 5000 ms timeout is never relied upon.                           *)
(***************************************************************************)
Fairness == \A p \in Procs : /\ WF_vars(Worker(p))
                             /\ WF_vars(HostTask(p))
                             /\ SF_vars(Tick(p))

FairSpec == Spec /\ Fairness

-----------------------------------------------------------------------------
(***************************************************************************)
(* Correctness.                                                            *)
(***************************************************************************)

\* Every variable keeps its type.
TypeOK ==
  /\ pc \in [Procs -> WorkerPCs]
  /\ call \in [Procs -> Reqs \cup {NoReq}]
  /\ got \in [Procs -> Results]
  /\ answer \in [Procs -> Answers]
  /\ status \in [Procs -> Statuses]
  /\ payload \in [Procs -> Payloads]
  /\ host \in [at : HostPCs, proc : Procs, meta : Payloads, out : Outcomes]
  /\ served \in [Procs -> Seq(Results)]
  /\ strayed \subseteq Procs

\* The request of p was executed with success, its answer did not fit.
AnswerLost(p) == call[p] \in Lossy /\ served[p] # << >> /\ served[p][1].out = "ok"

\* What a call is about to return is the outcome of its own request, which
\* the dispatcher has executed exactly once; if the answer of a success was
\* lost it is an error, never another success (syscall, dispatchSyscall).
OwnAnswer(p) ==
  pc[p] = "reset" =>
     IF AnswerLost(p)
     THEN got[p].out = "err"
     ELSE /\ got[p].of = call[p]
          /\ Len(served[p]) = 1
          /\ served[p][1].of = call[p] /\ served[p][1].out = got[p].out

\* Data that is sent, and ends before the last byte of the payload area, is
\* the data the request is executed with, and the data its answer returns; a
\* request that uses no data is never touched by what lies behind its text.
DataIsOwn(p) ==
  /\ served[p] # << >> /\ call[p] \notin (Writes \ Sends) \cup Filling
       => served[p][1].data = "own"
  /\ pc[p] = "reset" /\ call[p] \notin (Reads \ Brings) \cup Filling
       => got[p].data = "own"

\* No request is dispatched a second time, however often its answer fails to
\* be encoded and the interval finds STATUS_REQUEST again.
NeverExecutedTwice(p) ==
  \A i, j \in DOMAIN served[p] :
     served[p][i].of = call[p] /\ served[p][j].of = call[p] => i = j

\* A call is executed once, told the outcome of that execution, and works on
\* the data it was sent with; what is left out is named in DataIsOwn: a write
\* or read whose message has no data may be given that of an older message,
\* and data that fills the area is dropped.  This holds until a process has
\* been woken by a late notify (WaitsForAnswer).
CallsExecutedOnce ==
  \A p \in Procs \ strayed : OwnAnswer(p) /\ DataIsOwn(p) /\ NeverExecutedTwice(p)

\* While the main thread reads or writes the payload of p, the worker of p is
\* blocked in its wait: the payload area itself has no synchronisation.
SingleOwner(p) ==
  Serving(p) /\ host.at # "notify" => pc[p] \in {"wait", "asleep", "timedOut"}

\* A worker never sleeps on an answer that is there, unless the notify that
\* will wake it is on its way: no wake-up is lost between wait and notify.
NoLostWakeup ==
  \A p \in Procs : pc[p] = "asleep" /\ status[p] # "REQUEST" => HostAt(p, "notify")

\* A call that reports an error was not executed with success: what the
\* dispatcher did and what the program is told agree (dispatchSyscall,
\* "dispatch it, and write the response back").
ErrorMeansFailed ==
  \A p \in Procs : pc[p] = "reset" /\ got[p].out = "err" =>
     \A i \in DOMAIN served[p] : served[p][i].out = "err"

\* The wait ends only when the request has been answered (step 4 of the
\* protocol in the comment of syscall).
LeavesAnswered(p) == pc[p] = "decode" => status[p] # "REQUEST"
WaitsForAnswer == \A p \in Procs : LeavesAnswered(p)

\* The buffer has one owner at a time: the worker stays in its wait until the main
\* thread has answered and left the payload alone (syscall, dispatchSyscall), as
\* long as it has not been woken by a late notify.
TurnsAlternate == \A p \in Procs \ strayed : SingleOwner(p) /\ LeavesAnswered(p)

\* Every posted call returns, without help of the 5000 ms timeout.
EveryCallReturns ==
  \A p \in Procs : pc[p] = "wait" ~> pc[p] = "user"

-----------------------------------------------------------------------------
(***************************************************************************)
(* The bridge implements SyscallRPC: the call is executed for the abstract *)
(* specification when the dispatcher has run it.                           *)
(***************************************************************************)
Phase(p) == IF pc[p] = "user" THEN "user"
            ELSE IF served[p] = << >> THEN "invoked" ELSE "executed"

OutcomeOf(p) == IF served[p] = << >> THEN "none" ELSE served[p][1].out
InputOf(p) == IF served[p] = << >> THEN "own" ELSE served[p][1].data

\* What may become of the data of a request and of its answer.
FatesIn(uses, sends) == [r \in Reqs |-> FateOf(r, uses, sends)]

RPC == INSTANCE SyscallRPC WITH
         Lossy <- Lossy,
         Arrives <- FatesIn(Writes, Sends),
         Comes <- FatesIn(Reads, Brings),
         phase <- [p \in Procs |-> Phase(p)],
         arg <- call,
         outcome <- [p \in Procs |-> OutcomeOf(p)],
         input <- [p \in Procs |-> InputOf(p)],
         answer <- answer

\* Every behaviour of the bridge, with prompt notifies, is one of the abstract
\* remote call: a request is refused, or executed once with the data Arrives
\* allows, and its outcome returned with the data Comes allows.
ImplementsRPC == RPC!Spec
=============================================================================
