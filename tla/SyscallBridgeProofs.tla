------------------------- MODULE SyscallBridgeProofs -------------------------
(***************************************************************************)
(* Proofs about the syscall bridge, for any number of processes, any set   *)
(* of requests and either build, with the main thread preempted before its *)
(* notify or not.  The argument is in two layers.  Discipline says who may *)
(* touch a buffer, by the status word alone.  Exchange says what the       *)
(* buffer holds in every phase of a call, the remains of an answer that    *)
(* did not fit and the data of older messages included.  Both are claimed  *)
(* of the processes no late notify has woken.  At the end, byte by byte:   *)
(* what the encoding of a message leaves there decodes to.                 *)
(***************************************************************************)
EXTENDS SyscallBridge, PayloadCodec, SequenceTheorems, TLAPS

\* The status word tells worker and main thread whose turn it is.
Turns(p) ==
  /\ pc[p] \in {"user", "encode", "post"} =>
       status[p] # "REQUEST" /\ (Serving(p) => host.at = "notify")
  /\ pc[p] = "asleep" => status[p] = "REQUEST" \/ HostAt(p, "notify")
  /\ pc[p] \in {"woken", "decode", "reset"} => status[p] # "REQUEST"
  /\ Serving(p) /\ host.at # "notify" => status[p] = "REQUEST"

\* A process that a late notify has woken is out of step from then on.
TurnsKept == \A p \in Procs \ strayed : Turns(p)

Discipline == TypeOK /\ TurnsKept

\* What the data of p's request, and of its answer, may be.
Sent(p) == FateOf(call[p], Writes, Sends)
Back(p, out) == FateOf(call[p], IF out = "ok" THEN Reads ELSE {}, Brings)

\* m is the request of p, or the answer to it.
IsRequest(p, m) == \E d \in Sent(p) : m = Request(call[p], d)
IsReply(p, out, m) == \E d \in Back(p, out) : m = Reply(call[p], d)

\* The request of p is in its buffer and nobody has executed it.
Pending(p) == IsRequest(p, payload[p]) /\ served[p] = << >>

\* The request of p has been executed once, nothing else has.
Executed(p, out) ==
  /\ out \in {"ok", "err"}
  /\ \E d \in Sent(p) : served[p] = << [of |-> call[p], out |-> out, data |-> d] >>

\* It has, and its answer fits.
Done(p, out) == Executed(p, out) /\ (out = "ok" => call[p] \notin Lossy)

\* What is left in the buffer of an answer that does not fit.
Remains(p) ==
  /\ Executed(p, "ok")
  /\ \/ call[p] \in TextOverflow /\ payload[p] = Torn
     \/ call[p] \in BinaryOverflow /\ payload[p] = Clobbered

\* The dispatcher was called with the metadata {} afterwards.
ExecutedAgain(p) ==
  \E d \in Sent(p) :
     served[p] = << [of |-> call[p], out |-> "ok", data |-> d],
                    [of |-> NoReq, out |-> "err", data |-> "own"] >>

\* An answer that did not fit is about to be, or has been, replaced by an
\* error; a binary one after that second call of the dispatcher.
Lost(p) == call[p] \in Lossy /\ (Executed(p, "ok") \/ ExecutedAgain(p))

\* The answer of p's request is in its buffer.
Answered(p) ==
  \/ LET out == IF status[p] = "ERROR" THEN "err" ELSE "ok" IN
     status[p] \in {"RESPONSE", "ERROR"} /\ IsReply(p, out, payload[p]) /\ Done(p, out)
  \/ status[p] = "ERROR" /\ payload[p] = Reply(NoReq, "own") /\ Lost(p)

\* The main thread has dispatched p's request, or what was left of its answer.
Encoding(p) ==
  \/ IsRequest(p, host.meta) /\ Executed(p, host.out)
  \/ host.meta \in {Torn, Clobbered} /\ host.out = "err" /\ Lost(p)

Publishing(p) ==
  \/ IsReply(p, host.out, payload[p]) /\ Done(p, host.out)
  \/ payload[p] = Reply(NoReq, "own") /\ host.out = "err" /\ Lost(p)

\* What the worker has read off its answer.
Received(p) ==
  \/ /\ got[p].of = call[p] /\ Done(p, got[p].out)
     /\ got[p].data \in Back(p, got[p].out)
  \/ got[p].out = "err" /\ got[p].data = "own" /\ Lost(p)

Exchange(p) ==
  /\ pc[p] # "user" => call[p] \in Reqs
  /\ pc[p] = "encode" => served[p] = << >>
  /\ pc[p] = "post" => Pending(p)
  /\ pc[p] \in {"wait", "asleep", "timedOut"} /\ status[p] = "REQUEST" =>
       IF host.proc = p /\ host.at \in {"encode", "publish"}
       THEN IF host.at = "encode" THEN Encoding(p) ELSE Publishing(p)
       ELSE Pending(p) \/ Remains(p)
  /\ HostAt(p, "dispatch") => host.meta = payload[p] /\ Decodable(payload[p])
  /\ pc[p] \in {"wait", "asleep", "timedOut", "woken", "decode"} /\ status[p] # "REQUEST"
       => Answered(p)
  /\ pc[p] = "reset" => Received(p)

Exchanges == \A p \in Procs \ strayed : Exchange(p)

IInv == Discipline /\ Exchanges

-----------------------------------------------------------------------------
USE RequestAssumption

LEMMA HostIdleType == HostIdle \in [at : HostPCs, proc : Procs, meta : Payloads, out : Outcomes]
                      /\ HostIdle.at = "idle"
BY DEF HostIdle, HostPCs, Payloads, Zeroed, Outcomes, Fates

LEMMA FateType ==
  /\ \A r, uses, sends : FateOf(r, uses, sends) \subseteq Fates /\ FateOf(r, {}, sends) = {"own"}
  /\ \A r, uses, sends, m : /\ Found(r, uses, sends, m) \subseteq FateOf(r, uses, sends)
                           /\ "own" \in Fates
BY DEF FateOf, Found, Fates

LEMMA ResultType ==
  /\ NoResult \in Results
  /\ \A r \in Reqs \cup {NoReq}, o \in Outcomes, d \in Fates :
       [of |-> r, out |-> o, data |-> d] \in Results
  /\ \A x \in Results : x.of \in Reqs \cup {NoReq} /\ x.out \in Outcomes /\ x.data \in Fates
BY DEF NoResult, Results, Outcomes, Fates

LEMMA AnswerType ==
  \A r \in Reqs \cup {NoReq}, o \in {"none", "refused", "thrown", "ok", "err"}, d \in Fates :
     [req |-> r, out |-> o, data |-> d] \in Answers
BY DEF Answers

LEMMA AppendTwo ==
  ASSUME NEW a, NEW b
  PROVE  /\ Append(<<a>>, b) = <<a, b>>
         /\ <<a, b>> # << >>
         /\ <<a, b>>[1] = a
<1> DEFINE S == {a, b}
<1>1. <<a>> \in Seq(S) /\ b \in S /\ Len(<<a>>) = 1 /\ <<a>>[1] = a
  OBVIOUS
<1>2. <<a, b>> \in Seq(S) /\ Len(<<a, b>>) = 2 /\ <<a, b>>[1] = a /\ <<a, b>>[2] = b
  OBVIOUS
<1> HIDE DEF S
<1>3. /\ Append(<<a>>, b) \in Seq(S) /\ Len(Append(<<a>>, b)) = 2
      /\ Append(<<a>>, b)[1] = a /\ Append(<<a>>, b)[2] = b
  BY <1>1
<1>4. \A i \in 1 .. 2 : Append(<<a>>, b)[i] = <<a, b>>[i]
  BY <1>2, <1>3
<1>5. Append(<<a>>, b) = <<a, b>>
  BY <1>2, <1>3, <1>4, SeqEqual
<1> QED
  BY <1>2, <1>5

LEMMA PayloadType ==
  /\ Zeroed \in Payloads /\ Torn \in Payloads /\ Clobbered \in Payloads
  /\ \A r \in Reqs \cup {NoReq}, d \in Fates :
       Request(r, d) \in Payloads /\ Reply(r, d) \in Payloads
  /\ \A m \in Payloads : /\ m.of \in Reqs \cup {NoReq} /\ m.data \in Fates
                         /\ Meant(m) \in Reqs \cup {NoReq}
BY DEF Payloads, Zeroed, Torn, Clobbered, Request, Reply, Meant, Fates

\* Every variable keeps its type, in every build.
THEOREM TypeCorrect == Spec => []TypeOK
<1>1. Init => TypeOK
  BY HostIdleType DEF Init, TypeOK, WorkerPCs, Results, NoResult, Answers, NoAnswer,
     Statuses, Payloads, Zeroed, Outcomes, Fates
<1>2. TypeOK /\ [Next]_vars => TypeOK'
  <2> SUFFICES ASSUME TypeOK, [Next]_vars PROVE TypeOK'
    OBVIOUS
  <2> USE DEF TypeOK, WorkerPCs, Goto
  <2>1. CASE UNCHANGED vars
    BY <2>1 DEF vars
  <2>2. ASSUME NEW p \in Procs, NEW r \in Reqs, Call(p, r) PROVE TypeOK'
    BY <2>2, ResultType DEF Call
  <2>3. ASSUME NEW p \in Procs, EncodeRequest(p) PROVE TypeOK'
    <3>1. CASE call[p] \in Oversize
      <4>1. [req |-> call[p], out |-> "refused", data |-> "own"] \in Answers
        BY AnswerType, FateType
      <4>2. /\ payload' = [payload EXCEPT ![p] = Torn]
            /\ pc' = [pc EXCEPT ![p] = "user"]
            /\ answer' = [answer EXCEPT ![p] =
                           [req |-> call[p], out |-> "refused", data |-> "own"]]
            /\ UNCHANGED <<call, got, status, host, served, strayed>>
        BY <2>3, <3>1 DEF EncodeRequest, Finish
      <4> QED
        BY <4>1, <4>2, PayloadType
    <3>2. CASE call[p] \notin Oversize
      <4>1. PICK d \in Found(call[p], Writes, Sends, payload[p]) :
              /\ payload' = [payload EXCEPT ![p] = Request(call[p], d)]
              /\ pc' = [pc EXCEPT ![p] = "post"]
              /\ UNCHANGED <<answer, call, got, status, host, served, strayed>>
        BY <2>3, <3>2 DEF EncodeRequest
      <4>2. d \in Fates
        BY FateType
      <4> QED
        BY <4>1, <4>2, PayloadType
    <3> QED
      BY <3>1, <3>2
  <2>4. ASSUME NEW p \in Procs, PostRequest(p) PROVE TypeOK'
    BY <2>4 DEF PostRequest, Statuses
  <2>5. ASSUME NEW p \in Procs, WaitForAnswer(p) PROVE TypeOK'
    BY <2>5 DEF WaitForAnswer
  <2>6. ASSUME NEW p \in Procs, LeaveWait(p) PROVE TypeOK'
    BY <2>6 DEF LeaveWait, WaitsAgain
  <2>7. ASSUME NEW p \in Procs, DecodeAnswer(p) PROVE TypeOK'
    <3>1. CASE status[p] # "ERROR" /\ ~Decodable(payload[p])
      <4>1. [req |-> call[p], out |-> "thrown", data |-> "own"] \in Answers
        BY AnswerType, FateType
      <4>2. /\ pc' = [pc EXCEPT ![p] = "user"]
            /\ answer' = [answer EXCEPT ![p] =
                           [req |-> call[p], out |-> "thrown", data |-> "own"]]
            /\ UNCHANGED <<call, got, status, payload, host, served, strayed>>
        BY <2>7, <3>1 DEF DecodeAnswer, Finish, Decodable
      <4> QED
        BY <4>1, <4>2
    <3>2. CASE ~(status[p] # "ERROR" /\ ~Decodable(payload[p]))
      <4> DEFINE x == IF status[p] = "ERROR"
                      THEN [of |-> payload[p].of, out |-> "err", data |-> "own"]
                      ELSE [of |-> payload[p].of, out |-> "ok", data |-> payload[p].data]
      <4>1. x \in Results
        BY ResultType, PayloadType, FateType DEF Outcomes
      <4>2. /\ pc' = [pc EXCEPT ![p] = "reset"]
            /\ got' = [got EXCEPT ![p] = x]
            /\ UNCHANGED <<call, answer, status, payload, host, served, strayed>>
        BY <2>7, <3>2 DEF DecodeAnswer, Decodable
      <4> QED
        BY <4>1, <4>2
    <3> QED
      BY <3>1, <3>2
  <2>8. ASSUME NEW p \in Procs, ResetStatus(p) PROVE TypeOK'
    BY <2>8, ResultType DEF ResetStatus, Finish, Answers, Statuses, Outcomes
  <2>9. ASSUME NEW p \in Procs, WaitTimesOut(p) PROVE TypeOK'
    BY <2>9 DEF WaitTimesOut
  <2>10. ASSUME NEW p \in Procs, Tick(p) PROVE TypeOK'
    BY <2>10, HostIdleType DEF Tick, HostPCs
  <2>11. ASSUME NEW p \in Procs, DecodeRequest(p) PROVE TypeOK'
    BY <2>11, PayloadType DEF DecodeRequest, HostPCs, Outcomes
  <2>12. ASSUME NEW p \in Procs, Dispatch(p) PROVE TypeOK'
    <3>1. PICK out \in {"ok", "err"} :
             /\ host' = [host EXCEPT !.at = "encode", !.out = out]
             /\ served' = [served EXCEPT ![p] =
                             Append(@, [of |-> Meant(host.meta), out |-> out,
                                        data |-> host.meta.data])]
      BY <2>12 DEF Dispatch
    <3>2. [of |-> Meant(host.meta), out |-> out, data |-> host.meta.data] \in Results
      BY ResultType, PayloadType DEF Outcomes
    <3>3. host' \in [at : HostPCs, proc : Procs, meta : Payloads, out : Outcomes]
      BY <3>1 DEF HostPCs, Outcomes
    <3>4. served' \in [Procs -> Seq(Results)]
      BY <3>1, <3>2
    <3> QED
      BY <2>12, <3>3, <3>4 DEF Dispatch
  <2>13. ASSUME NEW p \in Procs, EncodeAnswer(p) PROVE TypeOK'
    <3>1. payload' \in [Procs -> Payloads]
      <4>1. PICK d \in Fates :
              \E m \in {Torn, Clobbered, Reply(Meant(host.meta), d)} :
                 payload' = [payload EXCEPT ![p] = m]
        BY <2>13, FateType DEF EncodeAnswer, Replied
      <4>2. host.meta \in Payloads
        OBVIOUS
      <4>3. Reply(Meant(host.meta), d) \in Payloads
        BY <4>2, PayloadType
      <4>4. \A m \in {Torn, Clobbered, Reply(Meant(host.meta), d)} : m \in Payloads
        BY <4>3, PayloadType
      <4> QED
        BY <4>1, <4>4
    <3>2. host' \in [at : HostPCs, proc : Procs, meta : Payloads, out : Outcomes]
      BY <2>13, HostIdleType DEF EncodeAnswer, HostPCs
    <3> QED
      BY <2>13, <3>1, <3>2 DEF EncodeAnswer
  <2>14. ASSUME NEW p \in Procs, PublishAnswer(p) PROVE TypeOK'
    BY <2>14, HostIdleType DEF PublishAnswer, HostPCs, Statuses, Notified, StatusFor
  <2>15. ASSUME NEW p \in Procs, NotifyWorker(p) PROVE TypeOK'
    BY <2>15, HostIdleType DEF NotifyWorker, Notified
  <2> QED
    BY <2>1, <2>2, <2>3, <2>4, <2>5, <2>6, <2>7, <2>8, <2>9, <2>10, <2>11, <2>12,
       <2>13, <2>14, <2>15 DEF Next, Worker, HostTask
<1> QED
  BY <1>1, <1>2, PTL DEF Spec

\* A program can type-check at every moment and still share its buffer badly:
\* the turns are kept, whether or not answers fit, by every process that no late
\* notify has woken.
THEOREM DisciplineHolds == Spec => []Discipline
<1>1. Init => TurnsKept
  BY HostIdleType DEF Init, TurnsKept, Turns, Serving, HostAt
<1>2. TypeOK /\ TurnsKept /\ [Next]_vars => TurnsKept'
  <2> SUFFICES ASSUME TypeOK, TurnsKept, [Next]_vars, NEW q \in Procs, q \notin strayed'
               PROVE  Turns(q)'
    BY DEF TurnsKept
  <2> USE DEF TypeOK, TurnsKept, Turns, Serving, Goto, HostAt
  <2>1. CASE UNCHANGED vars
    BY <2>1 DEF vars
  <2>2. ASSUME NEW p \in Procs, NEW r \in Reqs, Call(p, r) PROVE Turns(q)'
    BY <2>2 DEF Call
  <2>3. ASSUME NEW p \in Procs, EncodeRequest(p) PROVE Turns(q)'
    BY <2>3 DEF EncodeRequest, Finish
  <2>4. ASSUME NEW p \in Procs, PostRequest(p) PROVE Turns(q)'
    BY <2>4 DEF PostRequest
  <2>5. ASSUME NEW p \in Procs, WaitForAnswer(p) PROVE Turns(q)'
    BY <2>5 DEF WaitForAnswer
  <2>6. ASSUME NEW p \in Procs, LeaveWait(p) PROVE Turns(q)'
    BY <2>6 DEF LeaveWait, WaitsAgain
  <2>7. ASSUME NEW p \in Procs, DecodeAnswer(p) PROVE Turns(q)'
    BY <2>7 DEF DecodeAnswer, Finish
  <2>8. ASSUME NEW p \in Procs, ResetStatus(p) PROVE Turns(q)'
    BY <2>8 DEF ResetStatus, Finish
  <2>9. ASSUME NEW p \in Procs, WaitTimesOut(p) PROVE Turns(q)'
    BY <2>9 DEF WaitTimesOut
  <2>10. ASSUME NEW p \in Procs, Tick(p) PROVE Turns(q)'
    BY <2>10, HostIdleType DEF Tick
  <2>11. ASSUME NEW p \in Procs, DecodeRequest(p) PROVE Turns(q)'
    BY <2>11 DEF DecodeRequest
  <2>12. ASSUME NEW p \in Procs, Dispatch(p) PROVE Turns(q)'
    BY <2>12 DEF Dispatch
  <2>13. ASSUME NEW p \in Procs, EncodeAnswer(p) PROVE Turns(q)'
    BY <2>13, HostIdleType DEF EncodeAnswer
  <2>14. ASSUME NEW p \in Procs, PublishAnswer(p) PROVE Turns(q)'
    BY <2>14, HostIdleType DEF PublishAnswer, Notified, StatusFor
  <2>15. ASSUME NEW p \in Procs, NotifyWorker(p) PROVE Turns(q)'
    BY <2>15, HostIdleType DEF NotifyWorker, Notified
  <2> QED
    BY <2>1, <2>2, <2>3, <2>4, <2>5, <2>6, <2>7, <2>8, <2>9, <2>10, <2>11, <2>12,
       <2>13, <2>14, <2>15 DEF Next, Worker, HostTask
<1> QED
  BY <1>1, <1>2, TypeCorrect, PTL DEF Spec, Discipline

\* Worker and main thread never touch a payload area at the same time, and a
\* worker leaves its wait only when its request is answered, unless a late
\* notify has woken it.
THEOREM BufferInTurns == Spec => []TurnsAlternate
<1>1. Discipline => TurnsAlternate
  BY DEF Discipline, TurnsKept, Turns, TypeOK, WorkerPCs, TurnsAlternate, SingleOwner,
     LeavesAnswered, Serving
<1> QED
  BY <1>1, DisciplineHolds, PTL

\* A sleeping worker whose answer is there is about to be notified, even when
\* the main thread may be preempted between store and notify.
THEOREM WakeupsAreKept == Spec => []NoLostWakeup
<1>1. Init => NoLostWakeup
  BY DEF Init, NoLostWakeup
<1>2. TypeOK /\ NoLostWakeup /\ [Next]_vars => NoLostWakeup'
  <2> SUFFICES ASSUME TypeOK, NoLostWakeup, [Next]_vars, NEW q \in Procs,
                      pc'[q] = "asleep", status'[q] # "REQUEST"
               PROVE  HostAt(q, "notify")'
    BY DEF NoLostWakeup
  <2> USE DEF TypeOK, NoLostWakeup, HostAt, Goto
  <2>1. CASE UNCHANGED vars
    BY <2>1 DEF vars
  <2>2. ASSUME NEW p \in Procs, Worker(p) \/ WaitTimesOut(p) \/ (\E r \in Reqs : Call(p, r))
        PROVE  HostAt(q, "notify")'
    <3>1. pc'[q] = "asleep" /\ status[q] = "REQUEST" => status'[q] = "REQUEST"
      BY <2>2 DEF Worker, EncodeRequest, PostRequest, WaitForAnswer, LeaveWait,
         DecodeAnswer, ResetStatus, WaitTimesOut, Call, Finish
    <3>2. pc[q] # "asleep" => status[q] = "REQUEST"
      BY <2>2 DEF Worker, EncodeRequest, PostRequest, WaitForAnswer, LeaveWait,
         DecodeAnswer, ResetStatus, WaitTimesOut, Call, Finish
    <3>3. UNCHANGED host
      BY <2>2 DEF Worker, EncodeRequest, PostRequest, WaitForAnswer, LeaveWait,
         DecodeAnswer, ResetStatus, WaitTimesOut, Call
    <3> QED
      BY <3>1, <3>2, <3>3
  <2>3. ASSUME NEW p \in Procs, Tick(p) PROVE HostAt(q, "notify")'
    BY <2>3 DEF Tick
  <2>4. ASSUME NEW p \in Procs, DecodeRequest(p) \/ Dispatch(p) \/ EncodeAnswer(p)
        PROVE  HostAt(q, "notify")'
    BY <2>4 DEF DecodeRequest, Dispatch, EncodeAnswer
  <2>5. ASSUME NEW p \in Procs, PublishAnswer(p) PROVE HostAt(q, "notify")'
    BY <2>5 DEF PublishAnswer, Notified
  <2>6. ASSUME NEW p \in Procs, NotifyWorker(p) PROVE HostAt(q, "notify")'
    BY <2>6 DEF NotifyWorker, Notified
  <2> QED
    BY <2>1, <2>2, <2>3, <2>4, <2>5, <2>6 DEF Next, HostTask
<1> QED
  BY <1>1, <1>2, TypeCorrect, PTL DEF Spec

-----------------------------------------------------------------------------
\* What concerns q stays as it is in a step that is not about q.
LEMMA Frame ==
  ASSUME NEW q \in Procs, TypeOK, TypeOK', Exchange(q),
         pc'[q] = pc[q], call'[q] = call[q], got'[q] = got[q], status'[q] = status[q],
         payload'[q] = payload[q], served'[q] = served[q],
         host' = host \/ (~Serving(q) /\ ~Serving(q)')
  PROVE  Exchange(q)'
BY DEF TypeOK, Exchange, Pending, Remains, Encoding, Publishing, Executed, ExecutedAgain,
   Done, Lost, Answered, Received, Serving, HostAt, IsRequest, IsReply, Sent, Back

\* What a message that fits holds.
LEMMA Held ==
  /\ \A r, d : Meant(Request(r, d)) = r /\ Request(r, d).data = d /\ Decodable(Request(r, d))
  /\ \A r, d : Reply(r, d).of = r /\ Reply(r, d).data = d /\ Decodable(Reply(r, d))
  /\ \A r, d : Request(r, d).kind = "request" /\ Torn.kind = "torn" /\ Clobbered.kind = "clobbered"
  /\ ~Decodable(Torn) /\ Meant(Torn) = NoReq /\ Meant(Clobbered) = NoReq
  /\ Clobbered.data = "own"
BY DEF Meant, Request, Reply, Torn, Clobbered, Decodable

\* One step of the exchange.
LEMMA ExchangeStep ==
  ASSUME Discipline, Discipline', Exchanges, [Next]_vars
  PROVE  Exchanges'
<1> SUFFICES ASSUME NEW q \in Procs, q \notin strayed' PROVE Exchange(q)'
  BY DEF Exchanges
<1>0. q \notin strayed /\ Exchange(q) /\ Turns(q) /\ Turns(q)'
  <2>1. strayed \subseteq strayed'
    BY DEF Next, vars, Worker, EncodeRequest, PostRequest, WaitForAnswer, LeaveWait,
       DecodeAnswer, ResetStatus, WaitTimesOut, Call, Tick, HostTask,
       DecodeRequest, Dispatch, EncodeAnswer, PublishAnswer, NotifyWorker
  <2> QED
    BY <2>1 DEF Exchanges, Discipline, TurnsKept
<1> USE DEF Discipline
<1>1. CASE UNCHANGED vars
  BY <1>0, <1>1, Frame DEF vars
<1>2. ASSUME NEW p \in Procs, p # q,
             Worker(p) \/ WaitTimesOut(p) \/ Tick(p) \/ HostTask(p) \/ (\E r \in Reqs : Call(p, r))
      PROVE  Exchange(q)'
  <2>1. /\ pc'[q] = pc[q] /\ call'[q] = call[q] /\ got'[q] = got[q]
        /\ status'[q] = status[q] /\ payload'[q] = payload[q] /\ served'[q] = served[q]
    BY <1>2 DEF TypeOK, Worker, EncodeRequest, PostRequest, WaitForAnswer, LeaveWait,
       DecodeAnswer, ResetStatus, WaitTimesOut, Call, Finish, Goto, Tick, HostTask,
       DecodeRequest, Dispatch, EncodeAnswer, PublishAnswer, NotifyWorker, Notified
  <2>2. host' = host \/ (~Serving(q) /\ ~Serving(q)')
    BY <1>2, HostIdleType DEF TypeOK, Worker, EncodeRequest, PostRequest, WaitForAnswer, LeaveWait,
       DecodeAnswer, ResetStatus, WaitTimesOut, Call, Tick, HostTask, HostAt, Serving,
       DecodeRequest, Dispatch, EncodeAnswer, PublishAnswer, NotifyWorker
  <2> QED
    BY <1>0, <2>1, <2>2, Frame
<1> DEFINE AsBefore == /\ call'[q] = call[q] /\ served'[q] = served[q]
<1>3. ASSUME AsBefore
      PROVE  /\ Sent(q)' = Sent(q) /\ \A o : Back(q, o)' = Back(q, o)
             /\ \A o : Executed(q, o)' <=> Executed(q, o)
             /\ \A o : Done(q, o)' <=> Done(q, o)
             /\ Lost(q)' <=> Lost(q)
             /\ \A o, m : IsRequest(q, m) => IsRequest(q, m)'
             /\ \A o, m : IsReply(q, o, m) => IsReply(q, o, m)'
             /\ payload'[q] = payload[q] => (Pending(q)' <=> Pending(q))
                                            /\ (Remains(q)' <=> Remains(q))
                                            /\ (status'[q] = status[q] => (Answered(q)' <=> Answered(q)))
             /\ got'[q] = got[q] => (Received(q)' <=> Received(q))
  BY <1>3 DEF Sent, Back, Executed, Done, Lost, ExecutedAgain, IsRequest, IsReply, Pending,
     Remains, Answered, Received
<1> HIDE DEF AsBefore
<1> USE DEF TypeOK, Exchange, Turns, Serving, HostAt, Goto
<1>4. ASSUME NEW r \in Reqs, Call(q, r) PROVE Exchange(q)'
  BY <1>0, <1>4 DEF Call
<1>5. CASE EncodeRequest(q)
  <2>1. CASE call[q] \in Oversize
    BY <1>0, <1>5, <2>1 DEF EncodeRequest, Finish
  <2>2. CASE call[q] \notin Oversize
    <3>1. PICK d \in Found(call[q], Writes, Sends, payload[q]) :
            payload' = [payload EXCEPT ![q] = Request(call[q], d)]
      BY <1>5, <2>2 DEF EncodeRequest
    <3>2. /\ pc' = [pc EXCEPT ![q] = "post"] /\ pc[q] = "encode"
          /\ UNCHANGED <<answer, call, got, status, host, served, strayed>>
      BY <1>5, <2>2 DEF EncodeRequest
    <3>3. Pending(q)'
      BY <1>0, <3>1, <3>2, FateType DEF Pending, IsRequest, Sent
    <3> QED
      BY <1>0, <3>2, <3>3
  <2> QED
    BY <2>1, <2>2
<1>6. CASE PostRequest(q)
  <2>1. AsBefore /\ payload' = payload /\ got' = got
    BY <1>6 DEF PostRequest, AsBefore
  <2> QED
    BY <1>0, <1>3, <1>6, <2>1 DEF PostRequest
<1>7. CASE WaitForAnswer(q) \/ WaitTimesOut(q) \/ LeaveWait(q)
  <2>1. AsBefore /\ payload' = payload /\ got' = got /\ status' = status /\ host' = host
    BY <1>7 DEF WaitForAnswer, WaitTimesOut, LeaveWait, AsBefore
  <2>2. /\ host'.at = "encode" => (Encoding(q)' <=> Encoding(q))
        /\ Publishing(q)' <=> Publishing(q)
    BY <1>3, <2>1 DEF Encoding, Publishing, AsBefore, IsRequest, IsReply, Sent, Back
  <2> QED
    BY <1>0, <1>3, <1>7, <2>1, <2>2 DEF WaitForAnswer, WaitTimesOut, LeaveWait, WaitsAgain
<1>8. CASE DecodeAnswer(q)
  <2>1. AsBefore /\ payload' = payload /\ status' = status /\ host' = host /\ pc[q] = "decode"
    BY <1>8 DEF DecodeAnswer, AsBefore
  <2>2. Answered(q) /\ status[q] # "REQUEST"
    BY <1>0, <2>1
  <2>3. CASE status[q] # "ERROR" /\ ~Decodable(payload[q])
    BY <1>0, <1>3, <1>8, <2>1, <2>3 DEF DecodeAnswer, Finish
  <2>4. CASE status[q] = "ERROR"
    <3>1. /\ got'[q] = [of |-> payload[q].of, out |-> "err", data |-> "own"]
          /\ pc' = [pc EXCEPT ![q] = "reset"]
      BY <1>8, <2>4 DEF DecodeAnswer
    <3>2. \/ payload[q].of = call[q] /\ Done(q, "err")
          \/ Lost(q)
      BY <2>2, <2>4, Held DEF Answered, IsReply
    <3>3. Received(q)'
      BY <1>3, <2>1, <3>1, <3>2, FateType DEF Received, Back, AsBefore
    <3> QED
      BY <1>0, <2>1, <2>2, <3>1, <3>3 DEF AsBefore
  <2>5. CASE status[q] # "ERROR" /\ Decodable(payload[q])
    <3>1. /\ got'[q] = [of |-> payload[q].of, out |-> "ok", data |-> payload[q].data]
          /\ pc' = [pc EXCEPT ![q] = "reset"]
      BY <1>8, <2>5 DEF DecodeAnswer
    <3>2. payload[q].of = call[q] /\ Done(q, "ok") /\ payload[q].data \in Back(q, "ok")
      BY <2>2, <2>5, Held DEF Answered, IsReply
    <3>3. Received(q)'
      BY <1>3, <2>1, <3>1, <3>2 DEF Received, AsBefore
    <3> QED
      BY <1>0, <2>1, <2>2, <3>1, <3>3 DEF AsBefore
  <2> QED
    BY <2>3, <2>4, <2>5
<1>9. CASE ResetStatus(q)
  BY <1>0, <1>9 DEF ResetStatus, Finish
<1>10. CASE Tick(q)
  <2>1. AsBefore /\ payload' = payload /\ got' = got /\ status' = status /\ pc' = pc
    BY <1>10 DEF Tick, AsBefore
  <2>2. host.at = "idle" /\ host'.at = "decode"
    BY <1>10, HostIdleType DEF Tick
  <2> QED
    BY <1>0, <1>3, <2>1, <2>2 DEF AsBefore
<1>11. CASE DecodeRequest(q)
  <2>1. (Pending(q) \/ Remains(q)) /\ pc[q] \in {"wait", "asleep", "timedOut"}
        /\ status[q] = "REQUEST"
    BY <1>0, <1>11 DEF DecodeRequest, WorkerPCs
  <2>2. AsBefore /\ UNCHANGED <<pc, call, got, answer, status, payload, served>>
    BY <1>11 DEF DecodeRequest, AsBefore
  <2>3. CASE Decodable(payload[q])
    <3>1. host' = [host EXCEPT !.at = "dispatch", !.meta = payload[q]]
      BY <1>11, <2>3 DEF DecodeRequest
    <3>2. host'.at = "dispatch" /\ host'.meta = payload'[q]
      BY <2>2, <3>1
    <3>3. Pending(q)' \/ Remains(q)'
      BY <1>3, <2>1, <2>2
    <3>4. Decodable(payload'[q])
      BY <2>2, <2>3
    <3> QED
      BY <1>0, <2>1, <2>2, <3>2, <3>3, <3>4 DEF AsBefore
  <2>4. CASE ~Decodable(payload[q])
    <3>1. host' = [host EXCEPT !.at = "encode", !.meta = Torn, !.out = "err"]
      BY <1>11, <2>4 DEF DecodeRequest
    <3>2. Lost(q)
      BY <2>1, <2>4, Held DEF Decodable, Clobbered, Lossy, Pending, Remains, IsRequest, Lost
    <3>3. Encoding(q)'
      BY <1>3, <2>2, <3>1, <3>2 DEF Encoding
    <3>4. host'.at = "encode" /\ host'.proc = q
      BY <1>11, <3>1 DEF DecodeRequest
    <3> QED
      BY <1>0, <2>1, <2>2, <3>3, <3>4 DEF AsBefore
  <2> QED
    BY <2>3, <2>4
<1>12. CASE Dispatch(q)
  <2>1. /\ (Pending(q) \/ Remains(q)) /\ pc[q] \in {"wait", "asleep", "timedOut"}
        /\ host.meta = payload[q] /\ Decodable(payload[q]) /\ status[q] = "REQUEST"
    BY <1>0, <1>12 DEF Dispatch, WorkerPCs
  <2>2. PICK out \in {"ok", "err"} :
          /\ host' = [host EXCEPT !.at = "encode", !.out = out]
          /\ served' = [served EXCEPT ![q] = Append(@, [of |-> Meant(host.meta), out |-> out,
                                                        data |-> host.meta.data])]
          /\ host.meta.kind = "clobbered" => out = "err"
    BY <1>12 DEF Dispatch
  <2>3. UNCHANGED <<pc, call, got, answer, status, payload>>
    BY <1>12 DEF Dispatch
  <2>4. CASE Pending(q)
    <3>1. PICK d \in Sent(q) : host.meta = Request(call[q], d)
      BY <2>1, <2>4 DEF Pending, IsRequest
    <3>2. served'[q] = << [of |-> call[q], out |-> out, data |-> d] >>
      BY <2>2, <2>4, <3>1, Held DEF Pending
    <3>3. Encoding(q)'
      BY <2>2, <2>3, <3>1, <3>2 DEF Encoding, IsRequest, Executed, Sent
    <3>4. host'.at = "encode" /\ host'.proc = q
      BY <1>12, <2>2 DEF Dispatch
    <3> QED
      BY <1>0, <2>1, <2>3, <3>3, <3>4
  <2>5. CASE Remains(q)
    <3>1. payload[q] = Clobbered /\ call[q] \in Lossy /\ Meant(host.meta) = NoReq /\ out = "err"
          /\ host.meta.data = "own"
      BY <2>1, <2>2, <2>5, Held DEF Lossy, Remains
    <3>2. ExecutedAgain(q)'
      <4>1. served'[q] = Append(served[q], [of |-> NoReq, out |-> "err", data |-> "own"])
        BY <2>2, <3>1
      <4>2. PICK d \in Sent(q) : served[q] = << [of |-> call[q], out |-> "ok", data |-> d] >>
        BY <2>5 DEF Remains, Executed
      <4>3. served'[q] = << [of |-> call[q], out |-> "ok", data |-> d],
                            [of |-> NoReq, out |-> "err", data |-> "own"] >>
        BY <4>1, <4>2, AppendTwo
      <4> QED
        BY <2>3, <4>3 DEF ExecutedAgain, Sent
    <3>3. Encoding(q)'
      BY <2>1, <2>2, <2>3, <3>1, <3>2 DEF Lost, Encoding
    <3>4. host'.at = "encode" /\ host'.proc = q
      BY <1>12, <2>2 DEF Dispatch
    <3> QED
      BY <1>0, <2>1, <2>3, <3>3, <3>4
  <2> QED
    BY <2>1, <2>4, <2>5
<1>13. CASE EncodeAnswer(q)
  <2>1. Encoding(q) /\ pc[q] \in {"wait", "asleep", "timedOut"} /\ status[q] = "REQUEST"
    BY <1>0, <1>13 DEF EncodeAnswer, WorkerPCs
  <2>2. AsBefore /\ UNCHANGED <<pc, call, got, answer, status, served>> /\ HostAt(q, "encode")
    BY <1>13 DEF EncodeAnswer, AsBefore
  <2>3. CASE Overflows(Meant(host.meta), host.out, Lossy)
    <3>1. Meant(host.meta) = call[q] /\ Executed(q, "ok")
      BY <2>1, <2>3, Held DEF Overflows, Encoding, IsRequest
    <3>2. host' = HostIdle /\ Remains(q)'
      <4>1. CASE call[q] \in TextOverflow
        BY <1>3, <1>13, <2>2, <2>3, <3>1, <4>1 DEF EncodeAnswer, Overflows, Remains
      <4>2. CASE call[q] \notin TextOverflow
        BY <1>3, <1>13, <2>2, <2>3, <3>1, <4>2 DEF EncodeAnswer, Overflows, Lossy, Remains
      <4> QED
        BY <4>1, <4>2
    <3>3. host'.at = "idle"
      BY <3>2, HostIdleType
    <3> QED
      BY <1>0, <2>1, <2>2, <3>2, <3>3 DEF AsBefore
  <2>4. CASE ~Overflows(Meant(host.meta), host.out, Lossy)
    <3>1. PICK d \in Replied(Meant(host.meta), host.out, payload[q]) :
            /\ payload' = [payload EXCEPT ![q] = Reply(Meant(host.meta), d)]
            /\ host' = [host EXCEPT !.at = "publish"]
      BY <1>13, <2>4 DEF EncodeAnswer, Overflows, Lossy
    <3>2. Publishing(q)'
      <4>1. CASE IsRequest(q, host.meta) /\ Executed(q, host.out)
        <5>1. Meant(host.meta) = call[q]
          BY <4>1, Held DEF IsRequest
        <5>2. d \in Back(q, host.out)
          BY <3>1, <5>1, FateType DEF Replied, Back
        <5>3. IsReply(q, host.out, payload[q])'
          BY <1>3, <2>2, <3>1, <5>1, <5>2 DEF IsReply
        <5>4. Done(q, host.out)
          BY <2>4, <4>1, <5>1 DEF Done, Overflows
        <5> QED
          BY <1>3, <2>2, <3>1, <5>3, <5>4 DEF Publishing
      <4>2. CASE host.meta \in {Torn, Clobbered} /\ host.out = "err" /\ Lost(q)
        <5>1. Meant(host.meta) = NoReq /\ d = "own"
          BY <3>1, <4>2, Held, FateType DEF Replied
        <5> QED
          BY <1>3, <2>2, <3>1, <4>2, <5>1 DEF Publishing
      <4> QED
        BY <2>1, <4>1, <4>2 DEF Encoding
    <3>3. host'.at = "publish" /\ host'.proc = q
      BY <2>2, <3>1
    <3> QED
      BY <1>0, <2>1, <2>2, <3>2, <3>3 DEF AsBefore
  <2> QED
    BY <2>3, <2>4
<1>14. CASE PublishAnswer(q)
  <2>1. AsBefore /\ payload' = payload /\ got' = got /\ HostAt(q, "publish")
    BY <1>14 DEF PublishAnswer, AsBefore
  <2>2. Publishing(q) /\ pc[q] \in {"wait", "asleep", "timedOut"} /\ status[q] = "REQUEST"
    BY <1>0, <2>1 DEF WorkerPCs
  <2>3. status'[q] = IF host.out = "ok" THEN "RESPONSE" ELSE "ERROR"
    BY <1>14 DEF PublishAnswer, StatusFor
  <2>4. host.out \in {"ok", "err"}
    BY <2>2 DEF Publishing, Done, Executed
  <2>5. Answered(q)'
    BY <1>3, <2>1, <2>2, <2>3, <2>4 DEF Publishing, Answered
  <2>6. /\ pc'[q] \in {"wait", "asleep", "timedOut", "woken"}
        /\ host'.at \in {"idle", "notify"} /\ call'[q] = call[q]
    BY <1>14, <2>2, HostIdleType DEF PublishAnswer, Notified
  <2> QED
    BY <1>0, <2>2, <2>3, <2>5, <2>6
<1>15. CASE NotifyWorker(q)
  <2>1. AsBefore /\ payload' = payload /\ got' = got /\ status' = status /\ host.at = "notify"
    BY <1>15 DEF NotifyWorker, AsBefore
  <2>2. ~(pc[q] = "asleep" /\ status[q] = "REQUEST")
    BY <1>15 DEF NotifyWorker
  <2>3. /\ pc'[q] = IF pc[q] = "asleep" THEN "woken" ELSE pc[q]
        /\ host'.at = "idle" /\ call'[q] = call[q]
    BY <1>15, HostIdleType DEF NotifyWorker, Notified
  <2>4. pc[q] \in {"wait", "asleep", "timedOut", "woken", "decode"} /\ status[q] # "REQUEST"
          => Answered(q)'
    BY <1>0, <1>3, <2>1
  <2>5. pc[q] \in {"wait", "asleep", "timedOut"} /\ status[q] = "REQUEST"
          => Pending(q)' \/ Remains(q)'
    BY <1>0, <1>3, <2>1
  <2>6. /\ pc[q] = "post" => Pending(q)'
        /\ pc[q] = "reset" => Received(q)'
        /\ pc[q] = "encode" => served'[q] = << >>
        /\ pc[q] # "user" => call[q] \in Reqs
    BY <1>0, <1>3, <2>1 DEF AsBefore
  <2>7. status'[q] = status[q]
    BY <2>1
  <2> QED
    BY <2>2, <2>3, <2>4, <2>5, <2>6, <2>7
<1>16. ASSUME NEW p \in Procs,
              Worker(p) \/ WaitTimesOut(p) \/ Tick(p) \/ HostTask(p) \/ (\E r \in Reqs : Call(p, r))
       PROVE  Exchange(q)'
  <2>1. CASE p # q
    BY <1>2, <1>16, <2>1
  <2>2. CASE p = q
    BY <1>4, <1>5, <1>6, <1>7, <1>8, <1>9, <1>10, <1>11, <1>12, <1>13, <1>14,
       <1>15, <1>16, <2>2 DEF Worker, HostTask
  <2> QED
    BY <2>1, <2>2
<1> QED
  BY <1>1, <1>16 DEF Next

\* In every phase of a call the buffer holds what the protocol expects.
THEOREM Inductive == Spec => []IInv
<1>1. Init => Exchanges
  BY HostIdleType DEF Init, Exchanges, Exchange, HostAt
<1>2. Discipline /\ Discipline' /\ Exchanges /\ [Next]_vars => Exchanges'
  BY ExchangeStep
<1> QED
  BY <1>1, <1>2, DisciplineHolds, PTL DEF Spec, IInv

\* The request that lies in the buffer of p when it is dispatched.
LEMMA Dispatched ==
  ASSUME IInv, NEW p \in Procs \ strayed, Dispatch(p)
  PROVE  /\ call[p] \in Reqs /\ (Pending(p) \/ Remains(p))
         /\ host.meta = payload[p] /\ Decodable(payload[p])
         /\ pc[p] \in {"wait", "asleep", "timedOut"} /\ status[p] = "REQUEST"
BY DEF IInv, Discipline, TypeOK, Dispatch, HostAt, TurnsKept, Turns, Serving, WorkerPCs,
   Exchanges, Exchange

\* What the dispatcher has done for p since its call began: its request at most
\* once, and first.
Served(p) ==
  /\ NeverExecutedTwice(p)
  /\ served[p] # << >> => served[p][1].data \in Sent(p)

\* No request is dispatched twice: what is left of an answer that does not fit
\* is never taken for the request again.
THEOREM ServedOnce == Spec => [](\A p \in Procs \ strayed : Served(p))
<1> DEFINE AllServed == \A p \in Procs \ strayed : Served(p)
<1>1. Init => AllServed
  <2> SUFFICES ASSUME Init, NEW p \in Procs PROVE Served(p)
    OBVIOUS
  <2>1. served[p] = << >> /\ DOMAIN served[p] = {}
    BY DEF Init
  <2> QED
    BY <2>1 DEF Served, NeverExecutedTwice
<1>2. IInv /\ AllServed /\ [Next]_vars => AllServed'
  <2> SUFFICES ASSUME IInv, AllServed, [Next]_vars, NEW q \in Procs, q \notin strayed'
               PROVE  Served(q)'
    OBVIOUS
  <2>0. q \notin strayed /\ Served(q)
    <3>1. strayed \subseteq strayed'
      BY DEF Next, vars, Worker, EncodeRequest, PostRequest, WaitForAnswer, LeaveWait,
         DecodeAnswer, ResetStatus, WaitTimesOut, Call, Tick, HostTask,
         DecodeRequest, Dispatch, EncodeAnswer, PublishAnswer, NotifyWorker
    <3> QED
      BY <3>1
  <2> HIDE DEF AllServed
  <2> USE DEF IInv, Discipline, TypeOK
  <2>1. CASE served'[q] = served[q] /\ call'[q] = call[q]
    BY <2>0, <2>1 DEF Served, NeverExecutedTwice, Sent
  <2>2. CASE served'[q] = << >>
    BY <2>2 DEF Served, NeverExecutedTwice
  <2>3. ASSUME NEW p \in Procs, Dispatch(p) PROVE Served(q)'
    <3>1. PICK out \in {"ok", "err"} :
            served' = [served EXCEPT ![p] = Append(@, [of |-> Meant(host.meta), out |-> out,
                                                       data |-> host.meta.data])]
      BY <2>3 DEF Dispatch
    <3>2. UNCHANGED call
      BY <2>3 DEF Dispatch
    <3>3. CASE p # q
      BY <2>1, <3>1, <3>2, <3>3
    <3>4. CASE p = q /\ Pending(q)
      <4>1. PICK d \in Sent(q) : host.meta = Request(call[q], d)
        BY <2>0, <2>3, <3>4, Dispatched DEF Pending, IsRequest
      <4>2. served'[q] = << [of |-> call[q], out |-> out, data |-> d] >>
        BY <3>1, <3>4, <4>1, Held DEF Pending
      <4>3. served'[q][1].data = d /\ DOMAIN served'[q] = {1}
        BY <4>2
      <4> QED
        BY <3>2, <4>3 DEF Served, NeverExecutedTwice, Sent
    <3>5. CASE p = q /\ Remains(q)
      <4>1. /\ Meant(host.meta) = NoReq /\ call[q] \in Reqs
        BY <2>0, <2>3, <3>5, Dispatched, Held DEF Remains
      <4>2. PICK d \in Sent(q) : served[q] = << [of |-> call[q], out |-> "ok", data |-> d] >>
        BY <3>5 DEF Remains, Executed
      <4> DEFINE x == [of |-> call[q], out |-> "ok", data |-> d]
                 y == [of |-> NoReq, out |-> out, data |-> host.meta.data]
      <4>3. served'[q] = << x, y >>
        BY <3>1, <3>5, <4>1, <4>2, AppendTwo
      <4>4. /\ DOMAIN served'[q] = {1, 2} /\ served'[q][1] = x /\ served'[q][2] = y
        BY <4>3
      <4>5. x.of = call[q] /\ x.data = d /\ y.of # call[q]
        BY <4>1, RequestAssumption
      <4> HIDE DEF x, y
      <4>6. served'[q][1].data \in Sent(q)'
        BY <3>2, <4>2, <4>4, <4>5 DEF Sent
      <4>7. NeverExecutedTwice(q)'
        BY <3>2, <4>4, <4>5 DEF NeverExecutedTwice
      <4> QED
        BY <4>6, <4>7 DEF Served
    <3> QED
      BY <2>0, <2>3, <3>3, <3>4, <3>5, Dispatched
  <2>4. ASSUME NEW p \in Procs, NEW r \in Reqs, Call(p, r) PROVE Served(q)'
    BY <2>1, <2>2, <2>4 DEF Call
  <2>5. ASSUME NEW p \in Procs,
               Worker(p) \/ WaitTimesOut(p) \/ Tick(p) \/ DecodeRequest(p) \/ EncodeAnswer(p)
                 \/ PublishAnswer(p) \/ NotifyWorker(p)
        PROVE  Served(q)'
    BY <2>1, <2>5 DEF Worker, EncodeRequest, PostRequest, WaitForAnswer, LeaveWait,
       DecodeAnswer, ResetStatus, WaitTimesOut, Tick, DecodeRequest, EncodeAnswer,
       PublishAnswer, NotifyWorker
  <2>6. CASE UNCHANGED vars
    BY <2>1, <2>6 DEF vars
  <2> QED
    BY <2>3, <2>4, <2>5, <2>6 DEF Next, HostTask
<1> QED
  BY <1>1, <1>2, Inductive, PTL DEF Spec

\* A call returns the outcome of its own request, executed exactly once, and
\* works on its own data, except where none is sent or it fills the area: in
\* every build, for every process no late notify has woken.
THEOREM CallsOnce == Spec => []CallsExecutedOnce
<1> DEFINE AllServed == \A p \in Procs \ strayed : Served(p)
<1>1. IInv /\ AllServed => CallsExecutedOnce
  <2> SUFFICES ASSUME IInv, AllServed, NEW p \in Procs \ strayed
               PROVE  OwnAnswer(p) /\ DataIsOwn(p) /\ NeverExecutedTwice(p)
    BY DEF CallsExecutedOnce
  <2>1. Exchange(p) /\ Served(p)
    BY DEF IInv, Exchanges
  <2> HIDE DEF AllServed
  <2>2. OwnAnswer(p)
    <3> SUFFICES ASSUME pc[p] = "reset" PROVE OwnAnswer(p)
      BY DEF OwnAnswer
    <3>1. CASE got[p].of = call[p] /\ Done(p, got[p].out)
      <4>1. PICK d \in Sent(p) : served[p] = << [of |-> call[p], out |-> got[p].out, data |-> d] >>
        BY <3>1 DEF Done, Executed
      <4>2. /\ served[p] # << >> /\ Len(served[p]) = 1
            /\ served[p][1].of = call[p] /\ served[p][1].out = got[p].out
        BY <4>1
      <4> QED
        BY <3>1, <4>2 DEF Done, AnswerLost, OwnAnswer
    <3>2. CASE got[p].out = "err" /\ Lost(p)
      <4>1. served[p] # << >> /\ served[p][1].out = "ok"
        <5>1. CASE Executed(p, "ok")
          BY <5>1 DEF Executed
        <5>2. CASE ExecutedAgain(p)
          BY <5>2 DEF ExecutedAgain
        <5> QED
          BY <3>2, <5>1, <5>2 DEF Lost
      <4> QED
        BY <3>2, <4>1 DEF Lost, AnswerLost, OwnAnswer
    <3> QED
      BY <2>1, <3>1, <3>2 DEF Exchange, Received
  <2>3. DataIsOwn(p)
    <3>1. ASSUME served[p] # << >>, call[p] \notin (Writes \ Sends) \cup Filling
          PROVE  served[p][1].data = "own"
      <4>1. Sent(p) = {"own"}
        BY <3>1 DEF Sent, FateOf
      <4> QED
        BY <2>1, <3>1, <4>1 DEF Served
    <3>2. ASSUME pc[p] = "reset", call[p] \notin (Reads \ Brings) \cup Filling
          PROVE  got[p].data = "own"
      <4>1. \A o : Back(p, o) = {"own"}
        BY <3>2 DEF Back, FateOf
      <4> QED
        BY <2>1, <3>2, <4>1 DEF Exchange, Received
    <3> QED
      BY <3>1, <3>2 DEF DataIsOwn
  <2> QED
    BY <2>1, <2>2, <2>3 DEF Served
<1> QED
  BY <1>1, Inductive, ServedOnce, PTL

-----------------------------------------------------------------------------
\* A step that changes neither program counter class nor history is a stutter.
LEMMA Stutter ==
  ASSUME TypeOK, UNCHANGED <<call, answer, served>>,
         \A p \in Procs : pc[p] = "user" <=> pc'[p] = "user"
  PROVE  UNCHANGED RPC!rpcVars
BY DEF RPC!rpcVars, Phase, OutcomeOf, InputOf

\* With the main thread never preempted before its notify, none comes late.
THEOREM NeverStrayed == ASSUME PromptNotify PROVE Spec => [](strayed = {})
<1>1. Init => strayed = {} /\ host.at # "notify"
  BY HostIdleType DEF Init
<1>2. strayed = {} /\ host.at # "notify" /\ TypeOK /\ [Next]_vars
        => (strayed = {} /\ host.at # "notify")'
  BY HostIdleType DEF TypeOK, vars, Next, Worker, EncodeRequest, PostRequest, WaitForAnswer,
     LeaveWait, DecodeAnswer, ResetStatus, WaitTimesOut, Call, Tick, HostTask, HostAt,
     DecodeRequest, Dispatch, EncodeAnswer, PublishAnswer, NotifyWorker
<1> QED
  BY <1>1, <1>2, TypeCorrect, PTL DEF Spec

\* The bridge implements the abstract remote call, in every execution in which
\* no late notify wakes a worker; what may become of the data of a request and
\* of its answer is part of the abstract call.
THEOREM BridgeImplementsRPC == Spec /\ [](strayed = {}) => ImplementsRPC
<1>1. Init => RPC!Init
  BY DEF Init, RPC!Init, RPC!NoAnswer, NoAnswer, Phase, OutcomeOf, InputOf
<1>2. IInv /\ IInv' /\ strayed = {} /\ (strayed = {})' /\ [Next]_vars => [RPC!Next]_(RPC!rpcVars)
  <2> SUFFICES ASSUME IInv, strayed = {}, [Next]_vars PROVE RPC!Next \/ UNCHANGED RPC!rpcVars
    OBVIOUS
  <2>0. \A p \in Procs : Exchange(p) /\ Turns(p)
    BY DEF IInv, Exchanges, Discipline, TurnsKept
  <2> USE DEF IInv, Discipline, TypeOK, Goto
  <2>1. CASE UNCHANGED vars
    BY <2>1 DEF vars, RPC!rpcVars, Phase, OutcomeOf, InputOf
  <2>2. ASSUME NEW p \in Procs, NEW r \in Reqs, Call(p, r) PROVE RPC!Invoke(p, r)
    BY <2>2 DEF Call, RPC!Invoke, Phase, OutcomeOf, InputOf
  <2>3. ASSUME NEW p \in Procs, EncodeRequest(p)
        PROVE  RPC!Refuse(p) \/ UNCHANGED RPC!rpcVars
    <3>1. pc[p] = "encode" /\ served[p] = << >>
      BY <2>0, <2>3 DEF EncodeRequest, Exchange
    <3>2. CASE call[p] \in Oversize
      BY <2>3, <3>1, <3>2 DEF EncodeRequest, Finish, RPC!Refuse, Phase, OutcomeOf, InputOf
    <3>3. CASE call[p] \notin Oversize
      <4>1. pc' = [pc EXCEPT ![p] = "post"] /\ UNCHANGED <<call, answer, served>>
        BY <2>3, <3>3 DEF EncodeRequest
      <4> QED
        BY <3>1, <4>1, Stutter
    <3> QED
      BY <3>2, <3>3
  <2>4. ASSUME NEW p \in Procs,
               \/ PostRequest(p) \/ WaitForAnswer(p) \/ LeaveWait(p) \/ WaitTimesOut(p)
               \/ Tick(p) \/ DecodeRequest(p) \/ EncodeAnswer(p) \/ PublishAnswer(p)
               \/ NotifyWorker(p)
        PROVE  UNCHANGED RPC!rpcVars
    BY <2>4, Stutter DEF PostRequest, WaitForAnswer, LeaveWait, WaitTimesOut, Tick,
       DecodeRequest, EncodeAnswer, PublishAnswer, NotifyWorker, Notified
  <2>5. ASSUME NEW p \in Procs, DecodeAnswer(p) PROVE UNCHANGED RPC!rpcVars
    <3>1. status[p] = "ERROR" \/ Decodable(payload[p])
      BY <2>0, <2>5, Held DEF DecodeAnswer, Exchange, Answered, IsReply, Turns
    <3>2. /\ pc[p] = "decode" /\ pc' = [pc EXCEPT ![p] = "reset"]
          /\ UNCHANGED <<call, answer, served>>
      BY <2>5, <3>1 DEF DecodeAnswer
    <3> QED
      BY <3>2, Stutter
  <2>6. ASSUME NEW p \in Procs, ResetStatus(p) PROVE RPC!Return(p)
    <3>1. pc[p] = "reset" /\ Received(p)
      BY <2>0, <2>6 DEF ResetStatus, Exchange
    <3> DEFINE out == RPC!Told(call[p], OutcomeOf(p))
    <3>2. /\ served[p] # << >> /\ got[p].out = out
          /\ got[p].data \in IF out = "ok" THEN FateOf(call[p], Reads, Brings) ELSE {"own"}
      <4>1. CASE Done(p, got[p].out) /\ got[p].data \in Back(p, got[p].out)
        <5>1. served[p] # << >> /\ OutcomeOf(p) = got[p].out
          BY <4>1 DEF Done, Executed, OutcomeOf
        <5>2. got[p].out = out /\ got[p].out \in {"ok", "err"}
          BY <4>1, <5>1 DEF Done, Executed, RPC!Told
        <5> QED
          BY <4>1, <5>1, <5>2, FateType DEF Back
      <4>2. CASE got[p].out = "err" /\ got[p].data = "own" /\ Lost(p)
        <5>1. served[p] # << >> /\ call[p] \in Lossy
          <6>1. CASE Executed(p, "ok")
            BY <4>2, <6>1 DEF Lost, Executed
          <6>2. CASE ExecutedAgain(p)
            <7>1. PICK d \in Sent(p) :
                    served[p] = << [of |-> call[p], out |-> "ok", data |-> d],
                                   [of |-> NoReq, out |-> "err", data |-> "own"] >>
              BY <6>2 DEF ExecutedAgain
            <7> QED
              BY <4>2, <7>1, AppendTwo DEF Lost
          <6> QED
            BY <4>2, <6>1, <6>2 DEF Lost
        <5> QED
          BY <4>2, <5>1 DEF RPC!Told
      <4> QED
        BY <3>1, <4>1, <4>2 DEF Received
    <3>3. /\ pc' = [pc EXCEPT ![p] = "user"]
          /\ answer' = [answer EXCEPT ![p] =
                           [req |-> call[p], out |-> got[p].out, data |-> got[p].data]]
          /\ UNCHANGED <<call, served>>
      BY <2>6 DEF ResetStatus, Finish
    <3>4. \A q \in Procs : /\ Phase(q)' = IF q = p THEN "user" ELSE Phase(q)
                           /\ OutcomeOf(q)' = OutcomeOf(q) /\ InputOf(q)' = InputOf(q)
      BY <3>3 DEF Phase, OutcomeOf, InputOf
    <3>5. Phase(p) = "executed" /\ call[p] \in Reqs
      BY <2>0, <3>1, <3>2 DEF Phase, Exchange
    <3>6. FatesIn(Reads, Brings)[call[p]] = FateOf(call[p], Reads, Brings)
      BY <3>5 DEF FatesIn
    <3> HIDE DEF Discipline, out
    <3> QED
      BY <3>2, <3>3, <3>4, <3>5, <3>6 DEF RPC!Return, out
  <2>7. ASSUME NEW p \in Procs, Dispatch(p)
        PROVE  RPC!Execute(p) \/ UNCHANGED RPC!rpcVars
    <3>1. PICK out \in {"ok", "err"} :
            served' = [served EXCEPT ![p] = Append(@, [of |-> Meant(host.meta), out |-> out,
                                                       data |-> host.meta.data])]
      BY <2>7 DEF Dispatch
    <3>2. /\ pc[p] \in {"wait", "asleep", "timedOut"} /\ status[p] = "REQUEST"
          /\ (Pending(p) \/ Remains(p))
          /\ call[p] \in Reqs /\ host.meta = payload[p]
      BY <2>7, Dispatched
    <3>3. UNCHANGED <<pc, call, answer>>
      BY <2>7 DEF Dispatch
    <3>4. CASE Pending(p)
      <4>1. served[p] = << >> /\ Phase(p) = "invoked"
        BY <3>2, <3>4 DEF Pending, Phase
      <4>2. PICK d \in Sent(p) : host.meta = Request(call[p], d)
        BY <3>2, <3>4 DEF Pending, IsRequest
      <4>3. served'[p] = << [of |-> call[p], out |-> out, data |-> d] >>
        BY <3>1, <4>1, <4>2, Held
      <4>4. \A q \in Procs : /\ Phase(q)' = IF q = p THEN "executed" ELSE Phase(q)
                             /\ OutcomeOf(q)' = IF q = p THEN out ELSE OutcomeOf(q)
                             /\ InputOf(q)' = IF q = p THEN d ELSE InputOf(q)
        <5> TAKE q \in Procs
        <5>1. CASE q = p
          <6>1. served'[p] # << >> /\ served'[p][1].out = out /\ served'[p][1].data = d
            BY <4>3
          <6> QED
            BY <3>2, <3>3, <5>1, <6>1 DEF Phase, OutcomeOf, InputOf
        <5>2. CASE q # p
          <6>1. served'[q] = served[q] /\ pc'[q] = pc[q]
            BY <3>1, <3>3, <5>2 DEF Discipline, TypeOK
          <6> QED
            BY <5>2, <6>1 DEF Phase, OutcomeOf, InputOf
        <5> QED
          BY <5>1, <5>2
      <4>5. d \in FatesIn(Writes, Sends)[call[p]]
        BY <3>2 DEF FatesIn, Sent
      <4> HIDE DEF Discipline
      <4> QED
        BY <3>3, <4>1, <4>4, <4>5 DEF RPC!Execute
    <3>5. CASE Remains(p)
      <4>1. PICK d \in Sent(p) : served[p] = << [of |-> call[p], out |-> "ok", data |-> d] >>
        BY <3>5 DEF Remains, Executed
      <4> DEFINE x == [of |-> call[p], out |-> "ok", data |-> d]
                 y == [of |-> Meant(host.meta), out |-> out, data |-> host.meta.data]
      <4>2. served'[p] = << x, y >> /\ served[p] = << x >>
        BY <3>1, <4>1, AppendTwo
      <4>3. \A q \in Procs : /\ Phase(q)' = Phase(q) /\ OutcomeOf(q)' = OutcomeOf(q)
                             /\ InputOf(q)' = InputOf(q)
        <5>1. /\ served[p] # << >> /\ served'[p] # << >>
              /\ served[p][1] = x /\ served'[p][1] = x
          BY <4>2, AppendTwo
        <5>2. \A q \in Procs : q # p => served'[q] = served[q]
          BY <3>1
        <5> QED
          BY <3>3, <5>1, <5>2 DEF Phase, OutcomeOf, InputOf
      <4> QED
        BY <3>3, <4>3 DEF RPC!rpcVars
    <3> QED
      BY <3>2, <3>4, <3>5
  <2> QED
    BY <2>1, <2>2, <2>3, <2>4, <2>5, <2>6, <2>7 DEF Next, Worker, HostTask, RPC!Next
<1> QED
  BY <1>1, <1>2, Inductive, PTL DEF Spec, ImplementsRPC, RPC!Spec

-----------------------------------------------------------------------------
HIDE RequestAssumption

(***************************************************************************)
(* The payload codec.                                                      *)
(***************************************************************************)
\* Two bytes hold every number below Base * Base.
LEMMA WordOfTwo ==
  ASSUME NEW B \in Nat \ {0, 1}, NEW n \in Nat, n < B * B
  PROVE  (n % B) + B * ((n \div B) % B) = n
<1> DEFINE q == n \div B
<1> DEFINE r == n % B
<1>1. q \in Int /\ r \in Int /\ r >= 0 /\ r < B /\ n = B * q + r
  OBVIOUS
<1>2. q >= 0
  <2>1. SUFFICES ASSUME q <= -1 PROVE FALSE
    BY <1>1
  <2>2. B * (q + 1) <= 0
    BY <1>1, <2>1
  <2> QED
    BY <1>1, <2>2
<1>3. q < B
  <2>1. SUFFICES ASSUME q >= B PROVE FALSE
    BY <1>1
  <2>2. B * (q - B) >= 0
    BY <1>1, <2>1
  <2> QED
    BY <1>1, <2>2
<1>4. q % B = q
  BY <1>1, <1>2, <1>3
<1> QED
  BY <1>1, <1>4

\* What TypedArray.set writes: the bytes where they were put, the old ones elsewhere.
LEMMA PutsThere ==
  ASSUME NEW b, NEW at \in Nat, NEW s \in Seq(Bytes), at + Len(s) <= Size
  PROVE  /\ \A i \in Area : i < at \/ i >= at + Len(s) => Put(b, at, s)[i] = b[i]
         /\ \A k \in 1 .. Len(s) : at + k - 1 \in Area /\ Put(b, at, s)[at + k - 1] = s[k]
<1> PICK n \in Nat : n = Len(s)
  OBVIOUS
<1>1. Size \in Nat
  BY CodecAssumption
<1>2. Put(b, at, s) = [i \in Area |-> IF i \in at .. (at + n - 1) THEN s[i - at + 1] ELSE b[i]]
  BY DEF Put
<1>3. ASSUME NEW i \in Area, i < at \/ i >= at + n PROVE Put(b, at, s)[i] = b[i]
  BY <1>1, <1>2, <1>3 DEF Area
<1>4. ASSUME NEW k \in 1 .. n PROVE at + k - 1 \in Area /\ Put(b, at, s)[at + k - 1] = s[k]
  <2>1. at + k - 1 \in Area /\ at + k - 1 \in at .. (at + n - 1) /\ (at + k - 1) - at + 1 = k
    BY <1>1 DEF Area
  <2> QED
    BY <1>2, <2>1
<1> QED
  BY <1>3, <1>4

\* ... as one fact.
Stored(b, at, s) ==
  \A k \in 1 .. Len(s) : at + k - 1 \in Area /\ Put(b, at, s)[at + k - 1] = s[k]

LEMMA PutsStored ==
  ASSUME NEW b, NEW at \in Nat, NEW s \in Seq(Bytes), at + Len(s) <= Size
  PROVE  Stored(b, at, s)
BY PutsThere DEF Stored

\* A word is two bytes.
LEMMA WordIsBytes ==
  ASSUME NEW n \in Nat
  PROVE  /\ WordBytes(n) \in Seq(Bytes) /\ Len(WordBytes(n)) = 2
         /\ WordBytes(n)[1] = n % Base /\ WordBytes(n)[2] = (n \div Base) % Base
<1>1. Base \in Nat \ {0, 1}
  BY CodecAssumption
<1>2. n % Base \in Bytes /\ n \div Base \in Int
  BY <1>1 DEF Bytes
<1>3. (n \div Base) % Base \in Bytes
  BY <1>1, <1>2 DEF Bytes
<1> QED
  BY <1>2, <1>3 DEF WordBytes

\* A word that is put somewhere is there, the low byte first.
LEMMA WordBytesPut ==
  ASSUME NEW b, NEW at \in Nat, at + Word <= Size, NEW n \in Nat
  PROVE  /\ Put(b, at, WordBytes(n))[at] = n % Base
         /\ Put(b, at, WordBytes(n))[at + 1] = (n \div Base) % Base
<1> DEFINE w == WordBytes(n)
<1>1. w[1] = n % Base /\ w[2] = (n \div Base) % Base
  BY WordIsBytes
<1>2. w \in Seq(Bytes) /\ Len(w) = 2
  BY WordIsBytes
<1> HIDE DEF w
<1>3. at + Len(w) <= Size
  BY <1>2 DEF Word
<1>4. \A k \in 1 .. Len(w) : Put(b, at, w)[at + k - 1] = w[k]
  <2>1. w \in Seq(Bytes)
    BY <1>2
  <2> QED
    BY <1>3, <2>1, PutsThere
<1>5. 1 \in 1 .. Len(w) /\ 2 \in 1 .. Len(w) /\ at + 1 - 1 = at /\ at + 2 - 1 = at + 1
  BY <1>2
<1>6. Put(b, at, w)[at] = w[1] /\ Put(b, at, w)[at + 1] = w[2]
  BY <1>4, <1>5
<1> QED
  BY <1>1, <1>6 DEF w

\* ... and is the number that is read there.
LEMMA WordPut ==
  ASSUME NEW b, NEW at \in Nat, at + Word <= Size, NEW n \in Nat, n < Base * Base
  PROVE  WordAt(Put(b, at, WordBytes(n)), at) = n
<1>1. /\ Put(b, at, WordBytes(n))[at] = n % Base
      /\ Put(b, at, WordBytes(n))[at + 1] = (n \div Base) % Base
  BY WordBytesPut
<1>2. Base \in Nat \ {0, 1}
  BY CodecAssumption
<1>3. (n % Base) + Base * ((n \div Base) % Base) = n
  BY <1>2, WordOfTwo
<1> QED
  BY <1>1, <1>3 DEF WordAt

\* A slice of what was put is what was put.
LEMMA SliceOf ==
  ASSUME NEW b, NEW at \in Nat, NEW s \in Seq(Bytes), at + Len(s) <= Size,
         \A k \in 1 .. Len(s) : b[at + k - 1] = s[k]
  PROVE  Slice(b, at, at + Len(s)) = s
<1>1. Size \in Nat /\ Len(s) \in Nat
  BY CodecAssumption
<1>2. PICK n \in Nat : n = Len(s)
  BY <1>1
<1>3. Slice(b, at, at + n) = [i \in 1 .. n |-> b[at + i - 1]]
  <2> DEFINE end == IF at + n < Size THEN at + n ELSE Size
  <2>1. Slice(b, at, at + n) = [i \in 1 .. (IF end > at THEN end - at ELSE 0) |-> b[at + i - 1]]
    BY DEF Slice
  <2>2. end = at + n
    BY <1>1, <1>2
  <2>3. (IF end > at THEN end - at ELSE 0) = n
    BY <1>2, <2>2
  <2> QED
    BY <2>1, <2>3
<1>4. s = [i \in 1 .. n |-> s[i]]
  BY <1>2
<1> QED
  BY <1>2, <1>3, <1>4

\* Metadata that fits is there after it was written, with its length before it.
LEMMA MetadataWritten ==
  ASSUME NEW b, NEW meta \in Texts, RoomFor(Word, meta)
  PROVE  /\ WordAt(WithMeta(b, meta), 0) = Len(meta)
         /\ \A k \in 1 .. Len(meta) : WithMeta(b, meta)[Word + k - 1] = meta[k]
<1> DEFINE w == WordBytes(Len(meta))
<1> DEFINE p == Put(b, 0, w)
<1>1. Size \in Nat /\ Base \in Nat \ {0, 1} /\ meta \in Seq(Bytes)
      /\ Len(meta) \in Nat /\ Len(meta) < Base * Base
  BY CodecAssumption
<1>2. Word + Len(meta) <= Size /\ Word = 2
  BY DEF RoomFor, Word
<1>3. WordAt(p, 0) = Len(meta)
  BY <1>1, <1>2, WordPut
<1>4. WithMeta(b, meta) = Put(p, Word, meta)
  BY DEF WithMeta, LengthOf
<1>5. /\ \A i \in Area : i < Word => Put(p, Word, meta)[i] = p[i]
      /\ \A k \in 1 .. Len(meta) : Put(p, Word, meta)[Word + k - 1] = meta[k]
  <2>1. Word \in Nat
    BY <1>2
  <2> HIDE DEF p
  <2> QED
    BY <1>1, <1>2, <2>1, PutsThere
<1>6. 0 \in Area /\ 1 \in Area
  BY <1>1, <1>2 DEF Area
<1> HIDE DEF p
<1>7. WordAt(Put(p, Word, meta), 0) = WordAt(p, 0)
  BY <1>2, <1>5, <1>6 DEF WordAt
<1> QED
  BY <1>3, <1>4, <1>5, <1>7

\* A buffer that has a text and its length at its start decodes as that text.
LEMMA MetadataRead ==
  ASSUME NEW b, NEW meta \in Texts, RoomFor(Word, meta), WordAt(b, 0) = Len(meta),
         \A k \in 1 .. Len(meta) : b[Word + k - 1] = meta[k]
  PROVE  Decoded(b).parses /\ Decoded(b).meta = meta
<1>1. meta \in Seq(Bytes) /\ Len(meta) \in Nat
  BY CodecAssumption
<1>2. Word \in Nat /\ Word + Len(meta) <= Size
  BY DEF RoomFor, Word
<1>3. Slice(b, Word, Word + Len(meta)) = meta
  BY <1>1, <1>2, SliceOf
<1> QED
  BY <1>3 DEF Decoded

\* Writing behind the metadata leaves it as it is.
LEMMA MetadataStays ==
  ASSUME NEW b, NEW meta \in Texts, RoomFor(Word, meta), WordAt(b, 0) = Len(meta),
         \A k \in 1 .. Len(meta) : b[Word + k - 1] = meta[k],
         NEW at \in Nat, at >= BinaryAt(meta), NEW s \in Seq(Bytes), at + Len(s) <= Size
  PROVE  /\ WordAt(Put(b, at, s), 0) = Len(meta)
         /\ \A k \in 1 .. Len(meta) : Put(b, at, s)[Word + k - 1] = meta[k]
<1>1. PICK n \in Nat : n = Len(meta)
  BY CodecAssumption
<1>2. at >= 2 + n /\ Word = 2 /\ 2 + n <= Size /\ Size \in Nat
  BY <1>1, CodecAssumption DEF BinaryAt, RoomFor, Word
<1>3. \A i \in Area : i < at => Put(b, at, s)[i] = b[i]
  BY PutsThere
<1>4. 0 \in Area /\ 1 \in Area /\ 0 < at /\ 1 < at
  BY <1>2 DEF Area
<1>5. WordAt(Put(b, at, s), 0) = WordAt(b, 0)
  BY <1>3, <1>4 DEF WordAt
<1>6. ASSUME NEW k \in 1 .. n PROVE Put(b, at, s)[Word + k - 1] = meta[k]
  <2>1. Word + k - 1 \in Area /\ Word + k - 1 < at
    BY <1>2 DEF Area
  <2> QED
    BY <1>1, <1>3, <2>1
<1> QED
  BY <1>1, <1>5, <1>6

\* What decodePayload finds behind the metadata, if the length there is that of data.
LEMMA BinaryRead ==
  ASSUME NEW b, NEW meta \in Texts, NEW bin \in Binaries, bin # << >>,
         WordAt(b, 0) = Len(meta), WordAt(b, BinaryAt(meta)) = Len(bin),
         BinaryAt(meta) + Word + Len(bin) < Size,
         \A k \in 1 .. Len(bin) : b[BinaryAt(meta) + Word + k - 1] = bin[k]
  PROVE  Decoded(b).binary = bin
<1>1. PICK n \in Nat, l \in Nat : n = Len(meta) /\ l = Len(bin)
  BY CodecAssumption
<1>2. bin \in Seq(Bytes) /\ l > 0 /\ Size \in Nat
  BY <1>1, CodecAssumption
<1>3. BinaryAt(meta) = Word + n /\ Word = 2
  BY <1>1 DEF BinaryAt, Word
<1>4. Slice(b, Word + n + Word, Word + n + Word + l) = bin
  <2>1. Word + n + Word \in Nat /\ Word + n + Word + l <= Size
    BY <1>1, <1>2, <1>3
  <2>2. \A k \in 1 .. Len(bin) : b[(Word + n + Word) + k - 1] = bin[k]
    BY <1>3
  <2> QED
    BY <1>1, <1>2, <2>1, <2>2, SliceOf
<1>5. Word + n + Word <= Size /\ l > 0 /\ l < Size - (Word + n) - Word
  BY <1>1, <1>2, <1>3
<1> QED
  BY <1>1, <1>3, <1>4, <1>5 DEF Decoded, BinaryIn

\* Where the length behind the metadata is more than there is room for, there is no data.
LEMMA NoBinaryRead ==
  ASSUME NEW b, NEW meta \in Texts, NEW l \in Nat, WordAt(b, 0) = Len(meta),
         BinaryAt(meta) + Word <= Size => WordAt(b, BinaryAt(meta)) = l,
         BinaryAt(meta) + Word + l > Size
  PROVE  Decoded(b).binary = None
<1>1. PICK n \in Nat : n = Len(meta)
  BY CodecAssumption
<1>2. BinaryAt(meta) = Word + n /\ Word = 2 /\ Size \in Nat
  BY <1>1, CodecAssumption DEF BinaryAt, Word
<1>3. ~ (/\ Word + n + Word <= Size
         /\ WordAt(b, Word + n) > 0 /\ WordAt(b, Word + n) < Size - (Word + n) - Word)
  BY <1>1, <1>2
<1> QED
  BY <1>1, <1>3 DEF Decoded, BinaryIn

\* Data that fills the buffer to its last byte is not found.
LEMMA NothingRead ==
  ASSUME NEW b, NEW meta \in Texts, NEW l \in Nat, WordAt(b, 0) = Len(meta),
         WordAt(b, BinaryAt(meta)) = l, BinaryAt(meta) + Word + l >= Size
  PROVE  Decoded(b).binary = None
<1>1. PICK n \in Nat : n = Len(meta)
  BY CodecAssumption
<1>2. BinaryAt(meta) = Word + n /\ Word = 2 /\ Size \in Nat
  BY <1>1, CodecAssumption DEF BinaryAt, Word
<1>3. ~ (WordAt(b, Word + n) < Size - (Word + n) - Word)
  BY <1>1, <1>2
<1> QED
  BY <1>1, <1>3 DEF Decoded, BinaryIn

\* The bytes of a buffer stay bytes.
LEMMA PutsBytes ==
  ASSUME NEW b \in [Area -> Bytes], NEW at \in Nat, NEW s \in Seq(Bytes)
  PROVE  Put(b, at, s) \in [Area -> Bytes]
<1>1. PICK n \in Nat : n = Len(s)
  OBVIOUS
<1>2. ASSUME NEW i \in Area
      PROVE  (IF i \in at .. (at + n - 1) THEN s[i - at + 1] ELSE b[i]) \in Bytes
  <2>1. CASE i \in at .. (at + n - 1)
    <3>1. i - at + 1 \in 1 .. n
      BY <1>1, <2>1
    <3>2. s[i - at + 1] \in Bytes
      BY <1>1, <3>1
    <3> QED
      BY <2>1, <3>2
  <2>2. CASE i \notin at .. (at + n - 1)
    BY <2>2
  <2> QED
    BY <2>1, <2>2
<1>3. Put(b, at, s) = [i \in Area |-> IF i \in at .. (at + n - 1) THEN s[i - at + 1] ELSE b[i]]
  BY <1>1 DEF Put
<1> QED
  BY <1>2, <1>3

\* Binary data is read from the bytes behind its offset and no others.
LEMMA BinaryStays ==
  ASSUME NEW b \in [Area -> Bytes], NEW c, NEW at \in Nat,
         \A i \in Area : i >= at => c[i] = b[i]
  PROVE  BinaryIn(c, at) = BinaryIn(b, at)
<1>1. Size \in Nat /\ Base \in Nat /\ Word = 2
  BY CodecAssumption DEF Word
<1>2. CASE ~ (at + Word <= Size)
  BY <1>2 DEF BinaryIn
<1>3. CASE at + Word <= Size
  <2>1. at \in Area /\ at + 1 \in Area
    BY <1>1, <1>3 DEF Area
  <2>2. WordAt(c, at) = WordAt(b, at)
    BY <2>1 DEF WordAt
  <2>3. PICK l \in Int : l = WordAt(b, at)
    <3>1. b[at] \in Nat /\ b[at + 1] \in Nat
      BY <2>1 DEF Bytes
    <3> QED
      BY <1>1, <3>1 DEF WordAt
  <2> DEFINE from == at + Word
  <2> DEFINE to == at + Word + l
  <2>4. Slice(c, from, to) = Slice(b, from, to)
    <3> DEFINE end == IF to < Size THEN to ELSE Size
    <3> DEFINE n == IF end > from THEN end - from ELSE 0
    <3>1. \A i \in 1 .. n : from + i - 1 \in Area /\ from + i - 1 >= at
      BY <1>1, <1>3 DEF Area
    <3>2. [i \in 1 .. n |-> c[from + i - 1]] = [i \in 1 .. n |-> b[from + i - 1]]
      <4> HIDE DEF n
      <4> QED
        BY <3>1
    <3> QED
      BY <3>2 DEF Slice
  <2> HIDE DEF from, to
  <2> QED
    BY <2>2, <2>3, <2>4 DEF BinaryIn, from, to
<1> QED
  BY <1>2, <1>3

(***************************************************************************)
(* encodePayload, by how it ends.                                          *)
(***************************************************************************)
\* Every call, whatever is in the buffer, leaves what decodes as it was meant.
LEMMA EncodedExactly ==
  ASSUME NEW b0 \in [Area -> Bytes], NEW meta \in Texts, NEW bin \in Binaries
  PROVE  /\ Exact(b0, meta, bin)
         /\ Encoded(b0, meta, bin).to \in [Area -> Bytes]
<1> DEFINE at == BinaryAt(meta)
<1> DEFINE m == WithMeta(b0, meta)
<1> DEFINE w == WordBytes(Len(bin))
<1>1. PICK n \in Nat, l \in Nat : n = Len(meta) /\ l = Len(bin)
  BY CodecAssumption
<1>2. /\ Size \in Nat /\ Base \in Nat \ {0, 1} /\ l < Base * Base
      /\ meta \in Seq(Bytes) /\ bin \in Seq(Bytes)
  BY <1>1, CodecAssumption
<1>3. at = 2 + n /\ Word = 2 /\ at \in Nat
  BY <1>1 DEF BinaryAt, Word
<1>4. WordBytes(Len(meta)) \in Seq(Bytes) /\ w \in Seq(Bytes) /\ Len(w) = 2
  BY <1>1, WordIsBytes
<1>5. m \in [Area -> Bytes]
  <2>1. PICK p \in [Area -> Bytes] : p = Put(b0, 0, WordBytes(Len(meta)))
    BY <1>4, PutsBytes
  <2>2. Put(p, Word, meta) \in [Area -> Bytes]
    BY <1>2, <1>3, PutsBytes
  <2> QED
    BY <2>1, <2>2 DEF WithMeta, LengthOf
<1>6. RoomFor(Word, meta) => \A i \in Area : i >= at => m[i] = b0[i]
  <2> SUFFICES ASSUME RoomFor(Word, meta) PROVE \A i \in Area : i >= at => m[i] = b0[i]
    OBVIOUS
  <2>1. PICK p : p = Put(b0, 0, WordBytes(Len(meta)))
    OBVIOUS
  <2>2. 0 + Len(WordBytes(Len(meta))) <= Size /\ Word + Len(meta) <= Size /\ Word \in Nat
    <3>1. Len(meta) \in Nat /\ Len(WordBytes(Len(meta))) = 2
      BY <1>1, WordIsBytes
    <3>2. Word + Len(meta) <= Size /\ Word = 2
      BY <1>3 DEF RoomFor
    <3> QED
      BY <1>1, <1>2, <3>1, <3>2
  <2>3. \A i \in Area : i >= 0 + Len(WordBytes(Len(meta))) => p[i] = b0[i]
    BY <1>4, <2>1, <2>2, PutsThere
  <2>4. \A i \in Area : i >= Word + Len(meta) => Put(p, Word, meta)[i] = p[i]
    BY <1>2, <2>2, PutsThere
  <2>5. Len(WordBytes(Len(meta))) = 2
    BY <1>1, WordIsBytes
  <2>6. \A i \in Area : i >= at => i >= Word + Len(meta) /\ i >= 0 + Len(WordBytes(Len(meta)))
    BY <1>1, <1>2, <1>3, <2>5 DEF Area
  <2>7. m = Put(p, Word, meta)
    BY <2>1 DEF WithMeta, LengthOf
  <2> HIDE DEF m, at
  <2> QED
    BY <2>3, <2>4, <2>6, <2>7
<1>7. CASE ~ RoomFor(Word, meta)
  <2>1. Encoded(b0, meta, bin).result = "no room for metadata"
    BY <1>7 DEF Encoded
  <2>2. Put(b0, 0, WordBytes(LengthOf(meta))) \in [Area -> Bytes]
    BY <1>4, PutsBytes DEF LengthOf
  <2> QED
    BY <1>7, <2>1, <2>2 DEF Exact, Encoded
<1>8. CASE RoomFor(Word, meta)
  <2>1. /\ WordAt(m, 0) = Len(meta)
        /\ \A k \in 1 .. Len(meta) : m[Word + k - 1] = meta[k]
    BY <1>8, MetadataWritten
  <2> HIDE DEF m
  <2>2. CASE bin = << >>
    <3>1. Encoded(b0, meta, bin).to = m /\ Encoded(b0, meta, bin).result = "encoded"
      BY <1>8, <2>2 DEF Encoded, m
    <3>2. Decoded(m).parses /\ Decoded(m).meta = meta
      BY <1>8, <2>1, MetadataRead
    <3>3. Decoded(m).binary = BinaryIn(m, at)
      BY <2>1, <3>2 DEF Decoded, BinaryAt
    <3>4. BinaryIn(m, at) = BinaryIn(b0, at)
      BY <1>3, <1>8, <1>6, BinaryStays
    <3>5. BinaryOf(b0, meta, bin) = BinaryIn(b0, at)
      BY <2>2 DEF BinaryOf
    <3> QED
      BY <1>5, <3>1, <3>2, <3>3, <3>4, <3>5 DEF Exact
  <2>3. CASE bin # << >> /\ ~ RoomFor(at + Word, bin)
    <3>1. /\ Encoded(b0, meta, bin).to = LeftBehind(m, at, bin)
          /\ Encoded(b0, meta, bin).result = "no room for binary"
      BY <1>8, <2>3 DEF Encoded, m
    <3>2. at + Word + l > Size
      BY <1>1, <1>2, <1>3, <2>3 DEF RoomFor
    <3>3. w \in Seq(Bytes) /\ Len(w) = 2
      BY <1>1, WordIsBytes
    <3> DEFINE b == LeftBehind(m, at, bin)
    <3>4. /\ WordAt(b, 0) = Len(meta)
          /\ \A k \in 1 .. Len(meta) : b[Word + k - 1] = meta[k]
          /\ at + Word <= Size => WordAt(b, at) = l
      <4>1. CASE at + Word <= Size
        <5>1. b = Put(m, at, w)
          BY <4>1 DEF LeftBehind
        <5>2. WordAt(Put(m, at, w), at) = l
          BY <1>1, <1>2, <1>3, <4>1, WordPut
        <5>3. at >= BinaryAt(meta) /\ at + Len(w) <= Size
          BY <1>3, <3>3, <4>1
        <5> HIDE DEF w, b
        <5>4. /\ WordAt(Put(m, at, w), 0) = Len(meta)
              /\ \A k \in 1 .. Len(meta) : Put(m, at, w)[Word + k - 1] = meta[k]
          BY <1>3, <1>8, <2>1, <3>3, <5>3, MetadataStays
        <5> QED
          BY <5>1, <5>2, <5>4
      <4>2. CASE ~ (at + Word <= Size)
        <5>1. b = m
          BY <4>2 DEF LeftBehind
        <5> QED
          BY <2>1, <4>2, <5>1
      <4> QED
        BY <4>1, <4>2
    <3> HIDE DEF b
    <3>5. Decoded(b).parses /\ Decoded(b).meta = meta
      BY <1>8, <3>4, MetadataRead
    <3>6. Decoded(b).binary = None
      BY <3>2, <3>4, NoBinaryRead
    <3>7. b \in [Area -> Bytes]
      <4>1. Put(m, at, w) \in [Area -> Bytes]
        BY <1>3, <1>4, <1>5, PutsBytes
      <4> QED
        BY <1>5, <4>1 DEF b, LeftBehind
    <3>8. Encoded(b0, meta, bin).to = b
      BY <3>1 DEF b
    <3> QED
      BY <3>1, <3>5, <3>6, <3>7, <3>8 DEF Exact
  <2>4. CASE bin # << >> /\ RoomFor(at + Word, bin)
    <3>1. /\ Encoded(b0, meta, bin).to = WithBinary(m, at, bin)
          /\ Encoded(b0, meta, bin).result = "encoded"
      BY <1>8, <2>4 DEF Encoded, m
    <3>2. at + Word + l <= Size
      BY <1>1, <2>4 DEF RoomFor
    <3>3. w \in Seq(Bytes) /\ Len(w) = 2
      BY <1>1, WordIsBytes
    <3> DEFINE p == Put(m, at, w)
    <3> DEFINE b == Put(p, at + Word, bin)
    <3>4. WordAt(p, at) = l
      BY <1>1, <1>2, <1>3, <3>2, WordPut
    <3>5. /\ WordAt(p, 0) = Len(meta)
          /\ \A k \in 1 .. Len(meta) : p[Word + k - 1] = meta[k]
      <4>1. at >= BinaryAt(meta) /\ at + Len(w) <= Size
        BY <1>1, <1>2, <1>3, <3>2, <3>3
      <4> HIDE DEF w
      <4> QED
        BY <1>3, <1>8, <2>1, <3>3, <4>1, MetadataStays
    <3> HIDE DEF p
    <3>6. at + Word \in Nat /\ at + Word >= BinaryAt(meta) /\ at + Word + Len(bin) <= Size
      BY <1>1, <1>3, <3>2
    <3>7. /\ WordAt(b, 0) = Len(meta)
          /\ \A k \in 1 .. Len(meta) : b[Word + k - 1] = meta[k]
      <4>1. PICK c \in Nat : c = at + Word
        BY <3>6
      <4>2. c >= BinaryAt(meta) /\ c + Len(bin) <= Size
        BY <3>6, <4>1
      <4>3. bin \in Seq(Bytes) /\ meta \in Texts /\ RoomFor(Word, meta)
        BY <1>2, <1>8
      <4>4. /\ WordAt(Put(p, c, bin), 0) = Len(meta)
            /\ \A k \in 1 .. Len(meta) : Put(p, c, bin)[Word + k - 1] = meta[k]
        BY <3>5, <4>2, <4>3, MetadataStays
      <4> QED
        BY <4>1, <4>4
    <3>8. /\ \A i \in Area : i < at + Word => b[i] = p[i]
          /\ \A k \in 1 .. Len(bin) : b[at + Word + k - 1] = bin[k]
      <4>1. PICK c \in Nat : c = at + Word
        BY <3>6
      <4>2. c + Len(bin) <= Size
        BY <3>6, <4>1
      <4>3. /\ \A i \in Area : i < c => Put(p, c, bin)[i] = p[i]
            /\ \A k \in 1 .. Len(bin) : Put(p, c, bin)[c + k - 1] = bin[k]
        <5>1. bin \in Seq(Bytes) /\ Size \in Nat
          BY <1>2
        <5> HIDE DEF m, w
        <5>2. \A i \in Area : i < c \/ i >= c + Len(bin) => Put(p, c, bin)[i] = p[i]
          BY <4>2, <5>1, PutsThere
        <5>3. \A k \in 1 .. Len(bin) : c + k - 1 \in Area /\ Put(p, c, bin)[c + k - 1] = bin[k]
          <6>1. c \in Nat /\ c + Len(bin) <= Size /\ bin \in Seq(Bytes)
            BY <4>2, <5>1
          <6>2. Stored(p, c, bin)
            BY <6>1, PutsStored
          <6> QED
            BY <6>2 DEF Stored
        <5> QED
          BY <5>2, <5>3
      <4> QED
        BY <4>1, <4>3
    <3>9. WordAt(b, at) = Len(bin)
      <4>1. at \in Area /\ at + 1 \in Area /\ at < at + Word /\ at + 1 < at + Word
        BY <1>1, <1>2, <1>3, <3>2 DEF Area
      <4> HIDE DEF b
      <4>2. WordAt(b, at) = WordAt(p, at)
        BY <3>8, <4>1 DEF WordAt
      <4> QED
        BY <1>1, <3>4, <4>2
    <3>10. Encoded(b0, meta, bin).to = b
      BY <3>1 DEF WithBinary, p
    <3>11. b \in [Area -> Bytes]
      <4>1. p \in [Area -> Bytes]
        BY <1>3, <1>4, <1>5, PutsBytes DEF p
      <4> QED
        BY <1>2, <3>6, <4>1, PutsBytes
    <3> HIDE DEF b
    <3>12. Decoded(b).parses /\ Decoded(b).meta = meta
      BY <1>8, <3>7, MetadataRead
    <3>13. at + Word + Len(bin) < Size => Decoded(b).binary = bin
      BY <2>4, <3>7, <3>8, <3>9, BinaryRead
    <3>14. CASE at + Word + Len(bin) < Size
      <4>1. BinaryOf(b0, meta, bin) = bin
        BY <2>4, <3>14 DEF BinaryOf
      <4> QED
        BY <3>1, <3>10, <3>12, <3>13, <3>11, <3>14, <4>1 DEF Exact
    <3>15. CASE ~ (at + Word + Len(bin) < Size)
      <4>1. BinaryOf(b0, meta, bin) = None
        BY <2>4, <3>15 DEF BinaryOf
      <4>2. Decoded(b).binary = None
        BY <1>1, <1>2, <1>3, <3>7, <3>9, <3>15, NothingRead
      <4> QED
        BY <3>1, <3>10, <3>12, <3>11, <4>1, <4>2 DEF Exact
    <3> QED
      BY <3>14, <3>15
  <2> QED
    BY <2>2, <2>3, <2>4
<1> QED
  BY <1>7, <1>8

\* Whatever the buffer holds, the next message is read back with its own text, and
\* with its own data unless it has none or too much of it, when what is read is what
\* BinaryOf says: for every size of buffer, byte, text and data.
THEOREM CodecRoundTrips == CodecSpec => RoundTrips
<1> DEFINE Typed == sab \in [Area -> Bytes]
<1>1. CodecInit => Typed
  <2>1. 0 \in Bytes
    BY CodecAssumption DEF Bytes
  <2> QED
    BY <2>1 DEF CodecInit, Zeroes
<1>2. Typed /\ [CodecNext]_codecVars =>
        /\ Typed'
        /\ [sent' # NothingSent => Exact(sab, sent'[1], sent'[2])]_codecVars
  <2> SUFFICES ASSUME Typed, [CodecNext]_codecVars
               PROVE  /\ Typed'
                      /\ [sent' # NothingSent => Exact(sab, sent'[1], sent'[2])]_codecVars
    OBVIOUS
  <2>1. CASE Clear
    <3>1. 0 \in Bytes
      BY CodecAssumption DEF Bytes
    <3> QED
      BY <2>1, <3>1 DEF Clear, Zeroes
  <2>2. ASSUME NEW meta \in Texts, NEW bin \in Binaries, Encode(meta, bin)
        PROVE  Typed' /\ Exact(sab, sent'[1], sent'[2])
    <3>1. sab' = Encoded(sab, meta, bin).to /\ sent'[1] = meta /\ sent'[2] = bin
      BY <2>2 DEF Encode
    <3>2. Exact(sab, meta, bin) /\ Encoded(sab, meta, bin).to \in [Area -> Bytes]
      BY EncodedExactly
    <3> QED
      BY <3>1, <3>2
  <2>3. CASE UNCHANGED codecVars
    BY <2>3 DEF codecVars
  <2> QED
    BY <2>1, <2>2, <2>3 DEF CodecNext
<1> QED
  BY <1>1, <1>2, PTL DEF CodecSpec, RoundTrips
=============================================================================
