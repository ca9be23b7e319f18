------------------------------ MODULE Network ------------------------------
(***************************************************************************)
(* Virtual ports: the port table of the main thread, the channel on which  *)
(* it tells the service worker of its bindings, the service worker that    *)
(* forwards fetches to the message ports it was told of, and the servers   *)
(* behind those ports.                                                     *)
(*                                                                         *)
(* Outside the repository: the embedder, which calls notifyPortBind() and  *)
(* notifyPortUnbind() from the first listener of the table; the servers,   *)
(* which may answer late, repeatedly or never, also with what no Response  *)
(* can be made of; and the browser, which may stop a service worker that   *)
(* has no fetch to answer.  Browsers do not carry a MessagePort over a     *)
(* BroadcastChannel: postMessage throws, the table swallows it, and the    *)
(* service worker never hears of a port.  carries tells that host from one *)
(* whose channel transfers what notifyPortBind() lists for transfer.       *)
(***************************************************************************)
EXTENDS Naturals, Sequences

CONSTANTS
  Ports, Pids, Fetches,
  MaxBinds,     \* bound on the bindings made
  MaxChannel,   \* bound on the messages under way to the service worker
  MaxAnswers,   \* bound on the answers of a server to one request
  MaxStops,     \* how often the browser stops the service worker
  Absent

ASSUME NetworkAssumption ==
  /\ MaxBinds \in Nat /\ MaxChannel \in Nat /\ MaxAnswers \in Nat /\ MaxStops \in Nat
  /\ Absent \notin Pids

VARIABLES
  ports,      \* the port table: who has bound a port, with which handler
  sweep,      \* the loop of unbindByPid() or clear(), if one is running
  binds,      \* how many bindings were made; each has a handler of its own
  channel,    \* messages of BroadcastChannel 'wc-network'
  handlers,   \* portHandlers of the service worker, 0 for none
  counter,    \* requestCounter
  pending,    \* pendingRequests: the fetch behind each request id
  carries,    \* does the channel of this host carry message ports?
  stops,      \* how often the service worker was stopped
  fetch,      \* every fetch of the page
  requests,   \* what each server has been sent
  replies     \* the answers under way to the service worker, by handler

tableVars == <<ports, sweep, binds>>
workerVars == <<handlers, counter, pending>>
hostVars == <<carries, stops>>
networkVars == <<ports, sweep, binds, channel, handlers, counter, pending, carries, stops, fetch, requests, replies>>

Handlers == 1 .. MaxBinds
Free == [pid |-> Absent, handler |-> 0]
NoSweep == [on |-> FALSE, pid |-> Absent, left |-> {}]

NetworkInit ==
  /\ ports = [p \in Ports |-> Free]
  /\ sweep = NoSweep
  /\ binds = 0
  /\ channel = << >>
  /\ handlers = [p \in Ports |-> 0]
  /\ counter = 0
  /\ pending = << >>
  /\ carries \in BOOLEAN
  /\ stops = 0
  /\ fetch = [f \in Fetches |-> [state |-> "none", port |-> Absent, handler |-> 0, id |-> 0, answers |-> << >>, threw |-> 0]]
  /\ requests = [h \in Handlers |-> {}]
  /\ replies = [h \in Handlers |-> << >>]

-----------------------------------------------------------------------------
(***************************************************************************)
(* The port table.                                                         *)
(***************************************************************************)
Bound == {p \in Ports : ports[p] # Free}
BindMessage(p, h) == [type |-> "port-bind", port |-> p, handler |-> h]
UnbindMessage(p) == [type |-> "port-unbind", port |-> p, handler |-> 0]

\* notifyPortBind(): what of it reaches the channel.
\* Mutant: the port number goes out although the handler cannot.
ToldNumber(p, h) == <<BindMessage(p, h)>>
Told(p, h) == IF carries THEN <<BindMessage(p, h)>> ELSE << >>

\* bind() of a bound port throws and changes nothing.
\* Mutant: it takes the port over.
BindableAny(p) == TRUE
Bindable(p) == ports[p] = Free

\* Ports entered while a loop over the map runs are visited by it, too.
\* Mutant: the loop goes over a copy of the map.
VisitedNot(left, p) == left
Visited(left, p) == left \cup {p}

Bind(p, pid) ==
  /\ ~sweep.on /\ Bindable(p) /\ binds < MaxBinds /\ Len(channel) < MaxChannel
  /\ binds' = binds + 1
  /\ ports' = [ports EXCEPT ![p] = [pid |-> pid, handler |-> binds + 1]]
  /\ channel' = channel \o Told(p, binds + 1)
  /\ UNCHANGED <<sweep, workerVars, hostVars, fetch, requests, replies>>

Unbind(p) ==
  /\ ~sweep.on /\ p \in Bound /\ Len(channel) < MaxChannel
  /\ ports' = [ports EXCEPT ![p] = Free]
  /\ channel' = Append(channel, UnbindMessage(p))
  /\ UNCHANGED <<sweep, binds, workerVars, hostVars, fetch, requests, replies>>

\* unbindByPid(pid); clear() is the sweep over Absent, which takes every entry.
SweepStarts(pid) ==
  /\ ~sweep.on
  /\ sweep' = [on |-> TRUE, pid |-> pid, left |-> Bound]
  /\ UNCHANGED <<ports, binds, channel, workerVars, hostVars, fetch, requests, replies>>

\* The loop visits an entry, and unbinds it if it is one of its own; the
\* program behind a listener may bind ports again in reply.
Matches(p) == sweep.pid = Absent \/ ports[p].pid = sweep.pid
SweepVisits(p, rebinds, pid) ==
  LET h == binds + 1
      again == rebinds # Absent
      gone == [ports EXCEPT ![p] = Free]
  IN  /\ sweep.on /\ p \in sweep.left /\ Matches(p) /\ Len(channel) < MaxChannel
      /\ again => binds < MaxBinds /\ gone[rebinds] = Free
      /\ binds' = IF again THEN h ELSE binds
      /\ ports' = IF again THEN [gone EXCEPT ![rebinds] = [pid |-> pid, handler |-> h]] ELSE gone
      /\ channel' = Append(channel, UnbindMessage(p)) \o (IF again THEN Told(rebinds, h) ELSE << >>)
      /\ sweep' = [sweep EXCEPT !.left = IF again THEN Visited(@ \ {p}, rebinds) ELSE @ \ {p}]
      /\ UNCHANGED <<workerVars, hostVars, fetch, requests, replies>>

SweepPasses(p) ==
  /\ sweep.on /\ p \in sweep.left /\ ~Matches(p)
  /\ sweep' = [sweep EXCEPT !.left = @ \ {p}]
  /\ UNCHANGED <<ports, binds, channel, workerVars, hostVars, fetch, requests, replies>>

SweepEnds ==
  /\ sweep.on /\ sweep.left = {}
  /\ sweep' = NoSweep
  /\ UNCHANGED <<ports, binds, channel, workerVars, hostVars, fetch, requests, replies>>

Table ==
  \/ \E p \in Ports, pid \in Pids : Bind(p, pid)
  \/ \E p \in Ports : Unbind(p) \/ SweepPasses(p)
  \/ \E pid \in Pids \cup {Absent} : SweepStarts(pid)
  \/ \E p \in Ports, rebinds \in Ports \cup {Absent}, pid \in Pids : SweepVisits(p, rebinds, pid)
  \/ SweepEnds

-----------------------------------------------------------------------------
(***************************************************************************)
(* The service worker.                                                     *)
(***************************************************************************)
\* What a message does to portHandlers.
\* Mutant: a handler is never forgotten.
AppliedKeeping(hs, msg) == IF msg.type = "port-bind" THEN [hs EXCEPT ![msg.port] = msg.handler] ELSE hs
Applied(hs, msg) == [hs EXCEPT ![msg.port] = msg.handler]

ReceiveBinding ==
  /\ channel # << >>
  /\ handlers' = Applied(handlers, Head(channel))
  /\ channel' = Tail(channel)
  /\ UNCHANGED <<tableVars, counter, pending, hostVars, fetch, requests, replies>>

Answers(f, outcome) == [fetch EXCEPT ![f].state = "answered", ![f].answers = Append(@, outcome)]

\* A fetch of a port without a handler is answered at once.
FetchUnknown(f, p) ==
  /\ fetch[f].state = "none" /\ handlers[p] = 0
  /\ fetch' = [Answers(f, <<"502", 0, f>>) EXCEPT ![f].port = p]
  /\ UNCHANGED <<tableVars, channel, workerVars, hostVars, requests, replies>>

\* forwardToHandler(), up to the await on the body.
\* Mutant: the ids of requests are not told apart.
RequestIdSame(n) == 1
\* Mutant: the counter before it is incremented.
RequestIdBefore(n) == n
RequestId(n) == n + 1

\* ... from there on: the request is registered, its timer set and the message
\* posted to the handler found before the await.
Handler(f) == handlers[fetch[f].port]
\* Mutant: the handler of the port now, if it has one.
TargetNow(f) == IF Handler(f) = 0 THEN fetch[f].handler ELSE Handler(f)
Target(f) == fetch[f].handler

FetchKnown(f, p) ==
  /\ fetch[f].state = "none" /\ handlers[p] # 0
  /\ counter' = counter + 1
  /\ fetch' = [fetch EXCEPT ![f].state = "reading", ![f].port = p,
                            ![f].handler = handlers[p], ![f].id = RequestId(counter)]
  /\ UNCHANGED <<tableVars, channel, handlers, pending, hostVars, requests, replies>>

ForwardToHandler(f) ==
  LET id == fetch[f].id IN
  /\ fetch[f].state = "reading"
  /\ pending' = [i \in DOMAIN pending \cup {id} |-> IF i = id THEN f ELSE pending[i]]
  /\ fetch' = [fetch EXCEPT ![f].state = "waiting"]
  /\ requests' = [requests EXCEPT ![Target(f)] = @ \cup {[id |-> id, fetch |-> f, answered |-> 0]}]
  /\ UNCHANGED <<tableVars, channel, handlers, counter, hostVars, replies>>

Without(id) == [i \in DOMAIN pending \ {id} |-> pending[i]]

\* The 30 s timer of a fetch.  It fires whether or not the answer has come.
\* Mutant: it does not look whether the request is pending.
TimeoutAlways(f) ==
  /\ pending' = Without(fetch[f].id)
  /\ fetch' = [Answers(f, <<"504", 0, f>>) EXCEPT ![f].state = "over"]
\* Mutant: the request is forgotten, the fetch not answered.
TimeoutSilent(f) ==
  /\ pending' = Without(fetch[f].id)
  /\ fetch' = [fetch EXCEPT ![f].state = IF @ = "answered" THEN "over" ELSE "waiting"]
Timeout(f) ==
  IF fetch[f].id \in DOMAIN pending
    THEN /\ pending' = Without(fetch[f].id)
         /\ fetch' = [Answers(f, <<"504", 0, f>>) EXCEPT ![f].state = "over"]
    ELSE UNCHANGED pending /\ fetch' = [fetch EXCEPT ![f].state = "over"]

TimerFires(f) ==
  /\ fetch[f].id # 0 /\ fetch[f].state \in {"waiting", "answered"}
  /\ Timeout(f)
  /\ UNCHANGED <<tableVars, channel, handlers, counter, hostVars, requests, replies>>

\* handlePortResponse(): answers that nobody waits for are let go.  Of some no
\* Headers or Response can be made (a status out of range, a body with 204): that
\* throws when the request is no longer pending, so that nothing will ever answer
\* the fetch, its timer included.
\* Mutant: the request stays pending.
LeftPending(id) == pending
Settled(id) == Without(id)
Resolved(f, h, reply) ==
  [Answers(f, <<"answer", h, reply.fetch>>) EXCEPT ![f].state = IF fetch[f].state = "over" THEN "over" ELSE @]
Dropped(f, h) == [fetch EXCEPT ![f].state = "dropped", ![f].threw = h]

HandlePortResponse(h) ==
  LET reply == Head(replies[h])
      f == pending[reply.id]
  IN  /\ replies[h] # << >>
      /\ replies' = [replies EXCEPT ![h] = Tail(@)]
      /\ IF reply.id \in DOMAIN pending
           THEN pending' = Settled(reply.id) /\ fetch' \in {Resolved(f, h, reply), Dropped(f, h)}
           ELSE UNCHANGED <<pending, fetch>>
      /\ UNCHANGED <<tableVars, channel, handlers, counter, hostVars, requests>>

\* The browser stops the idle worker and starts it at the next fetch: its
\* variables are gone, and so are its ends of the message ports.
Stop ==
  /\ stops < MaxStops
  /\ \A f \in Fetches : fetch[f].state \notin {"reading", "waiting", "dropped"}
  /\ stops' = stops + 1
  /\ handlers' = [p \in Ports |-> 0] /\ counter' = 0 /\ pending' = << >>
  /\ channel' = << >>
  /\ fetch' = [f \in Fetches |-> [fetch[f] EXCEPT !.state = IF @ = "answered" THEN "over" ELSE @]]
  /\ requests' = [h \in Handlers |-> {}] /\ replies' = [h \in Handlers |-> << >>]
  /\ UNCHANGED <<tableVars, carries>>

Worker ==
  \/ ReceiveBinding \/ Stop
  \/ \E f \in Fetches, p \in Ports : FetchUnknown(f, p) \/ FetchKnown(f, p)
  \/ \E f \in Fetches : ForwardToHandler(f) \/ TimerFires(f)
  \/ \E h \in Handlers : HandlePortResponse(h)

\* The server behind a handler.
ServerAnswers(h) ==
  \E r \in requests[h] :
    /\ r.answered < MaxAnswers
    /\ requests' = [requests EXCEPT ![h] = (@ \ {r}) \cup {[r EXCEPT !.answered = @ + 1]}]
    /\ replies' = [replies EXCEPT ![h] = Append(@, [id |-> r.id, fetch |-> r.fetch])]
    /\ UNCHANGED <<tableVars, channel, workerVars, hostVars, fetch>>

NetworkNext == Table \/ Worker \/ \E h \in Handlers : ServerAnswers(h)

\* Messages are delivered, bodies read and timers fired in the end; loops go on.
Sweeping == SweepEnds \/ (\E p \in Ports : SweepPasses(p)) \/ \E p \in Ports, pid \in Pids : SweepVisits(p, Absent, pid)
NetworkFairness ==
  /\ WF_networkVars(ReceiveBinding)
  /\ \A f \in Fetches : WF_networkVars(ForwardToHandler(f)) /\ WF_networkVars(TimerFires(f))
  /\ WF_networkVars(Sweeping)

NetworkSpec == NetworkInit /\ [][NetworkNext]_networkVars /\ NetworkFairness

-----------------------------------------------------------------------------
(***************************************************************************)
(* Correctness.                                                            *)
(***************************************************************************)
\* Every variable keeps its type, and ids are told apart while they are in use.
NetworkTypeOK ==
  /\ ports \in [Ports -> [pid : Pids \cup {Absent}, handler : 0 .. binds]]
  /\ handlers \in [Ports -> 0 .. binds]
  /\ sweep.left \subseteq Ports
  /\ DOMAIN pending \subseteq 1 .. counter
  /\ \A f \in Fetches : fetch[f].state \in {"none", "reading", "waiting", "answered", "over", "dropped"}

\* The messages about a port that are under way.
About(p) == {k \in 1 .. Len(channel) : channel[k].port = p}
IsLast(k, messages) == \A l \in messages : l <= k

\* Where the channel carries ports, the service worker is told of every binding, in
\* an order that leaves it with the table of the main thread once it has caught up
\* (bind, unbind, the loops, notifyPortBind, notifyPortUnbind), unless the browser
\* has stopped it.
WorkerCatchesUp ==
  stops = 0 /\ carries =>
    \A p \in Ports :
      /\ About(p) = {} => handlers[p] = ports[p].handler
      /\ \A k \in About(p) : IsLast(k, About(p)) => channel[k].handler = ports[p].handler

\* Where it does not, the service worker never takes a port for bound, whatever the
\* table says: no request reaches a server, and none is left waiting for one.
WorkerNeverTold ==
  ~carries => /\ \A p \in Ports : handlers[p] = 0
              /\ \A k \in 1 .. Len(channel) : channel[k].type = "port-unbind"
              /\ \A f \in Fetches : fetch[f].state \in {"none", "answered", "over"}

\* What is heard of a port alternates between bind and unbind: no binding is
\* replaced under the program that listens on it (PortTable.bind, the loops).
BindsAndUnbindsAlternate ==
  stops = 0 /\ carries =>
    \A p \in Ports : \A k \in About(p) :
      LET earlier == {l \in About(p) : l < k} IN
      /\ earlier = {} => (channel[k].type = "port-bind" <=> handlers[p] = 0)
      /\ \A l \in earlier : IsLast(l, earlier) => channel[l].type # channel[k].type

\* After unbindByPid(pid) and clear() nothing they were asked to remove is in
\* the table, even if a listener bound ports in the meantime.
SweepLeavesNone ==
  sweep.on => \A p \in Bound : Matches(p) => p \in sweep.left

\* The port table and its copy in the service worker agree, through the loops over
\* the table and the messages under way (PortTable, the message handler), on a host
\* whose channel carries the handlers; on any other, browsers among them, the copy
\* stays empty.
PortsAgree ==
  /\ NetworkTypeOK
  /\ WorkerCatchesUp /\ BindsAndUnbindsAlternate /\ WorkerNeverTold
  /\ SweepLeavesNone

\* A fetch is answered at most once, with the answer to its own request, by the
\* handler its port had when the fetch was made.
AnsweredOnceByOwn ==
  \A f \in Fetches :
    /\ Len(fetch[f].answers) <= 1
    /\ \A k \in 1 .. Len(fetch[f].answers) :
         LET a == fetch[f].answers[k] IN
         a[3] = f /\ (a[1] = "answer" => a[2] = fetch[f].handler)

\* A request that waits for its answer is pending, and nothing else is: the map
\* does not grow.
PendingIsWaiting ==
  /\ \A f \in Fetches : fetch[f].state = "waiting" =>
       fetch[f].id \in DOMAIN pending /\ pending[fetch[f].id] = f
  /\ \A id \in DOMAIN pending : fetch[pending[id]].state = "waiting"

\* A fetch is left without an answer only by a reply of its own server that no
\* Response could be made of.
DroppedByOwn ==
  \A f \in Fetches :
    IF fetch[f].state = "dropped"
      THEN fetch[f].threw = fetch[f].handler /\ fetch[f].handler # 0 /\ fetch[f].answers = << >>
      ELSE fetch[f].threw = 0

\* No fetch gets a second answer or that of another, none is dropped for the reply
\* to another, and none that is still waited for is unregistered (forwardToHandler,
\* handlePortResponse, the 30 s timer).
RequestsMatch == AnsweredOnceByOwn /\ PendingIsWaiting /\ DroppedByOwn

\* Every fetch is answered, by its server, by the time-out or with 502, unless its
\* server replied with what no Response can be made of: that fetch is never
\* answered, as the request was struck off before.
FetchAnswered ==
  \A f \in Fetches :
    fetch[f].state # "none" ~> (fetch[f].answers # << >> \/ fetch[f].state = "dropped")
=============================================================================
