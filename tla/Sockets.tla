------------------------------ MODULE Sockets ------------------------------
(***************************************************************************)
(* Sockets of the node net module.  A client makes a message channel when  *)
(* it connects and keeps both ends; the embedder hands the second one to a *)
(* served socket and injects that into a server.  What connect(), destroy()*)
(* and close() promise to emit is emitted in microtasks.                   *)
(*                                                                         *)
(* Outside the repository: the message channel, which is FIFO, and drops   *)
(* what is under way to a port that has been closed.                       *)
(***************************************************************************)
EXTENDS Naturals, Sequences, SequencesExt, FiniteSets

CONSTANTS
  Conns,        \* the connections
  MaxWrites,    \* bound on the writes of a socket
  MaxCloses     \* bound on the calls of Server.close()

ASSUME SocketsAssumption == MaxWrites \in Nat /\ MaxCloses \in Nat

VARIABLES
  sockets,      \* the two sockets of each connection
  wire,         \* the chunks under way to each of them
  server,       \* the server: listening, _connections
  microtasks,   \* the microtask queue
  closings,     \* calls of Server.close() so far
  errors        \* what each socket was destroyed with: no error, one, one nobody heard

socketVars == <<sockets, wire, server, microtasks, closings, errors>>

Sides == {"client", "served"}
Other(side) == IF side = "client" THEN "served" ELSE "client"
SocketEnds == Conns \X Sides

\* attached: the port delivers to this socket; early: destroyed while connecting.
NewSocket ==
  [made |-> FALSE, connecting |-> FALSE, readyState |-> "closed", destroyed |-> FALSE,
   port |-> FALSE, early |-> FALSE, written |-> 0, read |-> << >>, closed |-> 0]

SocketsInit ==
  /\ sockets = [e \in SocketEnds |-> NewSocket]
  /\ wire = [e \in SocketEnds |-> << >>]
  /\ server = [listening |-> FALSE, connections |-> {}, listens |-> 0, closed |-> 0]
  /\ microtasks = << >>
  /\ closings = 0
  /\ errors = [e \in SocketEnds |-> "none"]

Do(kind, e) == [kind |-> kind, of |-> e]
Peer(e) == <<e[1], Other(e[2])>>

-----------------------------------------------------------------------------
\* new Socket() and connect(): both ports exist from here on.
Connect(c) ==
  LET e == <<c, "client">> IN
  /\ ~sockets[e].made
  /\ sockets' = [sockets EXCEPT ![e].made = TRUE, ![e].connecting = TRUE, ![e].port = TRUE]
  /\ microtasks' = Append(microtasks, Do("connect", e))
  /\ UNCHANGED <<wire, server, closings, errors>>

\* ... and its microtask, which does not look whether the socket was destroyed.
RunConnect(e) ==
  /\ sockets' = [sockets EXCEPT ![e].connecting = FALSE, ![e].readyState = "open"]
  /\ UNCHANGED <<wire, server, errors>>

\* new Socket({port: client.getPeerPort()}) and injectConnection(), whether the
\* server listens or not.
InjectConnection(c) ==
  LET e == <<c, "served">> IN
  /\ sockets[<<c, "client">>].port /\ ~sockets[e].made
  /\ sockets' = [sockets EXCEPT ![e].made = TRUE, ![e].port = TRUE]
  /\ server' = [server EXCEPT !.connections = @ \cup {e}]
  /\ UNCHANGED <<wire, microtasks, closings, errors>>

\* A chunk is posted if the socket has a port; it is lost if the other end is
\* closed.  (The second port is open before anyone listens on it.)
\* Mutant: the latest chunk overtakes the others.
PostedFirst(chunks, n) == <<n>> \o chunks
Posted(chunks, n) == Append(chunks, n)
Reaches(e) == sockets[e].port /\ (sockets[Peer(e)].port \/ ~sockets[Peer(e)].made)

SocketWrite(e) ==
  /\ sockets[e].made /\ sockets[e].written < MaxWrites
  /\ sockets' = [sockets EXCEPT ![e].written = @ + 1]
  /\ wire' = IF Reaches(e) THEN [wire EXCEPT ![Peer(e)] = Posted(@, sockets[e].written + 1)] ELSE wire
  /\ UNCHANGED <<server, microtasks, closings, errors>>

Receive(e) ==
  /\ wire[e] # << >> /\ sockets[e].port
  /\ sockets' = [sockets EXCEPT ![e].read = Append(@, Head(wire[e]))]
  /\ wire' = [wire EXCEPT ![e] = Tail(@)]
  /\ UNCHANGED <<server, microtasks, closings, errors>>

\* destroy(): the client closes both ports, a served socket its own.
\* Mutant: a served socket is never seen open, so its state is left alone.
GoneAsIs(s) == [s EXCEPT !.destroyed = TRUE, !.port = FALSE, !.early = s.connecting]
Gone(s) == [s EXCEPT !.destroyed = TRUE, !.readyState = "closed", !.port = FALSE, !.early = s.connecting]
\* Mutant: a socket can be destroyed again.
DestroyableAgain(e) == TRUE
Destroyable(e) == ~sockets[e].destroyed
Silenced(w, es) == [e \in SocketEnds |-> IF e \in es \/ (Peer(e) \in es /\ Peer(e)[2] = "client") THEN << >> ELSE w[e]]
\* Mutant: only the sockets of the server's own calls are told.
CloseTasksNone(es) == << >>
CloseTasks(es) == LET todo == SetToSeq(es) IN [k \in 1 .. Len(todo) |-> Do("close", todo[k])]

SocketDestroy(e, error) ==
  /\ sockets[e].made /\ Destroyable(e)
  /\ sockets[e].closed + Cardinality({k \in 1 .. Len(microtasks) : microtasks[k] = Do("close", e)}) < 2
  /\ sockets' = [sockets EXCEPT ![e] = Gone(@)]
  /\ wire' = Silenced(wire, {e})
  /\ microtasks' = Append(microtasks, Do("close", e))
  /\ errors' = [errors EXCEPT ![e] = error]
  /\ UNCHANGED <<server, closings>>

\* Its microtask: emit('error') if there is one, then emit('close'), for which the
\* server forgets the connection.
\* Mutant: it does not.
ForgottenNot(e) == server
Forgotten(e) == [server EXCEPT !.connections = @ \ {e}]
RunClose(e) ==
  /\ sockets' = [sockets EXCEPT ![e].closed = @ + 1]
  /\ server' = IF e[2] = "served" THEN Forgotten(e) ELSE server
  /\ UNCHANGED <<wire, errors>>

\* An 'error' that nobody listens to is thrown, and 'close' is not emitted.
RunThrows(e) ==
  /\ errors[e] = "error"
  /\ errors' = [errors EXCEPT ![e] = "unheard"]
  /\ UNCHANGED <<sockets, wire, server>>

Listen ==
  /\ ~server.listening /\ server.listens <= MaxCloses
  /\ server' = [server EXCEPT !.listening = TRUE, !.listens = @ + 1]
  /\ UNCHANGED <<sockets, wire, microtasks, closings, errors>>

\* Server.close() destroys the connections and forgets them at once.
ToDestroy(conns) == {e \in conns : ~sockets[e].destroyed}

CloseServer ==
  LET es == ToDestroy(server.connections) IN
  /\ closings < MaxCloses
  /\ closings' = closings + 1
  /\ server' = [server EXCEPT !.listening = FALSE, !.connections = {}]
  /\ sockets' = [e \in SocketEnds |-> IF e \in es THEN Gone(sockets[e]) ELSE sockets[e]]
  /\ wire' = Silenced(wire, es)
  /\ microtasks' = microtasks \o CloseTasks(es) \o <<Do("serverClose", <<"none", "served">>)>>
  /\ UNCHANGED errors

RunServerClose ==
  /\ server' = [server EXCEPT !.closed = @ + 1]
  /\ UNCHANGED <<sockets, wire, errors>>

RunSocketTask ==
  LET t == Head(microtasks) IN
  /\ microtasks # << >>
  /\ microtasks' = Tail(microtasks)
  /\ \/ t.kind = "connect" /\ RunConnect(t.of)
     \/ t.kind = "close" /\ (RunClose(t.of) \/ RunThrows(t.of))
     \/ t.kind = "serverClose" /\ RunServerClose
  /\ UNCHANGED closings

\* Calls of the program in one task run before the microtasks they queue; what
\* arrives on a port comes in a task of its own.
SocketsNext ==
  \/ \E c \in Conns : Connect(c) \/ InjectConnection(c)
  \/ \E e \in SocketEnds : SocketWrite(e) \/ (microtasks = << >> /\ Receive(e))
  \/ \E e \in SocketEnds, error \in {"none", "error"} : SocketDestroy(e, error)
  \/ Listen \/ CloseServer \/ RunSocketTask

SocketsFairness == WF_socketVars(RunSocketTask)
SocketsSpec == SocketsInit /\ [][SocketsNext]_socketVars /\ SocketsFairness

-----------------------------------------------------------------------------
(***************************************************************************)
(* Correctness.                                                            *)
(***************************************************************************)
\* Every variable keeps its type; a destroyed socket has no port and emits
\* 'close' once (the early return of destroy).
SocketsTypeOK ==
  /\ \A e \in SocketEnds : /\ sockets[e].closed <= 1
                           /\ sockets[e].destroyed => ~sockets[e].port
                           /\ sockets[e].readyState \in {"closed", "open"}
  /\ server.connections \subseteq SocketEnds
  /\ closings \in 0 .. MaxCloses

\* What a socket reads is what its peer wrote, in order and without a gap.
ReadInOrder ==
  \A e \in SocketEnds :
    LET read == sockets[e].read \o wire[e] IN
    \A k \in 1 .. Len(read) : read[k] = k

\* A destroyed socket does not become open, unless it was destroyed between
\* connect() and its microtask: that one opens it again.
DestroyedStaysClosed ==
  \A e \in SocketEnds : sockets[e].destroyed /\ sockets[e].readyState = "open" => sockets[e].early

\* The server keeps no connection whose close event has been emitted
\* (injectConnection), and none that is open escapes its close(): every served
\* socket is known to the server or destroyed.  (It does keep one that was destroyed
\* with an error nobody listened to, until it is closed itself.)
ServerKnowsItsOwn ==
  \A c \in Conns :
    LET e == <<c, "served">> IN
    /\ e \in server.connections => sockets[e].closed = 0
    /\ sockets[e].made => e \in server.connections \/ sockets[e].destroyed

\* The ends of a connection and the server agree on what is open and what was sent.
ConnectionsAgree ==
  /\ SocketsTypeOK
  /\ ReadInOrder
  /\ DestroyedStaysClosed /\ ServerKnowsItsOwn

\* close() of the server and destroy() of a socket are followed by their event, save
\* when the socket was destroyed with an error that nobody listens to: the throw
\* takes the place of 'close'.
CloseIsHeard ==
  /\ \A e \in SocketEnds : sockets[e].destroyed ~> (sockets[e].closed > 0 \/ errors[e] = "unheard")
  /\ \A n \in 1 .. MaxCloses : closings = n ~> server.closed >= n
=============================================================================
