----------------------------- MODULE NodeProofs -----------------------------
(***************************************************************************)
(* Parts that programs are built on, for any values of their constants:    *)
(* a module is one thing for all that require it, however many evaluations *)
(* there are; the listeners of an emitter agree with the emissions over    *)
(* copies of them, however many are added and however deep they emit; the  *)
(* ends of a connection and the server agree on what is open and what was  *)
(* sent, for any connections, writes and closes.                           *)
(***************************************************************************)
EXTENDS EventEmitter, Sockets, Modules, SequenceLemmas

-----------------------------------------------------------------------------
(***************************************************************************)
(* Modules: the cache, the evaluations and the stack of those that run.    *)
(***************************************************************************)
Values == [from : Nat, kind : {"own", "other", "falsy", "none"}]
Evaluations == [file : ModuleFiles, state : {"running", "done", "failed"}, exports : Values]

Types ==
  /\ shim \in BOOLEAN
  /\ cache \in [ModuleFiles -> Values]
  /\ evaluations \in Seq(Evaluations)
  /\ running \in Seq(Nat)

\* The stack holds evaluations that are running, each once.
Stack ==
  /\ \A i \in 1 .. Len(running) : running[i] \in 1 .. Len(evaluations) /\ evaluations[running[i]].state = "running"
  /\ \A i, j \in 1 .. Len(running) : running[i] = running[j] => i = j

\* What a module exports comes from its evaluation.
ExportsAreOwn ==
  \A d \in 1 .. Len(evaluations) : evaluations[d].exports.from = d /\ evaluations[d].exports.kind # "none"

\* A module that is running is in the cache with the object it was given.
OwnWhileRunning ==
  \A d \in 1 .. Len(evaluations) :
    evaluations[d].state = "running" => cache[evaluations[d].file] = Value(d, "own")

\* An entry is that of an evaluation of its file which has not failed ...
EntriesAreTrue ==
  \A f \in ModuleFiles : cache[f] # Uncached =>
    /\ cache[f].from \in 1 .. Len(evaluations)
    /\ evaluations[cache[f].from].file = f
    /\ evaluations[cache[f].from].state # "failed"
    /\ cache[f].kind # "none"

\* ... in the worker with what it exports in the end.
EntriesAreFinal ==
  \A f \in ModuleFiles : ~shim /\ cache[f] # Uncached /\ evaluations[cache[f].from].state = "done" =>
    cache[f] = evaluations[cache[f].from].exports

\* An evaluation that has not failed is the one in the cache, unless the worker
\* did not find it there because it exports something false.
Falsy(d) == ~shim /\ evaluations[d].exports.kind = "falsy" /\ evaluations[d].state = "done"
OthersAreOver ==
  \A d \in 1 .. Len(evaluations) :
    evaluations[d].state = "failed" \/ Falsy(d) \/ cache[evaluations[d].file].from = d

\* What has been returned is what a module exports that is done.
GotIsFinal ==
  \A g \in got :
    /\ g.value.from \in 1 .. Len(evaluations)
    /\ evaluations[g.value.from].file = g.file
    /\ evaluations[g.value.from].state = "done"
    /\ evaluations[g.value.from].exports = g.value

\* A file is evaluated again only after a failure or something false.
OnceAgain ==
  \A d, e \in 1 .. Len(evaluations) : d < e /\ evaluations[d].file = evaluations[e].file =>
    evaluations[d].state = "failed" \/ Falsy(d)

SharedInv ==
  /\ Types /\ Stack /\ ExportsAreOwn /\ OwnWhileRunning
  /\ EntriesAreTrue /\ EntriesAreFinal /\ OthersAreOver /\ OnceAgain /\ GotIsFinal

-----------------------------------------------------------------------------
LEMMA Shapes ==
  ASSUME Types
  PROVE  /\ Len(evaluations) \in Nat /\ Len(running) \in Nat
         /\ DOMAIN evaluations = 1 .. Len(evaluations) /\ DOMAIN running = 1 .. Len(running)
         /\ \A d \in 1 .. Len(evaluations) : evaluations[d] \in Evaluations
         /\ \A i \in 1 .. Len(running) : running[i] \in Nat
         /\ \A f \in ModuleFiles : cache[f] \in Values
         /\ Uncached = [from |-> 0, kind |-> "none"]
BY DEF Types, Uncached, Value

LEMMA Initially == ModulesInit => SharedInv
BY DEF ModulesInit, SharedInv, Types, Values, Evaluations, Uncached, Value, Stack, ExportsAreOwn, OwnWhileRunning,
       EntriesAreTrue, EntriesAreFinal, OthersAreOver, OnceAgain, GotIsFinal

\* Which entry the file of a running module has.
LEMMA RunningIsCached ==
  ASSUME Types, Stack, OwnWhileRunning, NEW i \in 1 .. Len(running)
  PROVE  cache[evaluations[running[i]].file].from = running[i]
<1>1. running[i] \in 1 .. Len(evaluations) /\ evaluations[running[i]].state = "running"  BY DEF Stack
<1>2. cache[evaluations[running[i]].file] = Value(running[i], "own")  BY <1>1 DEF OwnWhileRunning
<1> QED  BY <1>2 DEF Value

LEMMA InvMeansShared == SharedInv => ModulesAreShared
<1> SUFFICES ASSUME SharedInv PROVE ModulesAreShared  OBVIOUS
<1> USE Shapes DEF SharedInv
<1>1. NotReentered
  <2> SUFFICES ASSUME NEW i \in 1 .. Len(running), NEW j \in 1 .. Len(running),
                      evaluations[running[i]].file = evaluations[running[j]].file
               PROVE  i = j
    BY DEF NotReentered
  <2> QED  BY RunningIsCached DEF Stack
<1>2. EvaluatedOnce
  BY DEF EvaluatedOnce, Evaluated, OnceAgain, Falsy
<1>3. OneExports
  <2> SUFFICES ASSUME NEW g \in got, NEW h \in got, g.file = h.file,
                      ~(~shim /\ "falsy" \in {g.value.kind, h.value.kind})
               PROVE  g.value = h.value
    BY DEF OneExports
  <2>1. g.value.from = h.value.from
    <3>1. ~(g.value.from < h.value.from)  BY DEF GotIsFinal, OnceAgain, Falsy
    <3>2. ~(h.value.from < g.value.from)  BY DEF GotIsFinal, OnceAgain, Falsy
    <3> QED  BY <3>1, <3>2 DEF GotIsFinal
  <2> QED  BY <2>1 DEF GotIsFinal
<1>4. CacheIsTrue
  <2>1. ASSUME NEW f \in ModuleFiles, cache[f] # Uncached
        PROVE  evaluations[cache[f].from].file = f /\ evaluations[cache[f].from].state # "failed"
    BY <2>1 DEF EntriesAreTrue
  <2>2. ASSUME NEW f \in ModuleFiles, NEW i \in 1 .. Len(running), evaluations[running[i]].file = f
        PROVE  cache[f].from = running[i]
    BY <2>2, RunningIsCached
  <2> QED  BY <2>1, <2>2 DEF CacheIsTrue
<1> QED  BY <1>1, <1>2, <1>3, <1>4 DEF ModulesAreShared

-----------------------------------------------------------------------------
\* An evaluation more.
LEMMA OneMore ==
  ASSUME Types, NEW f \in ModuleFiles, NEW state \in {"running", "done"}, NEW v \in Values,
         evaluations' = Append(evaluations, New(f, state, v))
  PROVE  /\ evaluations' \in Seq(Evaluations)
         /\ Len(evaluations') = Len(evaluations) + 1
         /\ \A d \in 1 .. Len(evaluations) : evaluations'[d] = evaluations[d]
         /\ evaluations'[Len(evaluations) + 1].file = f
         /\ evaluations'[Len(evaluations) + 1].state = state
         /\ evaluations'[Len(evaluations) + 1].exports = v
BY DEF Types, New, Evaluations

LEMMA FrontOf ==
  ASSUME NEW S, NEW q \in Seq(S), q # << >>
  PROVE  /\ Front(q) \in Seq(S) /\ Len(Front(q)) = Len(q) - 1
         /\ \A i \in 1 .. Len(q) - 1 : Front(q)[i] = q[i]
<1>1. Len(q) \in Nat /\ Len(q) # 0 /\ \A i \in 1 .. Len(q) : q[i] \in S  OBVIOUS
<1>2. Front(q) = SubSeq(q, 1, Len(q) - 1)  BY DEF Front
<1>3. SubSeq(q, 1, Len(q) - 1) = [i \in 1 .. Len(q) - 1 |-> q[i]]  BY <1>1
<1>4. [i \in 1 .. Len(q) - 1 |-> q[i]] \in Seq(S) /\ Len([i \in 1 .. Len(q) - 1 |-> q[i]]) = Len(q) - 1
  BY <1>1
<1> QED  BY <1>1, <1>2, <1>3, <1>4

\* The innermost running evaluation ends.
LEMMA Popped ==
  ASSUME Types, Stack, running # << >>, running' = Front(running)
  PROVE  /\ running' \in Seq(Nat) /\ Len(running') = Len(running) - 1
         /\ \A i \in 1 .. Len(running) - 1 : running'[i] = running[i] /\ running[i] # Last(running)
         /\ Last(running) = running[Len(running)] /\ Len(running) \in 1 .. Len(running)
         /\ Last(running) \in 1 .. Len(evaluations) /\ evaluations[Last(running)].state = "running"
<1>1. Len(running) \in Nat \ {0} /\ running \in Seq(Nat)  BY DEF Types
<1>2. Last(running) = running[Len(running)] /\ Len(running) \in 1 .. Len(running)  BY <1>1 DEF Last
<1>3. /\ running' \in Seq(Nat) /\ Len(running') = Len(running) - 1
      /\ \A i \in 1 .. Len(running) - 1 : running'[i] = running[i]
  BY <1>1, FrontOf
<1>4. \A i \in 1 .. Len(running) - 1 : running[i] # Last(running)  BY <1>1, <1>2 DEF Stack
<1> QED  BY <1>1, <1>2, <1>3, <1>4 DEF Stack

-----------------------------------------------------------------------------
LEMMA KeptByRequireCached ==
  ASSUME SharedInv, NEW f \in ModuleFiles, RequireCached(f)
  PROVE  SharedInv'
<1> USE Shapes DEF SharedInv
<1>0. /\ UNCHANGED <<shim, cache, evaluations, running>>
      /\ cache[f] # Uncached
  BY DEF RequireCached, InCache
<1>1. GotIsFinal'
  <2>1. CASE evaluations[cache[f].from].state = "done"
    <3>1. got' = got \cup {[file |-> f, value |-> Cached(f)]}  BY <2>1 DEF RequireCached
    <3>2. Cached(f) = evaluations[cache[f].from].exports  BY <1>0, <2>1 DEF Cached, EntriesAreFinal, Types
    <3>3. /\ cache[f].from \in 1 .. Len(evaluations) /\ evaluations[cache[f].from].file = f
          /\ Cached(f).from = cache[f].from
      BY <1>0, <3>2 DEF EntriesAreTrue, ExportsAreOwn
    <3> QED  BY <1>0, <2>1, <3>1, <3>2, <3>3 DEF GotIsFinal
  <2>2. CASE evaluations[cache[f].from].state # "done"
    BY <1>0, <2>2 DEF RequireCached, GotIsFinal
  <2> QED  BY <2>1, <2>2
<1> QED
  BY <1>0, <1>1 DEF Types, Stack, ExportsAreOwn, OwnWhileRunning, EntriesAreTrue, EntriesAreFinal, OthersAreOver,
     OnceAgain, Falsy

\* Before a file is evaluated, every earlier evaluation of it is over.
LEMMA OverBefore ==
  ASSUME SharedInv, NEW f \in ModuleFiles, ~InCache(f), NEW d \in 1 .. Len(evaluations), evaluations[d].file = f
  PROVE  evaluations[d].state = "failed" \/ Falsy(d)
<1> USE Shapes DEF SharedInv
<1>1. SUFFICES ASSUME cache[f].from = d, evaluations[d].state # "failed" PROVE Falsy(d)
  BY DEF OthersAreOver
<1>2. cache[f] # Uncached /\ cache[f].kind # "none"  BY <1>1 DEF EntriesAreTrue
<1>3. ~shim /\ cache[f].kind = "falsy"
  <2> HIDE DEF SharedInv
  <2>1. CASE shim  BY <1>2, <2>1 DEF InCache
  <2>2. CASE ~shim  BY <1>2, <2>2 DEF InCache
  <2> QED  BY <2>1, <2>2
<1>4. evaluations[d].state # "running"
  <2>1. Value(d, "own").kind = "own"  BY DEF Value
  <2>2. evaluations[d].state = "running" => cache[evaluations[d].file] = Value(d, "own")  BY DEF OwnWhileRunning
  <2> QED  BY <1>3, <2>1, <2>2
<1>5. evaluations[d].state = "done"  BY <1>1, <1>4 DEF Evaluations
<1> QED  BY <1>1, <1>2, <1>3, <1>5 DEF EntriesAreFinal, Falsy

LEMMA KeptByRequireScript ==
  ASSUME SharedInv, NEW f \in Scripts, RequireScript(f)
  PROVE  SharedInv'
<1> USE Shapes DEF SharedInv
<1> DEFINE e == Len(evaluations) + 1
<1>0. /\ f \in ModuleFiles /\ Value(e, "own") \in Values /\ Value(e, "own").from = e /\ Value(e, "own").kind = "own"
      /\ Value(e, "own") # Uncached
  BY DEF ModuleFiles, Values, Value
<1>1. /\ ~InCache(f) /\ evaluations' = Append(evaluations, New(f, "running", Value(e, "own")))
      /\ running' = Append(running, e) /\ cache' = [cache EXCEPT ![f] = Value(e, "own")]
      /\ UNCHANGED <<shim, got>>
  BY DEF RequireScript, Entered
<1>2. /\ evaluations' \in Seq(Evaluations) /\ Len(evaluations') = e
      /\ \A d \in 1 .. Len(evaluations) : evaluations'[d] = evaluations[d]
      /\ evaluations'[e].file = f /\ evaluations'[e].state = "running" /\ evaluations'[e].exports = Value(e, "own")
  BY <1>0, <1>1, OneMore
<1>3. /\ running' \in Seq(Nat) /\ Len(running') = Len(running) + 1
      /\ \A i \in 1 .. Len(running) : running'[i] = running[i]
      /\ running'[Len(running) + 1] = e
  BY <1>1 DEF Types
<1>4. /\ cache' \in [ModuleFiles -> Values] /\ cache'[f] = Value(e, "own")
      /\ \A g \in ModuleFiles : g # f => cache'[g] = cache[g]
  BY <1>0, <1>1 DEF Types
<1>n. /\ \A d \in 1 .. Len(evaluations') : d \in 1 .. Len(evaluations) \/ d = e
      /\ \A d \in 1 .. Len(evaluations) : d < e /\ d \in 1 .. Len(evaluations')
      /\ e \in 1 .. Len(evaluations')
  BY <1>2
<1> HIDE DEF e
<1>over. \A d \in 1 .. Len(evaluations) : evaluations[d].file = f => evaluations[d].state = "failed" \/ Falsy(d)
  BY <1>0, <1>1, OverBefore
<1>falsy. \A d \in 1 .. Len(evaluations) : Falsy(d) => Falsy(d)'
  BY <1>1, <1>2 DEF Falsy
<1>5. Types'  BY <1>1, <1>2, <1>3, <1>4 DEF Types
<1>6. Stack'
  <2>1. \A i \in 1 .. Len(running') : i \in 1 .. Len(running) \/ i = Len(running) + 1  BY <1>3
  <2>2. \A i \in 1 .. Len(running') : running'[i] \in 1 .. Len(evaluations') /\ evaluations'[running'[i]].state = "running"
    BY <1>2, <1>3, <1>n, <2>1 DEF Stack
  <2>3. \A i \in 1 .. Len(running) : running'[i] < e  BY <1>3, <1>n DEF Stack
  <2>4. \A i, j \in 1 .. Len(running') : running'[i] = running'[j] => i = j  BY <1>3, <2>1, <2>3 DEF Stack
  <2> QED  BY <2>2, <2>4 DEF Stack
<1>7. ExportsAreOwn'  BY <1>0, <1>2, <1>n DEF ExportsAreOwn
<1>8. OwnWhileRunning'
  <2> SUFFICES ASSUME NEW d \in 1 .. Len(evaluations'), evaluations'[d].state = "running"
               PROVE  cache'[evaluations'[d].file] = Value(d, "own")
    BY DEF OwnWhileRunning
  <2>1. CASE d = e  BY <2>1, <1>2, <1>4
  <2>2. CASE d \in 1 .. Len(evaluations)
    <3>1. evaluations[d].file # f  BY <2>2, <1>2, <1>over DEF Falsy
    <3>2. evaluations[d].file \in ModuleFiles  BY <2>2 DEF Evaluations
    <3> QED  BY <2>2, <1>2, <1>4, <3>1, <3>2 DEF OwnWhileRunning
  <2> QED  BY <2>1, <2>2, <1>n
<1>9. EntriesAreTrue'
  <2> SUFFICES ASSUME NEW g \in ModuleFiles, cache'[g] # Uncached
               PROVE  /\ cache'[g].from \in 1 .. Len(evaluations') /\ evaluations'[cache'[g].from].file = g
                      /\ evaluations'[cache'[g].from].state # "failed" /\ cache'[g].kind # "none"
    BY DEF EntriesAreTrue, Uncached
  <2>1. CASE g = f  BY <2>1, <1>0, <1>2, <1>4, <1>n
  <2>2. CASE g # f  BY <2>2, <1>2, <1>4, <1>n DEF EntriesAreTrue
  <2> QED  BY <2>1, <2>2
<1>10. EntriesAreFinal'
  <2> SUFFICES ASSUME NEW g \in ModuleFiles, ~shim', cache'[g] # Uncached, evaluations'[cache'[g].from].state = "done"
               PROVE  cache'[g] = evaluations'[cache'[g].from].exports
    BY DEF EntriesAreFinal, Uncached
  <2>1. g # f  BY <1>0, <1>2, <1>4
  <2> QED  BY <2>1, <1>1, <1>2, <1>4 DEF EntriesAreFinal, EntriesAreTrue
<1>11. OthersAreOver'
  <2> SUFFICES ASSUME NEW d \in 1 .. Len(evaluations')
               PROVE  evaluations'[d].state = "failed" \/ Falsy(d)' \/ cache'[evaluations'[d].file].from = d
    BY DEF OthersAreOver
  <2>1. CASE d = e  BY <2>1, <1>0, <1>2, <1>4
  <2>2. CASE d \in 1 .. Len(evaluations)
    <3>1. evaluations[d].file \in ModuleFiles  BY <2>2 DEF Evaluations
    <3>2. CASE evaluations[d].file = f  BY <2>2, <3>2, <1>2, <1>over, <1>falsy
    <3>3. CASE evaluations[d].file # f  BY <2>2, <3>1, <3>3, <1>2, <1>4, <1>falsy DEF OthersAreOver
    <3> QED  BY <3>2, <3>3
  <2> QED  BY <2>1, <2>2, <1>n
<1>12. OnceAgain'
  <2> SUFFICES ASSUME NEW c \in 1 .. Len(evaluations'), NEW d \in 1 .. Len(evaluations'), c < d,
                      evaluations'[c].file = evaluations'[d].file
               PROVE  evaluations'[c].state = "failed" \/ Falsy(c)'
    BY DEF OnceAgain
  <2>0. c \in 1 .. Len(evaluations)  BY <1>n, <1>2 DEF e
  <2>1. CASE d = e  BY <2>0, <2>1, <1>2, <1>over, <1>falsy
  <2>2. CASE d \in 1 .. Len(evaluations)  BY <2>0, <2>2, <1>2, <1>falsy DEF OnceAgain
  <2> QED  BY <2>1, <2>2, <1>n
<1>13. GotIsFinal'  BY <1>1, <1>2, <1>n DEF GotIsFinal
<1> QED  BY <1>5, <1>6, <1>7, <1>8, <1>9, <1>10, <1>11, <1>12, <1>13

LEMMA KeptByRequireJson ==
  ASSUME SharedInv, NEW f \in JsonFiles, NEW kind \in {"other", "falsy"}, RequireJson(f, kind)
  PROVE  SharedInv'
<1> USE Shapes DEF SharedInv
<1> DEFINE e == Len(evaluations) + 1
           v == Value(e, kind)
<1>0. /\ f \in ModuleFiles /\ v \in Values /\ v.from = e /\ v.kind # "none" /\ v # Uncached
  BY DEF ModuleFiles, Values, Value
<1>1. /\ ~InCache(f) /\ evaluations' = Append(evaluations, New(f, "done", v))
      /\ cache' = [cache EXCEPT ![f] = v] /\ got' = got \cup {[file |-> f, value |-> v]}
      /\ UNCHANGED <<shim, running>>
  BY DEF RequireJson
<1>2. /\ evaluations' \in Seq(Evaluations) /\ Len(evaluations') = e
      /\ \A d \in 1 .. Len(evaluations) : evaluations'[d] = evaluations[d]
      /\ evaluations'[e].file = f /\ evaluations'[e].state = "done" /\ evaluations'[e].exports = v
  <2> HIDE DEF v
  <2> QED  BY <1>0, <1>1, OneMore
<1>4. /\ cache' \in [ModuleFiles -> Values] /\ cache'[f] = v
      /\ \A g \in ModuleFiles : g # f => cache'[g] = cache[g]
  BY <1>0, <1>1 DEF Types
<1>n. /\ \A d \in 1 .. Len(evaluations') : d \in 1 .. Len(evaluations) \/ d = e
      /\ \A d \in 1 .. Len(evaluations) : d < e /\ d \in 1 .. Len(evaluations')
      /\ e \in 1 .. Len(evaluations')
  BY <1>2
<1>e. \A c, d \in 1 .. Len(evaluations') : c < d => c \in 1 .. Len(evaluations)  BY <1>2
<1> HIDE DEF e, v
<1>over. \A d \in 1 .. Len(evaluations) : evaluations[d].file = f => evaluations[d].state = "failed" \/ Falsy(d)
  BY <1>0, <1>1, OverBefore
<1>falsy. \A d \in 1 .. Len(evaluations) : Falsy(d) => Falsy(d)'
  BY <1>1, <1>2 DEF Falsy
<1>5. Types'  BY <1>1, <1>2, <1>4 DEF Types
<1>6. Stack'  BY <1>1, <1>2, <1>n DEF Stack
<1>7. ExportsAreOwn'  BY <1>0, <1>2, <1>n DEF ExportsAreOwn
<1>8. OwnWhileRunning'
  <2> SUFFICES ASSUME NEW d \in 1 .. Len(evaluations'), evaluations'[d].state = "running"
               PROVE  cache'[evaluations'[d].file] = Value(d, "own")
    BY DEF OwnWhileRunning
  <2>1. d \in 1 .. Len(evaluations)  BY <1>2, <1>n
  <2>2. evaluations[d].file # f  BY <2>1, <1>2, <1>over DEF Falsy
  <2>3. evaluations[d].file \in ModuleFiles  BY <2>1 DEF Evaluations
  <2> QED  BY <2>1, <2>2, <2>3, <1>2, <1>4 DEF OwnWhileRunning
<1>9. EntriesAreTrue'
  <2> SUFFICES ASSUME NEW g \in ModuleFiles, cache'[g] # Uncached
               PROVE  /\ cache'[g].from \in 1 .. Len(evaluations') /\ evaluations'[cache'[g].from].file = g
                      /\ evaluations'[cache'[g].from].state # "failed" /\ cache'[g].kind # "none"
    BY DEF EntriesAreTrue, Uncached
  <2>1. CASE g = f  BY <2>1, <1>0, <1>2, <1>4, <1>n
  <2>2. CASE g # f  BY <2>2, <1>2, <1>4, <1>n DEF EntriesAreTrue
  <2> QED  BY <2>1, <2>2
<1>10. EntriesAreFinal'
  <2> SUFFICES ASSUME NEW g \in ModuleFiles, ~shim', cache'[g] # Uncached, evaluations'[cache'[g].from].state = "done"
               PROVE  cache'[g] = evaluations'[cache'[g].from].exports
    BY DEF EntriesAreFinal, Uncached
  <2>1. CASE g = f  BY <2>1, <1>0, <1>2, <1>4
  <2>2. CASE g # f  BY <2>2, <1>1, <1>2, <1>4 DEF EntriesAreFinal, EntriesAreTrue
  <2> QED  BY <2>1, <2>2
<1>11. OthersAreOver'
  <2> SUFFICES ASSUME NEW d \in 1 .. Len(evaluations')
               PROVE  evaluations'[d].state = "failed" \/ Falsy(d)' \/ cache'[evaluations'[d].file].from = d
    BY DEF OthersAreOver
  <2>1. CASE d = e  BY <2>1, <1>0, <1>2, <1>4
  <2>2. CASE d \in 1 .. Len(evaluations)
    <3>1. evaluations[d].file \in ModuleFiles  BY <2>2 DEF Evaluations
    <3>2. CASE evaluations[d].file = f  BY <2>2, <3>2, <1>2, <1>over, <1>falsy
    <3>3. CASE evaluations[d].file # f  BY <2>2, <3>1, <3>3, <1>2, <1>4, <1>falsy DEF OthersAreOver
    <3> QED  BY <3>2, <3>3
  <2> QED  BY <2>1, <2>2, <1>n
<1>12. OnceAgain'
  <2> SUFFICES ASSUME NEW c \in 1 .. Len(evaluations'), NEW d \in 1 .. Len(evaluations'), c < d,
                      evaluations'[c].file = evaluations'[d].file
               PROVE  evaluations'[c].state = "failed" \/ Falsy(c)'
    BY DEF OnceAgain
  <2>0. c \in 1 .. Len(evaluations)  BY <1>e
  <2>1. CASE d = e  BY <2>0, <2>1, <1>2, <1>over, <1>falsy
  <2>2. CASE d \in 1 .. Len(evaluations)  BY <2>0, <2>2, <1>2, <1>falsy DEF OnceAgain
  <2> QED  BY <2>1, <2>2, <1>n
<1>13. GotIsFinal'
  <2> SUFFICES ASSUME NEW g \in got'
               PROVE  /\ g.value.from \in 1 .. Len(evaluations') /\ evaluations'[g.value.from].file = g.file
                      /\ evaluations'[g.value.from].state = "done" /\ evaluations'[g.value.from].exports = g.value
    BY DEF GotIsFinal
  <2>1. CASE g \in got  BY <2>1, <1>2, <1>n DEF GotIsFinal
  <2>2. CASE g = [file |-> f, value |-> v]  BY <2>2, <1>0, <1>2, <1>n
  <2> QED  BY <2>1, <2>2, <1>1
<1> QED  BY <1>5, <1>6, <1>7, <1>8, <1>9, <1>10, <1>11, <1>12, <1>13

-----------------------------------------------------------------------------
\* A module that is running assigns its exports; its entry is another object.
LEMMA KeptByAssignExports ==
  ASSUME SharedInv, NEW i \in DOMAIN running, NEW kind \in {"other", "falsy"}, AssignExports(i, kind)
  PROVE  SharedInv'
<1> USE Shapes DEF SharedInv
<1> DEFINE e == running[i]
           v == Value(e, kind)
<1>0. /\ e \in 1 .. Len(evaluations) /\ evaluations[e].state = "running"
      /\ v \in Values /\ v.from = e /\ v.kind # "none"
  BY DEF Stack, Values, Value
<1>1. /\ evaluations' = [evaluations EXCEPT ![e].exports = v]
      /\ UNCHANGED <<shim, cache, running, got>>
  BY DEF AssignExports
<1> HIDE DEF e, v
<1>2. evaluations' \in Seq(Evaluations) /\ Len(evaluations') = Len(evaluations)
  <2>1. [evaluations[e] EXCEPT !.exports = v] \in Evaluations  BY <1>0 DEF Evaluations
  <2> QED  BY <1>0, <1>1, <2>1 DEF Types
<1>3. /\ \A d \in 1 .. Len(evaluations) : d # e => evaluations'[d] = evaluations[d]
      /\ evaluations'[e].exports = v
      /\ evaluations'[e].file = evaluations[e].file /\ evaluations'[e].state = "running"
  BY <1>0, <1>1 DEF Evaluations
<1>4. \A d \in 1 .. Len(evaluations) :
        evaluations'[d].file = evaluations[d].file /\ evaluations'[d].state = evaluations[d].state
  BY <1>0, <1>3
<1>falsy. \A d \in 1 .. Len(evaluations) : Falsy(d) => Falsy(d)'
  BY <1>0, <1>1, <1>3 DEF Falsy
<1>5. Types'  BY <1>1, <1>2 DEF Types
<1>6. Stack'  BY <1>1, <1>2, <1>4 DEF Stack
<1>7. ExportsAreOwn'  BY <1>0, <1>2, <1>3 DEF ExportsAreOwn
<1>8. OwnWhileRunning'  BY <1>1, <1>2, <1>4 DEF OwnWhileRunning
<1>9. EntriesAreTrue'  BY <1>1, <1>2, <1>4 DEF EntriesAreTrue, Uncached
<1>10. EntriesAreFinal'
  <2> SUFFICES ASSUME NEW g \in ModuleFiles, ~shim', cache'[g] # Uncached, evaluations'[cache'[g].from].state = "done"
               PROVE  cache'[g] = evaluations'[cache'[g].from].exports
    BY DEF EntriesAreFinal, Uncached
  <2>1. cache[g] # Uncached /\ ~shim /\ cache[g].from \in 1 .. Len(evaluations)  BY <1>1 DEF EntriesAreTrue
  <2>2. cache[g].from # e  BY <1>1, <1>3
  <2> QED  BY <2>1, <2>2, <1>1, <1>3 DEF EntriesAreFinal
<1>11. OthersAreOver'  BY <1>1, <1>2, <1>4, <1>falsy DEF OthersAreOver
<1>12. OnceAgain'  BY <1>2, <1>4, <1>falsy DEF OnceAgain
<1>13. GotIsFinal'  BY <1>0, <1>1, <1>2, <1>3 DEF GotIsFinal
<1> QED  BY <1>5, <1>6, <1>7, <1>8, <1>9, <1>10, <1>11, <1>12, <1>13

\* The body of a module ends.
LEMMA KeptByModuleEnds ==
  ASSUME SharedInv, ModuleEnds
  PROVE  SharedInv'
<1> USE Shapes DEF SharedInv
<1> DEFINE e == Last(running)
           f == evaluations[e].file
           v == evaluations[e].exports
<1>0. running # << >> /\ running' = Front(running)  BY DEF ModuleEnds
<1>1. /\ running' \in Seq(Nat) /\ Len(running') = Len(running) - 1
      /\ \A i \in 1 .. Len(running) - 1 : running'[i] = running[i] /\ running[i] # e
      /\ e \in 1 .. Len(evaluations) /\ evaluations[e].state = "running"
  BY <1>0, Popped
<1>2. /\ evaluations' = [evaluations EXCEPT ![e].state = "done"]
      /\ cache' = [cache EXCEPT ![f] = IF shim THEN cache[f] ELSE v]
      /\ UNCHANGED shim
  <2>1. /\ evaluations' = [evaluations EXCEPT ![e].state = "done"] /\ UNCHANGED shim
        /\ cache' = IF shim THEN cache ELSE [cache EXCEPT ![f] = v]
    BY DEF ModuleEnds, Final
  <2>2. cache = [cache EXCEPT ![f] = cache[f]]  BY DEF Types
  <2>3. CASE shim  BY <2>1, <2>2, <2>3
  <2>4. CASE ~shim  BY <2>1, <2>4
  <2> QED  BY <2>3, <2>4
<1>3. /\ f \in ModuleFiles /\ v \in Values /\ v.from = e /\ v.kind # "none"
      /\ cache[f] = Value(e, "own") /\ cache[f].from = e /\ cache[f] # Uncached
  BY <1>1 DEF Evaluations, ExportsAreOwn, OwnWhileRunning, Value
<1>4. /\ cache' \in [ModuleFiles -> Values] /\ cache'[f] = IF shim THEN cache[f] ELSE v
      /\ \A g \in ModuleFiles : g # f => cache'[g] = cache[g]
  BY <1>2, <1>3 DEF Types, Values
<1> HIDE DEF e, f, v
<1>f. evaluations[e].file = f /\ evaluations[e].exports = v  BY DEF f, v
<1>5. evaluations' \in Seq(Evaluations) /\ Len(evaluations') = Len(evaluations)
  <2>1. [evaluations[e] EXCEPT !.state = "done"] \in Evaluations  BY <1>1 DEF Evaluations
  <2> QED  BY <1>1, <1>2, <2>1 DEF Types
<1>6. /\ \A d \in 1 .. Len(evaluations) : d # e => evaluations'[d] = evaluations[d]
      /\ evaluations'[e].state = "done" /\ evaluations'[e].file = f /\ evaluations'[e].exports = v
  BY <1>1, <1>2, <1>f DEF Evaluations
<1>7. \A d \in 1 .. Len(evaluations) :
        evaluations'[d].file = evaluations[d].file /\ evaluations'[d].exports = evaluations[d].exports
  BY <1>6, <1>f
<1>falsy. \A d \in 1 .. Len(evaluations) : Falsy(d) => Falsy(d)' /\ d # e
  BY <1>1, <1>2, <1>6 DEF Falsy
<1>apart. \A d \in 1 .. Len(evaluations) : evaluations[d].state = "running" /\ evaluations[d].file = f => d = e
  <2>1. \A d \in 1 .. Len(evaluations) : Value(d, "own").from = d  BY DEF Value
  <2> QED  BY <1>3, <2>1 DEF OwnWhileRunning
<1>8. Types'  BY <1>1, <1>2, <1>4, <1>5 DEF Types
<1>9. Stack'
  <2> SUFFICES ASSUME NEW i \in 1 .. Len(running'), NEW j \in 1 .. Len(running')
               PROVE  /\ running'[i] \in 1 .. Len(evaluations') /\ evaluations'[running'[i]].state = "running"
                      /\ running'[i] = running'[j] => i = j
    BY DEF Stack
  <2>1. i \in 1 .. Len(running) - 1 /\ j \in 1 .. Len(running) - 1 /\ i \in 1 .. Len(running) /\ j \in 1 .. Len(running)
    BY <1>1
  <2>2. running[i] \in 1 .. Len(evaluations) /\ running[i] # e /\ evaluations[running[i]].state = "running"
    BY <1>1, <2>1 DEF Stack
  <2>3. running'[i] = running[i] /\ running'[j] = running[j]  BY <1>1, <2>1
  <2>4. running[i] = running[j] => i = j  BY <2>1 DEF Stack
  <2> QED  BY <1>5, <1>6, <2>2, <2>3, <2>4
<1>10. ExportsAreOwn'  BY <1>5, <1>7 DEF ExportsAreOwn
<1>11. OwnWhileRunning'
  <2> SUFFICES ASSUME NEW d \in 1 .. Len(evaluations'), evaluations'[d].state = "running"
               PROVE  cache'[evaluations'[d].file] = Value(d, "own")
    BY DEF OwnWhileRunning
  <2>1. d \in 1 .. Len(evaluations) /\ d # e  BY <1>5, <1>6
  <2>2. evaluations[d].file # f /\ evaluations[d].file \in ModuleFiles  BY <1>6, <1>apart, <2>1 DEF Evaluations
  <2> QED  BY <1>4, <1>6, <2>1, <2>2 DEF OwnWhileRunning
<1>entry. cache'[f].from = e /\ cache'[f] # Uncached /\ cache'[f].kind # "none"
  <2>1. CASE shim  BY <1>3, <1>4, <2>1 DEF EntriesAreTrue
  <2>2. CASE ~shim  BY <1>1, <1>3, <1>4, <2>2
  <2> QED  BY <2>1, <2>2
<1>12. EntriesAreTrue'
  <2> SUFFICES ASSUME NEW g \in ModuleFiles, cache'[g] # Uncached
               PROVE  /\ cache'[g].from \in 1 .. Len(evaluations') /\ evaluations'[cache'[g].from].file = g
                      /\ evaluations'[cache'[g].from].state # "failed" /\ cache'[g].kind # "none"
    BY DEF EntriesAreTrue, Uncached
  <2>1. CASE g = f  BY <2>1, <1>1, <1>5, <1>6, <1>entry
  <2>2. CASE g # f  BY <2>2, <1>4, <1>5, <1>6, <1>f DEF EntriesAreTrue
  <2> QED  BY <2>1, <2>2
<1>13. EntriesAreFinal'
  <2> SUFFICES ASSUME NEW g \in ModuleFiles, ~shim', cache'[g] # Uncached, evaluations'[cache'[g].from].state = "done"
               PROVE  cache'[g] = evaluations'[cache'[g].from].exports
    BY DEF EntriesAreFinal, Uncached
  <2>0. ~shim  BY <1>2
  <2>1. CASE g = f  BY <2>0, <2>1, <1>3, <1>4, <1>6
  <2>2. CASE g # f
    <3>1. cache'[g] = cache[g] /\ cache[g] # Uncached  BY <2>2, <1>4
    <3>2. cache[g].from \in 1 .. Len(evaluations) /\ cache[g].from # e  BY <2>2, <3>1, <1>f DEF EntriesAreTrue
    <3> QED  BY <2>0, <3>1, <3>2, <1>6 DEF EntriesAreFinal
  <2> QED  BY <2>1, <2>2
<1>14. OthersAreOver'
  <2> SUFFICES ASSUME NEW d \in 1 .. Len(evaluations')
               PROVE  evaluations'[d].state = "failed" \/ Falsy(d)' \/ cache'[evaluations'[d].file].from = d
    BY DEF OthersAreOver
  <2>1. CASE d = e  BY <2>1, <1>6, <1>entry
  <2>2. CASE d # e
    <3>1. d \in 1 .. Len(evaluations) /\ evaluations[d].file \in ModuleFiles  BY <1>5 DEF Evaluations
    <3>2. evaluations[d].file = f => evaluations[d].state = "failed" \/ Falsy(d)  BY <2>2, <3>1, <1>3 DEF OthersAreOver
    <3> QED  BY <2>2, <3>1, <3>2, <1>4, <1>6, <1>falsy DEF OthersAreOver
  <2> QED  BY <2>1, <2>2
<1>15. OnceAgain'
  <2> SUFFICES ASSUME NEW c \in 1 .. Len(evaluations'), NEW d \in 1 .. Len(evaluations'), c < d,
                      evaluations'[c].file = evaluations'[d].file
               PROVE  evaluations'[c].state = "failed" \/ Falsy(c)'
    BY DEF OnceAgain
  <2>1. c \in 1 .. Len(evaluations) /\ (evaluations[c].state = "failed" \/ Falsy(c))
    BY <1>5, <1>7 DEF OnceAgain
  <2> QED  BY <2>1, <1>1, <1>6, <1>falsy
<1>16. GotIsFinal'
  <2> SUFFICES ASSUME NEW g \in got'
               PROVE  /\ g.value.from \in 1 .. Len(evaluations') /\ evaluations'[g.value.from].file = g.file
                      /\ evaluations'[g.value.from].state = "done" /\ evaluations'[g.value.from].exports = g.value
    BY DEF GotIsFinal
  <2>0. got' = got \cup {[file |-> f, value |-> v]}  BY DEF ModuleEnds, e, f, v
  <2>1. CASE g \in got  BY <2>1, <1>1, <1>5, <1>6 DEF GotIsFinal
  <2>2. CASE g = [file |-> f, value |-> v]  BY <2>2, <1>1, <1>3, <1>5, <1>6
  <2> QED  BY <2>0, <2>1, <2>2
<1> QED  BY <1>8, <1>9, <1>10, <1>11, <1>12, <1>13, <1>14, <1>15, <1>16

\* The body of a module throws.
LEMMA KeptByModuleThrows ==
  ASSUME SharedInv, ModuleThrows
  PROVE  SharedInv'
<1> USE Shapes DEF SharedInv
<1> DEFINE e == Last(running)
           f == evaluations[e].file
           v == evaluations[e].exports
<1>0. running # << >> /\ running' = Front(running)  BY DEF ModuleThrows
<1>1. /\ running' \in Seq(Nat) /\ Len(running') = Len(running) - 1
      /\ \A i \in 1 .. Len(running) - 1 : running'[i] = running[i] /\ running[i] # e
      /\ e \in 1 .. Len(evaluations) /\ evaluations[e].state = "running"
  BY <1>0, Popped
<1>2. /\ evaluations' = [evaluations EXCEPT ![e].state = "failed"]
      /\ cache' = [cache EXCEPT ![f] = Uncached]
      /\ UNCHANGED shim
  BY DEF ModuleThrows, WithoutIt
<1>3. /\ f \in ModuleFiles /\ v \in Values /\ v.from = e /\ v.kind # "none"
      /\ cache[f] = Value(e, "own") /\ cache[f].from = e /\ cache[f] # Uncached
  BY <1>1 DEF Evaluations, ExportsAreOwn, OwnWhileRunning, Value
<1>4. /\ cache' \in [ModuleFiles -> Values] /\ cache'[f] = Uncached
      /\ \A g \in ModuleFiles : g # f => cache'[g] = cache[g]
  BY <1>2, <1>3 DEF Types, Values
<1> HIDE DEF e, f, v
<1>f. evaluations[e].file = f /\ evaluations[e].exports = v  BY DEF f, v
<1>5. evaluations' \in Seq(Evaluations) /\ Len(evaluations') = Len(evaluations)
  <2>1. [evaluations[e] EXCEPT !.state = "failed"] \in Evaluations  BY <1>1 DEF Evaluations
  <2> QED  BY <1>1, <1>2, <2>1 DEF Types
<1>6. /\ \A d \in 1 .. Len(evaluations) : d # e => evaluations'[d] = evaluations[d]
      /\ evaluations'[e].state = "failed" /\ evaluations'[e].file = f /\ evaluations'[e].exports = v
  BY <1>1, <1>2, <1>f DEF Evaluations
<1>7. \A d \in 1 .. Len(evaluations) :
        evaluations'[d].file = evaluations[d].file /\ evaluations'[d].exports = evaluations[d].exports
  BY <1>6, <1>f
<1>falsy. \A d \in 1 .. Len(evaluations) : Falsy(d) => Falsy(d)' /\ d # e
  BY <1>1, <1>2, <1>6 DEF Falsy
<1>apart. \A d \in 1 .. Len(evaluations) : evaluations[d].state = "running" /\ evaluations[d].file = f => d = e
  <2>1. \A d \in 1 .. Len(evaluations) : Value(d, "own").from = d  BY DEF Value
  <2> QED  BY <1>3, <2>1 DEF OwnWhileRunning
<1>8. Types'  BY <1>1, <1>2, <1>4, <1>5 DEF Types
<1>9. Stack'
  <2> SUFFICES ASSUME NEW i \in 1 .. Len(running'), NEW j \in 1 .. Len(running')
               PROVE  /\ running'[i] \in 1 .. Len(evaluations') /\ evaluations'[running'[i]].state = "running"
                      /\ running'[i] = running'[j] => i = j
    BY DEF Stack
  <2>1. i \in 1 .. Len(running) - 1 /\ j \in 1 .. Len(running) - 1 /\ i \in 1 .. Len(running) /\ j \in 1 .. Len(running)
    BY <1>1
  <2>2. running[i] \in 1 .. Len(evaluations) /\ running[i] # e /\ evaluations[running[i]].state = "running"
    BY <1>1, <2>1 DEF Stack
  <2>3. running'[i] = running[i] /\ running'[j] = running[j]  BY <1>1, <2>1
  <2>4. running[i] = running[j] => i = j  BY <2>1 DEF Stack
  <2> QED  BY <1>5, <1>6, <2>2, <2>3, <2>4
<1>10. ExportsAreOwn'  BY <1>5, <1>7 DEF ExportsAreOwn
<1>11. OwnWhileRunning'
  <2> SUFFICES ASSUME NEW d \in 1 .. Len(evaluations'), evaluations'[d].state = "running"
               PROVE  cache'[evaluations'[d].file] = Value(d, "own")
    BY DEF OwnWhileRunning
  <2>1. d \in 1 .. Len(evaluations) /\ d # e  BY <1>5, <1>6
  <2>2. evaluations[d].file # f /\ evaluations[d].file \in ModuleFiles  BY <1>6, <1>apart, <2>1 DEF Evaluations
  <2> QED  BY <1>4, <1>6, <2>1, <2>2 DEF OwnWhileRunning
<1>12. EntriesAreTrue'
  <2> SUFFICES ASSUME NEW g \in ModuleFiles, cache'[g] # Uncached
               PROVE  /\ cache'[g].from \in 1 .. Len(evaluations') /\ evaluations'[cache'[g].from].file = g
                      /\ evaluations'[cache'[g].from].state # "failed" /\ cache'[g].kind # "none"
    BY DEF EntriesAreTrue, Uncached
  <2>1. g # f /\ cache'[g] = cache[g]  BY <1>4
  <2>2. cache[g].from \in 1 .. Len(evaluations) /\ cache[g].from # e  BY <2>1, <1>f DEF EntriesAreTrue
  <2> QED  BY <2>1, <2>2, <1>5, <1>6 DEF EntriesAreTrue
<1>13. EntriesAreFinal'
  <2> SUFFICES ASSUME NEW g \in ModuleFiles, ~shim', cache'[g] # Uncached, evaluations'[cache'[g].from].state = "done"
               PROVE  cache'[g] = evaluations'[cache'[g].from].exports
    BY DEF EntriesAreFinal, Uncached
  <2>1. g # f /\ cache'[g] = cache[g] /\ ~shim  BY <1>2, <1>4
  <2>2. cache[g].from \in 1 .. Len(evaluations) /\ cache[g].from # e  BY <2>1, <1>f DEF EntriesAreTrue
  <2> QED  BY <2>1, <2>2, <1>6 DEF EntriesAreFinal
<1>14. OthersAreOver'
  <2> SUFFICES ASSUME NEW d \in 1 .. Len(evaluations')
               PROVE  evaluations'[d].state = "failed" \/ Falsy(d)' \/ cache'[evaluations'[d].file].from = d
    BY DEF OthersAreOver
  <2>1. CASE d = e  BY <2>1, <1>6
  <2>2. CASE d # e
    <3>1. d \in 1 .. Len(evaluations) /\ evaluations[d].file \in ModuleFiles  BY <1>5 DEF Evaluations
    <3>2. evaluations[d].file = f => evaluations[d].state = "failed" \/ Falsy(d)  BY <2>2, <3>1, <1>3 DEF OthersAreOver
    <3> QED  BY <2>2, <3>1, <3>2, <1>4, <1>6, <1>falsy DEF OthersAreOver
  <2> QED  BY <2>1, <2>2
<1>15. OnceAgain'
  <2> SUFFICES ASSUME NEW c \in 1 .. Len(evaluations'), NEW d \in 1 .. Len(evaluations'), c < d,
                      evaluations'[c].file = evaluations'[d].file
               PROVE  evaluations'[c].state = "failed" \/ Falsy(c)'
    BY DEF OnceAgain
  <2>1. c \in 1 .. Len(evaluations) /\ (evaluations[c].state = "failed" \/ Falsy(c))
    BY <1>5, <1>7 DEF OnceAgain
  <2> QED  BY <2>1, <1>1, <1>6, <1>falsy
<1>16. GotIsFinal'  BY <1>1, <1>5, <1>6 DEF GotIsFinal, ModuleThrows
<1> QED  BY <1>8, <1>9, <1>10, <1>11, <1>12, <1>13, <1>14, <1>15, <1>16

-----------------------------------------------------------------------------
THEOREM Inductive == ModulesSpec => []SharedInv
<1>1. SharedInv /\ [ModulesNext]_moduleVars => SharedInv'
  <2> SUFFICES ASSUME SharedInv, [ModulesNext]_moduleVars PROVE SharedInv'  OBVIOUS
  <2>1. CASE \E f \in ModuleFiles : RequireCached(f)  BY <2>1, KeptByRequireCached
  <2>2. CASE \E f \in Scripts : RequireScript(f)  BY <2>2, KeptByRequireScript
  <2>3. CASE \E f \in JsonFiles, kind \in {"other", "falsy"} : RequireJson(f, kind)  BY <2>3, KeptByRequireJson
  <2>4. CASE \E i \in DOMAIN running, kind \in {"other", "falsy"} : AssignExports(i, kind)
    BY <2>4, KeptByAssignExports
  <2>5. CASE ModuleEnds  BY <2>5, KeptByModuleEnds
  <2>6. CASE ModuleThrows  BY <2>6, KeptByModuleThrows
  <2>7. CASE UNCHANGED moduleVars
    BY <2>7 DEF SharedInv, moduleVars, Types, Stack, ExportsAreOwn, OwnWhileRunning, EntriesAreTrue, EntriesAreFinal,
       OthersAreOver, OnceAgain, GotIsFinal, Falsy
  <2> QED  BY <2>1, <2>2, <2>3, <2>4, <2>5, <2>6, <2>7 DEF ModulesNext
<1> QED  BY Initially, <1>1, PTL DEF ModulesSpec

\* In both loaders (loadModule, Module._require): a circle of modules comes to an
\* end, a module is evaluated again only after it threw or, in the worker, if
\* what it exports is false, all get the same exports, and the cache holds what
\* runs or has run, and nothing that threw.
THEOREM SharedModules == ModulesSpec => []ModulesAreShared
BY Inductive, InvMeansShared, PTL

-----------------------------------------------------------------------------
(***************************************************************************)
(* Listeners: the arrays on the heap, the map of events, the emissions.    *)
(***************************************************************************)
Listeners == [fn : Fns, once : BOOLEAN, id : Nat]
Emissions == [event : Events, array : Nat, rest : Seq(Listeners), calling : BOOLEAN]
Items(s) == {s[i] : i \in 1 .. Len(s)}
Apart(s) == \A i, j \in 1 .. Len(s) : s[i].id = s[j].id => i = j

\* Every listener is in one place of one array, under a number given out; none
\* that was to be called once is there after its call.
Heap(arrs, n, cs) ==
  /\ arrs \in Seq(Seq(Listeners)) /\ \A a \in 1 .. Len(arrs) : Apart(arrs[a])
  /\ \A a \in 1 .. Len(arrs) : \A x \in Items(arrs[a]) : x.id \in 1 .. n /\ (x.once => x.id \notin cs)
  /\ \A a, b \in 1 .. Len(arrs) : \A x \in Items(arrs[a]), y \in Items(arrs[b]) : x.id = y.id => a = b /\ x = y

\* No two events have one array, and none has an empty one.
MapOf(evs, arrs) ==
  /\ evs \in [Events -> 0 .. Len(arrs)]
  /\ \A e \in Events : evs[e] # 0 => arrs[evs[e]] # << >>
  /\ \A d, e \in Events : evs[d] = evs[e] /\ evs[d] # 0 => d = e

\* An emission holds an array that no other event has, and what it is going to call
\* is in no other array.
Emission(f, arrs, evs, n) ==
  /\ f \in Emissions /\ f.array \in 1 .. Len(arrs)
  /\ \A e \in Events : evs[e] = f.array => e = f.event
  /\ \A x \in Items(f.rest) : x.id \in 1 .. n
  /\ \A x \in Items(f.rest) : \A a \in 1 .. Len(arrs) : \A y \in Items(arrs[a]) : y.id = x.id => a = f.array /\ y = x

Under(fs, arrs, evs, n) == fs \in Seq(Emissions) /\ \A k \in 1 .. Len(fs) : Emission(fs[k], arrs, evs, n)

EmitterInv ==
  /\ added \in 0 .. MaxAdds /\ called \subseteq 1 .. added
  /\ Heap(arrays, added, called) /\ MapOf(events, arrays) /\ Under(frames, arrays, events, added)

-----------------------------------------------------------------------------
LEMMA EmitterInitially == EmitterInit => EmitterInv
<1> SUFFICES ASSUME EmitterInit PROVE EmitterInv
  OBVIOUS
<1>1. arrays = << >> /\ frames = << >> /\ called = {} /\ added = 0 /\ \A e \in Events : events[e] = 0
  BY DEF EmitterInit
<1>2. Heap(arrays, added, called) /\ MapOf(events, arrays) /\ Under(frames, arrays, events, added)
  BY <1>1 DEF EmitterInit, Heap, MapOf, Under
<1> QED
  BY <1>1, <1>2, EmitterAssumption DEF EmitterInv

LEMMA ItemsAre ==
  ASSUME NEW s \in Seq(Listeners)
  PROVE  /\ Items(s) \subseteq Listeners /\ (s = << >> <=> Items(s) = {})
         /\ \A i \in 1 .. Len(s) : s[i] \in Items(s)
<1>1. Len(s) \in Nat /\ \A i \in 1 .. Len(s) : s[i] \in Listeners
  OBVIOUS
<1>2. s # << >> => 1 \in 1 .. Len(s)
  OBVIOUS
<1>3. Items(s) \subseteq Listeners /\ \A i \in 1 .. Len(s) : s[i] \in Items(s)
  BY <1>1 DEF Items
<1>4. s = << >> => Items(s) = {}
  BY DEF Items
<1>5. s # << >> => Items(s) # {}
  BY <1>2, <1>3
<1> QED
  BY <1>3, <1>4, <1>5

\* One of them is removed.
LEMMA ItemRemoved ==
  ASSUME NEW s \in Seq(Listeners), Apart(s), NEW i \in 1 .. Len(s)
  PROVE  /\ RemoveAt(s, i) \in Seq(Listeners) /\ Apart(RemoveAt(s, i))
         /\ Items(RemoveAt(s, i)) = Items(s) \ {s[i]}
<1> DEFINE n == Len(s)
<1> DEFINE r == RemoveAt(s, i)
<1> DEFINE at(k) == IF k < i THEN k ELSE k + 1
<1>1. n \in Nat /\ i \in 1 .. n /\ 1 .. Len(s) = 1 .. n
  OBVIOUS
<1>2. r \in Seq(Listeners) /\ Len(r) = n - 1 /\ \A k \in 1 .. n - 1 : r[k] = IF k < i THEN s[k] ELSE s[k + 1]
  BY Removing
<1>3. 1 .. Len(r) = 1 .. n - 1 /\ \A k \in 1 .. n - 1 : r[k] = s[at(k)] /\ at(k) \in 1 .. n /\ at(k) # i
  <2> HIDE DEF n, r
  <2> QED
    BY <1>1, <1>2
<1>4. \A k, l \in 1 .. n - 1 : at(k) = at(l) => k = l
  BY <1>1
<1>5. ASSUME NEW j \in 1 .. n, j # i PROVE \E k \in 1 .. n - 1 : at(k) = j
  <2>1. CASE j < i
    <3>1. j \in 1 .. n - 1 /\ at(j) = j
      BY <1>1, <2>1
    <3> QED
      BY <3>1
  <2>2. CASE j > i
    <3>1. j - 1 \in 1 .. n - 1 /\ at(j - 1) = j
      BY <1>1, <2>2
    <3> QED
      BY <3>1
  <2> QED
    BY <1>1, <1>5, <2>1, <2>2
<1> HIDE DEF n, r, at
<1>6. Apart(r)
  BY <1>1, <1>3, <1>4 DEF Apart
<1>7. Items(r) \subseteq Items(s) \ {s[i]}
  BY <1>1, <1>3 DEF Apart, Items
<1>8. ASSUME NEW j \in 1 .. n, s[j] # s[i] PROVE s[j] \in Items(r)
  <2>1. PICK k \in 1 .. n - 1 : at(k) = j
    BY <1>5, <1>8
  <2> QED
    BY <1>3, <2>1 DEF Items
<1>9. Items(r) = Items(s) \ {s[i]}
  BY <1>1, <1>7, <1>8 DEF Items
<1> QED
  BY <1>2, <1>6, <1>9 DEF r

\* A new one is added at either end.
LEMMA ItemAdded ==
  ASSUME NEW s \in Seq(Listeners), Apart(s), NEW l \in Listeners, \A x \in Items(s) : x.id # l.id,
         NEW r, r = <<l>> \o s \/ r = Append(s, l)
  PROVE  r \in Seq(Listeners) /\ Apart(r) /\ Items(r) = Items(s) \cup {l}
<1> DEFINE n == Len(s)
<1>1. n \in Nat /\ 1 .. Len(s) = 1 .. n /\ \A k \in 1 .. n : s[k] \in Listeners /\ s[k].id # l.id
  BY DEF Items
<1>2. \E place \in 1 .. n + 1, at \in [1 .. n -> 1 .. n + 1] :
        /\ r \in Seq(Listeners) /\ Len(r) = n + 1 /\ r[place] = l
        /\ \A k \in 1 .. n : r[at[k]] = s[k]
        /\ \A k \in 1 .. n + 1 : k # place => \E j \in 1 .. n : at[j] = k
        /\ \A j, k \in 1 .. n : at[j] = at[k] => j = k
  <2>1. CASE r = <<l>> \o s
    <3> DEFINE at == [k \in 1 .. n |-> k + 1]
    <3>1. <<l>> \in Seq(Listeners) /\ Len(<<l>>) = 1 /\ <<l>>[1] = l
      OBVIOUS
    <3>2. r \in Seq(Listeners) /\ Len(r) = 1 + n
      BY <2>1, <3>1, ConcatProperties
    <3>3. \A k \in 1 .. 1 + n : r[k] = IF k <= 1 THEN <<l>>[k] ELSE s[k - 1]
      BY <2>1, <3>1, ConcatProperties
    <3> HIDE DEF n
    <3>4. r[1] = l /\ 1 \in 1 .. n + 1
      BY <1>1, <3>1, <3>3
    <3>5. ASSUME NEW k \in 1 .. n PROVE r[at[k]] = s[k]
      <4>1. k + 1 \in 1 .. 1 + n /\ ~ (k + 1 <= 1) /\ (k + 1) - 1 = k
        BY <1>1
      <4> QED
        BY <3>3, <4>1
    <3>6. ASSUME NEW k \in 1 .. n + 1, k # 1 PROVE \E j \in 1 .. n : at[j] = k
      <4>1. k - 1 \in 1 .. n /\ at[k - 1] = k
        BY <1>1, <3>6
      <4> QED
        BY <4>1
    <3>7. at \in [1 .. n -> 1 .. n + 1] /\ \A j, k \in 1 .. n : at[j] = at[k] => j = k
      BY <1>1
    <3>8. Len(r) = n + 1
      BY <1>1, <3>2
    <3> HIDE DEF at
    <3> QED
      BY <3>2, <3>4, <3>5, <3>6, <3>7, <3>8
  <2>2. CASE r = Append(s, l)
    <3> DEFINE at == [k \in 1 .. n |-> k]
    <3>1. r \in Seq(Listeners) /\ Len(r) = n + 1 /\ r[n + 1] = l /\ \A k \in 1 .. n : r[k] = s[k]
      BY <2>2, AppendProperties
    <3> HIDE DEF n
    <3>2. n + 1 \in 1 .. n + 1 /\ \A k \in 1 .. n + 1 : k # n + 1 => k \in 1 .. n /\ at[k] = k
      BY <1>1
    <3>3. at \in [1 .. n -> 1 .. n + 1] /\ \A j, k \in 1 .. n : at[j] = at[k] => j = k
      BY <1>1
    <3>4. \A k \in 1 .. n : r[at[k]] = s[k]
      BY <3>1
    <3>5. \A k \in 1 .. n + 1 : k # n + 1 => \E j \in 1 .. n : at[j] = k
      <4> HIDE DEF at
      <4> QED
        BY <3>2
    <3>6. n + 1 \in 1 .. n + 1
      BY <3>2
    <3> HIDE DEF at
    <3> QED
      BY <3>1, <3>3, <3>4, <3>5, <3>6
  <2> QED
    BY <2>1, <2>2
<1> HIDE DEF n
<1>3. PICK place \in 1 .. n + 1, at \in [1 .. n -> 1 .. n + 1] :
        /\ r \in Seq(Listeners) /\ Len(r) = n + 1 /\ r[place] = l
        /\ \A k \in 1 .. n : r[at[k]] = s[k]
        /\ \A k \in 1 .. n + 1 : k # place => \E j \in 1 .. n : at[j] = k
        /\ \A j, k \in 1 .. n : at[j] = at[k] => j = k
  BY <1>2
<1>4. 1 .. Len(r) = 1 .. n + 1
  BY <1>3
<1>5. \A k \in 1 .. n + 1 : k = place \/ \E j \in 1 .. n : at[j] = k /\ r[k] = s[j]
  BY <1>3
<1>6. Items(r) = Items(s) \cup {l}
  <2>1. \A k \in 1 .. n + 1 : r[k] = l \/ \E j \in 1 .. n : r[k] = s[j]
    BY <1>3, <1>5
  <2>2. \A j \in 1 .. n : at[j] \in 1 .. n + 1 /\ r[at[j]] = s[j]
    BY <1>3
  <2>3. Items(s) \cup {l} \subseteq Items(r)
    <3>1. l \in Items(r)
      BY <1>3, <1>4 DEF Items
    <3>2. ASSUME NEW j \in 1 .. n PROVE s[j] \in Items(r)
      BY <1>4, <2>2 DEF Items
    <3>3. \A x \in Items(s) : \E j \in 1 .. n : x = s[j]
      BY <1>1 DEF Items
    <3> QED
      BY <3>1, <3>2, <3>3
  <2>4. ASSUME NEW k \in 1 .. n + 1 PROVE r[k] \in Items(s) \cup {l}
    BY <1>1, <2>1 DEF Items
  <2>5. \A x \in Items(r) : \E k \in 1 .. n + 1 : x = r[k]
    BY <1>4 DEF Items
  <2> QED
    BY <2>3, <2>4, <2>5
<1>7. Apart(r)
  <2> SUFFICES ASSUME NEW j \in 1 .. n + 1, NEW k \in 1 .. n + 1, r[j].id = r[k].id PROVE j = k
    BY <1>4 DEF Apart
  <2>1. ASSUME NEW m \in 1 .. n + 1, m # place PROVE r[m].id # l.id
    <3>1. PICK i \in 1 .. n : r[m] = s[i]
      BY <1>5, <2>1
    <3> QED
      BY <1>1, <3>1
  <2>3. CASE j = place \/ k = place
    BY <1>3, <2>1, <2>3
  <2>2. CASE j # place /\ k # place
    <3>1. PICK jj \in 1 .. n : at[jj] = j /\ r[j] = s[jj]
      BY <1>5, <2>2
    <3>2. PICK kk \in 1 .. n : at[kk] = k /\ r[k] = s[kk]
      BY <1>5, <2>2
    <3>3. jj = kk
      BY <1>1, <3>1, <3>2 DEF Apart
    <3> QED
      BY <3>1, <3>2, <3>3
  <2> QED
    BY <2>2, <2>3
<1> QED
  BY <1>3, <1>6, <1>7

\* The heap and the map of events move: what an array holds was there before, or is
\* the one new listener; an event keeps its array, loses it or is the one that gets a new one.
LEMMA HeapMoves ==
  ASSUME NEW arrs, NEW n \in Nat, NEW cs, Heap(arrs, n, cs),
         NEW arrs2 \in Seq(Seq(Listeners)), NEW n2 \in Nat, NEW cs2, n2 >= n,
         \A b \in 1 .. Len(arrs2) : Apart(arrs2[b]),
         \A b \in 1 .. Len(arrs2) : \A x \in Items(arrs2[b]) :
           (b \in 1 .. Len(arrs) /\ x \in Items(arrs[b])) \/ x.id \in n + 1 .. n2,
         \A b \in 1 .. Len(arrs2) : \A x \in Items(arrs2[b]) : x.once => x.id \notin cs2,
         \A a, b \in 1 .. Len(arrs2) : \A x \in Items(arrs2[a]), y \in Items(arrs2[b]) :
           x.id \in n + 1 .. n2 /\ y.id \in n + 1 .. n2 => a = b /\ x = y
  PROVE  Heap(arrs2, n2, cs2)
<1>1. ASSUME NEW b \in 1 .. Len(arrs2), NEW x \in Items(arrs2[b]) PROVE x.id \in 1 .. n2
  <2>1. CASE b \in 1 .. Len(arrs) /\ x \in Items(arrs[b])
    <3>1. x.id \in 1 .. n
      BY <2>1 DEF Heap
    <3> QED
      BY <3>1
  <2>2. CASE x.id \in n + 1 .. n2
    BY <2>2
  <2> QED
    BY <2>1, <2>2
<1>2. ASSUME NEW a \in 1 .. Len(arrs2), NEW b \in 1 .. Len(arrs2), NEW x \in Items(arrs2[a]), NEW y \in Items(arrs2[b]), x.id = y.id
      PROVE  a = b /\ x = y
  <2>1. \/ a \in 1 .. Len(arrs) /\ x \in Items(arrs[a]) /\ x.id \in 1 .. n
        \/ x.id \in n + 1 .. n2
    BY DEF Heap
  <2>2. \/ b \in 1 .. Len(arrs) /\ y \in Items(arrs[b]) /\ y.id \in 1 .. n
        \/ y.id \in n + 1 .. n2
    BY DEF Heap
  <2>3. CASE a \in 1 .. Len(arrs) /\ x \in Items(arrs[a]) /\ x.id \in 1 .. n
    <3>1. b \in 1 .. Len(arrs) /\ y \in Items(arrs[b])
      BY <1>2, <2>2, <2>3
    <3> QED
      BY <1>2, <2>3, <3>1 DEF Heap
  <2>4. CASE x.id \in n + 1 .. n2
    BY <1>2, <2>4
  <2> QED
    BY <2>1, <2>3, <2>4
<1> QED
  BY <1>1, <1>2 DEF Heap

LEMMA MapMoves ==
  ASSUME NEW arrs \in Seq(Seq(Listeners)), NEW evs, MapOf(evs, arrs), NEW arrs2 \in Seq(Seq(Listeners)), Len(arrs2) >= Len(arrs),
         NEW evs2 \in [Events -> 0 .. Len(arrs2)],
         \A e \in Events : evs2[e] \in {0, evs[e]} \/ evs2[e] > Len(arrs),
         \A d, e \in Events : evs2[d] > Len(arrs) /\ evs2[e] > Len(arrs) => d = e,
         \A e \in Events : evs2[e] # 0 => arrs2[evs2[e]] # << >>
  PROVE  MapOf(evs2, arrs2)
<1>1. ASSUME NEW d \in Events, NEW e \in Events, evs2[d] = evs2[e], evs2[d] # 0 PROVE d = e
  <2>1. PICK m \in Nat : m = Len(arrs)
    OBVIOUS
  <2>2. evs[d] \in 0 .. m /\ evs[e] \in 0 .. m
    BY <2>1 DEF MapOf
  <2>3. evs2[d] = evs[d] \/ evs2[d] > m
    BY <1>1, <2>1
  <2>4. evs2[e] = evs[e] \/ evs2[e] > m
    BY <1>1, <2>1
  <2>5. CASE evs2[d] = evs[d] /\ evs2[e] = evs[e]
    BY <1>1, <2>5 DEF MapOf
  <2>6. CASE evs2[d] > m \/ evs2[e] > m
    BY <1>1, <2>1, <2>6
  <2> QED
    BY <2>3, <2>4, <2>5, <2>6
<1> QED
  BY <1>1 DEF MapOf

LEMMA EmissionsMove ==
  ASSUME NEW arrs \in Seq(Seq(Listeners)), NEW evs \in [Events -> 0 .. Len(arrs)], NEW n \in Nat,
         NEW arrs2 \in Seq(Seq(Listeners)), Len(arrs2) >= Len(arrs), NEW n2 \in Nat, n2 >= n,
         NEW evs2 \in [Events -> 0 .. Len(arrs2)],
         \A e \in Events : evs2[e] \in {0, evs[e]} \/ evs2[e] > Len(arrs),
         \A b \in 1 .. Len(arrs2) : \A x \in Items(arrs2[b]) :
           (b \in 1 .. Len(arrs) /\ x \in Items(arrs[b])) \/ x.id \in n + 1 .. n2,
         NEW fs, Under(fs, arrs, evs, n)
  PROVE  Under(fs, arrs2, evs2, n2)
<1> SUFFICES ASSUME NEW k \in 1 .. Len(fs) PROVE Emission(fs[k], arrs2, evs2, n2)
  BY DEF Under
<1> DEFINE f == fs[k]
<1>1. Emission(f, arrs, evs, n)
  BY DEF Under
<1> HIDE DEF f
<1>2. PICK m \in Nat, m2 \in Nat : m = Len(arrs) /\ m2 = Len(arrs2) /\ m2 >= m
  OBVIOUS
<1>3. f \in Emissions /\ f.array \in 1 .. m2 /\ f.array <= m
  BY <1>1, <1>2 DEF Emission
<1>4. ASSUME NEW e \in Events, evs2[e] = f.array PROVE e = f.event
  <2>1. evs2[e] \in {0, evs[e]} \/ evs2[e] > m
    BY <1>2
  <2>2. f.array # 0 /\ ~ (f.array > m)
    BY <1>2, <1>3
  <2>3. evs2[e] = evs[e]
    BY <1>4, <2>1, <2>2
  <2> QED
    BY <1>1, <1>4, <2>3 DEF Emission
<1>5. ASSUME NEW x \in Items(f.rest) PROVE x.id \in 1 .. n
  BY <1>1 DEF Emission
<1>6. ASSUME NEW x \in Items(f.rest), NEW a \in 1 .. Len(arrs2), NEW y \in Items(arrs2[a]), y.id = x.id
      PROVE  a = f.array /\ y = x
  <2>1. x.id \in 1 .. n
    BY <1>5
  <2>2. a \in 1 .. Len(arrs) /\ y \in Items(arrs[a])
    BY <1>6, <2>1
  <2> QED
    BY <1>1, <1>6, <2>2 DEF Emission
<1>7. \A x \in Items(f.rest) : x.id \in 1 .. n2
  BY <1>5
<1> QED
  BY <1>2, <1>3, <1>4, <1>6, <1>7 DEF Emission, f

\* An event is emitted: its listeners are copied.
LEMMA Emitted ==
  ASSUME NEW arrs, NEW evs, NEW n, NEW cs, Heap(arrs, n, cs), MapOf(evs, arrs), Under(frames, arrs, evs, n), NEW e
  PROVE  Under(Emitting(e, evs, arrs), arrs, evs, n)
<1>1. CASE ~ (e \in Events /\ evs[e] # 0)
  BY <1>1 DEF Emitting
<1>2. CASE e \in Events /\ evs[e] # 0
  <2> DEFINE a == evs[e]
  <2> DEFINE f == Frame(e, a, arrs[a])
  <2>1. a \in 1 .. Len(arrs) /\ arrs[a] \in Seq(Listeners) /\ Len(arrs) \in Nat
    BY <1>2 DEF MapOf, Heap
  <2>2. f \in Emissions /\ f.event = e /\ f.array = a /\ f.rest = arrs[a]
    BY <1>2, <2>1 DEF Frame, Emissions
  <2>3. \A d \in Events : evs[d] = a => d = e
    BY <1>2 DEF MapOf
  <2>4. ASSUME NEW x \in Items(arrs[a])
        PROVE  x.id \in 1 .. n /\ \A b \in 1 .. Len(arrs) : \A y \in Items(arrs[b]) : y.id = x.id => b = a /\ y = x
    BY <2>1 DEF Heap
  <2>5. Emitting(e, evs, arrs) = Append(frames, f)
    BY <1>2 DEF Emitting
  <2> HIDE DEF f, a
  <2>6. Emission(f, arrs, evs, n)
    BY <2>1, <2>2, <2>3, <2>4 DEF Emission
  <2> DEFINE fs == Append(frames, f)
  <2>7. fs \in Seq(Emissions) /\ Len(fs) = Len(frames) + 1 /\ fs[Len(frames) + 1] = f /\ Len(frames) \in Nat
        /\ \A k \in 1 .. Len(frames) : fs[k] = frames[k]
    BY <2>2, AppendProperties DEF Under
  <2> HIDE DEF fs
  <2>8. \A k \in 1 .. Len(frames) : Emission(fs[k], arrs, evs, n)
    BY <2>7 DEF Under
  <2>9. \A k \in 1 .. Len(fs) : k \in 1 .. Len(frames) \/ k = Len(frames) + 1
    BY <2>7
  <2>10. \A k \in 1 .. Len(fs) : Emission(fs[k], arrs, evs, n)
    BY <2>6, <2>7, <2>8, <2>9
  <2> QED
    BY <2>5, <2>7, <2>10 DEF Under, fs
<1> QED
  BY <1>1, <1>2

\* An array loses listeners, events lose their arrays.
LEMMA Thinner ==
  ASSUME NEW arrs, NEW evs, NEW n \in Nat, NEW cs, NEW fs, Heap(arrs, n, cs), MapOf(evs, arrs), Under(fs, arrs, evs, n),
         NEW a \in 1 .. Len(arrs), NEW r \in Seq(Listeners), Apart(r), Items(r) \subseteq Items(arrs[a]), NEW cs2,
         \A b \in 1 .. Len(arrs) : \A x \in Items([arrs EXCEPT ![a] = r][b]) : x.once => x.id \notin cs2,
         NEW evs2 \in [Events -> Nat], \A e \in Events : evs2[e] \in {0, evs[e]}, \A e \in Events : evs2[e] = a => r # << >>
  PROVE  /\ Heap([arrs EXCEPT ![a] = r], n, cs2) /\ MapOf(evs2, [arrs EXCEPT ![a] = r])
         /\ Under(fs, [arrs EXCEPT ![a] = r], evs2, n)
<1> DEFINE arrs2 == [arrs EXCEPT ![a] = r]
<1>1. arrs \in Seq(Seq(Listeners)) /\ evs \in [Events -> 0 .. Len(arrs)]
  BY DEF Heap, MapOf
<1>2. arrs2 \in Seq(Seq(Listeners)) /\ Len(arrs2) = Len(arrs) /\ Len(arrs) \in Nat
      /\ \A b \in 1 .. Len(arrs) : arrs2[b] = IF b = a THEN r ELSE arrs[b]
  BY <1>1, ExceptSeq
<1>3. \A b \in 1 .. Len(arrs) : \A x \in Items(arrs2[b]) : x.once => x.id \notin cs2
  OBVIOUS
<1> HIDE DEF arrs2
<1>4. \A b \in 1 .. Len(arrs) : Items(arrs2[b]) \subseteq Items(arrs[b]) /\ Apart(arrs2[b])
  BY <1>2 DEF Heap
<1>5. Heap(arrs2, n, cs2)
  <2>1. n >= n /\ \A b \in 1 .. Len(arrs2) : Apart(arrs2[b])
    BY <1>2, <1>4
  <2>2. \A b \in 1 .. Len(arrs2) : \A x \in Items(arrs2[b]) :
           (b \in 1 .. Len(arrs) /\ x \in Items(arrs[b])) \/ x.id \in n + 1 .. n
    BY <1>2, <1>4
  <2>3. \A b \in 1 .. Len(arrs2) : \A x \in Items(arrs2[b]) : x.once => x.id \notin cs2
    BY <1>2, <1>3
  <2>4. \A b, c \in 1 .. Len(arrs2) : \A x \in Items(arrs2[b]), y \in Items(arrs2[c]) :
           x.id \in n + 1 .. n /\ y.id \in n + 1 .. n => b = c /\ x = y
    OBVIOUS
  <2> QED
    BY <1>2, <2>1, <2>2, <2>3, <2>4, HeapMoves
<1>6. evs2 \in [Events -> 0 .. Len(arrs2)]
  <2>1. ASSUME NEW e \in Events PROVE evs2[e] \in 0 .. Len(arrs2)
    <3>1. evs[e] \in 0 .. Len(arrs) /\ 0 .. Len(arrs2) = 0 .. Len(arrs) /\ 0 \in 0 .. Len(arrs)
      BY <1>1, <1>2
    <3>2. evs2[e] \in {0, evs[e]}
      OBVIOUS
    <3> QED
      BY <3>1, <3>2
  <2> QED
    BY <2>1
<1>7. MapOf(evs2, arrs2)
  <2>1. ASSUME NEW e \in Events, evs2[e] # 0 PROVE arrs2[evs2[e]] # << >>
    <3>1. evs2[e] = evs[e] /\ evs[e] \in 1 .. Len(arrs) /\ arrs[evs[e]] # << >>
      BY <1>1, <1>2, <2>1 DEF MapOf
    <3> QED
      BY <1>2, <3>1
  <2>2. \A e \in Events : evs2[e] \in {0, evs[e]} \/ evs2[e] > Len(arrs)
    OBVIOUS
  <2>3. Len(arrs2) >= Len(arrs)
    BY <1>2
  <2>4. \A e \in Events : ~ (evs2[e] > Len(arrs))
    BY <1>2, <1>6
  <2> QED
    BY <1>1, <1>2, <1>6, <2>1, <2>2, <2>3, <2>4, MapMoves
<1>8. Under(fs, arrs2, evs2, n)
  <2>1. n >= n /\ Len(arrs2) >= Len(arrs)
    BY <1>2
  <2>2. \A e \in Events : evs2[e] \in {0, evs[e]} \/ evs2[e] > Len(arrs)
    OBVIOUS
  <2>3. \A b \in 1 .. Len(arrs2) : \A x \in Items(arrs2[b]) :
           (b \in 1 .. Len(arrs) /\ x \in Items(arrs[b])) \/ x.id \in n + 1 .. n
    BY <1>2, <1>4
  <2> QED
    BY <1>1, <1>2, <1>6, <2>1, <2>2, <2>3, EmissionsMove
<1> QED
  BY <1>5, <1>7, <1>8 DEF arrs2

\* The innermost emission changes.
LEMMA InnermostChanges ==
  ASSUME NEW arrs, NEW evs, NEW n, NEW fs, Under(fs, arrs, evs, n), fs # << >>,
         NEW g \in Emissions, g.array = Last(fs).array, g.event = Last(fs).event, Items(g.rest) \subseteq Items(Last(fs).rest)
  PROVE  Under([fs EXCEPT ![Len(fs)] = g], arrs, evs, n)
<1>1. fs \in Seq(Emissions) /\ Len(fs) \in Nat \ {0} /\ Last(fs) = fs[Len(fs)]
  BY Innermost DEF Under
<1>2. Emission(Last(fs), arrs, evs, n)
  BY <1>1 DEF Under
<1>3. Emission(g, arrs, evs, n)
  BY <1>2 DEF Emission
<1> DEFINE gs == [fs EXCEPT ![Len(fs)] = g]
<1>4. gs \in Seq(Emissions) /\ Len(gs) = Len(fs) /\ \A k \in 1 .. Len(fs) : gs[k] = IF k = Len(fs) THEN g ELSE fs[k]
  BY <1>1, ExceptSeq
<1> HIDE DEF gs
<1>5. \A k \in 1 .. Len(gs) : Emission(gs[k], arrs, evs, n)
  BY <1>3, <1>4 DEF Under
<1> QED
  BY <1>4, <1>5 DEF Under, gs

\* The array an emission holds after it has called a listener.
LEMMA LeftIs ==
  ASSUME NEW s \in Seq(Listeners), Apart(s), NEW l \in Listeners
  PROVE  /\ LeftBy(s, l) \in Seq(Listeners) /\ Apart(LeftBy(s, l))
         /\ Items(LeftBy(s, l)) = IF l.once THEN Items(s) \ {l} ELSE Items(s)
         /\ ~ l.once => LeftBy(s, l) = s
<1>1. CASE l.once /\ Contains(s, l)
  <2> DEFINE i == CHOOSE k \in 1 .. Len(s) : s[k] = l
  <2>1. i \in 1 .. Len(s) /\ s[i] = l
    BY <1>1 DEF Contains
  <2>2. LeftBy(s, l) = RemoveAt(s, i)
    BY <1>1 DEF LeftBy
  <2> HIDE DEF i
  <2> QED
    BY <1>1, <2>1, <2>2, ItemRemoved
<1>2. CASE l.once /\ ~ Contains(s, l)
  <2>1. LeftBy(s, l) = s
    BY <1>2 DEF LeftBy
  <2>2. l \notin Items(s)
    BY <1>2 DEF Contains, Items
  <2> QED
    BY <1>2, <2>1, <2>2
<1>3. CASE ~ l.once
  BY <1>3 DEF LeftBy
<1> QED
  BY <1>1, <1>2, <1>3

-----------------------------------------------------------------------------
(***************************************************************************)
(* The actions.                                                            *)
(***************************************************************************)
LEMMA Emits ==
  ASSUME EmitterInv, NEW e \in Events, Emit(e)
  PROVE  EmitterInv'
<1>1. Under(Emitting(e, events, arrays), arrays, events, added)
  BY Emitted DEF EmitterInv
<1>2. frames' = Emitting(e, events, arrays) /\ arrays' = arrays /\ events' = events /\ added' = added /\ called' = called
  BY DEF Emit
<1> QED
  BY <1>1, <1>2 DEF EmitterInv

LEMMA Forgets ==
  ASSUME EmitterInv, NEW e \in Events, RemoveAll(e)
  PROVE  EmitterInv'
<1>1. arrays \in Seq(Seq(Listeners)) /\ events \in [Events -> 0 .. Len(arrays)] /\ added \in Nat /\ Len(arrays) \in Nat
  BY DEF EmitterInv, Heap, MapOf
<1>2. events' = [events EXCEPT ![e] = 0] /\ arrays' = arrays /\ frames' = frames /\ added' = added /\ called' = called
  BY DEF RemoveAll
<1>3. events' \in [Events -> 0 .. Len(arrays)] /\ \A d \in Events : events'[d] \in {0, events[d]}
  BY <1>1, <1>2
<1>4. Len(arrays) >= Len(arrays) /\ added >= added
  BY <1>1
<1>5. MapOf(events', arrays)
  <2>1. \A d \in Events : events'[d] # 0 => arrays[events'[d]] # << >>
    BY <1>3 DEF EmitterInv, MapOf
  <2>2. MapOf(events, arrays)
    BY DEF EmitterInv
  <2>3. \A d \in Events : ~ (events'[d] > Len(arrays)) /\ events'[d] \in {0, events[d]}
    BY <1>1, <1>3
  <2> QED
    BY <1>1, <1>3, <1>4, <2>1, <2>2, <2>3, MapMoves
<1>6. Under(frames, arrays, events', added)
  <2>1. Under(frames, arrays, events, added)
    BY DEF EmitterInv
  <2>2. \A d \in Events : events'[d] \in {0, events[d]} \/ events'[d] > Len(arrays)
    BY <1>3
  <2> QED
    BY <1>1, <1>3, <1>4, <2>1, <2>2, EmissionsMove
<1> QED
  BY <1>2, <1>5, <1>6 DEF EmitterInv

LEMMA Returns ==
  ASSUME EmitterInv, ListenerReturns \/ EmitReturns
  PROVE  EmitterInv'
<1>1. Under(frames, arrays, events, added) /\ frames \in Seq(Emissions) /\ frames # << >>
  BY DEF EmitterInv, Under, ListenerReturns, EmitReturns
<1>2. Len(frames) \in Nat \ {0} /\ Last(frames) = frames[Len(frames)] /\ Last(frames) \in Emissions
      /\ Front(frames) \in Seq(Emissions) /\ Len(Front(frames)) = Len(frames) - 1
      /\ \A k \in 1 .. Len(frames) - 1 : Front(frames)[k] = frames[k]
  BY <1>1, Innermost
<1>3. arrays' = arrays /\ events' = events /\ added' = added /\ called' = called
  BY DEF ListenerReturns, EmitReturns
<1>4. Under(frames', arrays, events, added)
  <2>1. CASE ListenerReturns
    <3> DEFINE f == Last(frames)
    <3> DEFINE g == [f EXCEPT !.calling = FALSE]
    <3>1. g \in Emissions /\ g.array = f.array /\ g.event = f.event /\ g.rest = f.rest
      BY <1>2 DEF Emissions
    <3>2. frames' = [frames EXCEPT ![Len(frames)] = g]
      BY <1>1, <1>2, <2>1 DEF ListenerReturns
    <3> HIDE DEF g
    <3> QED
      BY <1>1, <3>1, <3>2, InnermostChanges
  <2>2. CASE EmitReturns
    <3>1. frames' = Front(frames)
      BY <2>2 DEF EmitReturns
    <3>2. \A k \in 1 .. Len(Front(frames)) : k \in 1 .. Len(frames) /\ Front(frames)[k] = frames[k]
      BY <1>2
    <3>3. \A k \in 1 .. Len(Front(frames)) : Emission(Front(frames)[k], arrays, events, added)
      BY <1>1, <3>2 DEF Under
    <3> QED
      BY <1>2, <3>1, <3>3 DEF Under
  <2> QED
    BY <2>1, <2>2
<1> QED
  BY <1>3, <1>4 DEF EmitterInv

\* What the innermost emission calls.
LEMMA InnermostCalls ==
  ASSUME EmitterInv, CallNext
  PROVE  LET f == Last(frames) IN
         /\ Emission(f, arrays, events, added) /\ f \in Emissions
         /\ f.rest \in Seq(Listeners) /\ Head(f.rest) \in Listeners /\ Head(f.rest) \in Items(f.rest)
         /\ Tail(f.rest) \in Seq(Listeners) /\ Items(Tail(f.rest)) \subseteq Items(f.rest)
<1> DEFINE f == Last(frames)
<1> DEFINE l == Head(f.rest)
<1>1. Emission(f, arrays, events, added) /\ f \in Emissions
  <2>1. frames \in Seq(Emissions) /\ frames # << >>
    BY DEF EmitterInv, Under, CallNext
  <2>2. f = frames[Len(frames)] /\ Len(frames) \in Nat \ {0}
    BY <2>1, Innermost
  <2> HIDE DEF f
  <2>3. Len(frames) \in 1 .. Len(frames)
    BY <2>2
  <2>4. Emission(f, arrays, events, added)
    BY <2>2, <2>3 DEF EmitterInv, Under
  <2> QED
    BY <2>4 DEF Emission
<1>2. /\ f.rest \in Seq(Listeners) /\ l \in Listeners /\ l \in Items(f.rest) /\ Tail(f.rest) \in Seq(Listeners)
      /\ Items(Tail(f.rest)) \subseteq Items(f.rest)
  <2> DEFINE s == f.rest
  <2>1. s \in Seq(Listeners) /\ s # << >>
    BY <1>1 DEF CallNext, Emissions
  <2> HIDE DEF s
  <2>2. Head(s) = s[1] /\ 1 \in 1 .. Len(s) /\ Tail(s) \in Seq(Listeners) /\ Len(s) \in Nat \ {0}
        /\ Len(Tail(s)) = Len(s) - 1 /\ \A k \in 1 .. Len(s) - 1 : Tail(s)[k] = s[k + 1] /\ k + 1 \in 1 .. Len(s)
    BY <2>1
  <2>3. \A k \in 1 .. Len(Tail(s)) : k + 1 \in 1 .. Len(s) /\ Tail(s)[k] = s[k + 1]
    BY <2>2
  <2>4. Items(Tail(s)) \subseteq Items(s)
    BY <2>3 DEF Items
  <2>5. Head(s) \in Items(s) /\ Head(s) \in Listeners
    BY <2>1, <2>2 DEF Items
  <2> QED
    BY <2>1, <2>2, <2>4, <2>5 DEF s
<1> QED
  BY <1>1, <1>2

LEMMA Calls ==
  ASSUME EmitterInv, CallNext
  PROVE  EmitterInv'
<1> DEFINE f == Last(frames)
<1> DEFINE l == Head(f.rest)
<1> DEFINE a == f.array
<1> DEFINE array == arrays[a]
<1> DEFINE r == LeftBy(array, l)
<1> DEFINE g == [f EXCEPT !.rest = Tail(@), !.calling = TRUE]
<1> DEFINE arrs2 == [arrays EXCEPT ![a] = r]
<1>1. /\ frames # << >> /\ f.rest # << >> /\ added' = added /\ called' = called \cup {l.id}
      /\ arrays' = arrs2 /\ events' = [events EXCEPT ![f.event] = IF Drops(array, l) THEN 0 ELSE @]
      /\ frames' = [frames EXCEPT ![Len(frames)] = g]
  BY DEF CallNext
<1>2. /\ Heap(arrays, added, called) /\ MapOf(events, arrays) /\ Under(frames, arrays, events, added)
      /\ added \in Nat /\ called \subseteq 1 .. added
  BY DEF EmitterInv
<1>3. Emission(f, arrays, events, added) /\ f \in Emissions
  BY InnermostCalls
<1>4. /\ f.rest \in Seq(Listeners) /\ l \in Listeners /\ l \in Items(f.rest) /\ Tail(f.rest) \in Seq(Listeners)
      /\ Items(Tail(f.rest)) \subseteq Items(f.rest)
  BY InnermostCalls
<1>5. a \in 1 .. Len(arrays) /\ arrays \in Seq(Seq(Listeners)) /\ array \in Seq(Listeners) /\ Apart(array)
  <2>1. a \in 1 .. Len(arrays)
    BY <1>3 DEF Emission
  <2> QED
    BY <1>2, <2>1 DEF Heap
<1> HIDE DEF f, a, l, array
<1>6. /\ r \in Seq(Listeners) /\ Apart(r) /\ Items(r) = (IF l.once THEN Items(array) \ {l} ELSE Items(array))
      /\ ~ l.once => r = array
  BY <1>4, <1>5, LeftIs
<1>7. g \in Emissions /\ g.array = a /\ g.event = f.event /\ Items(g.rest) \subseteq Items(f.rest)
  <2>1. g.rest = Tail(f.rest) /\ g \in Emissions /\ g.array = f.array /\ g.event = f.event
    BY <1>3, <1>4 DEF Emissions
  <2> QED
    BY <1>4, <2>1 DEF a
<1>8. arrs2[a] = r /\ (\A b \in 1 .. Len(arrays) : b # a => arrs2[b] = arrays[b])
  BY <1>5
<1> HIDE DEF r, g
<1>9. \A b \in 1 .. Len(arrays) : \A x \in Items(arrs2[b]) : x.once => x.id \notin called'
  <2> HIDE DEF arrs2
  <2> SUFFICES ASSUME NEW b \in 1 .. Len(arrays), NEW x \in Items(arrs2[b]), x.once PROVE x.id \notin called'
    OBVIOUS
  <2>1. x \in Items(arrays[b])
    BY <1>5, <1>6, <1>8 DEF array
  <2>2. x.id \notin called
    BY <1>2, <2>1 DEF Heap
  <2>3. ASSUME x.id = l.id PROVE FALSE
    <3>1. b = a /\ x = l
      BY <1>3, <1>4, <2>1, <2>3 DEF Emission, a
    <3> QED
      BY <1>6, <1>8, <3>1
  <2> QED
    BY <1>1, <2>2, <2>3
<1>10. events \in [Events -> Nat] /\ f.event \in Events
  BY <1>2, <1>3 DEF MapOf, Emissions
<1>11. /\ events' \in [Events -> Nat] /\ \A e \in Events : events'[e] \in {0, events[e]}
       /\ \A e \in Events : e # f.event => events'[e] = events[e]
       /\ Drops(array, l) => events'[f.event] = 0
  BY <1>1, <1>10
<1>12. ASSUME NEW e \in Events, events'[e] = a PROVE r # << >>
  <2>1. a # 0 /\ events[e] = a
    BY <1>5, <1>11, <1>12
  <2>2. e = f.event
    BY <1>3, <2>1 DEF Emission, a
  <2>3. ~ Drops(array, l)
    BY <1>11, <1>12, <2>1, <2>2
  <2>4. array # << >>
    BY <1>2, <2>1 DEF MapOf, array
  <2> QED
    BY <1>6, <2>3, <2>4 DEF Drops, r
<1>13. Items(r) \subseteq Items(arrays[a])
  BY <1>6 DEF array
<1>14. Heap(arrs2, added, called') /\ MapOf(events', arrs2) /\ Under(frames, arrs2, events', added)
  BY <1>2, <1>5, <1>6, <1>9, <1>11, <1>12, <1>13, Thinner
<1> HIDE DEF arrs2
<1>15. Under(frames', arrs2, events', added)
  <2>1. g.array = Last(frames).array /\ g.event = Last(frames).event /\ Items(g.rest) \subseteq Items(Last(frames).rest)
    BY <1>7 DEF f, a
  <2> QED
    BY <1>1, <1>7, <1>14, <2>1, InnermostChanges
<1>16. called' \subseteq 1 .. added
  <2>1. l.id \in 1 .. added
    BY <1>3, <1>4 DEF Emission
  <2> QED
    BY <1>1, <1>2, <2>1
<1>17. added \in 0 .. MaxAdds
  BY DEF EmitterInv
<1> QED
  BY <1>1, <1>14, <1>15, <1>16, <1>17 DEF EmitterInv

LEMMA Removes ==
  ASSUME EmitterInv, NEW e \in Events, NEW fn, RemoveListener(e, fn)
  PROVE  EmitterInv'
<1> DEFINE a == events[e]
<1> DEFINE list == ListOf(e)
<1> DEFINE here == {k \in 1 .. Len(list) : list[k].fn = fn}
<1> DEFINE i == CHOOSE k \in here : \A j \in here : j <= k
<1> DEFINE left == IF here = {} THEN list ELSE RemoveAt(list, i)
<1> DEFINE arrs2 == [arrays EXCEPT ![a] = left]
<1>1. /\ a # 0 /\ arrays' = arrs2 /\ events' = [events EXCEPT ![e] = IF left = << >> THEN 0 ELSE @]
      /\ frames' \in {frames, Emitting("removeListener", events', arrays')} /\ added' = added /\ called' = called
  BY DEF RemoveListener
<1>2. /\ Heap(arrays, added, called) /\ MapOf(events, arrays) /\ Under(frames, arrays, events, added)
      /\ added \in 0 .. MaxAdds /\ added \in Nat /\ called \subseteq 1 .. added
  BY DEF EmitterInv
<1>3. a \in 1 .. Len(arrays) /\ list = arrays[a] /\ list \in Seq(Listeners) /\ Apart(list) /\ events \in [Events -> Nat]
  <2>1. a \in 1 .. Len(arrays) /\ events \in [Events -> Nat]
    BY <1>1, <1>2 DEF MapOf
  <2>2. list = arrays[a]
    BY <1>1 DEF ListOf
  <2> QED
    BY <1>2, <2>1, <2>2 DEF Heap
<1> HIDE DEF list, a
<1>4. here # {} => i \in 1 .. Len(list)
  <2>1. Len(list) \in Nat /\ here \in SUBSET (0 .. Len(list))
    BY <1>3
  <2> HIDE DEF here
  <2>2. here # {} => \E k \in here : \A j \in here : j <= k
    BY <2>1, GreatestNumber
  <2>3. here # {} => i \in here
    BY <2>2
  <2> QED
    BY <2>3 DEF here
<1> HIDE DEF here, i
<1>5. left \in Seq(Listeners) /\ Apart(left) /\ Items(left) \subseteq Items(list)
  BY <1>3, <1>4, ItemRemoved
<1> HIDE DEF left
<1>6. \A b \in 1 .. Len(arrays) : \A x \in Items(arrs2[b]) : x.once => x.id \notin called
  <2>1. \A b \in 1 .. Len(arrays) : arrs2[b] = IF b = a THEN left ELSE arrays[b]
    BY <1>2, <1>3 DEF Heap
  <2> HIDE DEF arrs2
  <2>2. \A b \in 1 .. Len(arrays) : Items(arrs2[b]) \subseteq Items(arrays[b])
    BY <1>3, <1>5, <2>1
  <2> QED
    BY <1>2, <2>2 DEF Heap
<1>7. /\ events' \in [Events -> Nat] /\ \A d \in Events : events'[d] \in {0, events[d]}
      /\ events'[e] # 0 => left # << >>
  BY <1>1, <1>3
<1>8. ASSUME NEW d \in Events, events'[d] = a PROVE left # << >>
  <2>1. events[d] = a /\ a # 0
    BY <1>1, <1>7, <1>8
  <2>2. d = e
    BY <1>2, <2>1 DEF MapOf, a
  <2> QED
    BY <1>7, <1>8, <2>1, <2>2
<1>9. Items(left) \subseteq Items(arrays[a])
  BY <1>3, <1>5
<1>10. Heap(arrs2, added, called) /\ MapOf(events', arrs2) /\ Under(frames, arrs2, events', added)
  BY <1>2, <1>3, <1>5, <1>6, <1>7, <1>8, <1>9, Thinner
<1> HIDE DEF arrs2
<1>11. Under(Emitting("removeListener", events', arrs2), arrs2, events', added)
  BY <1>10, Emitted
<1>12. Under(frames', arrs2, events', added)
  BY <1>1, <1>10, <1>11
<1> QED
  BY <1>1, <1>2, <1>10, <1>12 DEF EmitterInv

LEMMA Adds ==
  ASSUME EmitterInv, NEW e \in Events, NEW fn \in Fns, NEW once \in BOOLEAN, NEW prepend \in BOOLEAN,
         AddListener(e, fn, once, prepend)
  PROVE  EmitterInv'
<1> DEFINE l == Listener(fn, once, added + 1)
<1> DEFINE s == ListOf(e)
<1> DEFINE r == IF prepend THEN <<l>> \o s ELSE Append(s, l)
<1> DEFINE n2 == added + 1
<1>1. /\ added' = n2 /\ called' = called
      /\ IF events[e] = 0
           THEN arrays' = Append(arrays, r) /\ events' = [events EXCEPT ![e] = Len(arrays) + 1]
           ELSE arrays' = [arrays EXCEPT ![events[e]] = r] /\ events' = events
      /\ frames' \in {frames, Emitting("newListener", events', arrays')}
  BY DEF AddListener
<1>2. /\ Heap(arrays, added, called) /\ MapOf(events, arrays) /\ Under(frames, arrays, events, added)
      /\ added \in Nat /\ called \subseteq 1 .. added
      /\ arrays \in Seq(Seq(Listeners)) /\ events \in [Events -> 0 .. Len(arrays)] /\ Len(arrays) \in Nat
  BY DEF EmitterInv, Heap, MapOf
<1>3. added + 1 \in 0 .. MaxAdds
  BY <1>2, EmitterAssumption DEF AddListener, EmitterInv
<1>4. l \in Listeners /\ l.id = n2
  BY <1>2 DEF Listener, Listeners
<1>5. /\ s \in Seq(Listeners) /\ Apart(s) /\ (\A x \in Items(s) : x.id \in 1 .. added)
      /\ (events[e] = 0 => s = << >>) /\ (events[e] # 0 => events[e] \in 1 .. Len(arrays) /\ s = arrays[events[e]])
  <2>1. CASE events[e] = 0
    <3>1. s = << >>
      BY <2>1 DEF ListOf
    <3> QED
      BY <2>1, <3>1 DEF Apart, Items
  <2>2. CASE events[e] # 0
    <3>1. s = arrays[events[e]] /\ events[e] \in 1 .. Len(arrays)
      BY <1>2, <2>2 DEF ListOf
    <3> HIDE DEF s
    <3> QED
      BY <1>2, <2>2, <3>1 DEF Heap
  <2> QED
    BY <2>1, <2>2
<1>6. r = <<l>> \o s \/ r = Append(s, l)
  OBVIOUS
<1> HIDE DEF l, s, r
<1>7. r \in Seq(Listeners) /\ Apart(r) /\ Items(r) = Items(s) \cup {l} /\ r # << >>
  <2>1. \A x \in Items(s) : x.id # l.id
    BY <1>2, <1>4, <1>5
  <2>2. r \in Seq(Listeners) /\ Apart(r) /\ Items(r) = Items(s) \cup {l}
    BY <1>4, <1>5, <1>6, <2>1, ItemAdded
  <2> QED
    BY <2>2, ItemsAre
<1> DEFINE home == IF events[e] = 0 THEN Len(arrays) + 1 ELSE events[e]
<1>8. /\ arrays' \in Seq(Seq(Listeners)) /\ Len(arrays') >= Len(arrays) /\ home \in 1 .. Len(arrays')
      /\ \A b \in 1 .. Len(arrays') : arrays'[b] = IF b = home THEN r ELSE arrays[b]
      /\ \A b \in 1 .. Len(arrays') : b # home => b \in 1 .. Len(arrays)
      /\ events' \in [Events -> 0 .. Len(arrays')] /\ events'[e] = home /\ \A d \in Events : d # e => events'[d] = events[d]
  <2>1. CASE events[e] = 0
    <3> DEFINE m == Len(arrays)
    <3> DEFINE arrs2 == Append(arrays, r)
    <3>1. arrs2 \in Seq(Seq(Listeners)) /\ Len(arrs2) = m + 1 /\ arrs2[m + 1] = r /\ \A b \in 1 .. m : arrs2[b] = arrays[b]
      BY <1>2, <1>7, AppendProperties
    <3>2. arrays' = arrs2 /\ events' = [events EXCEPT ![e] = m + 1] /\ home = m + 1
      BY <1>1, <2>1
    <3>3. m \in Nat /\ events \in [Events -> 0 .. m]
      BY <1>2
    <3> HIDE DEF arrs2, m, home
    <3>4. events' \in [Events -> 0 .. m + 1] /\ events'[e] = home /\ \A d \in Events : d # e => events'[d] = events[d]
      BY <3>2, <3>3
    <3>5. \A b \in 1 .. m + 1 : b = m + 1 \/ (b \in 1 .. m /\ b # m + 1)
      BY <3>3
    <3>6. \A b \in 1 .. m + 1 : arrs2[b] = IF b = home THEN r ELSE arrays[b]
      BY <3>1, <3>2, <3>5
    <3> QED
      BY <3>1, <3>2, <3>3, <3>4, <3>5, <3>6 DEF m
  <2>2. CASE events[e] # 0
    <3>1. arrays' = [arrays EXCEPT ![home] = r] /\ events' = events /\ home = events[e] /\ home \in 1 .. Len(arrays)
      BY <1>1, <1>5, <2>2
    <3> HIDE DEF home
    <3>2. arrays' \in Seq(Seq(Listeners)) /\ Len(arrays') = Len(arrays)
          /\ \A b \in 1 .. Len(arrays) : arrays'[b] = IF b = home THEN r ELSE arrays[b]
      BY <1>2, <1>7, <3>1, ExceptSeq
    <3> QED
      BY <1>2, <3>1, <3>2
  <2> QED
    BY <2>1, <2>2
<1>9. ASSUME NEW b \in 1 .. Len(arrays'), NEW x \in Items(arrays'[b])
      PROVE  (b \in 1 .. Len(arrays) /\ x \in Items(arrays[b])) \/ (b = home /\ x = l)
  <2>1. CASE b # home
    BY <1>8, <1>9, <2>1
  <2>2. CASE b = home
    <3>1. x \in Items(s) \/ x = l
      BY <1>7, <1>8, <1>9, <2>2
    <3>2. x \in Items(s) => events[e] # 0
      BY <1>5 DEF Items
    <3>3. x \in Items(s) => b \in 1 .. Len(arrays) /\ x \in Items(arrays[b])
      BY <1>5, <2>2, <3>2
    <3> QED
      BY <2>2, <3>1, <3>3
  <2> QED
    BY <2>1, <2>2
<1> HIDE DEF home
<1>10. ASSUME NEW b \in 1 .. Len(arrays') PROVE Apart(arrays'[b])
  <2>1. CASE b = home
    BY <1>7, <1>8, <2>1
  <2>2. CASE b # home
    BY <1>2, <1>8, <2>2 DEF Heap
  <2> QED
    BY <2>1, <2>2
<1>11. n2 \in Nat /\ n2 >= added /\ l.id \in added + 1 .. n2 /\ l.id \notin called
  BY <1>2, <1>4
<1> HIDE DEF n2
<1>12. ASSUME NEW b \in 1 .. Len(arrays'), NEW x \in Items(arrays'[b]) PROVE x.once => x.id \notin called
  <2>1. CASE b \in 1 .. Len(arrays) /\ x \in Items(arrays[b])
    BY <1>2, <2>1 DEF Heap
  <2>2. CASE x = l
    BY <1>11, <2>2
  <2> QED
    BY <1>9, <2>1, <2>2
<1>13. Heap(arrays', n2, called)
  <2>1. \A b \in 1 .. Len(arrays') : \A x \in Items(arrays'[b]) :
          (b \in 1 .. Len(arrays) /\ x \in Items(arrays[b])) \/ x.id \in added + 1 .. n2
    BY <1>9, <1>11
  <2>2. ASSUME NEW b \in 1 .. Len(arrays'), NEW x \in Items(arrays'[b]), x.id \in added + 1 .. n2 PROVE b = home /\ x = l
    <3>1. ~ (b \in 1 .. Len(arrays) /\ x \in Items(arrays[b]))
      BY <1>2, <2>2 DEF Heap
    <3> QED
      BY <1>9, <3>1
  <2>3. \A a, b \in 1 .. Len(arrays') : \A x \in Items(arrays'[a]), y \in Items(arrays'[b]) :
          x.id \in added + 1 .. n2 /\ y.id \in added + 1 .. n2 => a = b /\ x = y
    BY <2>2
  <2>4. arrays' \in Seq(Seq(Listeners)) /\ n2 \in Nat /\ n2 >= added /\ added \in Nat /\ Heap(arrays, added, called)
    BY <1>2, <1>8, <1>11
  <2> QED
    BY <1>10, <1>12, <2>1, <2>3, <2>4, HeapMoves
<1>14. \A d \in Events : events'[d] \in {0, events[d]} \/ (d = e /\ events'[d] > Len(arrays))
  <2>1. home = events[e] \/ home > Len(arrays)
    BY <1>2 DEF home
  <2> QED
    BY <1>8, <2>1
<1>15. MapOf(events', arrays')
  <2>1. \A d \in Events : d # e /\ events'[d] # 0 => arrays'[events'[d]] # << >>
    <3> SUFFICES ASSUME NEW d \in Events, d # e, events'[d] # 0 PROVE arrays'[events'[d]] # << >>
      OBVIOUS
    <3>1. events'[d] = events[d] /\ events[d] \in 1 .. Len(arrays) /\ events'[d] \in 1 .. Len(arrays') /\ arrays[events[d]] # << >>
      BY <1>2, <1>8 DEF MapOf
    <3> QED
      BY <1>7, <1>8, <3>1
  <2>2. arrays'[events'[e]] # << >>
    BY <1>7, <1>8
  <2>3. \A d \in Events : events'[d] # 0 => arrays'[events'[d]] # << >>
    BY <2>1, <2>2
  <2>4. /\ arrays \in Seq(Seq(Listeners)) /\ MapOf(events, arrays) /\ arrays' \in Seq(Seq(Listeners))
        /\ Len(arrays') >= Len(arrays) /\ events' \in [Events -> 0 .. Len(arrays')]
    BY <1>2, <1>8
  <2>5. \A d \in Events : events'[d] \in {0, events[d]} \/ events'[d] > Len(arrays)
    BY <1>14
  <2>6. \A d \in Events : events'[d] > Len(arrays) => d = e
    <3> SUFFICES ASSUME NEW d \in Events, d # e, events'[d] > Len(arrays) PROVE FALSE
      OBVIOUS
    <3>1. events'[d] \in 0 .. Len(arrays)
      BY <1>2, <1>8
    <3> QED
      BY <1>2, <3>1
  <2> QED
    BY <2>3, <2>4, <2>5, <2>6, MapMoves
<1>16. Under(frames, arrays', events', n2)
  <2>1. \A b \in 1 .. Len(arrays') : \A x \in Items(arrays'[b]) :
          (b \in 1 .. Len(arrays) /\ x \in Items(arrays[b])) \/ x.id \in added + 1 .. n2
    BY <1>9, <1>11
  <2>2. \A d \in Events : events'[d] \in {0, events[d]} \/ events'[d] > Len(arrays)
    BY <1>14
  <2> QED
    BY <1>2, <1>8, <1>11, <2>1, <2>2, EmissionsMove
<1>17. Under(Emitting("newListener", events', arrays'), arrays', events', n2)
  BY <1>13, <1>15, <1>16, Emitted
<1>18. Under(frames', arrays', events', n2)
  BY <1>1, <1>16, <1>17
<1>19. n2 \in 0 .. MaxAdds /\ called \subseteq 1 .. n2
  <2>1. n2 = added + 1
    BY DEF n2
  <2> QED
    BY <1>2, <1>3, <2>1
<1> QED
  BY <1>1, <1>13, <1>15, <1>18, <1>19 DEF EmitterInv

-----------------------------------------------------------------------------
\* The invariant of the emitter.
THEOREM EmitterInvariant == EmitterSpec => []EmitterInv
<1>1. ASSUME EmitterInv, [EmitterNext]_emitterVars PROVE EmitterInv'
  <2>1. CASE UNCHANGED emitterVars
    BY <1>1, <2>1 DEF emitterVars, EmitterInv
  <2>2. CASE EmitterNext
    BY <1>1, <2>2, Emits, Forgets, Removes, Adds, Calls, Returns DEF EmitterNext
  <2> QED
    BY <1>1, <2>1, <2>2
<1> QED
  BY <1>1, EmitterInitially, PTL DEF EmitterSpec

\* The map of events, its lists and the emissions over copies of them agree: an event in
\* the map has listeners, and no listener added with once() is registered after its call
\* (ListenersAgree).
THEOREM ListenersDoAgree == EmitterSpec => []ListenersAgree
<1>1. ASSUME EmitterInv PROVE ListenersAgree
  <2>1. /\ Heap(arrays, added, called) /\ MapOf(events, arrays) /\ Under(frames, arrays, events, added) /\ added \in 0 .. MaxAdds
    BY <1>1 DEF EmitterInv
  <2>2. EmitterTypeOK
    BY <2>1 DEF EmitterTypeOK, MapOf, Under, Emission
  <2>3. NoEmptyList
    BY <2>1 DEF NoEmptyList, ListOf, MapOf
  <2>4. OnceIsGone
    <3> SUFFICES ASSUME NEW e \in Events, NEW k \in 1 .. Len(ListOf(e)), ListOf(e)[k].once
                 PROVE  ListOf(e)[k].id \notin called
      BY DEF OnceIsGone, Registered
    <3>1. events[e] \in 0 .. Len(arrays)
      BY <2>1 DEF MapOf
    <3>2. events[e] # 0 /\ ListOf(e) = arrays[events[e]]
      BY DEF ListOf
    <3>3. events[e] \in 1 .. Len(arrays) /\ ListOf(e)[k] \in Items(arrays[events[e]])
      BY <3>1, <3>2 DEF Items
    <3> QED
      BY <2>1, <3>3 DEF Heap
  <2> QED
    BY <2>2, <2>3, <2>4 DEF ListenersAgree
<1> QED
  BY <1>1, EmitterInvariant, PTL

\* The innermost emission drops no listener but the one it calls, as long as it holds the
\* array of its event (EmitDropsOnlyCalledUnlessStale).
THEOREM EmitDropsNoOther == EmitterSpec => EmitDropsOnlyCalledUnlessStale
<1>1. ASSUME EmitterInv, CallNext, events[Last(frames).event] = Last(frames).array,
             NEW l \in Registered \ Registered'
      PROVE  l = Head(Last(frames).rest)
  <2> DEFINE f == Last(frames)
  <2> DEFINE c == Head(f.rest)
  <2> DEFINE array == arrays[f.array]
  <2> DEFINE r == LeftBy(array, c)
  <2>1. arrays' = [arrays EXCEPT ![f.array] = r] /\ events' = [events EXCEPT ![f.event] = IF Drops(array, c) THEN 0 ELSE @]
    BY <1>1 DEF CallNext
  <2>2. PICK e \in Events : \E k \in 1 .. Len(ListOf(e)) : l = ListOf(e)[k]
    BY <1>1 DEF Registered
  <2>3. Heap(arrays, added, called) /\ MapOf(events, arrays) /\ events \in [Events -> 0 .. Len(arrays)]
    BY <1>1 DEF EmitterInv, MapOf
  <2>4. events[e] # 0 /\ events[e] \in 1 .. Len(arrays) /\ l \in Items(arrays[events[e]])
    <3>1. events[e] # 0 /\ ListOf(e) = arrays[events[e]]
      BY <2>2 DEF ListOf
    <3> QED
      BY <2>2, <2>3, <3>1 DEF Items
  <2>5. \A d \in Events : \A k2 \in 1 .. Len(ListOf(d)') : l # ListOf(d)'[k2]
    BY <1>1 DEF Registered
  <2>6. ASSUME events'[e] # 0 PROVE l \notin Items(arrays'[events'[e]])
    <3>1. ListOf(e)' = arrays'[events'[e]]
      BY <2>6 DEF ListOf
    <3> QED
      BY <2>5, <3>1 DEF Items
  <2>7. ASSUME e # f.event PROVE FALSE
    <3>1. events'[e] = events[e]
      BY <2>1, <2>3, <2>7
    <3>2. events[e] # f.array
      <4>1. f.event \in Events /\ events[f.event] = f.array
        BY <1>1, InnermostCalls DEF Emissions
      <4> HIDE DEF f
      <4> QED
        BY <2>3, <2>4, <2>7, <4>1 DEF MapOf
    <3>3. arrays'[events[e]] = arrays[events[e]]
      BY <2>1, <2>3, <2>4, <3>2 DEF Heap
    <3> QED
      BY <2>4, <2>6, <3>1, <3>3
  <2>8. e = f.event /\ events[e] = f.array
    BY <1>1, <2>7
  <2>9. c \in Listeners
    BY <1>1, InnermostCalls
  <2>10. array \in Seq(Listeners) /\ Apart(array)
    BY <2>3, <2>4, <2>8 DEF Heap
  <2>11. l # c => l \in Items(r)
    <3>1. l \in Items(array)
      BY <2>4, <2>8
    <3> HIDE DEF array, c
    <3>2. Items(r) = IF c.once THEN Items(array) \ {c} ELSE Items(array)
      BY <2>9, <2>10, LeftIs
    <3> QED
      BY <3>1, <3>2
  <2>12. r # << >> => ~ Drops(array, c)
    BY DEF Drops
  <2>13. Items(r) # {} => r # << >>
    BY DEF Items
  <2>14. arrays'[f.array] = r /\ (~ Drops(array, c) => events'[e] = f.array)
    BY <2>1, <2>3, <2>4, <2>8 DEF Heap
  <2> QED
    BY <2>4, <2>6, <2>8, <2>11, <2>12, <2>13, <2>14
<1>2. ASSUME EmitterInv, [EmitterNext]_emitterVars
      PROVE  [CallNext /\ events[Last(frames).event] = Last(frames).array =>
                \A l \in Registered \ Registered' : l = Head(Last(frames).rest)]_emitterVars
  <2> SUFFICES ASSUME CallNext, events[Last(frames).event] = Last(frames).array, NEW l \in Registered \ Registered'
               PROVE  l = Head(Last(frames).rest)
    OBVIOUS
  <2> QED
    BY <1>1, <1>2
<1> QED
  BY <1>2, EmitterInvariant, PTL DEF EmitterSpec, EmitDropsOnlyCalledUnlessStale

-----------------------------------------------------------------------------
(***************************************************************************)
(* Sockets: each end, what is under way between two, the microtasks about  *)
(* them and the connections of the server.                                 *)
(***************************************************************************)
Ends ==
  [made : BOOLEAN, connecting : BOOLEAN, readyState : {"closed", "open"}, destroyed : BOOLEAN,
   port : BOOLEAN, early : BOOLEAN, written : Nat, read : Seq(Nat), closed : {0, 1}]

End(s) ==
  /\ s \in Ends
  /\ s.destroyed => s.made
  /\ s.port <=> (s.made /\ ~ s.destroyed)
  /\ ~ s.made => s.written = 0
  /\ s.closed = 1 => s.destroyed
  /\ s.destroyed /\ s.readyState = "open" => s.early
  /\ \A k \in 1 .. Len(s.read) : s.read[k] = k

\* From the end s to its peer p the chunks of w are under way; as long as s can reach p,
\* what it wrote has been read or is among them.
Between(s, p, w) ==
  /\ \A k \in 1 .. Len(w) : w[k] = Len(p.read) + k
  /\ s.port /\ (p.port \/ ~ p.made) => s.written = Len(p.read) + Len(w)
  /\ ~ s.made => p.read = << >> /\ w = << >>

Joined(ss, ws) ==
  /\ ss \in [SocketEnds -> Ends] /\ \A e \in SocketEnds : End(ss[e])
  /\ ws \in [SocketEnds -> Seq(Nat)]
  /\ \A e \in SocketEnds : Between(ss[e], ss[Peer(e)], ws[Peer(e)])

\* A socket is connected while it is connecting and closed once: no task but the last one
\* of a server is queued twice.
SocketTasks == [kind : {"connect", "close"}, of : SocketEnds] \cup {Do("serverClose", <<"none", "served">>)}

Due(t, ss) ==
  /\ t.kind = "connect" => ss[t.of].made /\ ss[t.of].connecting /\ (ss[t.of].destroyed => ss[t.of].early)
  /\ t.kind = "close" => ss[t.of].destroyed /\ ss[t.of].closed = 0

Pending(ts, ss) ==
  /\ ts \in Seq(SocketTasks)
  /\ \A k \in 1 .. Len(ts) : Due(ts[k], ss)
  /\ \A j, k \in 1 .. Len(ts) : ts[j] = ts[k] /\ ts[k].kind # "serverClose" => j = k

\* The server knows the served sockets that are not over.
Known(conns, ss) ==
  /\ conns \subseteq SocketEnds /\ IsFiniteSet(conns)
  /\ \A e \in conns : e[2] = "served" /\ ss[e].made /\ ss[e].closed = 0
  /\ \A c \in Conns : ss[<<c, "served">>].made => <<c, "served">> \in conns \/ ss[<<c, "served">>].destroyed

SocketsInv ==
  /\ Joined(sockets, wire) /\ Pending(microtasks, sockets)
  /\ server \in [listening : BOOLEAN, connections : SUBSET SocketEnds, listens : Nat, closed : Nat]
  /\ Known(server.connections, sockets)
  /\ closings \in 0 .. MaxCloses

-----------------------------------------------------------------------------
LEMMA PeerIs ==
  ASSUME NEW e \in SocketEnds
  PROVE  Peer(e) \in SocketEnds /\ Peer(e) # e /\ Peer(Peer(e)) = e /\ e[1] \in Conns /\ e[2] \in Sides /\ e = <<e[1], e[2]>>
BY DEF Peer, Other, SocketEnds, Sides

LEMMA SocketsInitially == SocketsInit => SocketsInv
<1> SUFFICES ASSUME SocketsInit PROVE SocketsInv
  OBVIOUS
<1> DEFINE s == NewSocket
<1>1. /\ \A e \in SocketEnds : sockets[e] = s /\ wire[e] = << >>
      /\ sockets = [e \in SocketEnds |-> s] /\ wire = [e \in SocketEnds |-> << >>]
      /\ microtasks = << >> /\ closings = 0
      /\ server = [listening |-> FALSE, connections |-> {}, listens |-> 0, closed |-> 0]
  BY DEF SocketsInit
<1>2. s \in Ends /\ ~ s.made /\ ~ s.destroyed /\ ~ s.port /\ s.written = 0 /\ s.closed = 0 /\ s.read = << >>
  BY DEF NewSocket, Ends
<1> HIDE DEF s
<1>3. End(s) /\ Between(s, s, << >>)
  BY <1>2 DEF End, Between
<1>4. Joined(sockets, wire)
  <2>1. \A e \in SocketEnds : sockets[Peer(e)] = s /\ wire[Peer(e)] = << >>
    BY <1>1, PeerIs
  <2>2. \A e \in SocketEnds : Between(sockets[e], sockets[Peer(e)], wire[Peer(e)])
    BY <1>1, <1>3, <2>1
  <2> QED
    BY <1>1, <1>2, <1>3, <2>2 DEF Joined
<1>5. Pending(microtasks, sockets)
  BY <1>1 DEF Pending
<1>6. Known({}, sockets)
  <2>1. \A c \in Conns : <<c, "served">> \in SocketEnds
    BY DEF SocketEnds, Sides
  <2> QED
    BY <1>1, <1>2, <2>1, FS_EmptySet DEF Known
<1> QED
  BY <1>1, <1>4, <1>5, <1>6, SocketsAssumption DEF SocketsInv

\* One end changes, and what is under way to it and from it.
LEMMA JoinChanges ==
  ASSUME NEW ss, NEW ws, Joined(ss, ws), NEW e \in SocketEnds, NEW t, End(t), NEW ws2 \in [SocketEnds -> Seq(Nat)],
         \A x \in SocketEnds : x # e /\ x # Peer(e) => ws2[x] = ws[x],
         Between(t, ss[Peer(e)], ws2[Peer(e)]), Between(ss[Peer(e)], t, ws2[e])
  PROVE  Joined([ss EXCEPT ![e] = t], ws2)
<1> DEFINE ss2 == [ss EXCEPT ![e] = t]
<1>1. ss \in [SocketEnds -> Ends] /\ t \in Ends
  BY DEF Joined, End
<1>2. ss2 \in [SocketEnds -> Ends] /\ \A x \in SocketEnds : ss2[x] = IF x = e THEN t ELSE ss[x]
  BY <1>1
<1> HIDE DEF ss2
<1>3. Peer(e) \in SocketEnds /\ Peer(e) # e /\ Peer(Peer(e)) = e
  BY PeerIs
<1>4. ASSUME NEW x \in SocketEnds PROVE Between(ss2[x], ss2[Peer(x)], ws2[Peer(x)])
  <2>1. CASE x = e
    <3>1. ss2[x] = t /\ ss2[Peer(x)] = ss[Peer(e)]
      BY <1>2, <1>3, <2>1
    <3> QED
      BY <2>1, <3>1
  <2>2. CASE x = Peer(e)
    <3>1. ss2[x] = ss[Peer(e)] /\ Peer(x) = e /\ ss2[Peer(x)] = t
      BY <1>2, <1>3, <2>2
    <3> QED
      BY <3>1
  <2>3. CASE x # e /\ x # Peer(e)
    <3>1. Peer(x) \in SocketEnds /\ Peer(Peer(x)) = x
      BY PeerIs
    <3>2. Peer(x) # e /\ Peer(x) # Peer(e)
      BY <1>3, <2>3, <3>1
    <3>3. ss2[x] = ss[x] /\ ss2[Peer(x)] = ss[Peer(x)] /\ ws2[Peer(x)] = ws[Peer(x)]
      BY <1>2, <2>3, <3>1, <3>2
    <3> QED
      BY <3>3 DEF Joined
  <2> QED
    BY <2>1, <2>2, <2>3
<1>5. \A x \in SocketEnds : End(ss2[x])
  BY <1>2 DEF Joined
<1> QED
  BY <1>2, <1>4, <1>5 DEF Joined, ss2

LEMMA EndChanges ==
  ASSUME NEW ss, NEW ws, Joined(ss, ws), NEW e \in SocketEnds, NEW t, End(t),
         t.made = ss[e].made, t.port = ss[e].port, t.written = ss[e].written, t.read = ss[e].read
  PROVE  Joined([ss EXCEPT ![e] = t], ws)
<1>1. Peer(e) \in SocketEnds /\ Peer(Peer(e)) = e
  BY PeerIs
<1>2. Between(ss[e], ss[Peer(e)], ws[Peer(e)]) /\ Between(ss[Peer(e)], ss[e], ws[e]) /\ ws \in [SocketEnds -> Seq(Nat)]
  BY <1>1 DEF Joined
<1>3. Between(t, ss[Peer(e)], ws[Peer(e)]) /\ Between(ss[Peer(e)], t, ws[e])
  BY <1>2 DEF Between
<1>4. \A x \in SocketEnds : x # e /\ x # Peer(e) => ws[x] = ws[x]
  OBVIOUS
<1> QED
  BY <1>2, <1>3, <1>4, JoinChanges

\* Tasks are queued behind others.
LEMMA Queued ==
  ASSUME NEW ts, NEW new, NEW ss, Pending(ts, ss), Pending(new, ss),
         \A j \in 1 .. Len(ts), k \in 1 .. Len(new) : ts[j] = new[k] => new[k].kind = "serverClose"
  PROVE  Pending(ts \o new, ss)
<1> DEFINE us == ts \o new
<1>1. ts \in Seq(SocketTasks) /\ new \in Seq(SocketTasks)
  BY DEF Pending
<1>2. PICK m \in Nat, n \in Nat : m = Len(ts) /\ n = Len(new)
  BY <1>1
<1>3. us \in Seq(SocketTasks) /\ Len(us) = m + n /\ \A k \in 1 .. m + n : us[k] = IF k <= m THEN ts[k] ELSE new[k - m]
  BY <1>1, <1>2, ConcatProperties
<1> HIDE DEF us
<1>4. \A k \in 1 .. m + n : (k <= m /\ k \in 1 .. m /\ us[k] = ts[k]) \/ (k > m /\ k - m \in 1 .. n /\ us[k] = new[k - m])
  BY <1>2, <1>3
<1>5. ASSUME NEW k \in 1 .. m + n PROVE Due(us[k], ss)
  BY <1>2, <1>4 DEF Pending
<1>6. ASSUME NEW j \in 1 .. m + n, NEW k \in 1 .. m + n, us[j] = us[k], us[k].kind # "serverClose" PROVE j = k
  <2>1. CASE j <= m /\ k <= m
    BY <1>2, <1>4, <1>6, <2>1 DEF Pending
  <2>2. CASE j > m /\ k > m
    <3>1. PICK i \in 1 .. n, h \in 1 .. n : i = j - m /\ h = k - m /\ us[j] = new[i] /\ us[k] = new[h]
      BY <1>4, <1>6, <2>2
    <3>2. \A x \in 1 .. n, y \in 1 .. n : new[x] = new[y] /\ new[x].kind # "serverClose" => x = y
      BY <1>2 DEF Pending
    <3>3. new[i] = new[h] /\ new[i].kind # "serverClose"
      BY <1>6, <3>1
    <3>4. i = h
      BY <3>2, <3>3
    <3> QED
      BY <1>2, <3>1, <3>4
  <2>3. CASE j <= m /\ k > m
    BY <1>2, <1>4, <1>6, <2>3
  <2>4. CASE j > m /\ k <= m
    BY <1>2, <1>4, <1>6, <2>4
  <2> QED
    BY <1>2, <2>1, <2>2, <2>3, <2>4
<1>7. 1 .. Len(us) = 1 .. m + n
  BY <1>3
<1> QED
  BY <1>3, <1>5, <1>6, <1>7 DEF Pending, us

LEMMA QueuedOne ==
  ASSUME NEW ts, NEW t \in SocketTasks, NEW ss, Pending(ts, ss), Due(t, ss),
         \A j \in 1 .. Len(ts) : ts[j] = t => t.kind = "serverClose"
  PROVE  Pending(Append(ts, t), ss)
<1>1. ts \in Seq(SocketTasks) /\ Append(ts, t) = ts \o <<t>>
  BY AppendIsConcat DEF Pending
<1>2. <<t>> \in Seq(SocketTasks) /\ Len(<<t>>) = 1 /\ <<t>>[1] = t /\ \A k \in 1 .. 1 : k = 1
  OBVIOUS
<1>3. Pending(<<t>>, ss)
  BY <1>2 DEF Pending
<1>4. \A j \in 1 .. Len(ts), k \in 1 .. Len(<<t>>) : ts[j] = <<t>>[k] => <<t>>[k].kind = "serverClose"
  BY <1>2
<1> QED
  BY <1>1, <1>3, <1>4, Queued

\* The first one is taken.
LEMMA Dequeued ==
  ASSUME NEW ts, NEW ss, Pending(ts, ss), ts # << >>
  PROVE  /\ Pending(Tail(ts), ss) /\ Head(ts) \in SocketTasks /\ Due(Head(ts), ss)
         /\ \A k \in 1 .. Len(Tail(ts)) : Tail(ts)[k] \in SocketTasks /\ (Tail(ts)[k] = Head(ts) => Head(ts).kind = "serverClose")
<1> DEFINE n == Len(ts)
<1> DEFINE us == Tail(ts)
<1>1. ts \in Seq(SocketTasks)
  BY DEF Pending
<1>2. n \in Nat /\ 1 \in 1 .. n /\ Head(ts) = ts[1] /\ us \in Seq(SocketTasks) /\ Len(us) = n - 1
  BY <1>1
<1>3. \A k \in 1 .. n - 1 : us[k] = ts[k + 1]
  BY <1>1
<1> HIDE DEF n, us
<1>4. \A k \in 1 .. Len(us) : k + 1 \in 1 .. n /\ us[k] = ts[k + 1] /\ k + 1 # 1
  BY <1>2, <1>3
<1>5. Pending(us, ss)
  <2>1. \A k \in 1 .. Len(us) : Due(us[k], ss)
    BY <1>4 DEF Pending, n
  <2>2. ASSUME NEW j \in 1 .. Len(us), NEW k \in 1 .. Len(us), us[j] = us[k], us[k].kind # "serverClose" PROVE j = k
    <3>1. j + 1 = k + 1
      BY <1>4, <2>2 DEF Pending, n
    <3> QED
      BY <1>2, <3>1
  <2> QED
    BY <1>2, <2>1, <2>2 DEF Pending
<1>6. ASSUME NEW k \in 1 .. Len(us), us[k] = ts[1], ts[1].kind # "serverClose" PROVE FALSE
  BY <1>2, <1>4, <1>6 DEF Pending, n
<1>7. Due(ts[1], ss) /\ ts[1] \in SocketTasks
  BY <1>1, <1>2 DEF Pending, n
<1>8. \A k \in 1 .. Len(us) : us[k] \in SocketTasks
  BY <1>2
<1> QED
  BY <1>2, <1>5, <1>6, <1>7, <1>8 DEF us

\* Tasks stay due when what they depend on stays.
LEMMA StillDue ==
  ASSUME NEW ts, NEW ss, NEW ss2, Pending(ts, ss), \A k \in 1 .. Len(ts) : Due(ts[k], ss) => Due(ts[k], ss2)
  PROVE  Pending(ts, ss2)
BY DEF Pending

LEMMA TaskIs ==
  ASSUME NEW t \in SocketTasks
  PROVE  /\ t.kind \in {"connect", "close"} => t.of \in SocketEnds /\ t = Do(t.kind, t.of)
         /\ t.kind \notin {"connect", "close"} => t.kind = "serverClose"
<1>1. CASE t \in [kind : {"connect", "close"}, of : SocketEnds]
  BY <1>1 DEF Do
<1>2. CASE t = Do("serverClose", <<"none", "served">>)
  BY <1>2 DEF Do
<1> QED
  BY <1>1, <1>2 DEF SocketTasks

\* What an end is before a step.
LEMMA EndsAre ==
  ASSUME NEW ss, NEW ws, Joined(ss, ws), NEW e \in SocketEnds
  PROVE  /\ ss \in [SocketEnds -> Ends] /\ End(ss[e]) /\ ss[e] \in Ends /\ End(ss[Peer(e)]) /\ ss[Peer(e)] \in Ends
         /\ ws \in [SocketEnds -> Seq(Nat)] /\ ws[e] \in Seq(Nat) /\ ws[Peer(e)] \in Seq(Nat)
         /\ Between(ss[e], ss[Peer(e)], ws[Peer(e)]) /\ Between(ss[Peer(e)], ss[e], ws[e])
BY PeerIs DEF Joined

\* The server after a step that leaves its connections alone.
LEMMA StillKnown ==
  ASSUME NEW conns, NEW ss \in [SocketEnds -> Ends], NEW ss2, Known(conns, ss),
         \A e \in SocketEnds : /\ ss[e].made => ss2[e].made
                               /\ ss2[e].made => ss[e].made \/ e[2] = "client"
                               /\ e \in conns => ss2[e].closed = ss[e].closed
                               /\ ss[e].destroyed => ss2[e].destroyed
  PROVE  Known(conns, ss2)
<1>1. \A e \in conns : e \in SocketEnds
  BY DEF Known
<1>2. \A c \in Conns : <<c, "served">> \in SocketEnds /\ <<c, "served">>[2] = "served"
  BY DEF SocketEnds, Sides
<1> QED
  BY <1>1, <1>2 DEF Known

\* Tasks and connections after a step that only reads or writes.
LEMMA Unmoved ==
  ASSUME SocketsInv, microtasks' = microtasks, server' = server,
         \A x \in SocketEnds : /\ sockets'[x].made = sockets[x].made /\ sockets'[x].destroyed = sockets[x].destroyed
                               /\ sockets'[x].closed = sockets[x].closed /\ sockets'[x].early = sockets[x].early
                               /\ sockets'[x].connecting = sockets[x].connecting
  PROVE  Pending(microtasks', sockets') /\ Known(server'.connections, sockets')
<1>1. Joined(sockets, wire) /\ Pending(microtasks, sockets) /\ Known(server.connections, sockets)
  BY DEF SocketsInv
<1>2. Pending(microtasks, sockets')
  <2> SUFFICES ASSUME NEW k \in 1 .. Len(microtasks), Due(microtasks[k], sockets) PROVE Due(microtasks[k], sockets')
    BY <1>1, StillDue
  <2> DEFINE u == microtasks[k]
  <2>1. u \in SocketTasks
    BY <1>1 DEF Pending
  <2> HIDE DEF u
  <2>2. u.kind \in {"connect", "close"} => u.of \in SocketEnds
    BY <2>1, TaskIs
  <2>3. Due(u, sockets) => Due(u, sockets')
    BY <2>2 DEF Due
  <2> QED
    BY <2>3 DEF u
<1>3. Known(server.connections, sockets')
  <2>1. \A x \in SocketEnds : /\ sockets[x].made => sockets'[x].made
                              /\ sockets'[x].made => sockets[x].made \/ x[2] = "client"
                              /\ x \in server.connections => sockets'[x].closed = sockets[x].closed
                              /\ sockets[x].destroyed => sockets'[x].destroyed
    OBVIOUS
  <2>2. sockets \in [SocketEnds -> Ends]
    BY <1>1 DEF Joined
  <2> QED
    BY <1>1, <2>1, <2>2, StillKnown
<1> QED
  BY <1>2, <1>3

-----------------------------------------------------------------------------
(***************************************************************************)
(* The actions.                                                            *)
(***************************************************************************)
LEMMA Connects ==
  ASSUME SocketsInv, NEW c \in Conns, Connect(c)
  PROVE  SocketsInv'
<1> DEFINE e == <<c, "client">>
<1> DEFINE s == sockets[e]
<1> DEFINE t == [s EXCEPT !.made = TRUE, !.connecting = TRUE, !.port = TRUE]
<1>1. e \in SocketEnds /\ e[2] = "client"
  BY DEF SocketEnds, Sides
<1>2. /\ ~ s.made /\ microtasks' = Append(microtasks, Do("connect", e))
      /\ sockets' = [sockets EXCEPT ![e].made = TRUE, ![e].connecting = TRUE, ![e].port = TRUE]
      /\ wire' = wire /\ server' = server /\ closings' = closings
  BY DEF Connect
<1>3. Joined(sockets, wire) /\ Pending(microtasks, sockets) /\ Known(server.connections, sockets)
  BY DEF SocketsInv
<1>4. /\ sockets \in [SocketEnds -> Ends] /\ End(s) /\ s \in Ends /\ wire \in [SocketEnds -> Seq(Nat)]
      /\ Between(s, sockets[Peer(e)], wire[Peer(e)]) /\ Between(sockets[Peer(e)], s, wire[e])
      /\ sockets[Peer(e)] \in Ends
  BY <1>1, <1>3, EndsAre
<1>5. sockets' = [sockets EXCEPT ![e] = t]
  BY <1>1, <1>2, <1>4
<1> HIDE DEF e, s
<1>6. /\ t \in Ends /\ t.made /\ t.connecting /\ t.port /\ t.readyState = s.readyState /\ t.destroyed = s.destroyed
      /\ t.early = s.early /\ t.written = s.written /\ t.read = s.read /\ t.closed = s.closed
  BY <1>4 DEF Ends
<1> HIDE DEF t
<1>7. End(t) /\ ~ t.destroyed /\ t.written = 0
  BY <1>2, <1>4, <1>6 DEF End
<1>8. Between(t, sockets[Peer(e)], wire[Peer(e)])
  <2>1. sockets[Peer(e)].read = << >> /\ wire[Peer(e)] = << >>
    BY <1>2, <1>4 DEF Between
  <2> QED
    BY <1>6, <1>7, <2>1 DEF Between
<1>9. Between(sockets[Peer(e)], t, wire[e])
  BY <1>2, <1>4, <1>6 DEF Between
<1>10. Joined(sockets', wire)
  <2>1. \A x \in SocketEnds : x # e /\ x # Peer(e) => wire[x] = wire[x]
    OBVIOUS
  <2> QED
    BY <1>1, <1>3, <1>4, <1>5, <1>7, <1>8, <1>9, <2>1, JoinChanges
<1>11. \A x \in SocketEnds : sockets'[x] = IF x = e THEN t ELSE sockets[x]
  BY <1>4, <1>5
<1>12. Pending(microtasks, sockets') /\ \A k \in 1 .. Len(microtasks) : microtasks[k] # Do("connect", e)
  <2> SUFFICES ASSUME NEW k \in 1 .. Len(microtasks)
               PROVE  Due(microtasks[k], sockets') /\ microtasks[k] # Do("connect", e)
    BY <1>3, StillDue
  <2> DEFINE u == microtasks[k]
  <2>1. Due(u, sockets) /\ u \in SocketTasks
    BY <1>3 DEF Pending
  <2> HIDE DEF u
  <2>2. ASSUME u.kind \in {"connect", "close"} PROVE u.of \in SocketEnds /\ u.of # e
    <3>1. u.of \in SocketEnds
      BY <2>1, <2>2, TaskIs
    <3>2. sockets[u.of].made
      BY <1>3, <2>1, <2>2, <3>1, EndsAre DEF Due, End
    <3> QED
      BY <1>2, <3>1, <3>2 DEF s
  <2>3. Due(u, sockets')
    <3>1. u.kind \in {"connect", "close"} => sockets'[u.of] = sockets[u.of]
      BY <1>11, <2>2
    <3> QED
      BY <2>1, <3>1 DEF Due
  <2>4. u # Do("connect", e)
    BY <2>2 DEF Do
  <2> QED
    BY <2>3, <2>4 DEF u
<1>13. Pending(microtasks', sockets')
  <2> DEFINE d == Do("connect", e)
  <2>1. d \in SocketTasks /\ d.kind = "connect" /\ d.of = e
    BY <1>1 DEF SocketTasks, Do
  <2>2. Due(d, sockets')
    BY <1>1, <1>6, <1>7, <1>11, <2>1 DEF Due
  <2> HIDE DEF d
  <2>3. \A k \in 1 .. Len(microtasks) : microtasks[k] # d
    BY <1>12 DEF d
  <2>4. Pending(Append(microtasks, d), sockets')
    BY <1>12, <2>1, <2>2, <2>3, QueuedOne
  <2> QED
    BY <1>2, <2>4 DEF d
<1>14. Known(server.connections, sockets')
  <2>1. \A x \in SocketEnds : /\ sockets[x].made => sockets'[x].made
                              /\ sockets'[x].made => sockets[x].made \/ x[2] = "client"
                              /\ x \in server.connections => sockets'[x].closed = sockets[x].closed
                              /\ sockets[x].destroyed => sockets'[x].destroyed
    BY <1>1, <1>6, <1>11 DEF s
  <2> QED
    BY <1>3, <1>4, <2>1, StillKnown
<1> QED
  BY <1>2, <1>10, <1>13, <1>14 DEF SocketsInv

LEMMA Injects ==
  ASSUME SocketsInv, NEW c \in Conns, InjectConnection(c)
  PROVE  SocketsInv'
<1> DEFINE e == <<c, "served">>
<1> DEFINE s == sockets[e]
<1> DEFINE t == [s EXCEPT !.made = TRUE, !.port = TRUE]
<1>1. e \in SocketEnds /\ e[2] = "served"
  BY DEF SocketEnds, Sides
<1>2. /\ ~ s.made /\ microtasks' = microtasks /\ wire' = wire /\ closings' = closings
      /\ sockets' = [sockets EXCEPT ![e].made = TRUE, ![e].port = TRUE]
      /\ server' = [server EXCEPT !.connections = @ \cup {e}]
  BY DEF InjectConnection
<1>3. Joined(sockets, wire) /\ Pending(microtasks, sockets) /\ Known(server.connections, sockets)
      /\ server \in [listening : BOOLEAN, connections : SUBSET SocketEnds, listens : Nat, closed : Nat]
      /\ closings \in 0 .. MaxCloses
  BY DEF SocketsInv
<1>4. /\ sockets \in [SocketEnds -> Ends] /\ End(s) /\ s \in Ends /\ wire \in [SocketEnds -> Seq(Nat)]
      /\ Between(s, sockets[Peer(e)], wire[Peer(e)]) /\ Between(sockets[Peer(e)], s, wire[e])
      /\ sockets[Peer(e)] \in Ends
  BY <1>1, <1>3, EndsAre
<1>5. sockets' = [sockets EXCEPT ![e] = t]
  BY <1>1, <1>2, <1>4
<1>6. /\ t \in Ends /\ t.made /\ t.connecting = s.connecting /\ t.port /\ t.readyState = s.readyState /\ t.destroyed = s.destroyed
      /\ t.early = s.early /\ t.written = s.written /\ t.read = s.read /\ t.closed = s.closed
  BY <1>4 DEF Ends
<1> HIDE DEF e, s, t
<1>7. End(t) /\ ~ t.destroyed /\ t.written = 0 /\ t.closed = 0 /\ s.closed \in {0, 1}
  BY <1>2, <1>4, <1>6 DEF End, Ends
<1>8. Between(t, sockets[Peer(e)], wire[Peer(e)])
  <2>1. sockets[Peer(e)].read = << >> /\ wire[Peer(e)] = << >>
    BY <1>2, <1>4 DEF Between
  <2> QED
    BY <1>6, <1>7, <2>1 DEF Between
<1>9. Between(sockets[Peer(e)], t, wire[e])
  BY <1>2, <1>4, <1>6 DEF Between
<1>10. Joined(sockets', wire)
  <2>1. \A x \in SocketEnds : x # e /\ x # Peer(e) => wire[x] = wire[x]
    OBVIOUS
  <2> QED
    BY <1>1, <1>3, <1>4, <1>5, <1>7, <1>8, <1>9, <2>1, JoinChanges
<1>11. \A x \in SocketEnds : sockets'[x] = IF x = e THEN t ELSE sockets[x]
  BY <1>4, <1>5
<1>12. Pending(microtasks, sockets')
  <2> SUFFICES ASSUME NEW k \in 1 .. Len(microtasks), Due(microtasks[k], sockets) PROVE Due(microtasks[k], sockets')
    BY <1>3, StillDue
  <2> DEFINE u == microtasks[k]
  <2>1. u \in SocketTasks
    BY <1>3 DEF Pending
  <2>2. u.kind \in {"connect", "close"} =>
          LET x == sockets[u.of] y == sockets'[u.of] IN
          /\ y.made = TRUE /\ y.connecting = x.connecting /\ y.destroyed = x.destroyed /\ y.early = x.early /\ y.closed = x.closed
    <3> HIDE DEF u
    <3> SUFFICES ASSUME u.kind \in {"connect", "close"}
                 PROVE  LET x == sockets[u.of] y == sockets'[u.of] IN
                        /\ y.made = TRUE /\ y.connecting = x.connecting /\ y.destroyed = x.destroyed
                        /\ y.early = x.early /\ y.closed = x.closed
      OBVIOUS
    <3>1. u.of \in SocketEnds
      BY <2>1, TaskIs
    <3>2. sockets[u.of].made = TRUE
      <4>1. sockets[u.of].made \in BOOLEAN
        BY <1>4, <3>1 DEF Ends
      <4>2. sockets[u.of].made
        BY <1>3, <3>1, EndsAre DEF Due, End, u
      <4> QED
        BY <4>1, <4>2
    <3>3. CASE u.of = e
      BY <1>2, <3>2, <3>3 DEF s
    <3>4. CASE u.of # e
      BY <1>11, <3>1, <3>2, <3>4
    <3> QED
      BY <3>3, <3>4
  <2> QED
    BY <2>2 DEF Due
<1>13. Known(server.connections \cup {e}, sockets')
  <2> DEFINE conns == server.connections
  <2>1. conns \cup {e} \subseteq SocketEnds /\ IsFiniteSet(conns \cup {e})
    BY <1>1, <1>3, FS_AddElement DEF Known
  <2>2. \A x \in conns : x \in SocketEnds /\ x[2] = "served" /\ sockets[x].made /\ sockets[x].closed = 0
    BY <1>3 DEF Known
  <2>3. \A x \in conns \cup {e} : x[2] = "served" /\ sockets'[x].made /\ sockets'[x].closed = 0
    BY <1>1, <1>6, <1>7, <1>11, <2>2
  <2>4. ASSUME NEW d \in Conns, sockets'[<<d, "served">>].made
        PROVE  <<d, "served">> \in conns \cup {e} \/ sockets'[<<d, "served">>].destroyed
    <3>1. <<d, "served">> \in SocketEnds
      BY DEF SocketEnds, Sides
    <3> QED
      BY <1>3, <1>11, <2>4, <3>1 DEF Known
  <2> QED
    BY <2>1, <2>3, <2>4 DEF Known
<1>14. server' \in [listening : BOOLEAN, connections : SUBSET SocketEnds, listens : Nat, closed : Nat]
       /\ server'.connections = server.connections \cup {e}
  BY <1>1, <1>2, <1>3 DEF Known, e
<1> QED
  BY <1>2, <1>3, <1>10, <1>12, <1>13, <1>14 DEF SocketsInv

LEMMA Writes ==
  ASSUME SocketsInv, NEW e \in SocketEnds, SocketWrite(e)
  PROVE  SocketsInv'
<1> DEFINE s == sockets[e]
<1> DEFINE p == sockets[Peer(e)]
<1> DEFINE w == wire[Peer(e)]
<1> DEFINE t == [s EXCEPT !.written = @ + 1]
<1> DEFINE w2 == IF Reaches(e) THEN Append(w, s.written + 1) ELSE w
<1>1. s.made /\ microtasks' = microtasks /\ server' = server /\ closings' = closings
  BY DEF SocketWrite
<1>2. Joined(sockets, wire) /\ Pending(microtasks, sockets) /\ Known(server.connections, sockets)
  BY DEF SocketsInv
<1>3. /\ sockets \in [SocketEnds -> Ends] /\ End(s) /\ s \in Ends /\ wire \in [SocketEnds -> Seq(Nat)]
      /\ Between(s, p, w) /\ Between(p, s, wire[e]) /\ p \in Ends /\ w \in Seq(Nat)
  BY <1>2, EndsAre
<1>4. Peer(e) \in SocketEnds /\ Peer(e) # e
  BY PeerIs
<1>5. sockets' = [sockets EXCEPT ![e] = t] /\ wire' = [wire EXCEPT ![Peer(e)] = w2]
  <2>1. sockets' = [sockets EXCEPT ![e] = t]
    BY <1>3 DEF SocketWrite
  <2>2. CASE Reaches(e)
    BY <1>3, <1>4, <2>2 DEF SocketWrite, Posted
  <2>3. CASE ~ Reaches(e)
    BY <1>3, <1>4, <2>3 DEF SocketWrite
  <2> QED
    BY <2>1, <2>2, <2>3
<1>6. Reaches(e) <=> (s.port /\ (p.port \/ ~ p.made))
  BY DEF Reaches
<1> HIDE DEF s, p, w
<1>7. s.written \in Nat /\ p.read \in Seq(Nat) /\ Len(p.read) \in Nat
  BY <1>3 DEF Ends
<1>8. w2 \in Seq(Nat) /\ Between(t, p, w2)
  <2>1. t.written = s.written + 1 /\ t.port = s.port /\ t.made = s.made
    BY <1>3 DEF Ends
  <2>2. CASE ~ Reaches(e)
    BY <1>1, <1>3, <1>6, <2>1, <2>2 DEF Between
  <2>3. CASE Reaches(e)
    <3>1. w2 = Append(w, s.written + 1) /\ s.written + 1 \in Nat
      BY <1>7, <2>3
    <3>2. w2 \in Seq(Nat) /\ Len(w2) = Len(w) + 1 /\ w2[Len(w) + 1] = s.written + 1 /\ \A k \in 1 .. Len(w) : w2[k] = w[k]
      BY <1>3, <3>1, AppendProperties
    <3>3. s.written = Len(p.read) + Len(w) /\ Len(w) \in Nat
      BY <1>3, <1>6, <2>3 DEF Between
    <3> HIDE DEF w2, t
    <3>4. \A k \in 1 .. Len(w2) : w2[k] = Len(p.read) + k
      <4>1. \A k \in 1 .. Len(w2) : k \in 1 .. Len(w) \/ k = Len(w) + 1
        BY <3>2, <3>3
      <4>2. \A k \in 1 .. Len(w) : w[k] = Len(p.read) + k
        BY <1>3 DEF Between
      <4>3. s.written + 1 = Len(p.read) + (Len(w) + 1)
        <5>1. PICK a \in Nat, b \in Nat : a = Len(p.read) /\ b = Len(w) /\ s.written = a + b
          BY <1>7, <3>3
        <5>2. (a + b) + 1 = a + (b + 1)
          OBVIOUS
        <5> QED
          BY <5>1, <5>2
      <4> QED
        BY <3>2, <4>1, <4>2, <4>3
    <3>5. t.written = Len(p.read) + Len(w2)
      <4>1. PICK a \in Nat, b \in Nat : a = Len(p.read) /\ b = Len(w) /\ s.written = a + b
        BY <1>7, <3>3
      <4>2. (a + b) + 1 = a + (b + 1)
        OBVIOUS
      <4> QED
        BY <2>1, <3>2, <4>1, <4>2
    <3> QED
      BY <1>1, <2>1, <3>2, <3>4, <3>5 DEF Between
  <2> QED
    BY <2>2, <2>3
<1>9. /\ t \in Ends /\ t.made = s.made /\ t.port = s.port /\ t.read = s.read /\ t.destroyed = s.destroyed /\ t.closed = s.closed
      /\ t.readyState = s.readyState /\ t.early = s.early /\ t.connecting = s.connecting
  <2>1. s.written + 1 \in Nat
    BY <1>7
  <2> QED
    BY <1>3, <2>1 DEF Ends
<1> HIDE DEF t, w2
<1>10. End(t) /\ Between(p, t, wire[e])
  BY <1>1, <1>3, <1>9 DEF End, Between
<1>11. Joined(sockets', wire')
  <2>1. wire' \in [SocketEnds -> Seq(Nat)] /\ wire'[Peer(e)] = w2 /\ wire'[e] = wire[e]
        /\ \A x \in SocketEnds : x # e /\ x # Peer(e) => wire'[x] = wire[x]
    BY <1>3, <1>4, <1>5, <1>8
  <2>2. Between(t, sockets[Peer(e)], wire'[Peer(e)]) /\ Between(sockets[Peer(e)], t, wire'[e])
    BY <1>8, <1>10, <2>1 DEF p
  <2>3. Joined([sockets EXCEPT ![e] = t], wire')
    BY <1>2, <1>10, <2>1, <2>2, JoinChanges
  <2> QED
    BY <1>5, <2>3
<1>12. \A x \in SocketEnds : /\ sockets'[x].made = sockets[x].made /\ sockets'[x].destroyed = sockets[x].destroyed
                             /\ sockets'[x].closed = sockets[x].closed /\ sockets'[x].early = sockets[x].early
                             /\ sockets'[x].connecting = sockets[x].connecting
  BY <1>3, <1>5, <1>9 DEF s
<1> QED
  BY <1>1, <1>11, <1>12, Unmoved DEF SocketsInv

LEMMA Receives ==
  ASSUME SocketsInv, NEW e \in SocketEnds, Receive(e)
  PROVE  SocketsInv'
<1> DEFINE s == sockets[e]
<1> DEFINE p == sockets[Peer(e)]
<1> DEFINE w == wire[e]
<1> DEFINE t == [s EXCEPT !.read = Append(@, Head(w))]
<1>1. w # << >> /\ microtasks' = microtasks /\ server' = server /\ closings' = closings
  BY DEF Receive
<1>2. Joined(sockets, wire) /\ Pending(microtasks, sockets) /\ Known(server.connections, sockets)
  BY DEF SocketsInv
<1>3. /\ sockets \in [SocketEnds -> Ends] /\ End(s) /\ s \in Ends /\ wire \in [SocketEnds -> Seq(Nat)]
      /\ Between(s, p, wire[Peer(e)]) /\ Between(p, s, w) /\ p \in Ends /\ w \in Seq(Nat)
  BY <1>2, EndsAre
<1>4. Peer(e) \in SocketEnds /\ Peer(e) # e
  BY PeerIs
<1>5. sockets' = [sockets EXCEPT ![e] = t] /\ wire' = [wire EXCEPT ![e] = Tail(w)]
  BY <1>3 DEF Receive
<1> HIDE DEF s, p, w
<1> DEFINE n == Len(s.read)
<1>6. s.read \in Seq(Nat) /\ n \in Nat /\ p.written \in Nat /\ \A k \in 1 .. n : s.read[k] = k
  BY <1>3 DEF Ends, End
<1>7. Len(w) \in Nat \ {0} /\ Head(w) = w[1] /\ 1 \in 1 .. Len(w) /\ Tail(w) \in Seq(Nat) /\ Len(Tail(w)) = Len(w) - 1
      /\ \A k \in 1 .. Len(w) - 1 : Tail(w)[k] = w[k + 1]
  BY <1>1, <1>3
<1>8. /\ \A k \in 1 .. Len(w) : w[k] = n + k
      /\ p.port /\ (s.port \/ ~ s.made) => p.written = n + Len(w)
      /\ p.made
  BY <1>1, <1>3 DEF Between
<1> DEFINE r == Append(s.read, Head(w))
<1>9. r \in Seq(Nat) /\ Len(r) = n + 1 /\ r[n + 1] = Head(w) /\ \A k \in 1 .. n : r[k] = s.read[k]
  <2>1. Head(w) \in Nat
    BY <1>3, <1>7
  <2> QED
    BY <1>6, <2>1, AppendProperties
<1>10. Head(w) = n + 1
  BY <1>7, <1>8
<1> HIDE DEF r
<1>11. /\ t \in Ends /\ t.made = s.made /\ t.port = s.port /\ t.read = r /\ t.destroyed = s.destroyed /\ t.closed = s.closed
       /\ t.readyState = s.readyState /\ t.early = s.early /\ t.connecting = s.connecting /\ t.written = s.written
  BY <1>3, <1>9 DEF Ends, r
<1> HIDE DEF t, n
<1>12. End(t)
  <2>1. \A k \in 1 .. Len(r) : r[k] = k
    <3>1. \A k \in 1 .. Len(r) : k \in 1 .. n \/ k = n + 1
      BY <1>6, <1>9
    <3> QED
      BY <1>6, <1>9, <1>10, <3>1
  <2> QED
    BY <1>3, <1>11, <2>1 DEF End
<1>13. Between(t, p, wire[Peer(e)])
  BY <1>3, <1>11 DEF Between
<1>14. Between(p, t, Tail(w))
  <2>1. \A k \in 1 .. Len(Tail(w)) : Tail(w)[k] = (n + 1) + k
    <3> SUFFICES ASSUME NEW k \in 1 .. Len(Tail(w)) PROVE Tail(w)[k] = (n + 1) + k
      OBVIOUS
    <3>1. k \in 1 .. Len(w) - 1 /\ k + 1 \in 1 .. Len(w) /\ n + (k + 1) = (n + 1) + k
      BY <1>6, <1>7
    <3> QED
      BY <1>7, <1>8, <3>1
  <2>2. n + Len(w) = (n + 1) + Len(Tail(w))
    BY <1>6, <1>7
  <2> QED
    BY <1>8, <1>9, <1>11, <2>1, <2>2 DEF Between
<1>15. Joined(sockets', wire')
  <2>1. wire' \in [SocketEnds -> Seq(Nat)] /\ wire'[Peer(e)] = wire[Peer(e)] /\ wire'[e] = Tail(w)
        /\ \A x \in SocketEnds : x # e /\ x # Peer(e) => wire'[x] = wire[x]
    BY <1>3, <1>4, <1>5, <1>7
  <2>2. Between(t, sockets[Peer(e)], wire'[Peer(e)]) /\ Between(sockets[Peer(e)], t, wire'[e])
    BY <1>13, <1>14, <2>1 DEF p
  <2>3. Joined([sockets EXCEPT ![e] = t], wire')
    BY <1>2, <1>12, <2>1, <2>2, JoinChanges
  <2> QED
    BY <1>5, <2>3
<1>16. \A x \in SocketEnds : /\ sockets'[x].made = sockets[x].made /\ sockets'[x].destroyed = sockets[x].destroyed
                             /\ sockets'[x].closed = sockets[x].closed /\ sockets'[x].early = sockets[x].early
                             /\ sockets'[x].connecting = sockets[x].connecting
  BY <1>3, <1>5, <1>11 DEF s
<1> QED
  BY <1>1, <1>15, <1>16, Unmoved DEF SocketsInv

LEMMA GoneIs ==
  ASSUME NEW s, End(s), s.made, ~ s.destroyed
  PROVE  /\ End(Gone(s)) /\ Gone(s) \in Ends /\ Gone(s).made /\ Gone(s).destroyed /\ ~ Gone(s).port
         /\ Gone(s).connecting = s.connecting /\ Gone(s).early = s.connecting /\ Gone(s).closed = 0
         /\ Gone(s).read = s.read /\ Gone(s).written = s.written
<1> DEFINE g == Gone(s)
<1>1. s \in Ends
  BY DEF End
<1>2. /\ g \in Ends /\ g.made = s.made /\ g.destroyed = TRUE /\ g.port = FALSE /\ g.readyState = "closed"
      /\ g.connecting = s.connecting /\ g.early = s.connecting /\ g.closed = s.closed
      /\ g.read = s.read /\ g.written = s.written
  BY <1>1 DEF Gone, Ends
<1>3. s.closed = 0
  BY <1>1 DEF End, Ends
<1> HIDE DEF g
<1>4. End(g)
  BY <1>2, <1>3 DEF End
<1> QED
  BY <1>2, <1>3, <1>4 DEF g

GoneAll(ss, es) == [e \in SocketEnds |-> IF e \in es THEN Gone(ss[e]) ELSE ss[e]]

\* Some ends are destroyed at once; what is under way to them, and to the peers of clients, is lost.
LEMMA Destroying ==
  ASSUME NEW ss, NEW ws, Joined(ss, ws), NEW ts, Pending(ts, ss), NEW es \in SUBSET SocketEnds,
         \A e \in es : ss[e].made /\ ~ ss[e].destroyed
  PROVE  /\ Joined(GoneAll(ss, es), Silenced(ws, es)) /\ Pending(ts, GoneAll(ss, es))
         /\ \A e \in es : GoneAll(ss, es)[e].destroyed /\ GoneAll(ss, es)[e].closed = 0
                         /\ \A k \in 1 .. Len(ts) : ts[k] # Do("close", e)
<1> DEFINE ss2 == GoneAll(ss, es)
<1> DEFINE ws2 == Silenced(ws, es)
<1>1. /\ \A e \in SocketEnds \ es : ss2[e] = ss[e]
      /\ \A e \in es : ss2[e] = Gone(ss[e])
      /\ \A S : (\A e \in SocketEnds : ss2[e] \in S) => ss2 \in [SocketEnds -> S]
  BY DEF GoneAll
<1> HIDE DEF ss2
<1>2. ASSUME NEW e \in es
      PROVE  /\ End(ss2[e]) /\ ss2[e] \in Ends /\ ss2[e].made /\ ss2[e].destroyed /\ ~ ss2[e].port
             /\ ss2[e].connecting = ss[e].connecting /\ ss2[e].early = ss[e].connecting /\ ss2[e].closed = 0
             /\ ss2[e].read = ss[e].read /\ ss2[e].written = ss[e].written
  <2>1. End(ss[e]) /\ e \in SocketEnds
    BY DEF Joined
  <2> QED
    BY <1>1, <2>1, GoneIs
<1>3. \A e \in SocketEnds : End(ss2[e]) /\ ss2[e] \in Ends
  BY <1>1, <1>2, EndsAre
<1>4. ss2 \in [SocketEnds -> Ends]
  BY <1>1, <1>3
<1>5. /\ ws \in [SocketEnds -> Seq(Nat)]
      /\ \A e \in SocketEnds : ws2[e] = (IF e \in es \/ (Peer(e) \in es /\ Peer(e)[2] = "client") THEN << >> ELSE ws[e])
      /\ ws2 \in [SocketEnds -> Seq(Nat)]
  <2>1. ws \in [SocketEnds -> Seq(Nat)]
    BY DEF Joined
  <2>2. << >> \in Seq(Nat)
    OBVIOUS
  <2> QED
    BY <2>1, <2>2 DEF Silenced
<1> HIDE DEF ws2
<1>6. ASSUME NEW x \in SocketEnds PROVE Between(ss2[x], ss2[Peer(x)], ws2[Peer(x)])
  <2> DEFINE p == Peer(x)
  <2>1. p \in SocketEnds /\ Peer(p) = x
    BY PeerIs
  <2>2. Between(ss[x], ss[p], ws[p])
    BY DEF Joined
  <2> SUFFICES Between(ss2[x], ss2[p], ws2[p])
    OBVIOUS
  <2> HIDE DEF p
  <2>3. /\ x \notin es => ss2[x] = ss[x]
        /\ p \notin es => ss2[p] = ss[p]
    BY <1>1, <2>1
  <2>4. ss2[p].read = ss[p].read /\ (~ ss2[x].made => ~ ss[x].made /\ x \notin es)
    BY <1>2, <2>3
  <2>5. CASE x \in es
    <3>1. ~ ss2[x].port /\ ss2[x].made /\ ws2[p] \in {<< >>, ws[p]}
      BY <1>2, <1>5, <2>1, <2>5
    <3>2. CASE ws2[p] = << >>
      BY <2>4, <3>1, <3>2 DEF Between
    <3>3. CASE ws2[p] = ws[p]
      BY <2>2, <2>4, <3>1, <3>3 DEF Between
    <3> QED
      BY <3>1, <3>2, <3>3
  <2>6. CASE x \notin es /\ p \in es
    <3>1. ss2[p].made /\ ~ ss2[p].port /\ ws2[p] = << >>
      BY <1>2, <1>5, <2>1, <2>6
    <3>2. ss2[x] = ss[x]
      BY <2>3, <2>6
    <3> QED
      BY <2>2, <2>4, <3>1, <3>2 DEF Between
  <2>7. CASE x \notin es /\ p \notin es
    <3>1. ws2[p] = ws[p]
      BY <1>5, <2>1, <2>7
    <3> QED
      BY <2>2, <2>3, <2>7, <3>1
  <2> QED
    BY <2>5, <2>6, <2>7
<1>7. Joined(ss2, ws2)
  BY <1>3, <1>4, <1>5, <1>6 DEF Joined
<1>8. ASSUME NEW k \in 1 .. Len(ts), Due(ts[k], ss) PROVE Due(ts[k], ss2)
  <2> DEFINE u == ts[k]
  <2>1. u \in SocketTasks
    BY DEF Pending
  <2> SUFFICES Due(u, ss2)
    OBVIOUS
  <2> HIDE DEF u
  <2>2. CASE u.kind = "connect"
    <3>1. u.of \in SocketEnds /\ ss[u.of].made /\ ss[u.of].connecting /\ (ss[u.of].destroyed => ss[u.of].early)
      BY <1>8, <2>1, <2>2, TaskIs DEF Due, u
    <3>2. CASE u.of \in es
      BY <1>2, <2>2, <3>1, <3>2 DEF Due
    <3>3. CASE u.of \notin es
      BY <1>1, <2>2, <3>1, <3>3 DEF Due
    <3> QED
      BY <3>2, <3>3
  <2>3. CASE u.kind = "close"
    <3>1. u.of \in SocketEnds /\ ss[u.of].destroyed /\ ss[u.of].closed = 0
      BY <1>8, <2>1, <2>3, TaskIs DEF Due, u
    <3>2. u.of \notin es
      BY <3>1
    <3> QED
      BY <1>1, <2>3, <3>1, <3>2 DEF Due
  <2>4. CASE u.kind \notin {"connect", "close"}
    BY <2>4 DEF Due
  <2> QED
    BY <2>2, <2>3, <2>4
<1>9. Pending(ts, ss2)
  BY <1>8, StillDue
<1>10. ASSUME NEW e \in es, NEW k \in 1 .. Len(ts) PROVE ts[k] # Do("close", e)
  BY DEF Pending, Due, Do
<1> QED
  BY <1>2, <1>7, <1>9, <1>10 DEF ws2, ss2

LEMMA Destroys ==
  ASSUME SocketsInv, NEW e \in SocketEnds, NEW error, SocketDestroy(e, error)
  PROVE  SocketsInv'
<1> DEFINE es == {e}
<1> DEFINE ss2 == GoneAll(sockets, es)
<1>1. Joined(sockets, wire) /\ Pending(microtasks, sockets) /\ Known(server.connections, sockets)
      /\ sockets \in [SocketEnds -> Ends]
  BY DEF SocketsInv, Joined
<1>2. /\ sockets[e].made /\ ~ sockets[e].destroyed /\ wire' = Silenced(wire, es)
      /\ microtasks' = Append(microtasks, Do("close", e)) /\ server' = server /\ closings' = closings
  BY DEF SocketDestroy, Destroyable
<1>3. sockets' = ss2
  <2>1. sockets' = [sockets EXCEPT ![e] = Gone(@)]
    BY DEF SocketDestroy
  <2> QED
    BY <1>1, <2>1 DEF GoneAll
<1>4. es \in SUBSET SocketEnds /\ \A x \in es : sockets[x].made /\ ~ sockets[x].destroyed
  BY <1>2
<1>5. /\ Joined(ss2, Silenced(wire, es)) /\ Pending(microtasks, ss2)
      /\ \A x \in es : ss2[x].destroyed /\ ss2[x].closed = 0 /\ \A k \in 1 .. Len(microtasks) : microtasks[k] # Do("close", x)
  <2> HIDE DEF es
  <2>1. /\ Joined(GoneAll(sockets, es), Silenced(wire, es)) /\ Pending(microtasks, GoneAll(sockets, es))
        /\ \A x \in es : GoneAll(sockets, es)[x].destroyed /\ GoneAll(sockets, es)[x].closed = 0
                        /\ \A k \in 1 .. Len(microtasks) : microtasks[k] # Do("close", x)
    <3> HIDE DEF ss2
    <3>1. Joined(sockets, wire) /\ Pending(microtasks, sockets)
      BY <1>1
    <3>2. es \in SUBSET SocketEnds
      BY <1>4
    <3>3. \A x \in es : sockets[x].made /\ ~ sockets[x].destroyed
      BY <1>4
    <3> QED
      BY <3>1, <3>2, <3>3, Destroying
  <2> QED
    BY <2>1
<1>6. \A x \in SocketEnds : x # e => ss2[x] = sockets[x]
  BY DEF GoneAll
<1>7. ss2[e] = Gone(sockets[e]) /\ End(sockets[e]) /\ sockets[e].closed \in {0, 1}
  <2>1. ss2[e] = Gone(sockets[e])
    BY DEF GoneAll
  <2>2. End(sockets[e]) /\ sockets[e] \in Ends
    BY <1>1, EndsAre
  <2> QED
    BY <2>1, <2>2 DEF Ends
<1> HIDE DEF ss2
<1>8. Pending(Append(microtasks, Do("close", e)), ss2)
  <2> DEFINE d == Do("close", e)
  <2>1. d \in SocketTasks /\ d.kind = "close" /\ d.of = e
    BY DEF SocketTasks, Do
  <2>2. Due(d, ss2) /\ \A k \in 1 .. Len(microtasks) : microtasks[k] # d
    BY <1>5, <2>1 DEF Due
  <2> HIDE DEF d
  <2>3. Pending(Append(microtasks, d), ss2)
    BY <1>5, <2>1, <2>2, QueuedOne
  <2> QED
    BY <2>3 DEF d
<1>9. Known(server.connections, ss2)
  <2>1. ss2[e].made /\ ss2[e].destroyed /\ ss2[e].closed = 0 /\ sockets[e].closed = 0
    BY <1>2, <1>7, GoneIs DEF End
  <2>2. \A x \in SocketEnds : /\ sockets[x].made => ss2[x].made
                              /\ ss2[x].made => sockets[x].made \/ x[2] = "client"
                              /\ x \in server.connections => ss2[x].closed = sockets[x].closed
                              /\ sockets[x].destroyed => ss2[x].destroyed
    BY <1>2, <1>6, <2>1
  <2> QED
    BY <1>1, <2>2, StillKnown
<1> QED
  BY <1>2, <1>3, <1>5, <1>8, <1>9 DEF SocketsInv

LEMMA ClosesAreTasks ==
  ASSUME NEW es \in SUBSET SocketEnds, IsFiniteSet(es)
  PROVE  /\ CloseTasks(es) \in Seq(SocketTasks)
         /\ \A k \in 1 .. Len(CloseTasks(es)) : CloseTasks(es)[k].kind = "close" /\ CloseTasks(es)[k].of \in es
                                                /\ CloseTasks(es)[k] = Do("close", CloseTasks(es)[k].of)
         /\ \A j, k \in 1 .. Len(CloseTasks(es)) : CloseTasks(es)[j] = CloseTasks(es)[k] => j = k
<1> DEFINE n == Cardinality(es)
<1> DEFINE todo == SetToSeq(es)
<1>1. n \in Nat /\ \E f \in [1 .. n -> es] : IsInjective(f)
  <2>1. n \in Nat /\ ExistsBijection(1 .. n, es)
    BY FS_CardinalityType
  <2> HIDE DEF n
  <2> QED
    BY <2>1 DEF ExistsBijection, Bijection, Injection
<1>2. todo \in [1 .. n -> es] /\ IsInjective(todo)
  BY <1>1 DEF SetToSeq
<1> HIDE DEF n, todo
<1>3. Len(todo) = n /\ \A j, k \in 1 .. n : todo[j] = todo[k] => j = k
  BY <1>1, <1>2 DEF IsInjective
<1> DEFINE c == [k \in 1 .. n |-> Do("close", todo[k])]
<1>4. CloseTasks(es) = c
  BY <1>3 DEF CloseTasks, todo
<1>5. \A k \in 1 .. n : c[k].kind = "close" /\ c[k].of = todo[k] /\ c[k].of \in es /\ c[k] = Do("close", c[k].of) /\ c[k] \in SocketTasks
  BY <1>2 DEF Do, SocketTasks
<1>6. c \in Seq(SocketTasks) /\ Len(c) = n
  <2>1. c \in [1 .. n -> SocketTasks]
    BY <1>5
  <2> HIDE DEF c
  <2> QED
    BY <1>1, <2>1
<1> HIDE DEF c
<1>7. \A j, k \in 1 .. n : c[j] = c[k] => j = k
  BY <1>3, <1>5
<1> QED
  BY <1>4, <1>5, <1>6, <1>7

LEMMA ServerCloses ==
  ASSUME SocketsInv, CloseServer
  PROVE  SocketsInv'
<1> DEFINE conns == server.connections
<1> DEFINE es == ToDestroy(conns)
<1> DEFINE ss2 == GoneAll(sockets, es)
<1> DEFINE last == Do("serverClose", <<"none", "served">>)
<1>1. /\ Joined(sockets, wire) /\ Pending(microtasks, sockets) /\ Known(conns, sockets)
      /\ sockets \in [SocketEnds -> Ends]
      /\ server \in [listening : BOOLEAN, connections : SUBSET SocketEnds, listens : Nat, closed : Nat]
      /\ closings \in 0 .. MaxCloses
  BY DEF SocketsInv, Joined
<1>2. /\ sockets' = ss2 /\ wire' = Silenced(wire, es) /\ microtasks' = (microtasks \o CloseTasks(es)) \o <<last>>
      /\ server' = [server EXCEPT !.listening = FALSE, !.connections = {}]
      /\ closings' = closings + 1 /\ closings < MaxCloses
  BY DEF CloseServer, GoneAll
<1>3. /\ es \in SUBSET SocketEnds /\ IsFiniteSet(es)
      /\ \A x \in es : sockets[x].made /\ ~ sockets[x].destroyed
      /\ \A x \in conns : x \in es \/ sockets[x].destroyed
  <2>1. es \in SUBSET conns /\ conns \subseteq SocketEnds /\ IsFiniteSet(conns)
    BY <1>1 DEF ToDestroy, Known
  <2>2. IsFiniteSet(es)
    BY <2>1, FS_Subset
  <2>3. \A x \in es : sockets[x].made /\ ~ sockets[x].destroyed
    BY <1>1 DEF ToDestroy, Known
  <2>4. \A x \in conns : x \in es \/ sockets[x].destroyed
    BY DEF ToDestroy
  <2> QED
    BY <2>1, <2>2, <2>3, <2>4
<1> HIDE DEF es
<1>4. /\ Joined(ss2, Silenced(wire, es)) /\ Pending(microtasks, ss2)
      /\ \A x \in es : ss2[x].destroyed /\ ss2[x].closed = 0 /\ \A k \in 1 .. Len(microtasks) : microtasks[k] # Do("close", x)
  <2>1. /\ Joined(GoneAll(sockets, es), Silenced(wire, es)) /\ Pending(microtasks, GoneAll(sockets, es))
        /\ \A x \in es : GoneAll(sockets, es)[x].destroyed /\ GoneAll(sockets, es)[x].closed = 0
                        /\ \A k \in 1 .. Len(microtasks) : microtasks[k] # Do("close", x)
    <3> HIDE DEF ss2, conns
    <3> QED
      BY <1>1, <1>3, Destroying
  <2> QED
    BY <2>1
<1>5. \A x \in SocketEnds : ss2[x] = (IF x \in es THEN Gone(sockets[x]) ELSE sockets[x])
  BY DEF GoneAll
<1> HIDE DEF ss2, conns
<1> DEFINE new == CloseTasks(es)
<1>6. /\ new \in Seq(SocketTasks)
      /\ \A k \in 1 .. Len(new) : new[k].kind = "close" /\ new[k].of \in es /\ new[k] = Do("close", new[k].of)
      /\ \A j, k \in 1 .. Len(new) : new[j] = new[k] => j = k
  BY <1>3, ClosesAreTasks
<1> HIDE DEF new
<1>7. Pending(microtasks \o new, ss2)
  <2>1. Pending(new, ss2)
    BY <1>4, <1>6 DEF Pending, Due
  <2>2. ASSUME NEW j \in 1 .. Len(microtasks), NEW k \in 1 .. Len(new), microtasks[j] = new[k] PROVE FALSE
    <3>1. new[k].of \in es /\ new[k] = Do("close", new[k].of)
      BY <1>6
    <3>2. microtasks[j] # Do("close", new[k].of)
      BY <1>4, <3>1
    <3> QED
      BY <2>2, <3>1, <3>2
  <2> QED
    BY <1>4, <2>1, <2>2, Queued
<1>8. Pending((microtasks \o new) \o <<last>>, ss2)
  <2> DEFINE ts == microtasks \o new
  <2>1. ts \in Seq(SocketTasks) /\ last \in SocketTasks /\ last.kind = "serverClose"
    BY <1>7 DEF Pending, SocketTasks, Do
  <2> HIDE DEF ts, last
  <2>2. Due(last, ss2)
    BY <2>1 DEF Due
  <2>3. Pending(Append(ts, last), ss2)
    BY <1>7, <2>1, <2>2, QueuedOne DEF ts
  <2>4. Append(ts, last) = ts \o <<last>>
    BY <2>1, AppendIsConcat
  <2> QED
    BY <2>3, <2>4 DEF ts
<1>9. Known({}, ss2)
  <2>1. ASSUME NEW c \in Conns, ss2[<<c, "served">>].made PROVE ss2[<<c, "served">>].destroyed
    <3> DEFINE x == <<c, "served">>
    <3>1. x \in SocketEnds
      BY DEF SocketEnds, Sides
    <3>2. CASE x \in es
      BY <1>4, <3>2
    <3>3. CASE x \notin es
      <4>1. ss2[x] = sockets[x]
        BY <1>5, <3>1, <3>3
      <4>2. x \in conns \/ sockets[x].destroyed
        BY <1>1, <2>1, <4>1 DEF Known
      <4> QED
        BY <1>3, <3>3, <4>1, <4>2
    <3> QED
      BY <3>2, <3>3
  <2> QED
    BY <2>1, FS_EmptySet DEF Known
<1>10. server' \in [listening : BOOLEAN, connections : SUBSET SocketEnds, listens : Nat, closed : Nat] /\ server'.connections = {}
  BY <1>1, <1>2
<1>11. closings' \in 0 .. MaxCloses
  BY <1>1, <1>2, SocketsAssumption
<1> QED
  BY <1>2, <1>4, <1>8, <1>9, <1>10, <1>11 DEF SocketsInv, new

\* The first microtask.
LEMMA TaskRuns ==
  ASSUME SocketsInv, RunSocketTask
  PROVE  SocketsInv'
<1> DEFINE h == Head(microtasks)
<1> DEFINE rest == Tail(microtasks)
<1> DEFINE e == h.of
<1> DEFINE s == sockets[e]
<1>1. /\ Joined(sockets, wire) /\ Pending(microtasks, sockets) /\ Known(server.connections, sockets)
      /\ server \in [listening : BOOLEAN, connections : SUBSET SocketEnds, listens : Nat, closed : Nat]
      /\ closings \in 0 .. MaxCloses
  BY DEF SocketsInv
<1>2. /\ microtasks # << >> /\ microtasks' = rest /\ closings' = closings /\ wire' = wire
      /\ \/ h.kind = "connect" /\ RunConnect(e)
         \/ h.kind = "close" /\ (RunClose(e) \/ RunThrows(e))
         \/ h.kind = "serverClose" /\ RunServerClose
  BY DEF RunSocketTask, RunConnect, RunClose, RunThrows, RunServerClose
<1>3. /\ Pending(rest, sockets) /\ h \in SocketTasks /\ Due(h, sockets)
      /\ \A k \in 1 .. Len(rest) : rest[k] \in SocketTasks /\ (rest[k] = h => h.kind = "serverClose")
  BY <1>1, <1>2, Dequeued
<1> HIDE DEF h, rest
<1>4. ASSUME h.kind = "connect", RunConnect(e) PROVE SocketsInv'
  <2> DEFINE t == [s EXCEPT !.connecting = FALSE, !.readyState = "open"]
  <2>1. e \in SocketEnds /\ h = Do("connect", e)
    BY <1>3, <1>4, TaskIs
  <2>2. sockets \in [SocketEnds -> Ends] /\ End(s) /\ s \in Ends
    BY <1>1, <2>1, EndsAre
  <2>3. s.made /\ s.connecting /\ (s.destroyed => s.early)
    BY <1>3, <1>4 DEF Due
  <2>4. sockets' = [sockets EXCEPT ![e] = t] /\ server' = server
    BY <1>4, <2>1, <2>2 DEF RunConnect
  <2> HIDE DEF s, e
  <2>5. /\ t \in Ends /\ t.made = s.made /\ t.port = s.port /\ t.read = s.read /\ t.destroyed = s.destroyed /\ t.closed = s.closed
        /\ t.early = s.early /\ t.written = s.written
    BY <2>2 DEF Ends
  <2> HIDE DEF t
  <2>6. End(t)
    BY <2>2, <2>3, <2>5 DEF End
  <2>7. Joined(sockets', wire)
    BY <1>1, <2>1, <2>4, <2>5, <2>6, EndChanges DEF s
  <2>8. \A x \in SocketEnds : sockets'[x] = IF x = e THEN t ELSE sockets[x]
    BY <2>2, <2>4
  <2>9. Pending(rest, sockets')
    <3> SUFFICES ASSUME NEW k \in 1 .. Len(rest), Due(rest[k], sockets) PROVE Due(rest[k], sockets')
      BY <1>3, StillDue
    <3> DEFINE u == rest[k]
    <3>1. u \in SocketTasks /\ u # h
      BY <1>3, <1>4
    <3> SUFFICES Due(u, sockets')
      OBVIOUS
    <3>2. Due(u, sockets)
      OBVIOUS
    <3> HIDE DEF u
    <3>3. CASE u.kind = "connect"
      <4>1. u.of \in SocketEnds /\ u = Do("connect", u.of)
        BY <3>1, <3>3, TaskIs
      <4>2. sockets'[u.of] = sockets[u.of]
        BY <2>1, <2>8, <3>1, <4>1
      <4> QED
        BY <3>2, <3>3, <4>2 DEF Due
    <3>4. CASE u.kind = "close"
      <4>1. u.of \in SocketEnds
        BY <3>1, <3>4, TaskIs
      <4>2. sockets'[u.of].destroyed = sockets[u.of].destroyed /\ sockets'[u.of].closed = sockets[u.of].closed
        BY <2>5, <2>8, <4>1 DEF s
      <4> QED
        BY <3>2, <3>4, <4>2 DEF Due
    <3>5. CASE u.kind \notin {"connect", "close"}
      BY <3>5 DEF Due
    <3> QED
      BY <3>3, <3>4, <3>5
  <2>10. Known(server.connections, sockets')
    <3>1. \A x \in SocketEnds : /\ sockets[x].made => sockets'[x].made
                                /\ sockets'[x].made => sockets[x].made \/ x[2] = "client"
                                /\ x \in server.connections => sockets'[x].closed = sockets[x].closed
                                /\ sockets[x].destroyed => sockets'[x].destroyed
      BY <2>3, <2>5, <2>8 DEF s
    <3> QED
      BY <1>1, <2>2, <3>1, StillKnown
  <2> QED
    BY <1>1, <1>2, <2>4, <2>7, <2>9, <2>10 DEF SocketsInv
<1>5. ASSUME h.kind = "close", RunClose(e) PROVE SocketsInv'
  <2> DEFINE t == [s EXCEPT !.closed = @ + 1]
  <2> DEFINE conns == server.connections
  <2> DEFINE conns2 == IF e[2] = "served" THEN conns \ {e} ELSE conns
  <2>1. e \in SocketEnds /\ h = Do("close", e)
    BY <1>3, <1>5, TaskIs
  <2>2. sockets \in [SocketEnds -> Ends] /\ End(s) /\ s \in Ends
    BY <1>1, <2>1, EndsAre
  <2>3. s.destroyed /\ s.closed = 0
    BY <1>3, <1>5 DEF Due
  <2>4. /\ sockets' = [sockets EXCEPT ![e] = t]
        /\ server' \in [listening : BOOLEAN, connections : SUBSET SocketEnds, listens : Nat, closed : Nat]
        /\ server'.connections = conns2
    <3>1. sockets' = [sockets EXCEPT ![e] = t]
      BY <1>5, <2>1, <2>2 DEF RunClose
    <3>2. CASE e[2] = "served"
      <4>1. server' = [server EXCEPT !.connections = @ \ {e}]
        BY <1>5, <3>2 DEF RunClose, Forgotten
      <4>2. /\ server' \in [listening : BOOLEAN, connections : SUBSET SocketEnds, listens : Nat, closed : Nat]
            /\ server'.connections = conns \ {e}
        BY <1>1, <4>1
      <4> QED
        BY <3>1, <3>2, <4>2
    <3>3. CASE e[2] # "served"
      BY <1>1, <1>5, <3>1, <3>3 DEF RunClose
    <3> QED
      BY <3>2, <3>3
  <2> HIDE DEF s, e, conns
  <2>5. /\ t \in Ends /\ t.made = s.made /\ t.port = s.port /\ t.read = s.read /\ t.destroyed = s.destroyed /\ t.closed = 1
        /\ t.early = s.early /\ t.written = s.written /\ t.readyState = s.readyState /\ t.connecting = s.connecting
    <3>1. s.closed + 1 = 1 /\ 1 \in {0, 1}
      BY <2>3
    <3> QED
      BY <2>2, <3>1 DEF Ends
  <2> HIDE DEF t
  <2>6. End(t)
    BY <2>2, <2>3, <2>5 DEF End
  <2>7. Joined(sockets', wire)
    BY <1>1, <2>1, <2>4, <2>5, <2>6, EndChanges DEF s
  <2>8. \A x \in SocketEnds : sockets'[x] = IF x = e THEN t ELSE sockets[x]
    BY <2>2, <2>4
  <2>9. Pending(rest, sockets')
    <3> SUFFICES ASSUME NEW k \in 1 .. Len(rest), Due(rest[k], sockets) PROVE Due(rest[k], sockets')
      BY <1>3, StillDue
    <3> DEFINE u == rest[k]
    <3>1. u \in SocketTasks /\ u # h
      BY <1>3, <1>5
    <3> SUFFICES Due(u, sockets')
      OBVIOUS
    <3>2. Due(u, sockets)
      OBVIOUS
    <3> HIDE DEF u
    <3>3. CASE u.kind = "close"
      <4>1. u.of \in SocketEnds /\ u = Do("close", u.of)
        BY <3>1, <3>3, TaskIs
      <4>2. sockets'[u.of] = sockets[u.of]
        BY <2>1, <2>8, <3>1, <4>1
      <4> QED
        BY <3>2, <3>3, <4>2 DEF Due
    <3>4. CASE u.kind = "connect"
      <4>1. u.of \in SocketEnds
        BY <3>1, <3>4, TaskIs
      <4>2. /\ sockets'[u.of].destroyed = sockets[u.of].destroyed /\ sockets'[u.of].made = sockets[u.of].made
            /\ sockets'[u.of].connecting = sockets[u.of].connecting /\ sockets'[u.of].early = sockets[u.of].early
        BY <2>5, <2>8, <4>1 DEF s
      <4> QED
        BY <3>2, <3>4, <4>2 DEF Due
    <3>5. CASE u.kind \notin {"connect", "close"}
      BY <3>5 DEF Due
    <3> QED
      BY <3>3, <3>4, <3>5
  <2>10. Known(conns2, sockets')
    <3>1. Known(conns, sockets)
      BY <1>1 DEF conns
    <3>2. conns2 \subseteq conns /\ e \notin conns2 /\ conns2 \subseteq SocketEnds
      BY <3>1 DEF Known
    <3>3. IsFiniteSet(conns2)
      BY <3>1, <3>2, FS_Subset DEF Known
    <3>4. \A x \in conns2 : x[2] = "served" /\ sockets'[x].made /\ sockets'[x].closed = 0
      BY <2>8, <3>1, <3>2 DEF Known
    <3>5. ASSUME NEW c \in Conns, sockets'[<<c, "served">>].made
          PROVE  <<c, "served">> \in conns2 \/ sockets'[<<c, "served">>].destroyed
      <4> DEFINE x == <<c, "served">>
      <4>1. x \in SocketEnds
        BY DEF SocketEnds, Sides
      <4>2. CASE x = e
        BY <2>3, <2>5, <2>8, <4>1, <4>2
      <4>3. CASE x # e
        <5>1. sockets'[x] = sockets[x]
          BY <2>8, <4>1, <4>3
        <5>2. x \in conns \/ sockets[x].destroyed
          BY <3>1, <3>5, <5>1 DEF Known
        <5> HIDE DEF x
        <5>3. x \in conns => x \in conns2
          BY <4>3
        <5> QED
          BY <5>1, <5>2, <5>3 DEF x
      <4> QED
        BY <4>2, <4>3
    <3> HIDE DEF conns2
    <3> QED
      BY <3>2, <3>3, <3>4, <3>5 DEF Known
  <2> QED
    BY <1>1, <1>2, <2>4, <2>7, <2>9, <2>10 DEF SocketsInv
<1>6. ASSUME RunServerClose PROVE SocketsInv'
  <2>1. /\ server' \in [listening : BOOLEAN, connections : SUBSET SocketEnds, listens : Nat, closed : Nat]
        /\ server'.connections = server.connections /\ sockets' = sockets
    BY <1>1, <1>6 DEF RunServerClose
  <2> QED
    BY <1>1, <1>2, <1>3, <2>1 DEF SocketsInv
<1>7. ASSUME RunThrows(e) PROVE SocketsInv'
  BY <1>1, <1>2, <1>3, <1>7 DEF RunThrows, SocketsInv
<1> QED
  BY <1>2, <1>4, <1>5, <1>6, <1>7

-----------------------------------------------------------------------------
\* The invariant of the sockets.
THEOREM SocketsInvariant == SocketsSpec => []SocketsInv
<1>1. ASSUME SocketsInv, [SocketsNext]_socketVars PROVE SocketsInv'
  <2>1. CASE UNCHANGED socketVars
    BY <1>1, <2>1 DEF socketVars, SocketsInv
  <2>2. ASSUME NEW c \in Conns, Connect(c) \/ InjectConnection(c) PROVE SocketsInv'
    BY <1>1, <2>2, Connects, Injects
  <2>3. ASSUME NEW e \in SocketEnds, SocketWrite(e) \/ Receive(e) PROVE SocketsInv'
    BY <1>1, <2>3, Writes, Receives
  <2>5. ASSUME NEW e \in SocketEnds, NEW error, SocketDestroy(e, error) PROVE SocketsInv'
    BY <1>1, <2>5, Destroys
  <2>4. CASE Listen
    <3>1. sockets' = sockets /\ wire' = wire /\ microtasks' = microtasks /\ closings' = closings
          /\ server' = [server EXCEPT !.listening = TRUE, !.listens = @ + 1]
      BY <2>4 DEF Listen
    <3>2. server \in [listening : BOOLEAN, connections : SUBSET SocketEnds, listens : Nat, closed : Nat]
      BY <1>1 DEF SocketsInv
    <3>3. server' \in [listening : BOOLEAN, connections : SUBSET SocketEnds, listens : Nat, closed : Nat]
          /\ server'.connections = server.connections
      <4>1. server.listens + 1 \in Nat
        BY <3>2
      <4> QED
        BY <3>1, <3>2, <4>1
    <3> QED
      BY <1>1, <3>1, <3>3 DEF SocketsInv
  <2> QED
    BY <1>1, <2>1, <2>2, <2>3, <2>4, <2>5, ServerCloses, TaskRuns DEF SocketsNext
<1> QED
  BY <1>1, SocketsInitially, PTL DEF SocketsSpec

\* The ends of a connection and the server agree: what an end reads is what its peer wrote, in
\* order; a destroyed socket closes once and opens again only if it was destroyed while it was
\* connecting; the server knows every served socket that is not over (ConnectionsAgree).
THEOREM ConnectionsDoAgree == SocketsSpec => []ConnectionsAgree
<1>1. ASSUME SocketsInv PROVE ConnectionsAgree
  <2>1. /\ Joined(sockets, wire) /\ Known(server.connections, sockets) /\ closings \in 0 .. MaxCloses
    BY <1>1 DEF SocketsInv
  <2>2. ASSUME NEW e \in SocketEnds PROVE End(sockets[e]) /\ sockets[e] \in Ends /\ wire[e] \in Seq(Nat)
                                          /\ Between(sockets[Peer(e)], sockets[e], wire[e])
    BY <2>1, EndsAre
  <2>3. SocketsTypeOK
    <3>1. ASSUME NEW e \in SocketEnds
          PROVE  sockets[e].closed <= 1 /\ (sockets[e].destroyed => ~ sockets[e].port) /\ sockets[e].readyState \in {"closed", "open"}
      <4>1. End(sockets[e]) /\ sockets[e] \in Ends
        BY <2>2
      <4> QED
        BY <4>1 DEF End, Ends
    <3> QED
      BY <2>1, <3>1 DEF SocketsTypeOK, Known
  <2>4. ReadInOrder
    <3> SUFFICES ASSUME NEW e \in SocketEnds, NEW k \in 1 .. Len(sockets[e].read \o wire[e])
                 PROVE  (sockets[e].read \o wire[e])[k] = k
      BY DEF ReadInOrder
    <3> DEFINE r == sockets[e].read
    <3> DEFINE w == wire[e]
    <3>1. r \in Seq(Nat) /\ w \in Seq(Nat) /\ (\A i \in 1 .. Len(r) : r[i] = i) /\ (\A i \in 1 .. Len(w) : w[i] = Len(r) + i)
      BY <2>2 DEF End, Ends, Between
    <3> SUFFICES (r \o w)[k] = k
      OBVIOUS
    <3>2. k \in 1 .. Len(r \o w)
      OBVIOUS
    <3> HIDE DEF r, w
    <3>3. PICK m \in Nat, n \in Nat : m = Len(r) /\ n = Len(w)
      BY <3>1
    <3>4. k \in 1 .. m + n /\ (r \o w)[k] = IF k <= m THEN r[k] ELSE w[k - m]
      BY <3>1, <3>2, <3>3, ConcatProperties
    <3>5. CASE k <= m
      BY <3>1, <3>3, <3>4, <3>5
    <3>6. CASE ~ (k <= m)
      <4>1. k - m \in 1 .. n /\ m + (k - m) = k
        BY <3>4, <3>6
      <4> QED
        BY <3>1, <3>3, <3>4, <3>6, <4>1
    <3> QED
      BY <3>5, <3>6
  <2>5. DestroyedStaysClosed
    BY <2>2 DEF DestroyedStaysClosed, End
  <2>6. ServerKnowsItsOwn
    BY <2>1 DEF ServerKnowsItsOwn, Known
  <2> QED
    BY <2>3, <2>4, <2>5, <2>6 DEF ConnectionsAgree
<1> QED
  BY <1>1, SocketsInvariant, PTL
=============================================================================
