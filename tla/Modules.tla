------------------------------ MODULE Modules ------------------------------
(***************************************************************************)
(* The two loaders of CommonJS modules: the one inside the worker runtime, *)
(* whose cache maps a path to what the module exports, and the shim of the *)
(* module "module", whose cache maps it to the module object.  The bodies  *)
(* of modules are arbitrary: they require others, catch what that throws,  *)
(* assign module.exports, throw or end.                                    *)
(***************************************************************************)
EXTENDS Naturals, Sequences, SequencesExt

CONSTANTS
  Scripts,       \* the paths of modules that are evaluated
  JsonFiles,     \* the paths of those that are parsed
  MaxEvaluations \* bound on the evaluations

ASSUME ModulesAssumption == MaxEvaluations \in Nat /\ Scripts \cap JsonFiles = {}

VARIABLES
  shim,        \* which of the two loaders it is
  cache,       \* moduleCache
  evaluations, \* every evaluation: its file, how far it is, its module.exports
  running,     \* those that are running, the innermost last
  got          \* what require() has returned of files that were loaded already

moduleVars == <<shim, cache, evaluations, running, got>>

ModuleFiles == Scripts \cup JsonFiles
\* A value is known by the evaluation it comes from: the object the module was
\* given, another one, or one that is false as a condition (0, "", null).
Value(e, kind) == [from |-> e, kind |-> kind]
Uncached == Value(0, "none")

ModulesInit ==
  /\ shim \in BOOLEAN
  /\ cache = [f \in ModuleFiles |-> Uncached]
  /\ evaluations = << >> /\ running = << >>
  /\ got = {}

-----------------------------------------------------------------------------
\* Is there an entry for f?  The worker asks for the exports themselves.
InCache(f) == IF shim THEN cache[f].kind # "none" ELSE cache[f].kind \notin {"none", "falsy"}

\* What is returned then: the shim looks the exports up in the module.
Cached(f) == IF shim THEN evaluations[cache[f].from].exports ELSE cache[f]

New(f, state, value) == [file |-> f, state |-> state, exports |-> value]

RequireCached(f) ==
  /\ InCache(f)
  /\ got' = IF evaluations[cache[f].from].state = "done"
            THEN got \cup {[file |-> f, value |-> Cached(f)]} ELSE got
  /\ UNCHANGED <<shim, cache, evaluations, running>>

\* A script is entered into the cache before it is evaluated.
\* Mutant: when it has been.
EnteredLate(f, e) == cache
Entered(f, e) == [cache EXCEPT ![f] = Value(e, "own")]

RequireScript(f) ==
  LET e == Len(evaluations) + 1 IN
  /\ ~InCache(f) /\ Len(evaluations) < MaxEvaluations
  /\ evaluations' = Append(evaluations, New(f, "running", Value(e, "own")))
  /\ running' = Append(running, e)
  /\ cache' = Entered(f, e)
  /\ UNCHANGED <<shim, got>>

\* JSON is parsed at once; one that does not parse leaves nothing behind.
RequireJson(f, kind) ==
  LET e == Len(evaluations) + 1 IN
  /\ ~InCache(f) /\ Len(evaluations) < MaxEvaluations
  /\ evaluations' = Append(evaluations, New(f, "done", Value(e, kind)))
  /\ cache' = [cache EXCEPT ![f] = Value(e, kind)]
  /\ got' = got \cup {[file |-> f, value |-> Value(e, kind)]}
  /\ UNCHANGED <<shim, running>>

\* The body of a module that is running, or a function of it that another one
\* calls, assigns module.exports.
AssignExports(i, kind) ==
  /\ evaluations' = [evaluations EXCEPT ![running[i]].exports = Value(running[i], kind)]
  /\ UNCHANGED <<shim, cache, running, got>>

\* The body ends.  The worker enters the exports once more, for they may have
\* been assigned.
\* Mutant: it does not.
FinalNot(f, value) == cache
Final(f, value) == IF shim THEN cache ELSE [cache EXCEPT ![f] = value]

ModuleEnds ==
  LET e == Last(running)
      m == evaluations[e]
  IN  /\ running # << >>
      /\ evaluations' = [evaluations EXCEPT ![e].state = "done"]
      /\ running' = Front(running)
      /\ cache' = Final(m.file, m.exports)
      /\ got' = got \cup {[file |-> m.file, value |-> m.exports]}
      /\ UNCHANGED shim

\* The body throws, for instance because of a require() in it, or leaves by
\* process.exit().
\* Mutant: the entry stays.
WithIt(f) == cache
WithoutIt(f) == [cache EXCEPT ![f] = Uncached]

ModuleThrows ==
  LET e == Last(running) IN
  /\ running # << >>
  /\ evaluations' = [evaluations EXCEPT ![e].state = "failed"]
  /\ running' = Front(running)
  /\ cache' = WithoutIt(evaluations[e].file)
  /\ UNCHANGED <<shim, got>>

ModulesNext ==
  \/ \E f \in ModuleFiles : RequireCached(f)
  \/ \E f \in Scripts : RequireScript(f)
  \/ \E f \in JsonFiles, kind \in {"other", "falsy"} : RequireJson(f, kind)
  \/ \E i \in DOMAIN running, kind \in {"other", "falsy"} : AssignExports(i, kind)
  \/ ModuleEnds \/ ModuleThrows

ModulesSpec == ModulesInit /\ [][ModulesNext]_moduleVars

-----------------------------------------------------------------------------
(***************************************************************************)
(* Correctness.                                                            *)
(***************************************************************************)
Evaluated == DOMAIN evaluations

\* Modules that require each other in a circle come to an end: none is entered
\* while it is running.
NotReentered ==
  \A i, j \in DOMAIN running :
    evaluations[running[i]].file = evaluations[running[j]].file => i = j

\* A module is evaluated again only if it threw; in the worker also if what it
\* exports is false as a condition.
EvaluatedOnce ==
  \A d, e \in Evaluated : d < e /\ evaluations[d].file = evaluations[e].file =>
    \/ evaluations[d].state = "failed"
    \/ ~shim /\ evaluations[d].exports.kind = "falsy"

\* Whoever requires a module that is loaded gets the same exports.
OneExports ==
  \A g, h \in got : g.file = h.file /\ ~(~shim /\ "falsy" \in {g.value.kind, h.value.kind}) => g.value = h.value

\* No module that threw is left in the cache, and every one that runs is there.
CacheIsTrue ==
  \A f \in ModuleFiles :
    /\ cache[f] # Uncached => /\ evaluations[cache[f].from].file = f
                              /\ evaluations[cache[f].from].state # "failed"
    /\ \A i \in DOMAIN running : evaluations[running[i]].file = f => cache[f].from = running[i]

\* A module is one thing for all that require it.
ModulesAreShared == NotReentered /\ EvaluatedOnce /\ OneExports /\ CacheIsTrue
=============================================================================
