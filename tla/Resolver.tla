------------------------------ MODULE Resolver ------------------------------
(***************************************************************************)
(* The dependency resolver of the package manager.  Every dependency is    *)
(* resolved by a call of resolvePackage() of its own, which awaits the     *)
(* registry and then the calls it has made; all share the maps `resolved'  *)
(* and `resolving'.                                                        *)
(*                                                                         *)
(* A version is a number, a range the set of the versions that satisfy it  *)
(* (module Semver says which those are).                                   *)
(***************************************************************************)
EXTENDS Naturals, Sequences, FiniteSets, SequencesExt, FiniteSetsExt

CONSTANTS
  Names,      \* names of packages
  Registry,   \* Registry[n][v]: the dependencies of version v of n, see Dependency
  RootDeps,   \* the dependencies of the project, a set of sequences of Dependency
  Failing,    \* the packages whose metadata may fail to arrive
  MaxCalls,   \* bound on the calls of resolvePackage()
  Root        \* the caller of the first ones

Dependency(name, range) == [name |-> name, range |-> range]
Version(deps, peers) == [deps |-> deps, peers |-> peers]

Dependencies == [name : Names, range : SUBSET Nat]

ASSUME ResolverAssumption ==
  /\ MaxCalls \in Nat
  /\ Failing \subseteq Names
  /\ RootDeps \subseteq Seq(Dependencies)
  /\ \A n \in Names :
        /\ DOMAIN Registry[n] \subseteq Nat \ {0} /\ IsFiniteSet(DOMAIN Registry[n])
        /\ \A v \in DOMAIN Registry[n] : /\ Registry[n][v].deps \in Seq(Dependencies)
                                        /\ Registry[n][v].peers \in Seq(Dependencies)

VARIABLES
  resolved,   \* version and dependents of each name, NoNode if it has none
  resolving,  \* the keys name@range being resolved
  calls,      \* the calls of resolvePackage(), in the order they were made
  wanted,     \* the dependencies of the project
  outcome     \* of resolve(): "pending", "planned" or "failed"

resolverVars == <<resolved, resolving, calls, wanted, outcome>>

NoNode == [version |-> 0, requiredBy |-> {}]
Known(res, n) == res[n] # NoNode

\* What a step of the program changes.
State(res, busy, cs) == [resolved |-> res, resolving |-> busy, calls |-> cs]
Call(dep, by, parent, peer) ==
  [dep |-> dep, by |-> by, parent |-> parent, peer |-> peer, pc |-> "fetching",
   version |-> 0, peers |-> << >>, failed |-> FALSE]

-----------------------------------------------------------------------------
(***************************************************************************)
(* resolvePackage(), up to the await on the registry.                      *)
(***************************************************************************)
\* Mutant: a range that is being resolved is resolved once more.
CallInFlightNot(s, dep) == FALSE
CallInFlight(s, dep) == dep \in s.resolving

\* One call: it returns at once, or is under way with the first await.
Satisfied(s, dep) == Known(s.resolved, dep.name) /\ s.resolved[dep.name].version \in dep.range

Enter(s, c) ==
  IF Satisfied(s, c.dep)
    THEN [s EXCEPT !.resolved[c.dep.name].requiredBy = @ \cup {c.by}]
  ELSE IF CallInFlight(s, c.dep) THEN s
  ELSE [s EXCEPT !.resolving = @ \cup {c.dep}, !.calls = Append(@, c)]

\* Promise.all over the calls for a list of dependencies.
EnterAll(s, deps, by, parent) ==
  LET entered[i \in 0 .. Len(deps)] ==
        IF i = 0 THEN s ELSE Enter(entered[i - 1], Call(deps[i], by, parent, FALSE))
  IN  entered[Len(deps)]

ChildrenOf(s, parent) == {k \in 1 .. Len(s.calls) : s.calls[k].parent = parent /\ s.calls[k].pc # "done"}

-----------------------------------------------------------------------------
(***************************************************************************)
(* Returning.                                                              *)
(***************************************************************************)
\* finally: the key is given up; the caller is told.  Call 0 is resolve().
\* Mutant: a failure settles nothing.
LeaveSilent(s, k, fails) ==
  IF fails THEN [s EXCEPT !.resolving = @ \ {s.calls[k].dep}]
  ELSE [s EXCEPT !.resolving = @ \ {s.calls[k].dep}, !.calls[k].pc = "done"]
Leave(s, k, fails) ==
  [s EXCEPT !.resolving = @ \ {s.calls[k].dep},
            !.calls[k] = [@ EXCEPT !.pc = "done", !.failed = fails]]

\* Peers that are optional are not resolved (they are left out of the list), nor
\* are those that are satisfied; the next one that is not is awaited.
Unmet(s, peers) == {i \in 1 .. Len(peers) : ~Satisfied(s, peers[i])}
AskPeers(s, k, peers) ==
  IF Unmet(s, peers) = {} THEN Leave(s, k, FALSE)
  ELSE LET i == Min(Unmet(s, peers))
           by == <<s.calls[k].dep.name, s.calls[k].version>>
           rest == SubSeq(peers, i + 1, Len(peers))
           t == [s EXCEPT !.calls[k] = [@ EXCEPT !.pc = "peers", !.peers = rest]]
       IN  Enter(t, Call(peers[i], by, k, TRUE))

\* A call goes on when the calls it awaits are done, or one has failed; the
\* failure of a peer counts for nothing.
\* Mutant: no failure does.
HurtByNone(c) == FALSE
HurtBy(c) == c.failed /\ ~c.peer
Failed(parent) == \E k \in 1 .. Len(calls) : calls[k].parent = parent /\ calls[k].pc = "done" /\ HurtBy(calls[k])
Now == State(resolved, resolving, calls)
\* Mutant: a call does not await the calls it has made.
WaitsNever(parent) == FALSE
Waits(parent) == ChildrenOf(Now, parent) # {}

Becomes(s) ==
  /\ resolved' = s.resolved
  /\ resolving' = s.resolving
  /\ calls' = s.calls

\* The registry answers with the versions there are.
Matching(dep) == DOMAIN Registry[dep.name] \cap dep.range
\* pickVersion().  Mutant: the latest version, if there is one that matches.
PickLatest(dep) == Max(DOMAIN Registry[dep.name])
Pick(dep) == Max(Matching(dep))

ResolverInit ==
  /\ wanted \in RootDeps
  /\ LET s == EnterAll(State([n \in Names |-> NoNode], {}, << >>), wanted, Root, 0) IN
     resolved = s.resolved /\ resolving = s.resolving /\ calls = s.calls
  /\ outcome = "pending"

\* The highest version that matches is taken; it replaces whatever the map holds
\* by now.  Then the calls for its dependencies are made.
MetadataArrives(k) ==
  LET c == calls[k]
      v == Pick(c.dep)
      node == [version |-> v, requiredBy |-> {c.by}]
      s == [Now EXCEPT !.resolved[c.dep.name] = node,
                       !.calls[k] = [@ EXCEPT !.version = v, !.pc = "children",
                                              !.peers = Registry[c.dep.name][v].peers]]
  IN  /\ c.pc = "fetching" /\ Matching(c.dep) # {}
      /\ Len(calls) + Len(Registry[c.dep.name][v].deps) <= MaxCalls
      /\ Becomes(EnterAll(s, Registry[c.dep.name][v].deps, <<c.dep.name, v>>, k))
      /\ UNCHANGED <<wanted, outcome>>

\* It cannot be reached, or has no version that matches.
MetadataFails(k) ==
  /\ calls[k].pc = "fetching"
  /\ calls[k].dep.name \in Failing \/ Matching(calls[k].dep) = {}
  /\ Becomes(Leave(Now, k, TRUE))
  /\ UNCHANGED <<wanted, outcome>>

DependenciesDone(k) ==
  /\ calls[k].pc = "children"
  /\ Failed(k) \/ ~Waits(k)
  /\ Len(calls) < MaxCalls
  /\ Becomes(IF Failed(k) THEN Leave(Now, k, TRUE) ELSE AskPeers(Now, k, calls[k].peers))
  /\ UNCHANGED <<wanted, outcome>>

PeerDone(k) ==
  /\ calls[k].pc = "peers" /\ ~Waits(k)
  /\ Len(calls) < MaxCalls
  /\ Becomes(AskPeers(Now, k, calls[k].peers))
  /\ UNCHANGED <<wanted, outcome>>

\* resolve() hands out the plan, or throws at the first failure: the calls that
\* are under way go on.
ResolveReturns ==
  /\ outcome = "pending"
  /\ Failed(0) \/ ~Waits(0)
  /\ outcome' = IF Failed(0) THEN "failed" ELSE "planned"
  /\ UNCHANGED <<resolved, resolving, calls, wanted>>

CallStep(k) == MetadataArrives(k) \/ MetadataFails(k) \/ DependenciesDone(k) \/ PeerDone(k)

ResolverNext == ResolveReturns \/ \E k \in 1 .. Len(calls) : CallStep(k)

ResolverFairness ==
  /\ WF_resolverVars(ResolveReturns)
  /\ \A k \in 1 .. MaxCalls : WF_resolverVars(k \in 1 .. Len(calls) /\ CallStep(k))

ResolverSpec == ResolverInit /\ [][ResolverNext]_resolverVars /\ ResolverFairness

-----------------------------------------------------------------------------
(***************************************************************************)
(* Correctness.                                                            *)
(***************************************************************************)
Active == {k \in 1 .. Len(calls) : calls[k].pc # "done"}

\* Every variable keeps its type, and the keys being resolved are those of the
\* calls under way, each of one only.
ResolverTypeOK ==
  /\ resolved \in [Names -> [version : Nat, requiredBy : SUBSET ({Root} \cup (Names \X Nat))]]
  /\ resolving = {calls[k].dep : k \in Active}
  /\ \A j, k \in Active : calls[j].dep = calls[k].dep => j = k
  /\ outcome \in {"pending", "planned", "failed"}

Planned == {n \in Names : Known(resolved, n)}
DepsOf(n) == ToSet(Registry[n][resolved[n].version].deps)
Asked == ToSet(wanted) \cup UNION {DepsOf(n) : n \in Planned}

PeerFailed == \E k \in 1 .. Len(calls) : calls[k].peer /\ calls[k].failed

\* A plan is handed out when nothing is under way any more: no call changes it
\* behind the back of the installer.  (When a peer has failed, calls made for it
\* may still be under way.)
PlanIsFinal == outcome = "planned" => Active = {} \/ PeerFailed

\* Everything a planned package depends on is planned.  (The failure of a peer is
\* not reported, and a package that depends on the same range of it at that time
\* takes it for resolved.)
PlanIsClosed == outcome = "planned" => PeerFailed \/ \A d \in Asked : Known(resolved, d.name)

\* If the best version of every range lies in all other ranges of the package,
\* every range is satisfied, in whatever order the registry answers.  That there is
\* a version in all of them is not enough: of {1} and {1, 2} asked for at the same
\* time the last to be answered decides (resolver.ts:94, 151), and it may be 2.
Ranges == ToSet(wanted) \cup {calls[k].dep : k \in 1 .. Len(calls)}
            \cup UNION {ToSet(Registry[calls[k].dep.name][calls[k].version].deps) : k \in {j \in 1 .. Len(calls) : calls[j].version # 0}}
Agree == \A d, e \in Ranges : d.name = e.name /\ Matching(d) # {} => Max(Matching(d)) \in e.range
PlanSatisfiesUnlessConflict ==
  outcome = "planned" /\ Agree => \A d \in Asked : Known(resolved, d.name) => resolved[d.name].version \in d.range

\* A plan, once handed out, stays as it is and leaves nothing out, unless a peer has
\* failed, and satisfies the ranges if the best versions of those met on the way all
\* lie in one another (resolve, resolvePackage).
PlanIsSound ==
  /\ ResolverTypeOK
  /\ PlanIsFinal /\ PlanIsClosed
  /\ PlanSatisfiesUnlessConflict

\* resolver.ts:200: with a version conflict the conflicting version is nested: in
\* the plan every package finds a version of its dependencies that it can use.
PlanSatisfies ==
  outcome = "planned" /\ ~PeerFailed => \A d \in Asked : Known(resolved, d.name) => resolved[d.name].version \in d.range

\* Whatever the dependencies, also in a circle, and whatever fails, resolve()
\* returns.
ResolveEnds == <>(outcome # "pending")
=============================================================================
