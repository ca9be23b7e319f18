------------------------------ MODULE Watchers ------------------------------
(***************************************************************************)
(* The watchers of the file system.  An operation of the facade that has   *)
(* changed something notifies those that match its path, one by one, in the*)
(* order of the map; their callbacks may watch, unwatch and change files in*)
(* turn.  A map that is being iterated visits what is entered meanwhile and*)
(* not what is deleted.                                                    *)
(***************************************************************************)
EXTENDS Naturals, Sequences, SequencesExt

CONSTANTS
  WatchPaths,       \* the paths that are watched and changed
  MaxWatchers,      \* bound on the calls of watch()
  MaxChanges,       \* bound on the operations that notify
  MaxNotifying      \* bound on notifications within one another

ASSUME WatchersAssumption ==
  MaxWatchers \in Nat /\ MaxChanges \in Nat /\ MaxNotifying \in Nat

VARIABLES
  watchers,    \* the entries of the map; their ids give its order
  watched,     \* how many there have been
  notifying,   \* the notifications in progress, the innermost last
  changes      \* how many operations there have been

watcherVars == <<watchers, watched, notifying, changes>>

WatchersInit ==
  /\ watchers = {}
  /\ watched = 0
  /\ notifying = << >>
  /\ changes = 0

-----------------------------------------------------------------------------
\* matches(): the path itself, a name in it, or anything below it if recursive.
\* The prefix of the root would be "//", so that a recursive watcher of the root
\* sees no more than another one.
Above(p) == IF p = << >> THEN p ELSE Front(p)
Sees(w, p) ==
  \/ p = w.path
  \/ w.recursive /\ w.path # << >> /\ IsPrefix(w.path, p)
  \/ Above(p) = w.path

Registered(id) == \E w \in watchers : w.id = id
Matching(p) == {w.id : w \in {v \in watchers : Sees(v, p)}}

\* A notification of the paths one after the other: where its loop is, whom it
\* has called, and who has been registered all along.
Start(paths) == [paths |-> paths, last |-> 0, told |-> << >>, due |-> Matching(Head(paths)), calling |-> FALSE]

ProgramMayRun == IF notifying = << >> THEN TRUE ELSE Last(notifying).calling

Watch(path, recursive) ==
  /\ ProgramMayRun /\ watched < MaxWatchers
  /\ watched' = watched + 1
  /\ watchers' = watchers \cup {[id |-> watched + 1, path |-> path, recursive |-> recursive]}
  /\ UNCHANGED <<notifying, changes>>

\* The function watch() returned, and clear().
Unregister(gone) ==
  /\ ProgramMayRun
  /\ watchers' = {w \in watchers : w.id \notin gone}
  /\ notifying' = [k \in DOMAIN notifying |-> [notifying[k] EXCEPT !.due = @ \ gone]]
  /\ UNCHANGED <<watched, changes>>
Unwatch(id) == Registered(id) /\ Unregister({id})
ClearWatchers == Unregister({w.id : w \in watchers})

\* writeFile, mkdir, rm and the like notify their path; rename notifies both.
Changed(paths) ==
  /\ ProgramMayRun /\ changes < MaxChanges /\ Len(notifying) < MaxNotifying
  /\ changes' = changes + 1
  /\ notifying' = Append(notifying, Start(paths))
  /\ UNCHANGED <<watchers, watched>>

\* Whom the loop may still visit.
\* Mutant: it counts through a list that has become shorter.
AheadSkipping(f) == {id \in Matching(Head(f.paths)) : id > f.last + 1}
\* Mutant: it does not see that an entry was deleted.
AheadInCopy(f) == {id \in 1 .. watched : id > f.last}
AheadOf(f) == {id \in Matching(Head(f.paths)) : id > f.last}

CallWatcher ==
  LET f == Last(notifying) IN
  /\ notifying # << >> /\ ~f.calling
  /\ \E id \in AheadOf(f) :
       /\ \A other \in AheadOf(f) : id <= other
       /\ notifying' = [notifying EXCEPT ![Len(notifying)] =
                          [f EXCEPT !.last = id, !.told = Append(@, id), !.calling = TRUE]]
  /\ UNCHANGED <<watchers, watched, changes>>

\* A callback returns, or throws what notify() swallows.
CallbackEnds ==
  /\ notifying # << >> /\ Last(notifying).calling
  /\ notifying' = [notifying EXCEPT ![Len(notifying)].calling = FALSE]
  /\ UNCHANGED <<watchers, watched, changes>>

\* The loop is over; a rename goes on with its other path.
NotifyEnds ==
  LET f == Last(notifying)
      rest == Tail(f.paths)
  IN  /\ notifying # << >> /\ ~f.calling /\ AheadOf(f) = {}
      /\ notifying' = IF rest = << >> THEN Front(notifying)
                      ELSE Append(Front(notifying), Start(rest))
      /\ UNCHANGED <<watchers, watched, changes>>

WatchersNext ==
  \/ \E p \in WatchPaths : \/ \E recursive \in BOOLEAN : Watch(p, recursive)
                           \/ Changed(<<p>>)
                           \/ \E q \in WatchPaths : Changed(<<p, q>>)
  \/ \E id \in 1 .. MaxWatchers : Unwatch(id)
  \/ ClearWatchers \/ CallWatcher \/ CallbackEnds \/ NotifyEnds

WatchersSpec == WatchersInit /\ [][WatchersNext]_watcherVars

-----------------------------------------------------------------------------
(***************************************************************************)
(* Correctness.                                                            *)
(***************************************************************************)
\* A watcher is told of one change once.
ToldOnce ==
  \A k \in DOMAIN notifying : LET told == notifying[k].told IN
    \A i, j \in DOMAIN told : told[i] = told[j] => i = j

\* Whoever matched when the change was made, and did not unwatch, is told of it
\* before the operation returns, whatever other callbacks do.
NobodyLeftOut ==
  \A k \in DOMAIN notifying : LET f == notifying[k] IN
    ~f.calling /\ AheadOf(f) = {} => f.due \subseteq ToSet(f.told)

\* Nobody is called after unwatching, not even by a notification under way.
CallsRegistered ==
  \A k \in DOMAIN notifying \cap DOMAIN notifying' :
    notifying'[k].told # notifying[k].told /\ notifying'[k].calling =>
      Registered(Last(notifying'[k].told))

\* Changes and watchers agree while callbacks change both.
WatchersAgree == [](ToldOnce /\ NobodyLeftOut) /\ [][CallsRegistered]_watcherVars

\* What a test says of the watchers of /app (watcher.test.ts:15); the root's
\* recursive watchers are not told of what is two levels below.
RecursiveSeesBelow ==
  \A k \in DOMAIN notifying : LET f == notifying[k] IN
    ~f.calling /\ AheadOf(f) = {} =>
      \A w \in watchers : w.recursive /\ IsPrefix(w.path, Head(f.paths)) => w.id \in ToSet(f.told)
=============================================================================
