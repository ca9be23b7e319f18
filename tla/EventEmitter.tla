---------------------------- MODULE EventEmitter ----------------------------
(***************************************************************************)
(* An event emitter whose listeners may add and remove listeners and emit  *)
(* while an event is being emitted.  A listener list is an array on the    *)
(* heap: emit() holds on to the array it found, the map of events may come *)
(* to hold another one.                                                    *)
(***************************************************************************)
EXTENDS Naturals, Sequences, SequencesExt

CONSTANTS
  Events,     \* the names of events, "newListener" and "removeListener" among them or not
  Fns,        \* the functions that can be listeners
  MaxAdds,    \* bound on the listeners added
  MaxDepth    \* bound on emissions within one another

ASSUME EmitterAssumption ==
  MaxAdds \in Nat /\ MaxDepth \in Nat

VARIABLES
  arrays,   \* the arrays created so far, listeners with their identity
  events,   \* the array of each event, 0 if it has none
  frames,   \* the emissions in progress, the innermost last
  added,    \* how many listeners have been added
  called    \* those of them that have been called

emitterVars == <<arrays, events, frames, added, called>>

Listener(fn, once, id) == [fn |-> fn, once |-> once, id |-> id]
ListOf(e) == IF events[e] = 0 THEN << >> ELSE arrays[events[e]]
Registered == UNION {{ListOf(e)[k] : k \in 1 .. Len(ListOf(e))} : e \in Events}

EmitterInit ==
  /\ arrays = << >>
  /\ events = [e \in Events |-> 0]
  /\ frames = << >>
  /\ added = 0
  /\ called = {}

-----------------------------------------------------------------------------
\* Code of the program runs outside any emission, and in the listener that the
\* innermost emission has called.
ProgramRuns == IF frames = << >> THEN TRUE ELSE Last(frames).calling

\* emit(): a frame over a copy of the list; without listeners nothing happens.
Frame(e, array, list) == [event |-> e, array |-> array, rest |-> list, calling |-> FALSE]
\* Mutant: without the early return.
EmittingUnlistened(e, evs, arrs) ==
  IF e \in Events THEN Append(frames, Frame(e, evs[e], IF evs[e] = 0 THEN << >> ELSE arrs[evs[e]])) ELSE frames
Emitting(e, evs, arrs) ==
  IF e \in Events /\ evs[e] # 0 THEN Append(frames, Frame(e, evs[e], arrs[evs[e]])) ELSE frames

Emit(e) ==
  /\ ProgramRuns /\ events[e] # 0 /\ Len(frames) < MaxDepth
  /\ frames' = Emitting(e, events, arrays)
  /\ UNCHANGED <<arrays, events, added, called>>

\* on(), once(), prependListener(), prependOnceListener()
AddListener(e, fn, once, prepend) ==
  LET l == Listener(fn, once, added + 1)
      list == IF prepend THEN <<l>> \o ListOf(e) ELSE Append(ListOf(e), l)
  IN  /\ ProgramRuns /\ added < MaxAdds /\ Len(frames) < MaxDepth
      /\ added' = added + 1
      /\ IF events[e] = 0
           THEN /\ arrays' = Append(arrays, list)
                /\ events' = [events EXCEPT ![e] = Len(arrays) + 1]
           ELSE /\ arrays' = [arrays EXCEPT ![events[e]] = list]
                /\ UNCHANGED events
      /\ frames' = IF e = "newListener" THEN frames
                   ELSE Emitting("newListener", events', arrays')
      /\ UNCHANGED called

\* removeListener(): the last one with this function goes.
RemoveListener(e, fn) ==
  LET list == ListOf(e)
      here == {k \in 1 .. Len(list) : list[k].fn = fn}
      left == IF here = {} THEN list ELSE RemoveAt(list, CHOOSE k \in here : \A j \in here : j <= k)
  IN  /\ ProgramRuns /\ events[e] # 0 /\ Len(frames) < MaxDepth
      /\ arrays' = [arrays EXCEPT ![events[e]] = left]
      /\ events' = [events EXCEPT ![e] = IF left = << >> THEN 0 ELSE @]
      /\ frames' = IF e = "removeListener" THEN frames
                   ELSE Emitting("removeListener", events', arrays')
      /\ UNCHANGED <<added, called>>

Watchers == {e \in Events : e = "removeListener" /\ events[e] # 0}

\* removeAllListeners() of an event that nobody watches: the map forgets the
\* array, an emission that holds it does not.
RemoveAll(e) ==
  /\ ProgramRuns /\ events[e] # 0
  /\ Watchers = {} \/ e \in Watchers
  /\ events' = [events EXCEPT ![e] = 0]
  /\ UNCHANGED <<arrays, frames, added, called>>

\* The innermost emission calls its next listener; one that is to be called
\* once is taken out of the array first.
\* Mutant: it stays in the array.
LeftByKeeping(array, l) == array
LeftBy(array, l) == IF l.once /\ Contains(array, l) THEN RemoveAt(array, CHOOSE k \in 1 .. Len(array) : array[k] = l)
                    ELSE array
\* Mutant: the list of the event is dropped whenever a once listener is called.
DropsAlways(array, l) == l.once
\* Mutant: it never is.
DropsNever(array, l) == FALSE
Drops(array, l) == l.once /\ LeftBy(array, l) = << >>

CallNext ==
  LET f == Last(frames)
      l == Head(f.rest)
      array == arrays[f.array]
  IN  /\ frames # << >> /\ ~f.calling /\ f.rest # << >>
      /\ arrays' = [arrays EXCEPT ![f.array] = LeftBy(array, l)]
      /\ events' = [events EXCEPT ![f.event] = IF Drops(array, l) THEN 0 ELSE @]
      /\ frames' = [frames EXCEPT ![Len(frames)] = [f EXCEPT !.rest = Tail(@), !.calling = TRUE]]
      /\ called' = called \cup {l.id}
      /\ UNCHANGED added

ListenerReturns ==
  /\ frames # << >> /\ Last(frames).calling
  /\ frames' = [frames EXCEPT ![Len(frames)].calling = FALSE]
  /\ UNCHANGED <<arrays, events, added, called>>

EmitReturns ==
  /\ frames # << >> /\ ~Last(frames).calling /\ Last(frames).rest = << >>
  /\ frames' = Front(frames)
  /\ UNCHANGED <<arrays, events, added, called>>

EmitterNext ==
  \/ \E e \in Events : Emit(e) \/ RemoveAll(e)
  \/ \E e \in Events, fn \in Fns : RemoveListener(e, fn) \/ \E once, prepend \in BOOLEAN : AddListener(e, fn, once, prepend)
  \/ CallNext \/ ListenerReturns \/ EmitReturns

EmitterSpec == EmitterInit /\ [][EmitterNext]_emitterVars

-----------------------------------------------------------------------------
(***************************************************************************)
(* Correctness.                                                            *)
(***************************************************************************)
EmitterTypeOK ==
  /\ events \in [Events -> 0 .. Len(arrays)]
  /\ added \in 0 .. MaxAdds
  /\ \A k \in 1 .. Len(frames) : frames[k].array \in 1 .. Len(arrays)

\* An event in the map has listeners: emit() and listenerCount() agree.
NoEmptyList == \A e \in Events : events[e] # 0 => ListOf(e) # << >>

\* A once listener that has been called is not registered any more.
OnceIsGone == \A l \in Registered : l.once => l.id \notin called

\* The map of events, its lists and the emissions over copies of them agree.
ListenersAgree == EmitterTypeOK /\ NoEmptyList /\ OnceIsGone

\* A listener only goes when it is removed or has been called as a once
\* listener: emit() drops no other one.
EmitDropsOnlyCalled ==
  [][CallNext => \A l \in Registered \ Registered' : l = Head(Last(frames).rest)]_emitterVars

\* ... which holds as long as the emission still holds the array of its event.
EmitDropsOnlyCalledUnlessStale ==
  [][CallNext /\ events[Last(frames).event] = Last(frames).array =>
       \A l \in Registered \ Registered' : l = Head(Last(frames).rest)]_emitterVars
=============================================================================
