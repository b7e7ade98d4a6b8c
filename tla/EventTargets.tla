---------------------------- MODULE EventTargets ----------------------------
(***************************************************************************)
(* event_target.js: an EventTarget of one type of event, whose listeners     *)
(* add, remove, abort and dispatch while they are called.                    *)
(***************************************************************************)
EXTENDS Integers, Sequences, FiniteSets, SequencesExt

CONSTANTS TargetListeners, MaxTargetAdds, MaxDispatches,
          TargetFaults      \* "again": a listener its signal has been given for is added again without it;
                            \* "nested": an event is dispatched within a dispatch that has yet to call one for once

VARIABLES listeners,        \* _listeners of the type: [listener, once, signalled]
          signal,           \* [aborted, removes]: the listeners its abort takes away
          dispatches,       \* under way, the innermost last: [event, snapshot, i, running, stop]
          seen              \* [adds, calls, events]: how often a listener was added and called for once

targetVars == <<listeners, signal, dispatches, seen>>

Running == Last(dispatches)
Free == dispatches # <<>> => Running.running
Has(l) == \E e \in ToSet(listeners) : e.listener = l

\* A listener that is there already is not added again, nor is its signal heard.
addEventListener ==
    /\ Free /\ UNCHANGED dispatches
    /\ \E l \in TargetListeners, once, signalled \in BOOLEAN :
          /\ Len(seen.adds) < MaxTargetAdds
          /\ "again" \in TargetFaults \/ l \notin signal.removes \/ signalled
          /\ IF Has(l) THEN UNCHANGED <<listeners, signal, seen>>
             ELSE /\ listeners' = IF signalled /\ signal.aborted THEN listeners ELSE Append(listeners, [listener |-> l, once |-> once, signalled |-> signalled])
                  /\ signal' = IF signalled /\ ~ signal.aborted THEN [signal EXCEPT !.removes = @ \cup {l}] ELSE signal
                  /\ seen' = [seen EXCEPT !.adds = Append(@, <<l, once>>)]

Without(l) == SelectSeq(listeners, LAMBDA e : e.listener # l)

removeEventListener == /\ Free /\ UNCHANGED <<signal, dispatches, seen>>
                       /\ \E l \in TargetListeners : Has(l) /\ listeners' = Without(l)

\* The signal's own listeners, each for once.
Abort == /\ Free /\ ~ signal.aborted /\ UNCHANGED <<dispatches, seen>>
         /\ listeners' = SelectSeq(listeners, LAMBDA e : e.listener \notin signal.removes)
         /\ signal' = [aborted |-> TRUE, removes |-> {}]

dispatchEvent ==
    /\ "nested" \in TargetFaults \/ \A d \in ToSet(dispatches) : \A i \in d.i + 1 .. Len(d.snapshot) : ~ d.snapshot[i].once
    /\ Free /\ listeners # <<>> /\ seen.events < MaxDispatches /\ UNCHANGED <<listeners, signal>>
    /\ dispatches' = Append(dispatches, [snapshot |-> listeners, i |-> 0, running |-> FALSE, stop |-> FALSE])
    /\ seen' = [seen EXCEPT !.events = @ + 1]

Replaced(d) == dispatches' = [dispatches EXCEPT ![Len(dispatches)] = d]

\* Mutant: what is for once stays.
OnceStays(entry) == listeners
\* What is for once goes before it is called.
OnceGoes(entry) == IF entry.once THEN Without(entry.listener) ELSE listeners

CallListener ==
    /\ dispatches # <<>> /\ ~ Running.running /\ ~ Running.stop /\ Running.i < Len(Running.snapshot)
    /\ LET entry == Running.snapshot[Running.i + 1]
       IN  /\ listeners' = OnceGoes(entry)
           /\ seen' = [seen EXCEPT !.calls = IF entry.once THEN Append(@, entry.listener) ELSE @]
    /\ Replaced([Running EXCEPT !.i = @ + 1, !.running = TRUE]) /\ UNCHANGED signal

\* The listener returns or throws, which is reported; it may have called stopImmediatePropagation.
Return == /\ dispatches # <<>> /\ Running.running /\ UNCHANGED <<listeners, signal, seen>>
          /\ \E stop \in BOOLEAN : Replaced([Running EXCEPT !.running = FALSE, !.stop = stop])

DispatchEnds == /\ dispatches # <<>> /\ ~ Running.running /\ (Running.stop \/ Running.i = Len(Running.snapshot))
                /\ dispatches' = Front(dispatches) /\ UNCHANGED <<listeners, signal, seen>>

TargetsIdle == listeners = <<>> /\ signal = [aborted |-> TRUE, removes |-> {}] /\ dispatches = <<>>
               /\ seen = [adds |-> [i \in 1 .. MaxTargetAdds |-> <<0, FALSE>>], calls |-> <<>>, events |-> 0]
TargetsInit == listeners = <<>> /\ signal = [aborted |-> FALSE, removes |-> {}] /\ dispatches = <<>>
               /\ seen = [adds |-> <<>>, calls |-> <<>>, events |-> 0]
TargetsNext == \/ addEventListener \/ removeEventListener \/ Abort \/ dispatchEvent
               \/ CallListener \/ Return \/ DispatchEnds

-----------------------------------------------------------------------------
Times(s, x) == Len(SelectSeq(s, LAMBDA y : y = x))

\* A listener is there once at most, is called once at most for every time it
\* was added for once, and is not there when the signal it was added with has
\* been aborted.
TargetKept ==
    /\ \A i, j \in DOMAIN listeners : i # j => listeners[i].listener # listeners[j].listener
    /\ \A l \in TargetListeners : Times(seen.calls, l) <= Times(seen.adds, <<l, TRUE>>)
    /\ signal.aborted => \A e \in ToSet(listeners) : ~ e.signalled
=============================================================================
