------------------------------ MODULE Emitters ------------------------------
(***************************************************************************)
(* events.js: an EventEmitter whose listeners add and remove listeners,      *)
(* emit and throw while they are called, and events.once.                    *)
(*                                                                         *)
(* _events holds for each event an array, which an emit keeps for its end:   *)
(* arrays live in a heap, for one may have been replaced meanwhile.          *)
(***************************************************************************)
EXTENDS Integers, Sequences, FiniteSets, SequencesExt

CONSTANTS MaxAdds,        \* listeners added
          MaxEmits,
          EmitterFaults   \* "nested": an event is emitted by its own listeners while one of them is for once;
                          \* "throw": a listener for once throws; "emptied": the last one is removed within an emit

VARIABLES arrays,         \* the heap, each a sequence of [id, fn, once]
          table,          \* _events: the array of each event, or 0
          frames,         \* the emits under way, the innermost last
          history         \* [added, calls, gone, emits, settled]: what was added (with its event) and how often called,
                          \* what off() took away, and how the promise of events.once was settled

emitterVars == <<arrays, table, frames, history>>

Names == {"e", "error"}
Fns   == {"f"}
Waits == {"onEvent", "onError"}         \* the two listeners of once(emitter, "e")

Listeners(name) == IF table[name] = 0 THEN <<>> ELSE arrays[table[name]]
Running  == Last(frames)
Calling  == frames # <<>> /\ Running.running
Free     == frames = <<>> \/ (Calling /\ Running.copy[Running.i].fn \in Fns)    \* the program is at work
Within(name) == \E k \in 1 .. Len(frames) : frames[k].name = name
OnceIn(name) == Within(name) /\ \E e \in ToSet(Listeners(name)) \cup UNION {ToSet(f.copy) : f \in ToSet(frames)} : e.once

\* on, once, prependListener and prependOnceListener.
Add(name, fn, once, front) ==
    LET e == [id |-> Len(history.added) + 1, fn |-> fn, once |-> once]
        k == IF table[name] = 0 THEN Len(arrays) + 1 ELSE table[name]
    IN  /\ Len(history.added) < MaxAdds
        /\ arrays' = IF table[name] = 0 THEN Append(arrays, <<e>>)
                     ELSE [arrays EXCEPT ![k] = IF front THEN <<e>> \o @ ELSE Append(@, e)]
        /\ table' = [table EXCEPT ![name] = k]
        /\ history' = [history EXCEPT !.added = Append(@, [name |-> name, fn |-> fn, once |-> once, front |-> front])]

AddListener == /\ Free /\ UNCHANGED frames
               /\ \E name \in Names, fn \in Fns, once, front \in BOOLEAN :
                  (front => table[name] # 0) /\ Add(name, fn, once, front)

\* The last one added.
OffAt(list, fn) == LET s == {i \in DOMAIN list : list[i].fn = fn} IN IF s = {} THEN 0 ELSE CHOOSE i \in s : \A j \in s : j <= i

\* [arrays, table, gone] after off().
WithOff(name, fn) ==
    LET list == Listeners(name)
        at   == OffAt(list, fn)
        left == IF at = 0 THEN list ELSE RemoveAt(list, at)
    IN  [arrays |-> IF at = 0 THEN arrays ELSE [arrays EXCEPT ![table[name]] = left],
         table  |-> IF left = <<>> THEN [table EXCEPT ![name] = 0] ELSE table,
         gone   |-> IF at = 0 THEN {} ELSE {list[at].id}]

Off ==
    /\ Free /\ UNCHANGED frames
    /\ \E name \in Names, fn \in Fns :
          LET o == WithOff(name, fn)
          IN  /\ Listeners(name) # <<>>
              /\ "emptied" \in EmitterFaults \/ ~ Within(name) \/ o.table = table
              /\ arrays' = o.arrays /\ table' = o.table /\ history' = [history EXCEPT !.gone = @ \cup o.gone]

\* The array is left as it is.
RemoveAllListeners ==
    /\ Free /\ UNCHANGED <<arrays, frames>>
    /\ \E name \in Names :
          /\ "emptied" \in EmitterFaults \/ ~ Within(name)
          /\ table[name] # 0 /\ table' = [table EXCEPT ![name] = 0]
          /\ history' = [history EXCEPT !.gone = @ \cup {e.id : e \in ToSet(Listeners(name))}]

-----------------------------------------------------------------------------
Frame(name) == [name |-> name, list |-> table[name], copy |-> Listeners(name), i |-> 0, removes |-> {}, running |-> FALSE,
                start |-> [k \in DOMAIN Listeners(name) |-> Listeners(name)[k].id]]

\* 'error' with nobody to listen is thrown by emit: Throw.
Emit ==
    /\ Free /\ history.emits < MaxEmits /\ UNCHANGED <<arrays, table>>
    /\ \E name \in Names :
          /\ table[name] # 0
          /\ "nested" \in EmitterFaults \/ ~ OnceIn(name)
          /\ frames' = Append(frames, Frame(name))
    /\ history' = [history EXCEPT !.emits = @ + 1]

Replaced(f) == frames' = [frames EXCEPT ![Len(frames)] = f]

\* Mutant: the listeners there are now are called.
NextListenerNow(f) == IF f.i + 1 <= Len(Listeners(f.name)) THEN Listeners(f.name)[f.i + 1] ELSE f.copy[f.i + 1]
NextListener(f) == f.copy[f.i + 1]

Call ==
    /\ frames # <<>> /\ ~ Running.running /\ Running.i < Len(Running.copy)
    /\ Replaced([Running EXCEPT !.i = @ + 1, !.running = TRUE, !.copy[Running.i + 1] = NextListener(Running)])
    /\ history' = [history EXCEPT !.calls = [id \in DOMAIN @ |-> IF id = NextListener(Running).id THEN @[id] + 1 ELSE @[id]]]
    /\ UNCHANGED <<arrays, table>>

Done(f) == [f EXCEPT !.running = FALSE, !.removes = IF f.copy[f.i].once THEN @ \cup {f.copy[f.i].id} ELSE @]

Return == /\ Calling /\ Running.copy[Running.i].fn \in Fns /\ Replaced(Done(Running)) /\ UNCHANGED <<arrays, table, history>>

\* A listener throws, an error nobody listens to for one: out of every emit
\* under way, or with captureRejections to the listeners of 'error'.
Throw ==
    /\ Calling /\ Running.copy[Running.i].fn \in Fns
    /\ UNCHANGED <<arrays, table>>
    /\ \/ /\ "throw" \in EmitterFaults \/ \A k \in 1 .. Len(frames) : \A j \in 1 .. frames[k].i : ~ frames[k].copy[j].once
          /\ frames' = <<>> /\ UNCHANGED history
       \/ /\ table["error"] # 0 /\ history.emits < MaxEmits /\ ("nested" \in EmitterFaults \/ ~ OnceIn("error"))
          /\ frames' = Append(Front(frames), Done(Running)) \o <<Frame("error")>>
          /\ history' = [history EXCEPT !.emits = @ + 1]

\* Mutant: those that were for once stay.
LeftStay(list, removes) == list
Left(list, removes) == SelectSeq(list, LAMBDA e : e.id \notin removes)

\* What was for once goes, and the event when the array it began with is empty.
EmitEnds ==
    /\ frames # <<>> /\ ~ Running.running /\ Running.i = Len(Running.copy)
    /\ LET left == Left(arrays[Running.list], Running.removes)
       IN  /\ arrays' = [arrays EXCEPT ![Running.list] = left]
           /\ table' = IF left = <<>> THEN [table EXCEPT ![Running.name] = 0] ELSE table
    /\ frames' = Front(frames) /\ UNCHANGED history

-----------------------------------------------------------------------------
(* events.once(emitter, "e").                                              *)

Once ==
    /\ Free /\ history.settled = "none" /\ UNCHANGED frames
    /\ LET k == IF table["e"] = 0 THEN Len(arrays) + 1 ELSE table["e"]
           a == IF table["e"] = 0 THEN Append(arrays, <<>>) ELSE arrays
           j == IF table["error"] = 0 THEN Len(a) + 1 ELSE table["error"]
           b == IF table["error"] = 0 THEN Append(a, <<>>) ELSE a
       IN  /\ arrays' = [b EXCEPT ![k] = Append(@, [id |-> -1, fn |-> "onEvent", once |-> TRUE]),
                                  ![j] = Append(@, [id |-> -2, fn |-> "onError", once |-> TRUE])]
           /\ table' = [e |-> k, error |-> j]
    /\ history' = [history EXCEPT !.settled = "waiting"]

\* Mutant: each takes itself away, which emit does anyway.
OtherWaitSelf(fn) == IF fn = "onEvent" THEN <<"e", "onEvent">> ELSE <<"error", "onError">>
\* Each takes the other away.
OtherWait(fn) == IF fn = "onEvent" THEN <<"error", "onError">> ELSE <<"e", "onEvent">>

OnWait ==
    /\ Calling /\ Running.copy[Running.i].fn \in Waits
    /\ LET event == Running.copy[Running.i].fn = "onEvent"
           other == OtherWait(Running.copy[Running.i].fn)
           o     == WithOff(other[1], other[2])
       IN  /\ "emptied" \in EmitterFaults \/ ~ Within(other[1]) \/ o.table = table
           /\ arrays' = o.arrays /\ table' = o.table
           /\ history' = [history EXCEPT !.settled = IF @ = "waiting" THEN IF event THEN "resolved" ELSE "rejected" ELSE @]
    /\ Replaced(Done(Running))

-----------------------------------------------------------------------------
EmittersInit == /\ arrays = <<>> /\ table = [n \in Names |-> 0] /\ frames = <<>>
                /\ history = [added |-> <<>>, gone |-> {}, emits |-> 0, settled |-> "none", calls |-> [i \in 1 .. MaxAdds |-> 0]]
EmittersIdle == /\ arrays = <<>> /\ table = [n \in Names |-> 0] /\ frames = <<>>
                /\ history = [added |-> [i \in 1 .. MaxAdds |-> 0], gone |-> {}, emits |-> MaxEmits, settled |-> "off", calls |-> <<>>]

EmittersNext == \/ AddListener \/ Off \/ RemoveAllListeners \/ Emit \/ Call \/ Return \/ Throw \/ EmitEnds \/ Once \/ OnWait

-----------------------------------------------------------------------------
Expected(name) ==
    FoldLeft(LAMBDA ids, id : LET a == history.added[id]
                              IN  IF a.name # name \/ id \in history.gone \/ (a.once /\ history.calls[id] > 0) THEN ids
                                  ELSE IF a.front THEN <<id>> \o ids ELSE Append(ids, id),
             <<>>, [i \in DOMAIN history.added |-> i])

\* Between two emits an event has the listeners that were added and neither
\* taken away nor, for once, called; each of these is called once at most; an
\* emit calls those there were when it began, whatever they do.
ListenersKept ==
    /\ frames = <<>> /\ history.settled # "off" =>
          \A name \in Names : Expected(name) = SelectSeq([i \in DOMAIN Listeners(name) |-> Listeners(name)[i].id], LAMBDA id : id > 0)
    /\ \A id \in DOMAIN history.added : history.settled # "off" /\ history.added[id].once => history.calls[id] <= 1
    /\ \A k \in DOMAIN frames : \A i \in 1 .. frames[k].i : frames[k].copy[i].id = frames[k].start[i]

\* Once its promise is settled, events.once listens no more.
OnceLeaves ==
    history.settled \in {"resolved", "rejected"} /\ frames = <<>> =>
        \A name \in Names : \A e \in ToSet(Listeners(name)) : e.fn \notin Waits
=============================================================================
