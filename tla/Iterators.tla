------------------------------ MODULE Iterators ------------------------------
(***************************************************************************)
(* The iterator helpers of builtins_stubs.js: map, filter, take, drop,      *)
(* flatMap, concat, zip and zipKeyed, and the methods that use an iterator  *)
(* up (reduce, toArray, forEach, find, some, every, and the keys() of the   *)
(* set methods).                                                           *)
(*                                                                         *)
(* Iterator 0 is the one zip takes its iterators from, 1 .. Zipped are the  *)
(* iterators themselves (flatMap's and concat's inner ones, too) and        *)
(* Padding is zip's.  Every call of next(), of return() and of the          *)
(* callback is a step of the iterator or of the program.                    *)
(***************************************************************************)
EXTENDS Naturals, Sequences, SequencesExt

CONSTANTS Tasks,    \* [kind, faults]: the helper, and what may throw: "next",
                    \* "callback", "return", "flatten", "padding"; "again": it is used after that
          Zipped,   \* iterators there are
          Items,    \* items of each
          Limit     \* take's and drop's

ASSUME IteratorsAssumption == Zipped \in Nat \ {0} /\ Items \in Nat /\ Limit \in Nat

VARIABLES helper,   \* the helper's closure
          iters,    \* the iterators it uses
          pull      \* the call of its next() or return() that runs

iterVars == <<helper, iters, pull>>

Padding == Zipped + 1
All     == 0 .. Padding
Kind    == helper.task.kind
May(f)  == f \in helper.task.faults

Lazy    == {"map", "filter", "take", "drop", "flatMap", "concat"}
Modes   == {"shortest", "longest", "strict"}
Eager   == {"reduce", "toArray", "forEach", "find", "some", "every", "keys"}

Waiting == [at |-> "idle", i |-> 0, close |-> <<>>, all |-> FALSE, outcome |-> "none"]
Asking(i)     == pull' = [Waiting EXCEPT !.at = "next", !.i = i]
CallingBack   == pull' = [Waiting EXCEPT !.at = "callback"]

\* What a call of next() or return() comes to.
Finish(outcome, h) ==
    /\ pull' = Waiting
    /\ helper' = [h EXCEPT !.done = @ \/ outcome = "done", !.last = outcome]

\* _iteratorClose and _callIteratorReturn; and _iteratorCloseAll, which goes on
\* after a return() that throws.
Closing(list, all, outcome) ==
    pull' = [Waiting EXCEPT !.at = "close", !.close = list, !.all = all, !.outcome = outcome]

\* _iteratorCloseAll of the iterators that are still open, the last one first.
OpenOnes(open) == Reverse(SetToSortSeq(open, <))

Answered(i, o) ==
    [iters EXCEPT ![i] = [state   |-> IF o = "value" THEN @.state ELSE o,
                          left    |-> IF o = "value" THEN @.left - 1 ELSE @.left,
                          misused |-> @.misused \/ @.state # "open"]]

\* An iterator answers next(): it has an item, is at its end, or throws.
Outcomes(i) == {"done"} \cup (IF iters[i].left > 0 /\ iters[i].state = "open" THEN {"value"} ELSE {})
                        \cup (IF May("next") THEN {"broken"} ELSE {})

-----------------------------------------------------------------------------
(* next() and return() of a helper.                                        *)

\* The first iterator of a row of zip() after i that is not used up.
NextOf(h, i) == SelectInSeq([j \in 1 .. Zipped |-> j], LAMBDA j : j > i /\ j \notin h.nulls)

Step(h) ==
    CASE h.task.kind \in {"map", "filter", "drop"} -> Asking(1) /\ helper' = h /\ UNCHANGED iters
      [] h.task.kind = "take" ->
             IF h.left = 0
             THEN Closing(<<1>>, FALSE, "done") /\ helper' = [h EXCEPT !.done = TRUE] /\ UNCHANGED iters
             ELSE Asking(1) /\ helper' = [h EXCEPT !.left = @ - 1] /\ UNCHANGED iters
      [] h.task.kind = "flatMap" ->
             Asking(IF h.inner = 0 THEN 1 ELSE h.inner) /\ helper' = h /\ UNCHANGED iters
      [] h.task.kind = "concat" ->
             IF h.inner # 0 THEN Asking(h.inner) /\ helper' = h /\ UNCHANGED iters
             ELSE IF h.used >= Zipped THEN Finish("done", h) /\ UNCHANGED iters
             ELSE /\ Asking(h.used + 1)
                  /\ helper' = [h EXCEPT !.used = @ + 1, !.inner = h.used + 1]
                  /\ iters' = [iters EXCEPT ![h.used + 1].state = "open"]
      [] h.task.kind \in Modes -> Asking(NextOf(h, 0)) /\ helper' = h /\ UNCHANGED iters

\* (While one runs, a call of its next() or return() throws: _running.)
HelperNext ==
    /\ pull.at = "idle" /\ Kind \in Lazy \cup Modes /\ helper.ready
    /\ helper.last # "threw" \/ May("again")
    /\ IF helper.done THEN Finish("done", helper) /\ UNCHANGED iters ELSE Step(helper)

\* Mutant: an early return() is passed on although the helper is done.
HelperReturnAlways ==
    /\ pull.at = "idle" /\ Kind \in Lazy \cup Modes /\ helper.ready /\ UNCHANGED iters
    /\ helper.last # "threw" \/ May("again")
    /\ helper' = [helper EXCEPT !.done = TRUE]
    /\ IF Kind \in Modes THEN Closing(OpenOnes(helper.open), TRUE, "done")
       ELSE Closing((IF helper.inner # 0 THEN <<helper.inner>> ELSE <<>>)
                    \o (IF Kind = "concat" THEN <<>> ELSE <<1>>), FALSE, "done")

HelperReturn ==
    /\ pull.at = "idle" /\ Kind \in Lazy \cup Modes /\ helper.ready /\ UNCHANGED iters
    /\ helper.last # "threw" \/ May("again")
    /\ helper' = [helper EXCEPT !.done = TRUE]
    /\ IF helper.done THEN UNCHANGED pull
       ELSE IF Kind \in Modes THEN Closing(OpenOnes(helper.open), TRUE, "done")
       ELSE Closing((IF helper.inner # 0 THEN <<helper.inner>> ELSE <<>>)
                    \o (IF Kind = "concat" THEN <<>> ELSE <<1>>), FALSE, "done")

\* return() of an iterator, of those that are to be closed.
Return ==
    /\ pull.at = "close" /\ pull.close # <<>> /\ UNCHANGED helper
    /\ LET i == Head(pull.close)
       IN  /\ iters' = [iters EXCEPT ![i].misused = @ \/ iters[i].state # "open", ![i].state = "closed"]
           /\ \/ pull' = [pull EXCEPT !.close = Tail(@)]
              \/ /\ May("return")
                 /\ pull' = [pull EXCEPT !.close = IF pull.all THEN Tail(@) ELSE <<>>,
                                         !.outcome = "threw"]

Returned ==
    /\ pull.at = "close" /\ pull.close = <<>> /\ UNCHANGED iters
    /\ Finish(pull.outcome, helper)

-----------------------------------------------------------------------------
(* What a helper does with an iterator's answer.                           *)

MapAnswered ==
    \E o \in Outcomes(pull.i) :
        /\ pull.at = "next" /\ Kind \in {"map", "filter"} /\ iters' = Answered(pull.i, o)
        /\ CASE o = "value"  -> CallingBack /\ UNCHANGED helper
             [] o = "done"   -> Finish("done", helper)
             [] o = "broken" -> Finish("threw", helper)

TakeAnswered ==
    \E o \in Outcomes(pull.i) :
        /\ pull.at = "next" /\ Kind \in {"take", "drop"} /\ iters' = Answered(pull.i, o)
        /\ CASE o = "value" /\ Kind = "drop" /\ helper.left > 0 ->
                    Asking(1) /\ helper' = [helper EXCEPT !.left = @ - 1]
             [] o = "value" /\ ~ (Kind = "drop" /\ helper.left > 0) -> Finish("value", helper)
             [] o = "done"   -> Finish("done", helper)
             [] o = "broken" -> Finish("threw", helper)

\* An inner iterator that is at its end makes way for the next one; one that
\* throws is left to itself, and so is the outer iterator.
FlatMapAnswered ==
    \E o \in Outcomes(pull.i) :
        /\ pull.at = "next" /\ Kind = "flatMap" /\ iters' = Answered(pull.i, o)
        /\ CASE o = "value" /\ pull.i # 1 -> Finish("value", helper)
             [] o = "value" /\ pull.i = 1 -> CallingBack /\ UNCHANGED helper
             [] o = "done" /\ pull.i # 1  -> Asking(1) /\ helper' = [helper EXCEPT !.inner = 0]
             [] o = "done" /\ pull.i = 1  -> Finish("done", helper)
             [] o = "broken"              -> Finish("threw", helper)

ConcatAnswered ==
    \E o \in Outcomes(pull.i) :
        /\ pull.at = "next" /\ Kind = "concat"
        /\ CASE o = "value" -> Finish("value", helper) /\ iters' = Answered(pull.i, o)
             [] o = "done" /\ helper.used < Zipped ->
                    /\ Asking(helper.used + 1)
                    /\ helper' = [helper EXCEPT !.used = @ + 1, !.inner = helper.used + 1]
                    /\ iters' = [Answered(pull.i, o) EXCEPT ![helper.used + 1].state = "open"]
             [] o = "done" /\ helper.used >= Zipped ->
                    Finish("done", [helper EXCEPT !.inner = 0]) /\ iters' = Answered(pull.i, o)
             [] o = "broken" -> Finish("threw", helper) /\ iters' = Answered(pull.i, o)

\* A row of zip() that is cut short closes the iterators that are still open.
\* In strict mode the first one at its end has the others asked whether they are.
CutShort(h, outcome) ==
    helper' = h /\ Closing(OpenOnes(h.open), TRUE, outcome)

OnWards(h, i) ==
    IF NextOf(h, i) # 0 THEN Asking(NextOf(h, i)) /\ helper' = h
    ELSE Finish(IF h.verify THEN "done" ELSE "value", h)

\* Mutant: the iterators that were asked before the one that throws stay open.
ZipAnsweredLeaky ==
    \E o \in Outcomes(pull.i) :
        LET i == pull.i
            h == IF o = "value" THEN helper ELSE [helper EXCEPT !.open = @ \ {i}]
        IN  /\ pull.at = "next" /\ Kind \in Modes /\ iters' = Answered(i, o)
            /\ CASE o = "broken" -> CutShort([h EXCEPT !.open = {j \in @ : j > i}], "threw")
                 [] o = "value" -> IF h.verify THEN CutShort(h, "threw") ELSE OnWards(h, i)
                 [] o = "done" /\ Kind = "shortest" -> CutShort(h, "done")
                 [] o = "done" /\ Kind = "strict" ->
                        IF i # 1 /\ ~ h.verify THEN CutShort(h, "threw")
                        ELSE OnWards([h EXCEPT !.verify = TRUE], i)
                 [] o = "done" /\ Kind = "longest" ->
                        IF h.open = {} THEN Finish("done", h)
                        ELSE OnWards([h EXCEPT !.nulls = @ \cup {i}], i)

ZipAnswered ==
    \E o \in Outcomes(pull.i) :
        LET i == pull.i
            h == IF o = "value" THEN helper ELSE [helper EXCEPT !.open = @ \ {i}]
        IN  /\ pull.at = "next" /\ Kind \in Modes /\ iters' = Answered(i, o)
            /\ CASE o = "broken" -> CutShort(h, "threw")
                 [] o = "value" -> IF h.verify THEN CutShort(h, "threw") ELSE OnWards(h, i)
                 [] o = "done" /\ Kind = "shortest" -> CutShort(h, "done")
                 [] o = "done" /\ Kind = "strict" ->
                        IF i # 1 /\ ~ h.verify THEN CutShort(h, "threw")
                        ELSE OnWards([h EXCEPT !.verify = TRUE], i)
                 [] o = "done" /\ Kind = "longest" ->
                        IF h.open = {} THEN Finish("done", h)
                        ELSE OnWards([h EXCEPT !.nulls = @ \cup {i}], i)

-----------------------------------------------------------------------------
(* The callbacks: the mapper, the predicate, the reducer.                   *)

\* The helper that throws closes its iterator first.
CallbackThrows ==
    /\ pull.at = "callback" /\ May("callback") /\ UNCHANGED <<helper, iters>>
    /\ Closing(<<1>>, FALSE, "threw")

MapperAnswers ==
    /\ pull.at = "callback" /\ Kind = "map" /\ Finish("value", helper) /\ UNCHANGED iters

PredicateAnswers ==
    \E keep \in BOOLEAN :
        /\ pull.at = "callback" /\ Kind = "filter" /\ UNCHANGED iters
        /\ IF keep THEN Finish("value", helper) ELSE Asking(1) /\ UNCHANGED helper

\* flatMap's mapper gives another iterator, or something that cannot be iterated.
FlatMapperAnswers ==
    /\ pull.at = "callback" /\ Kind = "flatMap"
    /\ \/ /\ helper.used < Zipped
          /\ LET inner == helper.used + 1
             IN  /\ helper' = [helper EXCEPT !.used = inner, !.inner = inner]
                 /\ iters' = [iters EXCEPT ![inner].state = "open"] /\ Asking(inner)
       \/ /\ helper.used >= Zipped \/ May("flatten")
          /\ Closing(<<1>>, FALSE, "threw") /\ UNCHANGED <<helper, iters>>

\* The methods that use an iterator up: some stop early and close it.
ConsumerAnswers ==
    \E stop \in BOOLEAN :
        /\ pull.at = "callback" /\ Kind \in Eager /\ UNCHANGED <<helper, iters>>
        /\ stop => Kind \in {"find", "some", "every", "keys"}
        /\ IF stop THEN Closing(<<1>>, FALSE, "done") ELSE Asking(1)

\* reduce and the set methods close an iterator that has thrown itself.
ConsumerAnswered ==
    \E o \in Outcomes(pull.i) :
        /\ pull.at = "next" /\ Kind \in Eager /\ iters' = Answered(pull.i, o)
        /\ CASE o = "value" -> (IF Kind = "toArray" THEN Asking(1) ELSE CallingBack) /\ UNCHANGED helper
             [] o = "done"  -> Finish("done", helper)
             [] o = "broken" /\ Kind \in {"reduce", "keys"} ->
                    Closing(<<1>>, FALSE, "threw") /\ UNCHANGED helper
             [] o = "broken" /\ Kind \notin {"reduce", "keys"} -> Finish("threw", helper)

-----------------------------------------------------------------------------
(* zip() itself: the iterators are collected, then the padding is read.     *)

Ready == /\ pull' = Waiting
         /\ helper' = [helper EXCEPT !.ready = TRUE, !.open = 1 .. Zipped]

\* An iterable that is none closes what there is, and the catch around the
\* loop closes it again; a padding that is none closes it once.
Collect ==
    \E o \in Outcomes(0) :
        /\ pull.at = "collect"
        /\ \/ /\ o = "value" /\ helper.used < Zipped
              /\ helper' = [helper EXCEPT !.used = @ + 1] /\ UNCHANGED pull
              /\ iters' = [Answered(0, o) EXCEPT ![helper.used + 1].state = "open"]
           \/ /\ o = "value" /\ May("flatten") /\ iters' = Answered(0, o) /\ UNCHANGED helper
              /\ Closing(OpenOnes(0 .. helper.used) \o OpenOnes(1 .. helper.used), TRUE, "threw")
           \/ /\ o = "done" /\ helper.used = Zipped /\ Kind = "longest" /\ May("padding") /\ UNCHANGED helper
              /\ iters' = Answered(0, o) /\ Closing(OpenOnes(1 .. Zipped), TRUE, "threw")
           \/ /\ o = "done" /\ helper.used = Zipped /\ Kind = "longest" /\ UNCHANGED helper
              /\ iters' = [Answered(0, o) EXCEPT ![Padding].state = "open"]
              /\ pull' = [Waiting EXCEPT !.at = "pad", !.i = 1]
           \/ o = "done" /\ helper.used = Zipped /\ Kind # "longest" /\ iters' = Answered(0, o) /\ Ready
           \/ /\ o = "broken" /\ iters' = Answered(0, o) /\ UNCHANGED helper
              /\ Closing(OpenOnes(1 .. helper.used), TRUE, "threw")

\* A padding that ends early is filled up; a longer one is closed.
Pad ==
    /\ pull.at = "pad"
    /\ IF pull.i > Zipped
       THEN /\ iters' = [iters EXCEPT ![Padding].state = "closed"]
            /\ Ready \/ (May("return") /\ Closing(OpenOnes(1 .. Zipped), TRUE, "threw") /\ UNCHANGED helper)
       ELSE \E o \in Outcomes(Padding) :
                /\ iters' = Answered(Padding, o)
                /\ CASE o = "value"  -> pull' = [pull EXCEPT !.i = @ + 1] /\ UNCHANGED helper
                     [] o = "done"   -> Ready
                     [] o = "broken" -> Closing(OpenOnes(1 .. Zipped), TRUE, "threw") /\ UNCHANGED helper

-----------------------------------------------------------------------------

NewHelper(task) ==
    [task |-> task, done |-> FALSE, last |-> "none", left |-> Limit, inner |-> 0, used |->
     IF task.kind = "concat" \/ task.kind \in Modes THEN 0 ELSE 1, open |-> {}, nulls |-> {},
     verify |-> FALSE, ready |-> task.kind \in Lazy]

\* An iterator is there from the start, or made in the course of it.
IteratorsInit(tasks) ==
    \E task \in tasks :
        /\ helper = NewHelper(task)
        /\ iters = [i \in All |->
              [left |-> IF i = 0 THEN Zipped ELSE Items, misused |-> FALSE,
               state |-> IF (i = 0 /\ task.kind \in Modes)
                            \/ (i = 1 /\ task.kind \notin Modes \cup {"concat"})
                         THEN "open" ELSE "none"]]
        /\ pull = [Waiting EXCEPT !.at = IF task.kind \in Modes THEN "collect"
                                         ELSE IF task.kind \in Eager THEN "next" ELSE "idle",
                                  !.i = IF task.kind \in Eager THEN 1 ELSE 0]

IteratorsNext ==
    \/ HelperNext \/ HelperReturn \/ Return \/ Returned \/ MapAnswered \/ TakeAnswered
    \/ FlatMapAnswered \/ ConcatAnswered \/ ZipAnswered \/ CallbackThrows \/ MapperAnswers
    \/ PredicateAnswers \/ FlatMapperAnswers \/ ConsumerAnswers \/ ConsumerAnswered
    \/ Collect \/ Pad

-----------------------------------------------------------------------------
\* IteratorClose as ECMAScript has it: return() is called at most once, and
\* never on an iterator that has ended or thrown; nor is next().
ClosedOnce == \A i \in All : ~ iters[i].misused

\* A helper that is done, has thrown or was returned leaves no iterator open.
NothingLeft ==
    pull.at = "idle" /\ (helper.done \/ helper.last = "threw") =>
        \A i \in All : iters[i].state # "open"
=============================================================================
