---------------------------- MODULE Combinators ----------------------------
(***************************************************************************)
(* The promise combinators of builtins_stubs.js: all, allSettled, any,      *)
(* race, and the keyed ones.                                               *)
(*                                                                         *)
(* The input is iterated step by step.  A native promise calls back in a    *)
(* reaction, after the iteration; a thenable of the program calls back when *)
(* it likes, within then() too, and more than once.                         *)
(***************************************************************************)
EXTENDS Naturals, Sequences

CONSTANTS Inputs   \* [kind, size, thenable, faults]: the combinator, how many elements,
                   \* which are thenables, what throws: "next", "resolve", "then"

ASSUME CombinatorsAssumption ==
    \A input \in Inputs : input.size \in Nat /\ input.thenable \subseteq 1 .. input.size

VARIABLES comb,    \* performCombinator's state, and how its capability was called
          elems    \* per element, whether then() was called and what it called back

combVars == <<comb, elems>>

Keyed    == comb.input.kind \in {"allKeyed", "allSettledKeyed"}
KindOf   == IF comb.input.kind = "allKeyed" THEN "all"
            ELSE IF comb.input.kind = "allSettledKeyed" THEN "allSettled" ELSE comb.input.kind
Throws(f) == f \in comb.input.faults

\* The capability: a promise keeps the first call.
Settled(c, how) == [c EXCEPT !.outcomes = Append(@, how)]

\* The bookkeeping is at its end: all and allSettled resolve, any rejects, race waits.
Exhausted(c) ==
    CASE KindOf \in {"all", "allSettled"} -> Settled(c, "resolve")
      [] KindOf = "any"                   -> Settled(c, "reject")
      [] KindOf = "race"                  -> c

CountDown(c) ==
    IF c.remaining = 1 THEN Exhausted([c EXCEPT !.remaining = 0]) ELSE [c EXCEPT !.remaining = @ - 1]

\* The catch around performCombinator; the iterator is closed first, unless it
\* has thrown itself.
Fail(closes) ==
    comb' = [Settled(comb, "reject") EXCEPT !.at = "over",
                !.closed = @ + IF closes /\ ~ Keyed THEN 1 ELSE 0]

\* Mutant: the iteration itself stays counted.
IterStepCounted ==
    /\ comb.at = "iterating" /\ UNCHANGED elems
    /\ \/ Throws("next") /\ Fail(FALSE)
       \/ /\ comb.index < comb.input.size
          /\ comb' = [comb EXCEPT !.at = "element", !.index = @ + 1, !.remaining = @ + 1]
       \/ comb.index = comb.input.size /\ comb' = [comb EXCEPT !.at = "over"]

\* Mutant: an iterator that has thrown is closed.
IterStepCloses ==
    /\ comb.at = "iterating" /\ UNCHANGED elems
    /\ \/ Throws("next") /\ Fail(TRUE)
       \/ /\ comb.index < comb.input.size
          /\ comb' = [comb EXCEPT !.at = "element", !.index = @ + 1, !.remaining = @ + 1]
       \/ comb.index = comb.input.size /\ comb' = [CountDown(comb) EXCEPT !.at = "over"]

\* IteratorStep: an element, the end, or an exception.
IterStep ==
    /\ comb.at = "iterating" /\ UNCHANGED elems
    /\ \/ Throws("next") /\ Fail(FALSE)
       \/ /\ comb.index < comb.input.size
          /\ comb' = [comb EXCEPT !.at = "element", !.index = @ + 1, !.remaining = @ + 1]
       \/ comb.index = comb.input.size /\ comb' = [CountDown(comb) EXCEPT !.at = "over"]

\* C.resolve and then() of the element.
Subscribe ==
    /\ comb.at = "element"
    /\ \/ Throws("resolve") /\ Fail(TRUE) /\ UNCHANGED elems
       \/ Throws("then") /\ Fail(TRUE) /\ UNCHANGED elems
       \/ /\ comb' = [comb EXCEPT !.at = "iterating"]
          /\ elems' = [elems EXCEPT ![comb.index].subscribed = TRUE]

\* A thenable may call back within then() already.
CanCallBack(i) ==
    /\ i <= comb.index
    /\ IF i \in comb.input.thenable
       THEN /\ Len(elems[i].calls) < 2
            /\ elems[i].subscribed \/ (comb.at = "element" /\ comb.index = i)
       ELSE elems[i].subscribed /\ elems[i].calls = <<>> /\ comb.at = "over"

\* An element function takes effect once; allSettled's two share the flag.
Counts(i, how) ==
    CASE KindOf = "all"        -> how = "fulfil" /\ ~ \E k \in DOMAIN elems[i].calls : elems[i].calls[k] = how
      [] KindOf = "allSettled" -> elems[i].calls = <<>>
      [] KindOf = "any"        -> how = "reject" /\ ~ \E k \in DOMAIN elems[i].calls : elems[i].calls[k] = how
      [] KindOf = "race"       -> FALSE

\* The function of the capability that was passed to then() itself.
Direct(how) ==
    \/ KindOf = "race"
    \/ KindOf = "all" /\ how = "reject"
    \/ KindOf = "any" /\ how = "fulfil"

\* Mutant: an element that calls back twice counts twice.
ElementCallsTwice ==
    \E i \in DOMAIN elems, how \in {"fulfil", "reject"} :
        /\ CanCallBack(i)
        /\ elems' = [elems EXCEPT ![i].calls = Append(@, how)]
        /\ comb' = IF Direct(how) THEN Settled(comb, IF how = "fulfil" THEN "resolve" ELSE "reject")
                   ELSE IF comb.remaining > 0
                   THEN CountDown([comb EXCEPT !.values[i] = how])
                   ELSE comb

ElementCalls ==
    \E i \in DOMAIN elems, how \in {"fulfil", "reject"} :
        /\ CanCallBack(i)
        /\ elems' = [elems EXCEPT ![i].calls = Append(@, how)]
        /\ comb' = IF Direct(how) THEN Settled(comb, IF how = "fulfil" THEN "resolve" ELSE "reject")
                   ELSE IF Counts(i, how)
                   THEN CountDown([comb EXCEPT !.values[i] = how])
                   ELSE comb

CombinatorsInit(inputs) ==
    \E input \in inputs :
        /\ comb = [input |-> input, at |-> "iterating", index |-> 0, remaining |-> 1,
                   closed |-> 0, outcomes |-> <<>>,
                   values |-> [i \in 1 .. input.size |-> "none"]]
        /\ elems = [i \in 1 .. input.size |-> [subscribed |-> FALSE, calls |-> <<>>]]

CombinatorsNext == IterStep \/ Subscribe \/ ElementCalls

CombinatorsFair == WF_combVars(IterStep) /\ WF_combVars(Subscribe) /\ WF_combVars(ElementCalls)

-----------------------------------------------------------------------------
Said(i, how) == \E k \in DOMAIN elems[i].calls : elems[i].calls[k] = how
Result == Head(comb.outcomes)

\* The promise is settled for a reason: all only when every element of the
\* whole input has fulfilled, any only rejects when all have rejected,
\* allSettled not before each has called back, and with what it said first.
RightResult ==
    comb.outcomes # <<>> /\ comb.input.faults = {} =>
        CASE KindOf = "all" ->
               IF Result = "resolve" THEN comb.index = comb.input.size /\ \A i \in DOMAIN elems : Said(i, "fulfil")
               ELSE \E i \in DOMAIN elems : Said(i, "reject")
          [] KindOf = "any" ->
               IF Result = "reject" THEN comb.index = comb.input.size /\ \A i \in DOMAIN elems : Said(i, "reject")
               ELSE \E i \in DOMAIN elems : Said(i, "fulfil")
          [] KindOf = "allSettled" ->
               /\ Result = "resolve" /\ comb.index = comb.input.size
               /\ \A i \in DOMAIN elems : elems[i].calls # <<>> /\ comb.values[i] = elems[i].calls[1]
          [] KindOf = "race" -> \E i \in DOMAIN elems : Said(i, IF Result = "resolve" THEN "fulfil" ELSE "reject")

\* IteratorClose: exactly when something else than the iterator has thrown.
IteratorClosed ==
    comb.closed = IF comb.at = "over" /\ ~ Keyed /\ comb.index > 0 /\ ~ elems[comb.index].subscribed
                  THEN 1 ELSE 0

\* Once every element has called back, the promise is settled; race of nothing
\* never is.
CombinatorPending == comb.outcomes = <<>> /\ ~ (KindOf = "race" /\ comb.input.size = 0)
=============================================================================
