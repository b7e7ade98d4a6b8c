---------------------------- MODULE Computations ----------------------------
(* A function of the library that keeps no state, asked once: the modules    *)
(* that extend this one say what each of them answers.                       *)
EXTENDS Integers, Sequences

VARIABLE computed      \* [q, done, out]: the question [fn, x, ...] and its answer

computedVars == <<computed>>

NoQuestion == [fn |-> "none"]

ComputationsInit(questions) == \E q \in questions : computed = [q |-> q, done |-> FALSE, out |-> <<>>]

Computes(fn, out) ==
    /\ ~ computed.done /\ computed.q.fn = fn
    /\ computed' = [computed EXCEPT !.done = TRUE, !.out = out]

Asked(fn) == computed.done /\ computed.q.fn = fn
=============================================================================
