----------------------------- MODULE SetMethods -----------------------------
(***************************************************************************)
(* The set methods of builtins_stubs.js: union, intersection, difference,   *)
(* symmetricDifference, isSubsetOf, isSupersetOf and isDisjointFrom, of a   *)
(* Set and something set-like, whose has() and keys() are the program's and *)
(* may change the Set while it is gone through.                             *)
(***************************************************************************)
EXTENDS Naturals, Sequences, FiniteSets, SequencesExt, FiniteSetsExt

CONSTANTS SetCalls,   \* [kind, base, other, size]: the Set's elements, the other's keys
                      \* (one may come twice) and the size it says it has
          Elements, MaxChanges

ASSUME SetMethodsAssumption ==
    MaxChanges \in Nat /\ \A c \in SetCalls : ToSet(c.base) \cup ToSet(c.other) \subseteq Elements

VARIABLES setCall,   \* the call
          base,      \* the Set, in the order of insertion
          gone,      \* how far for-of or keys() has come
          asked,     \* elements has() was asked about
          result, verdict, stage, changes

setVars == <<setCall, base, gone, asked, result, verdict, stage, changes>>

Op     == setCall.kind
Others == ToSet(setCall.other)
NotDone == "none"

\* The Set is no larger than the other claims to be: its own elements are gone
\* through, and the other is asked for each.
Asks ==
    \/ Op \in {"intersection", "difference", "isDisjointFrom"} /\ Len(base) <= setCall.size
    \/ Op = "isSubsetOf"

\* _getSetRecord and what comes before the loop; the sizes alone may decide.
Begin ==
    /\ stage = "begin" /\ UNCHANGED <<setCall, base, gone, asked, changes>>
    /\ result' = IF Op \in {"union", "symmetricDifference"} \/ (Op = "difference" /\ ~ Asks)
                 THEN ToSet(base) ELSE {}
    /\ LET no == (Op = "isSubsetOf" /\ Len(base) > setCall.size)
                 \/ (Op = "isSupersetOf" /\ Len(base) < setCall.size)
       IN  /\ verdict' = IF no THEN "false" ELSE NotDone
           /\ stage' = IF no THEN "done" ELSE IF Asks THEN "own" ELSE "keys"

Ends(v) == stage' = "done" /\ verdict' = v

\* Mutant: the other is only asked about what it says it has room for.
AskUpTo ==
    /\ stage = "own" /\ UNCHANGED <<setCall, base, changes>>
    /\ IF gone >= setCall.size \/ gone >= Len(base)
       THEN Ends(IF Op \in {"isSubsetOf", "isDisjointFrom"} THEN "true" ELSE NotDone) /\ UNCHANGED <<gone, asked, result>>
       ELSE LET e   == base[gone + 1]
                has == e \in Others
            IN  /\ gone' = gone + 1 /\ asked' = asked \cup {e}
                /\ result' = IF (Op = "intersection" /\ has) \/ (Op = "difference" /\ ~ has)
                             THEN result \cup {e} ELSE result
                /\ IF (Op = "isSubsetOf" /\ ~ has) \/ (Op = "isDisjointFrom" /\ has)
                   THEN Ends("false") ELSE UNCHANGED <<stage, verdict>>

\* for (const e of O): the Set as it is now; has() is asked for each.
Ask ==
    /\ stage = "own" /\ UNCHANGED <<setCall, base, changes>>
    /\ IF gone >= Len(base)
       THEN Ends(IF Op \in {"isSubsetOf", "isDisjointFrom"} THEN "true" ELSE NotDone) /\ UNCHANGED <<gone, asked, result>>
       ELSE LET e   == base[gone + 1]
                has == e \in Others
            IN  /\ gone' = gone + 1 /\ asked' = asked \cup {e}
                /\ result' = IF (Op = "intersection" /\ has) \/ (Op = "difference" /\ ~ has)
                             THEN result \cup {e} ELSE result
                /\ IF (Op = "isSubsetOf" /\ ~ has) \/ (Op = "isDisjointFrom" /\ has)
                   THEN Ends("false") ELSE UNCHANGED <<stage, verdict>>

\* Mutant: a key that comes twice changes the result twice.
KeysToggles ==
    /\ stage = "keys" /\ UNCHANGED <<setCall, base, asked, changes>>
    /\ IF gone >= Len(setCall.other)
       THEN Ends(IF Op \in {"isSupersetOf", "isDisjointFrom"} THEN "true" ELSE NotDone) /\ UNCHANGED <<gone, result>>
       ELSE LET e   == setCall.other[gone + 1]
            IN  /\ gone' = gone + 1 /\ UNCHANGED <<stage, verdict>>
                /\ result' = IF e \in result THEN result \ {e} ELSE result \cup {e}

\* _forEachSetRecordKeys, with each method's callback.
Keys ==
    /\ stage = "keys" /\ UNCHANGED <<setCall, base, asked, changes>>
    /\ IF gone >= Len(setCall.other)
       THEN Ends(IF Op \in {"isSupersetOf", "isDisjointFrom"} THEN "true" ELSE NotDone) /\ UNCHANGED <<gone, result>>
       ELSE LET e   == setCall.other[gone + 1]
                own == e \in ToSet(base)
            IN  /\ gone' = gone + 1
                /\ result' = IF Op = "union" \/ (Op = "intersection" /\ own) \/ (Op = "symmetricDifference" /\ ~ own)
                             THEN result \cup {e}
                             ELSE IF Op = "difference" \/ (Op = "symmetricDifference" /\ own)
                             THEN result \ {e} ELSE result
                /\ IF (Op = "isSupersetOf" /\ ~ own) \/ (Op = "isDisjointFrom" /\ own)
                   THEN Ends("false") ELSE UNCHANGED <<stage, verdict>>

\* has() or keys() of the program changes the Set: a live iteration does not
\* miss what is added, nor skip what follows something deleted.
Changes ==
    /\ stage \in {"own", "keys"} /\ changes < MaxChanges /\ changes' = changes + 1
    /\ UNCHANGED <<setCall, asked, result, verdict, stage>>
    /\ \/ \E e \in Elements \ ToSet(base) : base' = Append(base, e) /\ UNCHANGED gone
       \/ \E i \in DOMAIN base :
             /\ base' = SubSeq(base, 1, i - 1) \o SubSeq(base, i + 1, Len(base))
             /\ gone' = IF stage = "own" /\ i <= gone THEN gone - 1 ELSE gone

SetMethodsInit(calls) ==
    /\ setCall \in calls /\ base = setCall.base /\ gone = 0 /\ asked = {} /\ result = {}
    /\ verdict = NotDone /\ stage = "begin" /\ changes = 0

SetMethodsNext == Begin \/ Ask \/ Keys \/ Changes

-----------------------------------------------------------------------------
\* Of a Set nobody changes and an other that knows its size, the method gives
\* what it is named for, though keys() may say a key twice.
SetAlgebra ==
    LET A == ToSet(setCall.base)
        B == Others
    IN  stage = "done" /\ changes = 0 /\ setCall.size = Cardinality(B) =>
        CASE Op = "union"               -> result = A \cup B
          [] Op = "intersection"        -> result = A \cap B
          [] Op = "difference"          -> result = A \ B
          [] Op = "symmetricDifference" -> result = (A \ B) \cup (B \ A)
          [] Op = "isSubsetOf"          -> (verdict = "true") = (A \subseteq B)
          [] Op = "isSupersetOf"        -> (verdict = "true") = (B \subseteq A)
          [] Op = "isDisjointFrom"      -> (verdict = "true") = (A \cap B = {})

\* Whatever has() does to the Set in the course of it, at the end the other was
\* asked about every element the Set then has.
AskedAboutAll ==
    stage = "done" /\ Op \in {"isSubsetOf", "intersection", "difference"} /\ verdict # "false"
        /\ (Op # "isSubsetOf" => Len(setCall.base) <= setCall.size)
        => ToSet(base) \subseteq asked
=============================================================================
