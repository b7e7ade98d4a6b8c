------------------------------- MODULE Regex -------------------------------
(***************************************************************************)
(* RegExp.prototype[@@match], [@@matchAll], [@@search], [@@replace] and     *)
(* [@@split] of builtins_stubs.js, around an exec() that may be the         *)
(* program's.  A pattern is a table: per position, the length of its match  *)
(* there, or NoMatch.  A string is a sequence of code units: "h" and "l"    *)
(* are the halves of a surrogate pair.  Positions count from 0.             *)
(***************************************************************************)
EXTENDS Integers, Sequences, SequencesExt, FiniteSetsExt

CONSTANTS Calls,    \* [kind, s, global, unicode, table, lastIndex, before, limit, own];
                    \* before is the lastIndex the program has left;
                    \* of kind "template", s is getSubstitution's template
          MaxExec,  \* times an exec() of the program's own finds something
          Captures  \* groups there are, for getSubstitution

ASSUME RegexAssumption == MaxExec \in Nat /\ Captures \in Nat

VARIABLES call,     \* the method's arguments and the regular expression's lastIndex
          found,    \* the matches: [index, length]
          pieces,   \* what the answer is put together from: [from, to], "new"
          pc,       \* where the method is
          p, q      \* symbolSplit's

regexVars == <<call, found, pieces, pc, p, q>>

NoMatch   == -1
Size      == Len(call.s)
MidPair(s, i) == i \in 1 .. Len(s) - 1 /\ s[i] = "h" /\ s[i + 1] = "l"

\* Mutant: one code unit on, whatever is there.
AdvanceUnit(s, i, unicode) == i + 1

advanceStringIndex(s, i, unicode) == IF unicode /\ MidPair(s, i + 1) THEN i + 2 ELSE i + 1

\* The engine's exec(): the first match from lastIndex on, or right there; with
\* the u flag a lastIndex within a pair means the pair.
Matches(from, sticky) ==
    LET start == IF call.unicode /\ MidPair(call.s, from) THEN from - 1 ELSE from
    IN  {i \in start .. (IF sticky THEN start ELSE Size) : i <= Size /\ call.table[i] # NoMatch}

\* regExpExec: what is found, and where lastIndex is then; an exec() of the
\* program's own finds what it likes.
Execs(from, sticky) ==
    IF call.own
    THEN {[index |-> 0, length |-> NoMatch, next |-> 0]} \cup
         {[index |-> i, length |-> n, next |-> x] : i \in 0 .. Size + 1, n \in 0 .. 1, x \in {0, Size}}
    ELSE LET hits == Matches(from, sticky)
         IN  IF hits = {} THEN {[index |-> 0, length |-> NoMatch, next |-> 0]}
             ELSE {[index |-> Min(hits), length |-> call.table[Min(hits)],
                    next |-> Min(hits) + call.table[Min(hits)]]}

-----------------------------------------------------------------------------
(* The loops.                                                              *)

\* symbolMatch, symbolReplace and RegExpStringIterator's next(): an empty match
\* moves lastIndex on.
Collect1(r) ==
    IF r.length = NoMatch
    THEN pc' = "collected" /\ UNCHANGED found /\ call' = [call EXCEPT !.lastIndex = IF call.global THEN 0 ELSE @]
    ELSE /\ found' = Append(found, [index |-> r.index, length |-> r.length])
         /\ pc' = IF call.global THEN "collect" ELSE "collected"
         /\ call' = [call EXCEPT !.lastIndex =
                IF ~ call.global THEN @
                ELSE IF r.length = 0 THEN advanceStringIndex(call.s, r.next, call.unicode) ELSE r.next]

SymbolMatch ==
    /\ pc = "start" /\ call.kind \in {"match", "replace"}
    /\ pc' = "collect" /\ UNCHANGED <<found, pieces, p, q>>
    /\ call' = [call EXCEPT !.lastIndex = IF call.global THEN 0 ELSE @]

\* A copy of the regular expression is iterated, from where the original is.
SymbolMatchAll ==
    /\ pc = "start" /\ call.kind = "matchAll" /\ pc' = "collect" /\ UNCHANGED <<call, found, pieces, p, q>>

CollectNext ==
    /\ pc = "collect" /\ UNCHANGED <<pieces, p, q>>
    /\ \E r \in Execs(IF call.global THEN call.lastIndex ELSE 0, FALSE) :
          (r.length # NoMatch /\ call.own => Len(found) < MaxExec) /\ Collect1(r)

\* symbolSearch puts lastIndex back.
SymbolSearchLeaves ==
    /\ pc = "start" /\ call.kind = "search" /\ UNCHANGED <<pieces, p, q>>
    /\ \E r \in Execs(0, FALSE) :
          /\ found' = IF r.length = NoMatch THEN found ELSE <<[index |-> r.index, length |-> r.length]>>
          /\ pc' = "done" /\ call' = [call EXCEPT !.lastIndex = r.next]

SymbolSearch ==
    /\ pc = "start" /\ call.kind = "search" /\ UNCHANGED <<pieces, p, q>>
    /\ \E r \in Execs(0, FALSE) :
          /\ found' = IF r.length = NoMatch THEN found ELSE <<[index |-> r.index, length |-> r.length]>>
          /\ pc' = "done" /\ UNCHANGED call

-----------------------------------------------------------------------------
\* Mutant: the matches are taken to be in order.
ReplacementTrusting(all) ==
    LET f[i \in 0 .. Len(all)] ==
            IF i = 0 THEN [out |-> <<>>, next |-> 0]
            ELSE LET r  == f[i - 1]
                     at == IF all[i].index < Size THEN all[i].index ELSE Size
                 IN  [out |-> r.out \o <<[from |-> r.next, to |-> at], [from |-> -1, to |-> -1]>>,
                      next |-> at + all[i].length]
    IN  f[Len(all)].out \o (IF f[Len(all)].next >= Size THEN <<>>
                            ELSE <<[from |-> f[Len(all)].next, to |-> Size]>>)

\* symbolReplace: what is between the matches is kept; a match that begins
\* before the end of the last one is passed over.
Replacement(all) ==
    LET f[i \in 0 .. Len(all)] ==
            IF i = 0 THEN [out |-> <<>>, next |-> 0]
            ELSE LET r  == f[i - 1]
                     at == IF all[i].index < Size THEN all[i].index ELSE Size
                 IN  IF at < r.next THEN r
                     ELSE [out |-> r.out \o <<[from |-> r.next, to |-> at], [from |-> -1, to |-> -1]>>,
                           next |-> at + all[i].length]
    IN  f[Len(all)].out \o (IF f[Len(all)].next >= Size THEN <<>>
                            ELSE <<[from |-> f[Len(all)].next, to |-> Size]>>)

Collected ==
    /\ pc = "collected" /\ pc' = "done" /\ UNCHANGED <<call, found, p, q>>
    /\ pieces' = IF call.kind = "replace" THEN Replacement(found) ELSE pieces

-----------------------------------------------------------------------------
\* symbolSplit: from p on the piece that is being looked at, at q the sticky
\* copy of the regular expression is tried.
SymbolSplit ==
    /\ pc = "start" /\ call.kind = "split" /\ UNCHANGED <<call, found, p, q>>
    /\ IF call.limit = 0 THEN pc' = "done" /\ UNCHANGED pieces
       ELSE IF Size > 0 THEN pc' = "split" /\ UNCHANGED pieces
       ELSE /\ pc' = "done"
            /\ \E r \in Execs(0, TRUE) :
                  pieces' = IF r.length # NoMatch THEN <<>> ELSE <<[from |-> 0, to |-> 0]>>

\* Mutant: an empty match cuts, too.
SplitNextEmpty ==
    /\ pc = "split" /\ q < Size /\ UNCHANGED call
    /\ \E r \in Execs(q, TRUE) :
          IF r.length = NoMatch
          THEN q' = advanceStringIndex(call.s, q, call.unicode) /\ UNCHANGED <<found, pieces, pc, p>>
          ELSE /\ pieces' = Append(pieces, [from |-> p, to |-> q]) /\ p' = r.next
               /\ found' = Append(found, [index |-> q, length |-> r.next - q])
               /\ q' = IF r.length = 0 THEN advanceStringIndex(call.s, q, call.unicode) ELSE r.next
               /\ pc' = IF Len(pieces) + 1 = call.limit THEN "done" ELSE pc

SplitNext ==
    /\ pc = "split" /\ q < Size /\ UNCHANGED call
    /\ \E r \in Execs(q, TRUE) :
          LET e == IF r.next < Size THEN r.next ELSE Size
          IN  IF r.length = NoMatch \/ e = p
              THEN q' = advanceStringIndex(call.s, q, call.unicode) /\ UNCHANGED <<found, pieces, pc, p>>
              ELSE /\ pieces' = Append(pieces, [from |-> p, to |-> q]) /\ p' = e /\ q' = e
                   /\ found' = Append(found, [index |-> q, length |-> e - q])
                   /\ pc' = IF Len(pieces) + 1 = call.limit THEN "done" ELSE pc

SplitEnds ==
    /\ pc = "split" /\ q >= Size /\ pc' = "done" /\ UNCHANGED <<call, found, p, q>>
    /\ pieces' = Append(pieces, [from |-> p, to |-> Size])

-----------------------------------------------------------------------------
\* GetSubstitution of a template, a sequence of characters ("d1" and "d2" are
\* digits): what comes out of it, references as [kind, n].
Digit(c) == IF c = "d1" THEN 1 ELSE IF c = "d2" THEN 2 ELSE 0
IsDigit(c) == c \in {"d0", "d1", "d2"}

\* Mutant: the second "$" of "$$" is looked at again.
getSubstitutionTwice(t, captures) ==
    LET n == Len(t)
        f[i \in 1 .. n + 3] ==
            IF i > n THEN <<>>
            ELSE IF t[i] # "$" \/ i = n THEN <<t[i]>> \o f[i + 1]
            ELSE LET c   == t[i + 1]
                     one == IF IsDigit(c) THEN Digit(c) ELSE 0
                 IN  CASE c = "$" -> <<"$">> \o f[i + 1]
                       [] c = "&" -> <<[ref |-> 0]>> \o f[i + 2]
                       [] one \in 1 .. captures -> <<[ref |-> one]>> \o f[i + 2]
                       [] OTHER -> <<"$">> \o f[i + 1]
    IN  f[1]

getSubstitution(t, captures) ==
    LET n == Len(t)
        f[i \in 1 .. n + 3] ==
            IF i > n THEN <<>>
            ELSE IF t[i] # "$" \/ i = n THEN <<t[i]>> \o f[i + 1]
            ELSE LET c   == t[i + 1]
                     two == IF i + 2 <= n /\ IsDigit(c) /\ IsDigit(t[i + 2])
                            THEN Digit(c) * 10 + Digit(t[i + 2]) ELSE 0
                     one == IF IsDigit(c) THEN Digit(c) ELSE 0
                 IN  CASE c = "$" -> <<"$">> \o f[i + 2]
                       [] c = "&" -> <<[ref |-> 0]>> \o f[i + 2]
                       [] two \in 1 .. captures -> <<[ref |-> two]>> \o f[i + 3]
                       [] ~ (two \in 1 .. captures) /\ one \in 1 .. captures -> <<[ref |-> one]>> \o f[i + 2]
                       [] OTHER -> <<"$">> \o f[i + 1]
    IN  f[1]

Escaped(t) == FlattenSeq([i \in 1 .. Len(t) |-> IF t[i] = "$" THEN <<"$", "$">> ELSE <<t[i]>>])

RegexInit(calls) ==
    /\ call \in calls /\ found = <<>> /\ pieces = <<>> /\ pc = "start" /\ p = 0 /\ q = 0

RegexNext ==
    SymbolMatch \/ SymbolMatchAll \/ CollectNext \/ SymbolSearch \/ Collected \/ SymbolSplit \/ SplitNext \/ SplitEnds

-----------------------------------------------------------------------------
Starts == {found[i].index : i \in DOMAIN found}
Covered(i) == \E r \in ToSet(found) : i >= r.index /\ i < r.index + r.length

\* The engine's own matches are in order and apart, none is passed over, and
\* with the u flag none begins within a surrogate pair.
MatchesAll ==
    call.global /\ ~ call.own /\ call.kind \in {"match", "replace"} =>
        /\ \A i \in 1 .. Len(found) - 1 : found[i].index + found[i].length <= found[i + 1].index
        /\ IsInjective(found)
        /\ pc \in {"collected", "done"} =>
               \A i \in 0 .. Size : call.table[i] # NoMatch => i \in Starts \/ Covered(i)
        /\ call.unicode => \A i \in Starts : ~ MidPair(call.s, i)

\* What replace() keeps of the string is in order and no part of it twice, even
\* of matches an exec() of the program's own has given; of the engine's, it is
\* all that no match covers.
KeepsTheRest ==
    LET kept == SelectSeq(pieces, LAMBDA x : x.from # -1)
    IN  pc = "done" /\ call.kind = "replace" =>
            /\ \A i \in DOMAIN kept : kept[i].from <= kept[i].to /\ kept[i].to <= Size
            /\ \A i \in 1 .. Len(kept) - 1 : kept[i].to <= kept[i + 1].from
            /\ ~ call.own => \A i \in 0 .. Size - 1 :
                   Covered(i) # (\E x \in ToSet(kept) : i >= x.from /\ i < x.to)

\* split() cuts the string at separators that are not empty or between two
\* units, never at its ends by an empty one; pieces and separators together are
\* the string.
CutsApart ==
    pc = "done" /\ call.kind = "split" /\ ~ call.own =>
        /\ call.limit >= 0 => Len(pieces) <= call.limit
        /\ \A i \in DOMAIN pieces : pieces[i].from <= pieces[i].to
        /\ \A i \in 1 .. Len(pieces) - 1 :
               /\ pieces[i].to + found[i].length = pieces[i + 1].from
               /\ found[i].length = 0 => pieces[i].to > pieces[i].from
        /\ call.unicode => \A x \in ToSet(pieces) : ~ MidPair(call.s, x.from) /\ ~ MidPair(call.s, x.to)
        /\ Len(pieces) # call.limit /\ pieces # <<>> => pieces[1].from = 0 /\ Last(pieces).to = Size

\* search() leaves lastIndex as it was.
LastIndexKept == call.kind = "search" => call.lastIndex = call.before

\* A template whose "$" are all doubled stands for itself.
DollarEscapes == call.kind = "template" => getSubstitution(Escaped(call.s), Captures) = call.s
=============================================================================
