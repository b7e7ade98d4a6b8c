------------------------------- MODULE Waiters -------------------------------
(***************************************************************************)
(* Atomics.waitAsync and notify of builtins_stubs.js: lists of waiters per  *)
(* cell, woken in the order they came, or by a timer that may fire early.   *)
(***************************************************************************)
EXTENDS Naturals, Sequences, FiniteSets, SequencesExt

CONSTANTS Cells,      \* (buffer, byte index) pairs
          Waits,      \* calls of waitAsync
          Timeouts,   \* their timeouts; Forever is an infinite one
          Forever,
          Values,     \* what a cell may hold
          MaxClock, MaxNotifies

ASSUME WaitersAssumption ==
    /\ Timeouts \subseteq Nat \cup {Forever} /\ MaxClock \in Nat /\ MaxNotifies \in Nat
    /\ Waits \subseteq Nat

VARIABLES cell,      \* what each cell holds
          waiters,   \* _atomicsWaiters
          wait,      \* per call, its promise and its timer
          clock,     \* Date.now
          notified   \* calls of notify

waiterVars == <<cell, waiters, wait, clock, notified>>

Fresh == [at |-> "new", cell |-> "none", since |-> 0, timeout |-> Forever, timer |-> FALSE, until |-> 0]

Store ==
    \E c \in Cells, v \in Values :
        /\ \E w \in Waits : wait[w].at = "new"
        /\ cell[c] # v /\ cell' = [cell EXCEPT ![c] = v] /\ UNCHANGED <<waiters, wait, clock, notified>>

\* waitAsync: only a call that finds what it expects, and may wait, is listed.
WaitAsync ==
    \E w \in Waits, c \in Cells, expected \in Values, t \in Timeouts :
        /\ wait[w].at = "new" /\ \A x \in Waits : x < w => wait[x].at # "new"
        /\ t # Forever => clock + t <= MaxClock
        /\ UNCHANGED <<cell, clock, notified>>
        /\ IF cell[c] # expected
           THEN wait' = [wait EXCEPT ![w].at = "not-equal"] /\ UNCHANGED waiters
           ELSE IF t = 0
           THEN wait' = [wait EXCEPT ![w].at = "timed-out"] /\ UNCHANGED waiters
           ELSE /\ wait' = [wait EXCEPT ![w] = [at |-> "waiting", cell |-> c, since |-> clock,
                                timeout |-> t, timer |-> t # Forever, until |-> clock]]
                /\ waiters' = [waiters EXCEPT ![c] = Append(@, w)]

\* Mutant: the timer is believed.
FireEarly(w) ==
        /\ wait[w].timer /\ UNCHANGED <<cell, clock, notified>>
        /\ IF wait[w].at # "waiting"
           THEN wait' = [wait EXCEPT ![w].timer = FALSE] /\ UNCHANGED waiters
           ELSE /\ wait' = [wait EXCEPT ![w].timer = FALSE, ![w].at = "timed-out", ![w].until = clock]
                /\ waiters' = [waiters EXCEPT ![wait[w].cell] = SelectSeq(@, LAMBDA x : x # w)]

\* Mutant: a timer that was early is not set again.
FireOnce(w) ==
        /\ wait[w].timer /\ UNCHANGED <<cell, clock, notified>>
        /\ IF wait[w].at # "waiting" \/ clock < wait[w].since + wait[w].timeout
           THEN wait' = [wait EXCEPT ![w].timer = FALSE] /\ UNCHANGED waiters
           ELSE /\ wait' = [wait EXCEPT ![w].timer = FALSE, ![w].at = "timed-out", ![w].until = clock]
                /\ waiters' = [waiters EXCEPT ![wait[w].cell] = SelectSeq(@, LAMBDA x : x # w)]

\* The timer may be early by Date.now's clock: it is set again for the rest.
Fire(w) ==
        /\ wait[w].timer /\ UNCHANGED <<cell, clock, notified>>
        /\ IF wait[w].at # "waiting"
           THEN wait' = [wait EXCEPT ![w].timer = FALSE] /\ UNCHANGED waiters
           ELSE IF clock < wait[w].since + wait[w].timeout
           THEN UNCHANGED <<wait, waiters>>
           ELSE /\ wait' = [wait EXCEPT ![w].timer = FALSE, ![w].at = "timed-out", ![w].until = clock]
                /\ waiters' = [waiters EXCEPT ![wait[w].cell] = SelectSeq(@, LAMBDA x : x # w)]

FirstOf(seq, n) == SubSeq(seq, 1, IF n < Len(seq) THEN n ELSE Len(seq))

\* Mutant: those that are not woken are forgotten.
NotifyForgets ==
    \E c \in Cells, n \in 1 .. Cardinality(Waits) :
        LET woken == FirstOf(waiters[c], n)
        IN  /\ notified < MaxNotifies /\ notified' = notified + 1 /\ UNCHANGED <<cell, clock>>
            /\ wait' = [w \in Waits |-> IF w \in ToSet(woken)
                                        THEN [wait[w] EXCEPT !.at = "ok"] ELSE wait[w]]
            /\ waiters' = [waiters EXCEPT ![c] = <<>>]

\* Mutant: the ones that came last are woken first.
NotifyLast ==
    \E c \in Cells, n \in 1 .. Cardinality(Waits) :
        LET live  == Reverse(SelectSeq(waiters[c], LAMBDA w : wait[w].at = "waiting"))
            woken == FirstOf(live, n)
        IN  /\ notified < MaxNotifies /\ notified' = notified + 1 /\ UNCHANGED <<cell, clock>>
            /\ wait' = [w \in Waits |-> IF w \in ToSet(woken)
                                        THEN [wait[w] EXCEPT !.at = "ok", !.until = clock] ELSE wait[w]]
            /\ waiters' = [waiters EXCEPT ![c] = Reverse(SubSeq(live, n + 1, Len(live)))]

\* notify(count): the first ones of the list, those that are not done already.
Notify ==
    \E c \in Cells, n \in 1 .. Cardinality(Waits) :
        LET live  == SelectSeq(waiters[c], LAMBDA w : wait[w].at = "waiting")
            woken == FirstOf(live, n)
        IN  /\ notified < MaxNotifies /\ notified' = notified + 1 /\ UNCHANGED <<cell, clock>>
            /\ wait' = [w \in Waits |-> IF w \in ToSet(woken)
                                        THEN [wait[w] EXCEPT !.at = "ok", !.until = clock] ELSE wait[w]]
            /\ waiters' = [waiters EXCEPT ![c] = SubSeq(live, n + 1, Len(live))]

Passes == clock < MaxClock /\ clock' = clock + 1 /\ UNCHANGED <<cell, waiters, wait, notified>>

\* Nothing waits, and nothing will.
WaitersIdle ==
    /\ cell = [c \in Cells |-> CHOOSE v \in Values : TRUE] /\ waiters = [c \in Cells |-> <<>>]
    /\ wait = [w \in Waits |-> [Fresh EXCEPT !.at = "ok"]] /\ clock = MaxClock /\ notified = MaxNotifies

WaitersInit ==
    /\ cell \in {[c \in Cells |-> v] : v \in Values} /\ waiters = [c \in Cells |-> <<>>]
    /\ wait = [w \in Waits |-> Fresh] /\ clock = 0 /\ notified = 0

WaitersNext == Store \/ WaitAsync \/ (\E w \in Waits : Fire(w)) \/ Notify \/ Passes

WaitersFair == (\A w \in Waits : WF_waiterVars(Fire(w))) /\ WF_waiterVars(Passes)

-----------------------------------------------------------------------------
\* The registry lists exactly those that wait, each at its cell and once.
Listed ==
    \A c \in Cells : /\ IsInjective(waiters[c])
                     /\ ToSet(waiters[c]) = {w \in Waits : wait[w].at = "waiting" /\ wait[w].cell = c}

\* A wait never ends as "timed-out" before its time is over by Date.now.
NeverEarly ==
    \A w \in Waits : wait[w].at = "timed-out" /\ wait[w].cell # "none" =>
        wait[w].until >= wait[w].since + wait[w].timeout

\* Waiters of a cell are woken in the order they came: nobody is woken by
\* notify while one before it waits on.
InOrder ==
    \A v, w \in Waits :
        v < w /\ wait[w].at = "ok" /\ wait[v].cell = wait[w].cell => wait[v].at # "waiting"

\* A wait with a finite timeout ends.
WaitPending == \E w \in Waits : wait[w].at = "waiting" /\ wait[w].timeout # Forever
=============================================================================
