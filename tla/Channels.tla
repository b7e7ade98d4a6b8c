------------------------------ MODULE Channels ------------------------------
(***************************************************************************)
(* diagnostics_channel.js: what a TracingChannel publishes around a call     *)
(* that returns, throws, answers with a promise or calls back, and to whom.  *)
(***************************************************************************)
EXTENDS Integers, Sequences, SequencesExt

CONSTANTS MaxCallbacks

VARIABLES trace,          \* [kind, pc, active, calls, failures, log]: log is what was published, active the callbacks
                          \* that run
          subscribers     \* [list, publishing, i, told]: of 'start'

channelVars == <<trace, subscribers>>

Published(names) == [trace EXCEPT !.log = @ \o names]

\* start is published, its subscribers called one after the other.
Start ==
    /\ trace.pc = "new" /\ trace' = [Published(<<"start">>) EXCEPT !.pc = "start"]
    /\ subscribers' = [subscribers EXCEPT !.publishing = subscribers.list, !.i = 0]

\* Mutant: the list is not copied.
ToldNow == IF subscribers.i < Len(subscribers.list) THEN <<subscribers.list[subscribers.i + 1]>> ELSE <<>>
Told == <<subscribers.publishing[subscribers.i + 1]>>

\* A subscriber is told, and may unsubscribe one or subscribe another, or throw, which goes to the next tick.
Tell ==
    /\ trace.pc = "start" /\ subscribers.i < Len(subscribers.publishing) /\ UNCHANGED trace
    /\ \E list \in {subscribers.list, Append(subscribers.list, 3)} \cup {RemoveAt(subscribers.list, k) : k \in DOMAIN subscribers.list} :
          /\ Len(list) <= 3
          /\ subscribers' = [subscribers EXCEPT !.i = @ + 1, !.told = @ \o Told, !.list = list]

Begin == trace.pc = "start" /\ subscribers.i = Len(subscribers.publishing) /\ trace' = [trace EXCEPT !.pc = "fn"] /\ UNCHANGED subscribers

Failed(t, failed) == [t EXCEPT !.failures = IF failed THEN @ + 1 ELSE @]

\* Of a call that answers with a promise what follows the end comes when it is settled.
FnReturns ==
    /\ trace.pc = "fn" /\ trace.active = 0 /\ UNCHANGED subscribers
    /\ trace' = [Published(<<"end">>) EXCEPT !.pc = IF trace.kind = "promise" THEN "pending" ELSE "done"]

\* Mutant: what threw has no end.
AfterThrowBare == <<"error">>
AfterThrow == <<"error", "end">>

FnThrows ==
    /\ trace.pc = "fn" /\ trace.active = 0 /\ UNCHANGED subscribers
    /\ trace' = [Failed(Published(AfterThrow), TRUE) EXCEPT !.pc = "done"]

Settled == \E fails \in BOOLEAN :
    /\ trace.pc = "pending" /\ UNCHANGED subscribers
    /\ trace' = [Failed(Published(IF fails THEN <<"asyncStart", "error", "asyncEnd">> ELSE <<"asyncStart", "asyncEnd">>), fails)
                 EXCEPT !.pc = "done"]

\* Within the call or after it, any number of times.
Callback == \E fails \in BOOLEAN :
    /\ trace.kind = "callback" /\ trace.pc \in {"fn", "done"} /\ trace.calls < MaxCallbacks /\ UNCHANGED subscribers
    /\ trace' = [Failed(Published(IF fails THEN <<"asyncStart", "error">> ELSE <<"asyncStart">>), fails)
                 EXCEPT !.active = @ + 1, !.calls = @ + 1]

\* It returns or throws.
CallbackEnds == /\ trace.active > 0 /\ UNCHANGED subscribers
                /\ trace' = [Published(<<"asyncEnd">>) EXCEPT !.active = @ - 1]

ChannelsInit == /\ \E kind \in {"sync", "promise", "callback"} :
                      trace = [kind |-> kind, pc |-> "new", active |-> 0, calls |-> 0, failures |-> 0, log |-> <<>>]
                /\ subscribers = [list |-> <<1, 2>>, publishing |-> <<>>, i |-> 0, told |-> <<>>]
ChannelsIdle == trace = [kind |-> "sync", pc |-> "off", active |-> 0, calls |-> 0, failures |-> 0, log |-> <<>>]
                /\ subscribers = [list |-> <<>>, publishing |-> <<>>, i |-> 0, told |-> <<>>]
ChannelsNext == Start \/ Tell \/ Begin \/ FnReturns \/ FnThrows \/ Settled \/ Callback \/ CallbackEnds

-----------------------------------------------------------------------------
Times(name) == Len(SelectSeq(trace.log, LAMBDA x : x = name))

\* Whatever the call does, its start is published first and its end once it is
\* over, every asyncStart has its asyncEnd and every failure its error; start is
\* told to those who had subscribed before it, in order.
TracesWhole ==
    /\ trace.log # <<>> => trace.log[1] = "start" /\ Times("start") = 1
    /\ Times("end") = IF trace.pc \in {"pending", "done"} THEN 1 ELSE 0
    /\ Times("asyncStart") = Times("asyncEnd") + trace.active
    /\ Times("error") = trace.failures
    /\ subscribers.told = SubSeq(subscribers.publishing, 1, subscribers.i)
=============================================================================
