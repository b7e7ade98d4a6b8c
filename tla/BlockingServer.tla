--------------------------- MODULE BlockingServer ---------------------------
(***************************************************************************)
(* http_server.js: Bun.serve, which accepts and answers one connection after *)
(* the other while it blocks. A handler may serve again before it returns.   *)
(***************************************************************************)
EXTENDS Integers, Sequences, SequencesExt

CONSTANTS MaxHandles,
          BlockingFaults   \* "nested": a handler serves others before it returns; "refused": an upgrade whose request
                           \* lacks something; "throwing": the error handler throws

VARIABLES calls,           \* the calls under way: handleN with what it has left, _handleOne with its connection
          handles,         \* per connection [open, answers, ws]
          bun              \* [running, pending, count, error]: _running, _pendingUpgrade, _requestCount, the error option

Fault(f) == f \in BlockingFaults
None == 0
Top  == Last(calls)
Call(kind, h, upgrade, left) == [kind |-> kind, h |-> h, upgrade |-> upgrade, left |-> left]
Returned == Front(calls)
\* handleN counts the connection its _handleOne has handled.
Handled == LET below == Front(calls) IN [below EXCEPT ![Len(below)].left = @ - 1]

HandleN ==
    /\ calls # <<>> => (Top.kind = "fetch" /\ Fault("nested"))
    /\ bun.running /\ Len(handles) < MaxHandles
    /\ \E n \in 1 .. MaxHandles : calls' = Append(calls, Call("serve", None, FALSE, n))
    /\ UNCHANGED <<handles, bun>>

ServeReturns ==
    /\ calls # <<>> /\ Top.kind = "serve" /\ (Top.left = 0 \/ ~ bun.running)
    /\ calls' = Returned /\ UNCHANGED <<handles, bun>>

Serving == calls # <<>> /\ Top.kind = "serve" /\ Top.left > 0 /\ bun.running /\ Len(handles) < MaxHandles

\* A request that cannot be read.
BadRequest ==
    /\ Serving
    /\ handles' = Append(handles, [open |-> FALSE, answers |-> 1, ws |-> FALSE])
    /\ calls' = [calls EXCEPT ![Len(calls)].left = @ - 1]
    /\ UNCHANGED bun

\* tcpAccept, the request and the call of fetch.
Accept ==
    /\ Serving
    /\ \E upgrade \in BOOLEAN :
          /\ calls' = Append(calls, Call("fetch", Len(handles) + 1, upgrade, 0))
          /\ bun' = IF upgrade THEN [bun EXCEPT !.pending = Len(handles) + 1] ELSE bun
    /\ handles' = Append(handles, [open |-> TRUE, answers |-> 0, ws |-> FALSE])

-----------------------------------------------------------------------------
InFetch == calls # <<>> /\ Top.kind = "fetch"

\* _doUpgrade: 101 is the answer; 426, or nothing at all.
upgrade ==
    /\ InFetch /\ bun.pending # None
    /\ \/ handles' = [handles EXCEPT ![bun.pending] = [open |-> TRUE, answers |-> 1, ws |-> TRUE]]
       \/ Fault("refused") /\ \E n \in 0 .. 1 : handles' = [handles EXCEPT ![bun.pending].answers = n]
    /\ bun' = [bun EXCEPT !.pending = None]
    /\ UNCHANGED calls

stop ==
    /\ bun.running /\ (calls = <<>> \/ InFetch)
    /\ bun' = [bun EXCEPT !.running = FALSE]
    /\ handles' = [h \in DOMAIN handles |-> IF handles[h].ws THEN [handles[h] EXCEPT !.open = FALSE] ELSE handles[h]]
    /\ UNCHANGED calls

\* What follows an answer.
Answered(n, b) ==
    /\ handles' = [handles EXCEPT ![Top.h] = [@ EXCEPT !.open = FALSE, !.answers = @ + n]]
    /\ bun' = [b EXCEPT !.count = @ + 1]
    /\ calls' = Handled
\* Mutant: whoever asked for an upgrade is taken to have got it.
UpgradedAlways == Top.upgrade
Upgraded == Top.upgrade /\ bun.pending = None

\* Mutant: the upgrade that was not taken is left to the next request.
ClearedNot(b) == b
Cleared(b) == [b EXCEPT !.pending = None]

\* fetch has returned a Response, or a promise, sent as an empty one.
FetchReturns ==
    /\ InFetch
    /\ IF Upgraded THEN bun' = [bun EXCEPT !.count = @ + 1] /\ calls' = Handled /\ UNCHANGED handles
       ELSE Answered(1, Cleared(bun))

\* With nothing to answer, the error handler is asked, or 500 is the answer; a
\* handler that answers nothing either leaves the request without one.
FetchReturnsNothing ==
    /\ InFetch /\ ~ Upgraded
    /\ Answered(IF bun.error = "silent" THEN 0 ELSE 1, Cleared(bun))

\* An error handler that throws is asked again by the outer catch, with the
\* upgrade still pending.
FetchThrows ==
    /\ InFetch
    /\ IF bun.error = "throws" THEN Answered(1, bun)
       ELSE IF Upgraded THEN bun' = [bun EXCEPT !.count = @ + 1] /\ calls' = Handled /\ UNCHANGED handles
       ELSE Answered(1, Cleared(bun))

-----------------------------------------------------------------------------
Begins(errors, n) == /\ calls = <<>> /\ handles = <<>>
                     /\ \E e \in errors : bun = [running |-> n, pending |-> None, count |-> 0, error |-> e]
BlockingServerInit == Begins({"none", "answers", "silent"} \cup IF Fault("throwing") THEN {"throws"} ELSE {}, TRUE)
BlockingServerIdle == Begins({"none"}, FALSE)

BlockingServerNext == \/ HandleN \/ ServeReturns \/ BadRequest \/ Accept
                      \/ upgrade \/ stop \/ FetchReturns \/ FetchReturnsNothing \/ FetchThrows

UnderWay == {calls[i].h : i \in DOMAIN calls}
\* A connection that has been handled is closed after one answer, none when
\* the error handler has kept silent, or is a WebSocket; one that is being
\* handled is open and has no answer yet unless it was upgraded; and nothing
\* is left to be upgraded but that.
ConnectionsAnswered ==
    /\ \A h \in DOMAIN handles \ UnderWay :
          LET c == handles[h] IN c.ws \/ (~ c.open /\ c.answers \in (IF bun.error = "silent" THEN 0 .. 1 ELSE {1}))
    /\ \A h \in DOMAIN handles : handles[h].answers <= 1
    /\ \A h \in UnderWay \ {None} : handles[h].ws \/ (handles[h].open /\ handles[h].answers = 0)
    /\ bun.pending # None => bun.pending \in UnderWay
=============================================================================
