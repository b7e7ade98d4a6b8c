----------------------------- MODULE HttpServer -----------------------------
(***************************************************************************)
(* http.js: a Server, one of its connections in full, the IncomingMessages   *)
(* read from it and the ServerResponses written to it. A client sends a      *)
(* request as two halves of a head and units of body, cut into chunks        *)
(* anywhere, and waits for no response before it sends the next.             *)
(***************************************************************************)
EXTENDS Integers, Sequences, FiniteSets, SequencesExt

CONSTANTS MaxExchanges, MaxWrites, MaxBody,
          MaxFramed,     \* how many responses of a connection are written otherwise than by end() alone
          ServerFaults   \* "merged": a chunk goes on after the end of a request; "late": a header changes after the
                         \* head was sent; "several": connections are closed while there are others

VARIABLES conn,          \* [reads, input, asked, buf, headersTimer, requestTimer, keepTimer, open, ended, upgraded, tasks, out,
                         \*  due, overlapped, threw]
          exchanges,     \* what was read from it: a message and its response
          active,        \* _activeSockets: 1 is conn, another only open or gone
          gone

Fault(f) == f \in ServerFaults
Main == 1
None == -1

-----------------------------------------------------------------------------
(* Messages.                                                               *)

\* The constructors of IncomingMessage and ServerResponse.
Exchange(q) == [request |-> q, scope |-> None,
                listening |-> FALSE, resumed |-> FALSE, drained |-> FALSE, pending |-> <<>>, held |-> FALSE, endPending |-> FALSE, flush |-> FALSE,
                got |-> <<>>, ends |-> 0,
                empty |-> FALSE, te |-> FALSE, length |-> None, sent |-> [framing |-> "unsent", length |-> None], wrote |-> 0, calls |-> 0,
                ended |-> FALSE, finished |-> FALSE]

\* emit("end").
EmitEnd(e) == IF e.held THEN [e EXCEPT !.endPending = TRUE] ELSE [e EXCEPT !.ends = @ + 1]

_pushBody(e, body) ==
    IF body = <<>> THEN e
    ELSE IF e.held \/ ~ e.listening THEN [e EXCEPT !.held = TRUE, !.pending = @ \o body]
    ELSE [e EXCEPT !.got = @ \o body]

_schedulePending(e) == IF e.held THEN [e EXCEPT !.flush = TRUE] ELSE e

\* Mutant: the end that waited is forgotten.
FlushedOpen(e) == [e EXCEPT !.flush = FALSE, !.held = FALSE, !.pending = <<>>, !.got = IF e.listening THEN @ \o e.pending ELSE @]
\* The timer of _schedulePending.
Flushed(e) ==
    LET f == [e EXCEPT !.flush = FALSE, !.held = FALSE, !.pending = <<>>, !.endPending = FALSE,
                       !.got = IF e.listening THEN @ \o e.pending ELSE @]
    IN  IF e.endPending THEN EmitEnd(f) ELSE f

\* resume(), with nobody who listens, drops what waits.
Resumed(e) ==
    LET f == [e EXCEPT !.resumed = TRUE]
    IN  IF e.held /\ ~ e.listening THEN _schedulePending([f EXCEPT !.drained = TRUE, !.pending = <<>>]) ELSE f

-----------------------------------------------------------------------------
(* Responses.                                                              *)

Sent(e) == e.sent.framing # "unsent"
_bodyless(e) == e.request.kind = "HEAD" \/ e.empty

Body(q) == [k \in 1 .. q.body |-> k]

\* What the client makes of the head.
Framing(e) == IF _bodyless(e) THEN "none" ELSE IF e.te THEN "chunked" ELSE IF e.length # None THEN "length" ELSE "close"

\* _writeHead, with what write() and flushHeaders() add to it.
Chunked(e)  == IF ~ e.te /\ e.length = None /\ ~ _bodyless(e) THEN [e EXCEPT !.te = TRUE] ELSE e
HeadSent(e) == [e EXCEPT !.sent = [framing |-> Framing(e), length |-> e.length]]
Headed(e)   == IF ~ Sent(e) THEN HeadSent(Chunked(e)) ELSE e

\* The tokens write() puts on the socket: n is the bytes it was given.
BodyTokens(e, n) == IF _bodyless(e) \/ n = 0 THEN <<>> ELSE IF e.te THEN <<"chunk">> ELSE <<"raw">>
\* Mutant: a chunked body is closed whoever reads it.
LastTokensBare(e) == IF e.te THEN <<"last">> ELSE <<>>
LastTokens(e) == IF e.te /\ ~ _bodyless(e) THEN <<"last">> ELSE <<>>

HeadToken(e) == IF ~ Sent(e) THEN <<"head">> ELSE <<>>
\* What goes out with the head of a response that end() sends at once.
Measured(e, n) == IF e.length = None /\ ~ e.te /\ ~ _bodyless(e) THEN HeadSent([e EXCEPT !.length = n]) ELSE HeadSent(e)

Wrote(e, n)  == [Headed(e) EXCEPT !.wrote = @ + (IF _bodyless(e) THEN 0 ELSE n), !.calls = @ + 1]
Ended(e, n)  == [(IF ~ Sent(e) THEN Measured(e, n) ELSE e) EXCEPT !.wrote = @ + (IF _bodyless(e) THEN 0 ELSE n), !.ended = TRUE]

\* Of exchange i. A socket that has ended takes no more; 'finish' is due all
\* the same.
Put(i, tokens) == [k \in 1 .. Len(tokens) |-> [of |-> i, token |-> tokens[k]]]
Answers(i, e, tokens) ==
    /\ exchanges' = [exchanges EXCEPT ![i] = e]
    /\ conn' = [conn EXCEPT !.out = IF conn.open /\ ~ conn.ended THEN @ \o Put(i, tokens) ELSE @,
                            !.due = IF e.ended THEN Append(@, i) ELSE @]
    /\ UNCHANGED <<active, gone>>

-----------------------------------------------------------------------------
(* Reading requests.                                                       *)

\* External: what a client sends as its i-th request.
Units(i, q) == <<[of |-> i, unit |-> "first"], [of |-> i, unit |-> "head"]>> \o [k \in 1 .. q.body |-> [of |-> i, unit |-> k]]
Asked(buf)  == conn.asked[buf[1].of]
HeadIn(buf) == Len(buf) >= 2

\* consumeIncomingBody.
WholeIn(buf) == HeadIn(buf) /\ Len(buf) >= 2 + Asked(buf).body

\* What ends the loop before its request is given out.
Bad(buf)     == HeadIn(buf) /\ Asked(buf).kind = "BAD"
Upgrade(buf) == WholeIn(buf) /\ Asked(buf).kind = "UPGRADE"

\* The messages at the front of the buffer that are complete, and the rest.
Parse(buf) ==
    LET after[k \in 0 .. MaxExchanges] ==
            IF k = 0 THEN buf ELSE IF WholeIn(after[k - 1]) /\ ~ Bad(after[k - 1]) /\ ~ Upgrade(after[k - 1]) THEN SubSeq(after[k - 1], 3 + Asked(after[k - 1]).body, Len(after[k - 1])) ELSE after[k - 1]
        n == Cardinality({k \in 1 .. MaxExchanges : after[k] # after[k - 1]})
    IN  [done |-> [k \in 1 .. n |-> after[k - 1][1].of], rest |-> after[n]]

\* Closures made in the loop see its variables as it leaves them: what it
\* parsed last is null when the next head has only begun.
LastParsed(p) == IF p.rest = <<>> THEN Last(p.done) ELSE IF HeadIn(p.rest) THEN p.rest[1].of ELSE None
LastRequest(p) == Len(exchanges) + Len(p.done)

Waiting == \E i \in DOMAIN exchanges : ~ exchanges[i].finished

\* Mutant: the idle timer goes on while a request comes in.
ChunkTicking(c, n) == [c EXCEPT !.input = SubSeq(@, n + 1, Len(@)), !.buf = @ \o SubSeq(c.input, 1, n),
                                !.overlapped = @ \/ Waiting]
Chunk(c, n) == [c EXCEPT !.keepTimer = FALSE, !.input = SubSeq(@, n + 1, Len(@)), !.buf = @ \o SubSeq(c.input, 1, n),
                         !.overlapped = @ \/ Waiting]

Taken(c, p) ==
    [c EXCEPT !.buf = p.rest,
              !.headersTimer = @ /\ p.done = <<>> /\ ~ HeadIn(p.rest),
              !.requestTimer = @ \/ p.done # <<>> \/ HeadIn(p.rest),
              !.tasks = @ \o [k \in 1 .. Len(p.done) |-> [to |-> LastRequest(p), body |-> conn.asked[p.done[k]].body > 0]]]
New(p) == [k \in 1 .. Len(p.done) |-> [Exchange(conn.asked[p.done[k]]) EXCEPT !.scope = LastParsed(p)]]
Upgraded(c) == [c EXCEPT !.buf = <<>>, !.requestTimer = FALSE, !.upgraded = TRUE]

\* No Host: a bad request stays in the buffer, and the socket ends.
Read(c, p) ==
    /\ conn' = IF Bad(p.rest) THEN [Taken(c, p) EXCEPT !.ended = TRUE]
               ELSE IF Upgrade(p.rest) THEN Upgraded(Taken(c, p)) ELSE Taken(c, p)
    /\ exchanges' = exchanges \o New(p)

\* Nothing in the chunk belongs to the request after the one it completes.
Unmerged(p) == p.done = <<>> \/ (Len(p.done) = 1 /\ p.rest = <<>>)

\* 'data'.
Data ==
    /\ conn.open
    /\ \E n \in 1 .. Len(conn.input) :
          IF conn.upgraded THEN conn' = [conn EXCEPT !.input = SubSeq(@, n + 1, Len(@))] /\ UNCHANGED exchanges
          ELSE LET c == Chunk(conn, n)
                   p == Parse(c.buf)
               IN  (Unmerged(p) \/ (Fault("merged") /\ ~ Upgrade(p.rest))) /\ Read(c, p)
    /\ UNCHANGED <<active, gone>>

\* The listeners of a connection read their requests, and answer with end()
\* alone, or think about their responses.
Asks == IF conn.reads THEN [kind : {"GET"}, body : 0 .. MaxBody, close : {FALSE}]
        ELSE [kind : {"GET", "HEAD"}, body : {0}, close : BOOLEAN] \cup [kind : {"BAD", "UPGRADE"}, body : {0}, close : {FALSE}]
\* External: a client sends another request, whatever has become of the last.
Ask ==
    /\ conn.open /\ Len(conn.asked) < MaxExchanges
    /\ \E q \in Asks : conn' = [conn EXCEPT !.asked = Append(@, q), !.input = @ \o Units(Len(conn.asked) + 1, q)]
    /\ UNCHANGED <<exchanges, active, gone>>

-----------------------------------------------------------------------------
(* What the listener of 'request' does, at once or later.                  *)

Changes(i, e) == exchanges' = [exchanges EXCEPT ![i] = e] /\ UNCHANGED <<conn, active, gone>>

\* Mutant: it gives what came to the request read last.
TimedLast == Len(exchanges)
Timed == conn.tasks[1].to
\* The timer of 0 ms: the body and its end.
Deliver ==
    /\ conn.tasks # <<>>
    /\ LET i == Timed
           e == IF conn.tasks[1].body THEN _pushBody(exchanges[i], Body(exchanges[i].request)) ELSE exchanges[i]
       IN  exchanges' = [exchanges EXCEPT ![i] = EmitEnd(e)]
    /\ conn' = [conn EXCEPT !.tasks = Tail(@)]
    /\ UNCHANGED <<active, gone>>

Flush == \E i \in DOMAIN exchanges : exchanges[i].flush /\ Changes(i, Flushed(exchanges[i]))

Listen ==
    \E i \in DOMAIN exchanges :
        /\ conn.reads /\ ~ exchanges[i].listening
        /\ Changes(i, _schedulePending([exchanges[i] EXCEPT !.listening = TRUE]))

Resume == \E i \in DOMAIN exchanges : conn.reads /\ Changes(i, Resumed(exchanges[i]))

\* setHeader() and writeHead().
SetHead ==
    \E i \in DOMAIN exchanges \cap 1 .. MaxFramed, n \in 0 .. MaxBody :
        LET e == exchanges[i]
        IN  /\ conn.open /\ ~ conn.reads /\ ~ e.ended /\ (~ Sent(e) \/ Fault("late"))
            /\ \/ e.length = None /\ e.wrote <= n /\ Changes(i, [e EXCEPT !.length = n])
               \/ ~ e.te /\ n = 0 /\ Changes(i, [e EXCEPT !.te = TRUE])
               \/ ~ e.empty /\ n = 0 /\ Changes(i, [e EXCEPT !.empty = TRUE])

FlushHeaders ==
    \E i \in DOMAIN exchanges \cap 1 .. MaxFramed :
        LET e == exchanges[i]
        IN  conn.open /\ ~ conn.reads /\ ~ Sent(e) /\ ~ e.ended /\ Answers(i, Headed(e), <<"head">>)

\* A listener that gives a length keeps to it.
Fits(e, n) == e.length # None => e.wrote + n <= e.length
Write ==
    \E i \in DOMAIN exchanges \cap 1 .. MaxFramed, n \in 0 .. 1 :
        LET e == exchanges[i]
        IN  /\ conn.open /\ ~ conn.reads /\ ~ e.ended /\ e.calls < MaxWrites /\ Fits(e, n)
            /\ Answers(i, Wrote(e, n), HeadToken(e) \o BodyTokens(Headed(e), n))

End ==
    \E i \in DOMAIN exchanges, n \in IF conn.reads THEN {0} ELSE 0 .. 1 :
        LET e == exchanges[i]
        IN  /\ ~ e.ended /\ Fits(e, n)
            /\ (e.length # None /\ ~ _bodyless(e)) => e.wrote + n = e.length
            /\ Answers(i, Ended(e, n), HeadToken(e) \o BodyTokens(Ended(e, n), n) \o LastTokens(Ended(e, n)))

\* 'finish', once the socket has taken every byte up to the end.
Finish ==
    /\ conn.due # <<>>
    /\ LET scope == exchanges[conn.due[1]].scope
           c == [conn EXCEPT !.requestTimer = FALSE, !.due = Tail(@)]
       IN  conn' = IF scope = None THEN [c EXCEPT !.threw = TRUE]
                   ELSE IF conn.asked[scope].close THEN [c EXCEPT !.ended = TRUE] ELSE [c EXCEPT !.keepTimer = TRUE]
    /\ exchanges' = [exchanges EXCEPT ![conn.due[1]].finished = TRUE]
    /\ UNCHANGED <<active, gone>>

-----------------------------------------------------------------------------
(* The end of connections.                                                 *)

\* destroy(), and the listener of 'close'.
Closed(c) == [c EXCEPT !.open = FALSE, !.headersTimer = FALSE, !.requestTimer = FALSE, !.input = <<>>]
CloseMain == conn.open /\ conn' = Closed(conn) /\ active' = SelectSeq(active, LAMBDA x : x # Main) /\ UNCHANGED <<exchanges, gone>>

HeadersTimeout == conn.headersTimer /\ CloseMain
RequestTimeout == conn.requestTimer /\ CloseMain
KeepTimeout    == conn.keepTimer /\ CloseMain

\* External: the client closes.
ClientCloses == conn.asked # <<>> /\ CloseMain

\* Each destroy() takes its socket out of the list while it is walked.
Walked(seq, goes(_)) ==
    LET at[k \in 0 .. Len(seq)] ==
            IF k = 0 THEN [seq |-> seq, i |-> 1]
            ELSE IF at[k - 1].i > Len(at[k - 1].seq) THEN at[k - 1]
            ELSE [seq |-> IF goes(at[k - 1].seq[at[k - 1].i]) THEN RemoveAt(at[k - 1].seq, at[k - 1].i) ELSE at[k - 1].seq,
                  i |-> at[k - 1].i + 1]
    IN  at[Len(seq)].seq
Leave(left) ==
    /\ gone' = gone \cup (ToSet(active) \ (ToSet(left) \cup {Main}))
    /\ conn' = IF Main \in ToSet(active) \ ToSet(left) THEN Closed(conn) ELSE conn
    /\ UNCHANGED exchanges
CloseAllConnections ==
    /\ active # <<>> /\ (Len(active) > 1 => Fault("several"))
    /\ Leave(Walked(active, LAMBDA x : TRUE)) /\ active' = <<>>

CloseIdleConnections ==
    /\ conn.keepTimer /\ Main \in ToSet(active) /\ (Len(active) > 1 => Fault("several"))
    /\ LET left == Walked(active, LAMBDA x : TRUE) IN Leave(left) /\ active' = left

-----------------------------------------------------------------------------
Connection(o, reads) == [reads |-> reads, input |-> <<>>, asked |-> <<>>, buf |-> <<>>, headersTimer |-> o, requestTimer |-> FALSE, keepTimer |-> FALSE,
                  open |-> o, ended |-> FALSE, upgraded |-> FALSE, tasks |-> <<>>, out |-> <<>>,
                  due |-> <<>>, overlapped |-> FALSE, threw |-> FALSE]
Begins(o, reads, list) == conn = Connection(o, reads) /\ exchanges = <<>> /\ active = list /\ gone = {1, 2} \ (ToSet(list) \cup {Main})
HttpServerInit == \E reads \in BOOLEAN : Begins(TRUE, reads, IF Fault("several") THEN <<1, 2>> ELSE <<1>>)
HttpServerIdle == Begins(FALSE, FALSE, <<>>)

HttpServerNext ==
    \/ Ask \/ Data \/ Deliver \/ Flush \/ Listen \/ Resume \/ SetHead \/ FlushHeaders \/ Write \/ End \/ Finish
    \/ HeadersTimeout \/ RequestTimeout \/ KeepTimeout \/ ClientCloses \/ CloseAllConnections \/ CloseIdleConnections

HttpServerSpec == HttpServerInit /\ [][HttpServerNext]_<<conn, exchanges, active, gone>>

-----------------------------------------------------------------------------
Settled(i) == ~ exchanges[i].flush /\ \A k \in DOMAIN conn.tasks : conn.tasks[k].to # i

\* Whoever reads a message sees its body once and whole, unless he had it
\* dropped, then one end, whatever other messages of the connection do; with
\* nobody to read it, the end of a message waits only for a body that waits.
MessagesRead ==
    \A i \in DOMAIN exchanges :
        LET e == exchanges[i]
        IN  /\ e.ends <= 1
            /\ e.ends = 1 => e.got = Body(e.request) \/ (e.drained /\ e.got = <<>>)
            /\ (Settled(i) /\ (e.listening \/ e.drained \/ ~ e.held)) => e.ends = 1

\* What resume() promises (http.js:446): a caller that resumes a message just
\* to finish it still sees its end.
ResumedEnds == \A i \in DOMAIN exchanges : (Settled(i) /\ exchanges[i].resumed) => exchanges[i].ends = 1

Tokens(i) == SelectSeq(conn.out, LAMBDA x : x.of = i)
BodyOf(i) == SelectSeq(Tokens(i), LAMBDA x : x.token \in {"chunk", "raw"})
\* What is on the wire of a response says its own end, and what was written
\* is in it, however the responses of a connection take turns. (The code does
\* not put them in the order of their requests, nor keep them apart.)
ResponsesFramed ==
    \A i \in DOMAIN exchanges :
          LET e == exchanges[i]
          IN  (conn.open /\ ~ conn.ended /\ e.ended) =>
                  /\ Tokens(i)[1].token = "head"
                  /\ Len(BodyOf(i)) = e.wrote
                  /\ CASE e.sent.framing = "none"    -> Len(Tokens(i)) = 1
                       [] e.sent.framing = "chunked" -> /\ \A k \in DOMAIN BodyOf(i) : BodyOf(i)[k].token = "chunk"
                                                        /\ Last(Tokens(i)).token = "last" /\ Len(Tokens(i)) = e.wrote + 2
                       [] e.sent.framing = "length"  -> e.sent.length = e.wrote /\ Len(Tokens(i)) = e.wrote + 1
                       [] OTHER -> FALSE

\* While an open connection waits for a head, a body or a response, a timer
\* that would end it runs, and none that would end it early does, unless a
\* request came while a response was due: the first of them to finish then
\* stops the timer of both and starts the idle one. A connection is closed when
\* it leaves the list, and every response finishes as its own request asked.
TimersRight ==
    /\ (conn.open /\ ~ conn.upgraded /\ ~ conn.overlapped /\ (Waiting \/ HeadIn(conn.buf))) => conn.requestTimer
    /\ (conn.open /\ ~ conn.overlapped /\ conn.keepTimer) => ~ Waiting /\ conn.buf = <<>>
    /\ (conn.open /\ conn.asked = <<>>) => conn.headersTimer
    /\ conn.open <=> Main \in ToSet(active)
    /\ 2 \in ToSet(active) \cup gone
    /\ ~ conn.threw
=============================================================================
