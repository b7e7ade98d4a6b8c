-------------------------------- MODULE Fetch --------------------------------
(***************************************************************************)
(* fetch.js: fetch(), the pool of kept connections, abort signals and the   *)
(* body as a stream.                                                       *)
(*                                                                         *)
(* One action per function or callback.  A connection carries items, in the *)
(* order the server sends them: <<request, part, reply>>, of the head, the  *)
(* chunks of the body and, of a chunked one, the line "0" and the empty     *)
(* line after it.  A read takes any number of the items that have come, so  *)
(* a segment may end anywhere between two of them.                          *)
(***************************************************************************)
EXTENDS EventLoop, FiniteSets, SequencesExt

CONSTANTS Requests,      \* calls of fetch()
          SignalOf,      \* [Requests -> signals]: the AbortSignal each is given
          Worlds,        \* [origin, replies]: the origin (host, port and scheme) of
                         \* each request's URL, and how the server of an origin may
                         \* answer: sets of [framing, gz, to, close]
          Http2,         \* origins whose server takes "h2" from ALPN
          Handles,       \* sockets the program may open
          BodyLen,       \* chunks of a body
          MaxFree,       \* maxSocketsPerOrigin
          MaxRedirects,  \* 20 in the code
          Whole,         \* the end of a chunked body comes in one segment
          Faults,        \* what may go wrong: a connection is refused, cut, or cut
                         \* while idle; a fetch is aborted, before its response or late
          MaxFaults

ASSUME FetchAssumption ==
    /\ BodyLen \in Nat /\ MaxFree \in Nat /\ MaxRedirects \in Nat /\ MaxFaults \in Nat
    /\ 0 \notin Handles /\ \A r \in Requests : SignalOf[r] # "faults"
    /\ Faults \subseteq {"refuse", "cut", "idle", "abort", "late"}
    /\ \A w \in Worlds : \A o \in DOMAIN w.replies : \A reply \in w.replies[o] : reply.framing \in {"length", "chunked", "close"}

VARIABLES req,      \* per request, the closure of its hop, and how it was answered
          conn,     \* per handle, the socket and what is on its way
          pool,     \* _globalPool
          body,     \* per hop, the controller of its body's stream
          signal,   \* per signal, whether it is aborted, and its listeners
          world     \* which of Worlds this is

fetchVars == <<req, conn, pool, body, signal, world, stack, ticks, jobs, phase>>

Signals == {SignalOf[r] : r \in Requests}
Nobody  == 0
Hop(r)  == <<r, req[r].hop>>
Aborted(r) == signal[SignalOf[r]].aborted
Faulty(f)  == f \in Faults /\ signal.faults < MaxFaults

-----------------------------------------------------------------------------
(* ConnectionPool.                                                         *)

\* _closeHandle; a pending read of the handle is never answered.
Closed(c, h) == IF h = Nobody THEN c ELSE [c EXCEPT ![h].status = "closed"]

\* Where the idle sockets of an origin are; the last one in is the first one
\* out, and its idle timer is cleared.
Idling(o) == {i \in DOMAIN pool.free : conn[pool.free[i]].origin = o}
Kept(o)   == {pool.free[i] : i \in {j \in Idling(o) : \A k \in Idling(o) : k <= j}}

\* splice, at the place of an entry that is in the list once.
Place(s, e)   == CHOOSE i \in DOMAIN s : s[i] = e
Without(s, e) == IF e \in ToSet(s) THEN RemoveAt(s, Place(s, e)) ELSE s

\* Mutant: the timer of the entry is left running.
AcquireTimed(h) ==
    pool' = [pool EXCEPT !.free = Without(@, h), !.active = @ + 1]

Acquire(h) ==
    pool' = [pool EXCEPT !.free = Without(@, h), !.timers = @ \ {h}, !.active = @ + 1]

TrackActive == pool' = [pool EXCEPT !.active = @ + 1]

\* Mutant: the limit of idle sockets is not looked at.
ReleaseAlways(h, serverClose) ==
    LET left == IF pool.active > 0 THEN pool.active - 1 ELSE 0
        keep == ~ serverClose /\ h # Nobody
    IN  /\ pool' = IF keep THEN [pool EXCEPT !.active = left, !.free = Append(@, h),
                                             !.timers = @ \cup {h}]
                   ELSE [pool EXCEPT !.active = left]
        /\ conn' = IF keep THEN conn ELSE Closed(conn, h)

Release(h, serverClose) ==
    LET left == IF pool.active > 0 THEN pool.active - 1 ELSE 0
        keep == ~ serverClose /\ h # Nobody /\ Cardinality(Idling(conn[h].origin)) < MaxFree
    IN  /\ pool' = IF keep THEN [pool EXCEPT !.active = left, !.free = Append(@, h),
                                             !.timers = @ \cup {h}]
                   ELSE [pool EXCEPT !.active = left]
        /\ conn' = IF keep THEN conn ELSE Closed(conn, h)

\* The idle timer closes its socket, in the pool or not.
Evict ==
    \E h \in pool.timers :
        /\ Enter(<<>>) /\ UNCHANGED <<req, body, signal>>
        /\ pool' = [pool EXCEPT !.free = Without(@, h), !.timers = @ \ {h}]
        /\ conn' = Closed(conn, h)

-----------------------------------------------------------------------------
(* AbortSignal.                                                            *)

Unheard(aborted, faults) ==
    [s \in Signals \cup {"faults"} |->
        IF s = "faults" THEN faults ELSE [aborted |-> aborted, listeners |-> <<>>]]

\* A hop has one listener, from its beginning to its end.
Listen(r)   == signal' = [signal EXCEPT ![SignalOf[r]].listeners = Append(@, r)]
Unlisten(r) == signal' = [signal EXCEPT ![SignalOf[r]].listeners = Without(@, r)]

\* abort() of its controller, or the timer of AbortSignal.timeout.  (Without
\* "late" only before any of a response has come.)
AbortSignal ==
    \E s \in Signals :
        /\ ~ signal[s].aborted /\ "abort" \in Faults
        /\ \/ "late" \in Faults
           \/ /\ \A r \in Requests : SignalOf[r] = s => req[r].pc \in {"connecting", "headers"}
              /\ \A b \in DOMAIN body : SignalOf[b[1]] = s => body[b].state # "open"
        /\ signal' = [signal EXCEPT ![s].aborted = TRUE]
        /\ Enter(<<<<"_fire", s, 1>>>>) /\ UNCHANGED <<req, conn, pool, body>>

\* Mutant: the last listener is left out.
FireShort ==
    /\ Calling("_fire") /\ Now /\ UNCHANGED <<req, conn, pool, body, signal>>
    /\ LET listeners == signal[Arg(1)].listeners
           i         == Arg(2)
       IN  Then(IF i >= Len(listeners) THEN <<>>
                ELSE <<<<"_abortNow", listeners[i], "AbortError">>, <<"_fire", Arg(1), i + 1>>>>)

\* The list is read anew for each listener.
Fire ==
    /\ Calling("_fire") /\ Now /\ UNCHANGED <<req, conn, pool, body, signal>>
    /\ LET listeners == signal[Arg(1)].listeners
           i         == Arg(2)
       IN  Then(IF i > Len(listeners) THEN <<>>
                ELSE <<<<"_abortNow", listeners[i], "AbortError">>, <<"_fire", Arg(1), i + 1>>>>)

-----------------------------------------------------------------------------
(* fetch() and its hops.                                                   *)

Fetch ==
    \E r \in Requests :
        /\ req[r].pc = "idle" /\ UNCHANGED <<conn, pool, body, signal>>
        /\ req' = [req EXCEPT ![r].pc = "fired"]
        /\ Enter(<<IF Aborted(r) THEN <<"done", r, "AbortError">> ELSE <<"_fetchFollow", r>>>>)

\* Mutant: a redirect that finds the signal aborted is dropped.
FetchFollowSilent ==
    /\ Calling("_fetchFollow") /\ Now /\ UNCHANGED <<req, conn, pool, body, signal>>
    /\ LET r == Arg(1)
       IN  Then(IF req[r].hop > MaxRedirects THEN <<>> ELSE <<<<"_fetchOne", r>>>>)

FetchFollow ==
    /\ Calling("_fetchFollow") /\ Now /\ UNCHANGED <<req, conn, pool, body, signal>>
    /\ LET r == Arg(1)
       IN  Then(<<IF req[r].hop > MaxRedirects THEN <<"done", r, "Too many redirects">>
                  ELSE IF Aborted(r) THEN <<"done", r, "AbortError">>
                  ELSE <<"_fetchOne", r>>>>)

\* What the server sends for this hop.  A connection it has closed answers
\* nothing, and one that speaks HTTP/2 does not understand the request.
Terminal(b, reply) ==
    IF reply.framing # "chunked" THEN <<>>
    ELSE IF Whole THEN <<<<b, "last", reply>>>> ELSE <<<<b, "zero", reply>>, <<b, "crlf", reply>>>>
Response(b, reply) ==
    <<<<b, "head", reply>>>> \o [i \in 1 .. BodyLen |-> <<b, "data", reply>>] \o Terminal(b, reply)

Asked(c, h, b, reply) ==
    IF c[h].eof THEN c
    ELSE [c EXCEPT ![h] = [c[h] EXCEPT
             !.coming = IF c[h].h2 THEN <<>> ELSE @ \o Response(b, reply),
             !.eof    = reply.close \/ reply.framing = "close" \/ c[h].h2]]

\* A hop over HTTP or HTTPS: a kept socket is written to at once.
FetchOne ==
    /\ Calling("_fetchOne") /\ UNCHANGED body
    /\ LET r == Arg(1)
           o == req[r].origin
       IN  /\ Listen(r) /\ Then(<<>>) /\ Now
           /\ \/ \E h \in Kept(o) :
                   /\ Acquire(h)
                   /\ req' = [req EXCEPT ![r] = [req[r] EXCEPT !.pc = "headers", !.handle = h,
                                                    !.reused = TRUE, !.acc = <<>>]]
                   /\ \E reply \in world.replies[o] : conn' = Asked(conn, h, Hop(r), reply)
              \/ /\ Idling(o) = {} /\ TrackActive
                 /\ req' = [req EXCEPT ![r] = [req[r] EXCEPT !.pc = "connecting",
                                 !.handle = Nobody, !.reused = FALSE,
                                 !.dialing = @ \cup {req[r].hop}]]
                 /\ UNCHANGED conn

\* tcpConnectNb, tlsConnectNb have an answer; the hop may be over by then.
NewHandle == {h \in Handles : conn[h].status = "unused"}

\* Mutant: the answer is taken though the hop is over.
ConnectFailsLate ==
    \E r \in Requests : \E hop \in req[r].dialing :
        /\ Faulty("refuse") /\ UNCHANGED <<conn, pool, body>>
        /\ signal' = [signal EXCEPT !.faults = @ + 1]
        /\ req' = [req EXCEPT ![r].dialing = @ \ {hop}]
        /\ Enter(<<<<"done", r, "ECONNREFUSED">>>>)

ConnectFails ==
    \E r \in Requests : \E hop \in req[r].dialing :
        /\ Faulty("refuse") /\ UNCHANGED <<conn, pool, body>>
        /\ signal' = [signal EXCEPT !.faults = @ + 1]
        /\ req' = [req EXCEPT ![r].dialing = @ \ {hop}]
        /\ Enter(IF req[r].pc # "connecting" \/ req[r].hop # hop THEN <<>>
                 ELSE <<<<"_abortNow", r, "ECONNREFUSED">>>>)

Connected ==
    \E r \in Requests : \E hop \in req[r].dialing : \E reply \in world.replies[req[r].origin] :
        /\ NewHandle # {} /\ UNCHANGED <<pool, body>>
        /\ LET h     == CHOOSE h \in NewHandle : TRUE
               fired == req[r].pc # "connecting" \/ req[r].hop # hop
               h2    == req[r].origin \in Http2
               open  == [conn EXCEPT ![h] = [@ EXCEPT !.status = "open", !.h2 = h2,
                                                      !.origin = req[r].origin]]
           IN  /\ conn' = IF fired THEN Closed(open, h)
                          ELSE IF h2 THEN [open EXCEPT ![h].coming = Response(<<r, hop>>, reply)]
                          ELSE Asked(open, h, <<r, hop>>, reply)
               /\ req' = [req EXCEPT ![r] =
                             IF fired THEN [req[r] EXCEPT !.dialing = @ \ {hop}]
                             ELSE [req[r] EXCEPT !.dialing = @ \ {hop}, !.handle = h,
                                      !.acc = <<>>, !.pc = IF h2 THEN "h2" ELSE "headers"]]
               /\ IF h2 /\ ~ fired THEN Unlisten(r) ELSE UNCHANGED signal
               /\ Enter(<<>>)

AbortNow ==
    /\ Calling("_abortNow") /\ Now /\ UNCHANGED body
    /\ LET r == Arg(1)
       IN  IF req[r].pc \notin {"connecting", "headers"}
           THEN Then(<<>>) /\ UNCHANGED <<req, conn, pool, signal>>
           ELSE /\ Then(<<<<"done", r, Arg(2)>>>>) /\ Unlisten(r)
                /\ req' = [req EXCEPT ![r] = [req[r] EXCEPT !.pc = "fired", !.handle = Nobody]]
                /\ conn' = Closed(conn, req[r].handle)
                /\ pool' = IF req[r].reused /\ pool.active > 0
                           THEN [pool EXCEPT !.active = @ - 1] ELSE pool

\* The promise of fetch().
Done ==
    /\ Calling("done") /\ Now /\ Then(<<>>) /\ UNCHANGED <<conn, pool, body, signal>>
    /\ req' = [req EXCEPT ![Arg(1)] = [req[Arg(1)] EXCEPT !.pc = "settled",
                                           !.answers = Append(@, Arg(2))]]

-----------------------------------------------------------------------------
(* The response.                                                           *)

\* The head, and the empty line at the end of a chunked body, end in CRLFCRLF.
EndsHeaders(item) == item[2] \in {"head", "last"}

\* _asyncReadHeadersBinary: what came after the head is the body's prefix.  At
\* the end of the connection the socket is left open and the pool untold.
ReadHeaders ==
    \E r \in Requests :
        LET h == req[r].handle
            c == conn[h]
        IN  /\ req[r].pc = "headers" /\ c.status = "open" /\ UNCHANGED <<pool, body>>
            /\ \/ \E k \in 1 .. Len(c.coming) :
                     LET acc == req[r].acc \o SubSeq(c.coming, 1, k)
                         at  == SelectInSeq(acc, EndsHeaders)
                     IN  /\ conn' = [conn EXCEPT ![h].coming = SubSeq(@, k + 1, Len(@))]
                         /\ IF at = 0
                            THEN /\ req' = [req EXCEPT ![r].acc = acc]
                                 /\ Enter(<<>>) /\ UNCHANGED signal
                            ELSE /\ Unlisten(r)
                                 /\ req' = [req EXCEPT ![r] = [req[r] EXCEPT !.pc = "fired",
                                       !.acc = <<>>, !.heads = Append(@, SubSeq(acc, 1, at))]]
                                 /\ Enter(<<<<"_buildStreamingResponse", r, acc[at],
                                             SubSeq(acc, at + 1, Len(acc))>>>>)
               \/ /\ c.coming = <<>> /\ c.eof /\ UNCHANGED conn /\ Unlisten(r)
                  /\ req' = [req EXCEPT ![r] = [req[r] EXCEPT !.pc = "fired", !.handle = Nobody]]
                  /\ Enter(<<<<"done", r, "ECONNRESET">>>>)

\* A block of headers that is none has no status and no length.
NoReply == [framing |-> "close", gz |-> FALSE, to |-> "none", close |-> FALSE]

\* A stream for the body of this hop, and its controller.
NewBody(h, reply) ==
    [handle |-> h, reply |-> reply, left |-> BodyLen, acc |-> <<>>,
     queue |-> <<>>, waiting |-> FALSE, reading |-> FALSE, state |-> "open",
     got |-> <<>>, text |-> "unread"]
WithBody(r, reply) ==
    body' = [b \in DOMAIN body \cup {Hop(r)} |->
                IF b = Hop(r) THEN NewBody(req[r].handle, reply) ELSE body[b]]

\* Mutant: the body of a redirect is not read.
BuildStreamingResponseUnread ==
    /\ Calling("_buildStreamingResponse") /\ Now /\ UNCHANGED <<conn, pool, signal>>
    /\ LET r     == Arg(1)
           reply == IF Arg(2)[2] = "head" /\ Arg(2)[1] = Hop(r) THEN Arg(2)[3] ELSE NoReply
       IN  /\ WithBody(r, reply)
           /\ req' = [req EXCEPT ![r].handle = Nobody]
           /\ Then(IF reply.to # "none"
                   THEN <<<<"onDone", Hop(r), "closed">>, <<"_handleFetchResponse", r, reply>>>>
                   ELSE <<<<"_handleFetchResponse", r, reply>>,
                          <<"_asyncStreamBody", Hop(r), Arg(3)>>>>)

BuildStreamingResponse ==
    /\ Calling("_buildStreamingResponse") /\ Now /\ UNCHANGED <<conn, pool, signal>>
    /\ LET r     == Arg(1)
           reply == IF Arg(2)[2] = "head" /\ Arg(2)[1] = Hop(r) THEN Arg(2)[3] ELSE NoReply
       IN  /\ WithBody(r, reply)
           /\ req' = [req EXCEPT ![r].handle = Nobody]
           /\ Then(<<<<"_handleFetchResponse", r, reply>>,
                     <<"_asyncStreamBody", Hop(r), Arg(3)>>>>)

\* A redirect is followed while the body of this hop is still read.
HandleFetchResponse ==
    /\ Calling("_handleFetchResponse") /\ Now /\ UNCHANGED <<conn, pool, body, signal>>
    /\ LET r  == Arg(1)
           to == Arg(2).to
       IN  IF to # "none"
           THEN /\ req' = [req EXCEPT ![r] = [req[r] EXCEPT !.hop = @ + 1, !.origin = to]]
                /\ Then(<<<<"_fetchFollow", r>>>>)
           ELSE Then(<<<<"done", r, "response">>>>) /\ UNCHANGED req

-----------------------------------------------------------------------------
(* ReadableStreamDefaultController, its reader and Response.text().         *)

\* enqueue, of one or more chunks: a read that waits has the first.
Enqueued(bd, items) ==
    IF bd.state # "open" \/ items = <<>> THEN bd
    ELSE IF bd.waiting
    THEN [bd EXCEPT !.waiting = FALSE, !.got = Append(@, Head(items)), !.queue = @ \o Tail(items)]
    ELSE [bd EXCEPT !.queue = @ \o items]

\* close and error, which settle the read that waits.
Ended(bd, state, text) ==
    IF bd.state # "open" THEN bd
    ELSE [bd EXCEPT !.state = state, !.waiting = FALSE, !.text = IF bd.waiting THEN text ELSE @]

\* The reader that waited goes on in a reaction.
Wakes(b, bd) == IF body[b].waiting /\ ~ bd.waiting /\ bd.text = "reading"
                THEN React(<<<<"pump", b>>>>) ELSE Now

\* The program asks for the body of the response, sooner or later.
Text ==
    \E r \in Requests :
        /\ req[r].pc = "settled" /\ Hop(r) \in DOMAIN body /\ body[Hop(r)].text = "unread"
        /\ body' = [body EXCEPT ![Hop(r)].text = "reading"]
        /\ Enter(<<<<"pump", Hop(r)>>>>) /\ UNCHANGED <<req, conn, pool, signal>>

\* _pull, from _drainStream's loop.
Pull ==
    /\ Calling("pump") /\ Then(<<>>) /\ UNCHANGED <<req, conn, pool, signal>>
    /\ LET b  == Arg(1)
           bd == body[b]
       IN  IF bd.state # "errored" /\ bd.queue # <<>>
           THEN /\ body' = [body EXCEPT ![b] = [bd EXCEPT !.got = Append(@, Head(bd.queue)),
                                                      !.queue = Tail(@)]]
                /\ React(<<<<"pump", b>>>>)
           ELSE /\ body' = [body EXCEPT ![b] = [bd EXCEPT !.waiting = bd.state = "open",
                                        !.text = IF bd.state = "open" THEN @ ELSE bd.state]]
                /\ Now

-----------------------------------------------------------------------------
(* Reading the body from the socket.                                       *)

\* Mutant: what came with the head is asked for a second time.
AsyncStreamBodyAgain ==
    /\ Calling("_asyncStreamBody") /\ UNCHANGED <<req, conn, pool, signal>>
    /\ LET b      == Arg(1)
           prefix == Arg(2)
           bd     == body[b]
           new    == IF bd.reply.framing = "chunked" THEN [bd EXCEPT !.acc = <<>>]
                     ELSE [Enqueued(bd, prefix) EXCEPT !.left = BodyLen - Len(prefix)]
       IN  /\ body' = [body EXCEPT ![b] = new] /\ Wakes(b, new)
           /\ Then(<<IF bd.reply.framing = "chunked" THEN <<"chunks", b, FALSE>> ELSE <<"more", b>>>>)

\* _asyncStreamBody: the framing and the encoding choose the loop.
AsyncStreamBody ==
    /\ Calling("_asyncStreamBody") /\ UNCHANGED <<req, conn, pool, signal>>
    /\ LET b      == Arg(1)
           prefix == Arg(2)
           bd     == body[b]
           new    == IF bd.reply.framing = "chunked" THEN [bd EXCEPT !.acc = prefix]
                     ELSE [Enqueued(bd, prefix) EXCEPT !.left = BodyLen - Len(prefix)]
       IN  /\ body' = [body EXCEPT ![b] = new] /\ Wakes(b, new)
           /\ Then(<<IF bd.reply.framing = "chunked" THEN <<"chunks", b, FALSE>> ELSE <<"more", b>>>>)

\* The loops ask for more, unless they have all or were aborted.
AskForMore ==
    /\ Calling("more") /\ Now /\ UNCHANGED <<req, conn, pool, signal>>
    /\ LET b == Arg(1)
           full == body[b].reply.framing = "length" /\ body[b].left <= 0
       IN  IF full THEN Then(<<<<"onDone", b, "closed">>>>) /\ UNCHANGED body
           ELSE IF Aborted(b[1]) THEN Then(<<<<"onDone", b, "errored">>>>) /\ UNCHANGED body
           ELSE Then(<<>>) /\ body' = [body EXCEPT ![b].reading = TRUE]

\* A read of at most what the body still lacks.
Wanted(b) == IF body[b].reply.framing = "length" THEN body[b].left ELSE 2 * BodyLen + 3

SocketAnswers ==
    \E b \in DOMAIN body :
        LET c  == conn[body[b].handle]
            h  == body[b].handle
            fn == IF body[b].reply.framing = "chunked" THEN "arrived" ELSE "data"
        IN  /\ body[b].reading /\ c.status = "open" /\ UNCHANGED <<req, pool, signal>>
            /\ body' = [body EXCEPT ![b].reading = FALSE]
            /\ \/ \E k \in 1 .. Len(c.coming) :
                     /\ k <= Wanted(b)
                     /\ conn' = [conn EXCEPT ![h].coming = SubSeq(@, k + 1, Len(@))]
                     /\ Enter(<<<<fn, b, SubSeq(c.coming, 1, k), FALSE>>>>)
               \/ c.coming = <<>> /\ c.eof /\ Enter(<<<<fn, b, <<>>, TRUE>>>>) /\ UNCHANGED conn

\* By length, or until the connection ends; inflated on the way if it must be.
StreamBody ==
    /\ Calling("data") /\ UNCHANGED <<req, conn, pool, signal>>
    /\ LET b     == Arg(1)
           items == Arg(2)
           new   == [Enqueued(body[b], items) EXCEPT !.left = @ - Len(items)]
           over  == Arg(3) \/ (new.reply.framing = "length" /\ new.left <= 0)
       IN  /\ body' = [body EXCEPT ![b] = new] /\ Wakes(b, new)
           /\ Then(<<IF over THEN <<"onDone", b, "closed">> ELSE <<"more", b>>>>)

\* Chunked: what has come is taken apart; after the line "0" no more is read.
Arrived ==
    /\ Calling("arrived") /\ Now /\ UNCHANGED <<req, conn, pool, signal>>
    /\ body' = [body EXCEPT ![Arg(1)].acc = @ \o Arg(2)]
    /\ Then(<<IF Arg(3) THEN <<"flush", Arg(1)>> ELSE <<"chunks", Arg(1)>>>>)

EndsChunks(item) == item[2] \in {"zero", "last"}

StreamChunked ==
    /\ Calling("chunks") /\ ~ body[Arg(1)].reply.gz /\ UNCHANGED <<req, conn, pool, signal>>
    /\ LET b   == Arg(1)
           acc == body[b].acc
           at  == SelectInSeq(acc, EndsChunks)
           new == [Enqueued(body[b], SubSeq(acc, 1, IF at = 0 THEN Len(acc) ELSE at - 1))
                      EXCEPT !.acc = <<>>]
       IN  /\ body' = [body EXCEPT ![b] = new] /\ Wakes(b, new)
           /\ Then(<<IF at = 0 THEN <<"more", b>> ELSE <<"onDone", b, "closed">>>>)

\* A compressed one is collected first.
StreamChunkedAccum ==
    /\ Calling("chunks") /\ body[Arg(1)].reply.gz /\ Now /\ UNCHANGED <<req, conn, pool, signal>>
    /\ LET b  == Arg(1)
           at == SelectInSeq(body[b].acc, EndsChunks)
       IN  /\ body' = [body EXCEPT ![b].acc = IF at = 0 THEN @ ELSE SubSeq(@, 1, at - 1)]
           /\ Then(<<IF at = 0 THEN <<"more", b>> ELSE <<"flush", b>>>>)

\* Whatever was collected is inflated and passed on, also at a premature end.
DecompressAndEnqueue ==
    /\ Calling("flush") /\ UNCHANGED <<req, conn, pool, signal>>
    /\ LET b   == Arg(1)
           new == [Enqueued(body[b], IF body[b].reply.gz THEN body[b].acc ELSE <<>>)
                      EXCEPT !.acc = <<>>]
       IN  /\ body' = [body EXCEPT ![b] = new] /\ Wakes(b, new)
           /\ Then(<<<<"onDone", b, "closed">>>>)

\* The stream ends and the socket goes back to the pool, after an error too.
OnDone ==
    /\ Calling("onDone") /\ Then(<<>>) /\ UNCHANGED <<req, signal>>
    /\ LET b   == Arg(1)
           new == Ended(body[b], Arg(2), Arg(2))
       IN  /\ body' = [body EXCEPT ![b] = new] /\ Now
           /\ Release(body[b].handle, body[b].reply.close)

\* HTTP/2: the whole response is collected, and nobody looks at the signal.
H2Fetch ==
    \E r \in Requests :
        LET h == req[r].handle
            c == conn[h]
        IN  /\ req[r].pc = "h2" /\ UNCHANGED <<req, pool, body, signal>>
            /\ c.coming # <<>> \/ c.eof
            /\ conn' = [conn EXCEPT ![h].coming = <<>>]
            /\ Enter(<<<<"h2Done", r>>>>)

\* The session ends, and its connection is kept like any other.
H2Done ==
    /\ Calling("h2Done") /\ Now /\ UNCHANGED <<body, signal>>
    /\ LET r == Arg(1)
       IN  /\ Release(req[r].handle, FALSE)
           /\ req' = [req EXCEPT ![r] = [req[r] EXCEPT !.pc = "fired", !.handle = Nobody]]
           /\ Then(<<<<"done", r, "response">>>>)

-----------------------------------------------------------------------------
(* The server goes away: what was on its way is lost from some point on.    *)

Cut ==
    \E h \in Handles :
        /\ Faulty("cut") \/ (Faulty("idle") /\ h \in ToSet(pool.free))
        /\ conn[h].status = "open" /\ ~ conn[h].eof
        /\ \E k \in 0 .. Len(conn[h].coming) :
              conn' = [conn EXCEPT ![h] = [conn[h] EXCEPT !.coming = SubSeq(@, 1, k), !.eof = TRUE]]
        /\ signal' = [signal EXCEPT !.faults = @ + 1]
        /\ Enter(<<>>) /\ UNCHANGED <<req, pool, body>>

-----------------------------------------------------------------------------

FetchInit ==
    /\ world \in Worlds
    /\ req = [r \in Requests |->
                 [pc |-> "idle", hop |-> 0, origin |-> world.origin[r], handle |-> Nobody,
                  reused |-> FALSE, dialing |-> {}, acc |-> <<>>, heads |-> <<>>,
                  answers |-> <<>>]]
    /\ conn = [h \in Handles |-> [status |-> "unused", coming |-> <<>>, eof |-> FALSE,
                                  h2 |-> FALSE, origin |-> "none"]]
    /\ pool = [free |-> <<>>, timers |-> {}, active |-> 0]
    /\ body = <<>>
    /\ signal = Unheard(FALSE, 0)
    /\ LoopInit(<<>>)

FetchCalled ==
    \/ Fire \/ FetchFollow \/ FetchOne \/ AbortNow \/ Done \/ BuildStreamingResponse
    \/ HandleFetchResponse \/ Pull \/ AsyncStreamBody \/ AskForMore \/ StreamBody \/ Arrived
    \/ StreamChunked \/ StreamChunkedAccum \/ DecompressAndEnqueue \/ OnDone
    \/ H2Done \/ (Drain /\ UNCHANGED <<req, conn, pool, body, signal>>)

FetchNext ==
    /\ UNCHANGED world
    /\ \/ FetchCalled \/ Evict \/ AbortSignal \/ Fetch \/ ConnectFails \/ Connected
       \/ ReadHeaders \/ Text \/ SocketAnswers \/ H2Fetch \/ Cut

FetchFair ==
    /\ WF_fetchVars(FetchCalled /\ UNCHANGED world) /\ WF_fetchVars(Fetch /\ UNCHANGED world)
    /\ WF_fetchVars(AbortSignal /\ UNCHANGED world) /\ WF_fetchVars(Connected /\ UNCHANGED world)
    /\ WF_fetchVars(H2Fetch /\ UNCHANGED world) /\ WF_fetchVars(SocketAnswers /\ UNCHANGED world)

FetchSpec == FetchInit /\ [][FetchNext]_fetchVars /\ FetchFair

-----------------------------------------------------------------------------
\* A response is made of what the server sent for this very request, and
\* text() yields its chunks in order, all of them unless it fails.
OwnAnswer ==
    /\ \A r \in Requests : \A i \in DOMAIN req[r].heads :
           req[r].heads[i][1] = <<<<r, i - 1>>, "head", req[r].heads[i][1][3]>>
    /\ \A b \in DOMAIN body :
           /\ \A i \in DOMAIN body[b].got : body[b].got[i] = <<b, "data", body[b].reply>>
           /\ body[b].text = "closed" => Len(body[b].got) = BodyLen

\* A socket belongs to one fetch, one body or the pool, never to two of them,
\* and whoever holds it finds it open.
InUse(h) == Cardinality({r \in Requests : req[r].handle = h})
            + Cardinality({b \in DOMAIN body : body[b].handle = h /\ body[b].state = "open"})
            + Cardinality({i \in DOMAIN pool.free : pool.free[i] = h})
OneOwner ==
    \A h \in Handles : /\ InUse(h) <= 1
                       /\ InUse(h) = 1 => conn[h].status = "open"

\* The idle sockets of an origin are limited.
IdleBounded == \A h \in Handles : conn[h].status = "open" => Cardinality(Idling(conn[h].origin)) <= MaxFree

\* A kept socket has one owner, and no more than maxSocketsPerOrigin are kept.
PoolKept == OneOwner /\ IdleBounded

\* fetch() settles once, whatever races: abort, connection, head.
SettlesOnce == \A r \in Requests : Len(req[r].answers) <= 1

\* Once a signal is aborted no fetch that was given it waits any longer.
AbortReaches ==
    stack = <<>> => \A r \in Requests : Aborted(r) => req[r].pc \notin {"connecting", "headers"}

\* Every fetch settles: the timeout aborts what the server leaves open.
Settles == \A r \in Requests : <>(req[r].pc = "settled")
=============================================================================
