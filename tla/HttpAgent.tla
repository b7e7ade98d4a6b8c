----------------------------- MODULE HttpAgent -----------------------------
(***************************************************************************)
(* http.js: the Agent's pool of one origin and the ClientRequests that use   *)
(* it. What a listener does at once is part of the step that emits: h is the *)
(* state while such a step goes on.                                        *)
(***************************************************************************)
EXTENDS Integers, Sequences, FiniteSets, SequencesExt

CONSTANTS MaxRequests, MaxSockets, MaxFree, MaxRedirects,
          AgentFaults    \* "queued": a request is destroyed while it is queued; "stale": one is destroyed after its
                         \* response; "cut": a server closes before it has answered; "dead": end() on a socket that
                         \* was closed meanwhile

VARIABLES http           \* [agent, reqs, socks, asked, wire]: per socket what the server was asked, and its segments

Reqs  == 1 .. MaxRequests
None  == 0
Fault(f) == f \in AgentFaults

Listed(a)   == ToSet(a.active) \cup ToSet(a.free)
Removed(seq, s) == SelectSeq(seq, LAMBDA x : x # s)

-----------------------------------------------------------------------------
(* The pool.                                                               *)

Pool(k) == [keepAlive |-> k, active |-> <<>>, free |-> <<>>, queue |-> <<>>, total |-> 0, live |-> TRUE]

\* _createSocket.
NewSocket(r) == [state |-> "connecting", by |-> r, readers |-> {}, timer |-> FALSE, told |-> TRUE]
Created(h, r) ==
    [h EXCEPT !.agent.active = Append(@, Len(h.socks) + 1), !.agent.total = @ + 1, !.reqs[r].sock = Len(h.socks) + 1,
              !.socks = Append(@, NewSocket(r)), !.asked = Append(@, <<>>), !.wire = Append(@, <<>>)]

\* Mutant: whoever waits is not thought of.
NextCreatedNot(h) == h
\* The first that waits gets a socket of its own.
NextCreated(h) ==
    IF h.agent.queue = <<>> THEN h
    ELSE Created([h EXCEPT !.agent.queue = Tail(@)], Head(h.agent.queue))

\* _removeSocket.
Unlisted(h, s) ==
    NextCreated([h EXCEPT !.agent.active = Removed(@, s), !.agent.free = Removed(@, s),
                          !.agent.total = IF @ = 0 THEN 0 ELSE @ - 1])

\* 'close' ends the response it finds unfinished, then the agent hears of it
\* unless its listener was taken away.
Destroyed(h, s) == [h EXCEPT !.socks[s].state = "closed", !.socks[s].timer = FALSE, !.wire[s] = <<>>, !.asked[s] = <<>>]
Ended(h, s) == [Destroyed(h, s) EXCEPT !.reqs = [r \in Reqs |-> IF r \in h.socks[s].readers /\ @[r].response = "part"
                                                                THEN [@[r] EXCEPT !.response = "cut"] ELSE @[r]]]
Closed(h, s) == IF h.socks[s].state = "closed" THEN h
                ELSE IF h.socks[s].told THEN Unlisted(Ended(h, s), s) ELSE Destroyed(h, s)

-----------------------------------------------------------------------------
(* Sending.                                                                *)

\* _flushRequest: the response is read by a listener of this request.
Flushed(h, r, s) ==
    [h EXCEPT !.reqs[r].sent = TRUE, !.asked[s] = Append(@, r), !.socks[s].readers = @ \cup {r}]

\* addRequest: the last freed socket, a new one, or the queue.
Free(h) == SelectSeq(h.agent.free, LAMBDA s : h.socks[s].state = "open")
\* Mutant: the idle timer goes on while the socket is used.
ReusedTicking(h, r, s) == [h EXCEPT !.agent.free = Removed(@, s), !.agent.active = Append(@, s), !.reqs[r].sock = s,
                                    !.reqs[r].aborted = FALSE, !.socks[s].readers = {}]
\* The socket's idle timer is cleared; _resetForReuse.
Reused(h, r, s) == [h EXCEPT !.agent.free = Removed(@, s), !.agent.active = Append(@, s), !.reqs[r].sock = s, !.socks[s].timer = FALSE,
                             !.reqs[r].aborted = FALSE, !.socks[s].readers = {}]

Queued(h, r) == [h EXCEPT !.agent.queue = Append(@, r)]
\* Without the socket's own flush.
Placed(h, r) ==
    IF h.agent.keepAlive /\ Free(h) # <<>> THEN Reused(h, r, Last(Free(h)))
    ELSE IF Len(h.agent.active) >= MaxSockets THEN Queued(h, r)
    ELSE Created(h, r)

\* _tryFlush: a dead socket is taken from the pool once more, and the request
\* put back.
Waits(h, r) == LET q == h.reqs[r] IN ~ q.ended \/ q.sent \/ q.aborted \/ q.sock = None \/ h.socks[q.sock].state = "connecting"
TryFlush(h, r) ==
    IF Waits(h, r) THEN h
    ELSE IF h.socks[h.reqs[r].sock].state = "closed"
    THEN Placed(Unlisted([h EXCEPT !.reqs[r].sock = None], h.reqs[r].sock), r)
    ELSE Flushed(h, r, h.reqs[r].sock)

-----------------------------------------------------------------------------
(* Receiving.                                                              *)

\* Mutant: it stays among those in use.
KeptActive(h, s) == [h EXCEPT !.agent.free = Append(@, s), !.socks[s].timer = TRUE, !.socks[s].readers = {}]
\* keepSocketAlive: the socket is free, with an idle timer.
Kept(h, s) == [h EXCEPT !.agent.active = Removed(@, s), !.agent.free = Append(@, s), !.socks[s].timer = TRUE, !.socks[s].readers = {}]

Served(h, s) ==
    IF h.agent.queue = <<>> THEN h
    ELSE TryFlush(Reused([h EXCEPT !.agent.queue = Tail(@)], Head(h.agent.queue), s), Head(h.agent.queue))
Freed(h, s) ==
    IF Len(h.agent.free) >= MaxFree THEN Closed([h EXCEPT !.agent.active = Removed(@, s), !.socks[s].readers = {}], s)
    ELSE Served(Kept(h, s), s)

\* _maybeReleaseSocket.
Released(h, s, closes) ==
    IF ~ h.agent.keepAlive THEN h ELSE IF closes THEN Closed(h, s) ELSE Freed(h, s)

\* _reissueAfterRedirect: the agent's own listener goes with the others.
Reissued(h, r, s) ==
    TryFlush(Placed(Closed(Unlisted([h EXCEPT !.socks[s].told = FALSE, !.socks[s].readers = {}, !.reqs[r].sock = None,
                                              !.reqs[r].sent = FALSE, !.reqs[r].redirects = @ + 1], s), s), r), r)

\* A segment of an answer, for the listener of the request the socket serves.
Received(h, s, r, g) ==
    IF g.part = "head"
    THEN IF g.redirect THEN Reissued(h, r, s)
         ELSE [h EXCEPT !.reqs[r].response = "part", !.reqs[r].of = g.of]
    ELSE Released([h EXCEPT !.reqs[r].response = "whole"], s, g.closes)

-----------------------------------------------------------------------------
(* Steps.                                                                  *)

\* http.request(), and with http.get() its end.
Request ==
    \E r \in Reqs, ends \in BOOLEAN :
        /\ http.reqs[r].sock = None /\ ~ http.reqs[r].begun /\ \A q \in Reqs : q < r => (http.reqs[q].begun /\ ends)
        /\ http' = TryFlush(Placed([http EXCEPT !.reqs[r].begun = TRUE, !.reqs[r].ended = ends], r), r)

End ==
    \E r \in Reqs :
        /\ http.reqs[r].begun /\ ~ http.reqs[r].ended
        /\ (http.reqs[r].sock # None /\ ~ Fault("dead")) => http.socks[http.reqs[r].sock].state # "closed"
        /\ http' = TryFlush([http EXCEPT !.reqs[r].ended = TRUE], r)

Connected ==
    \E s \in DOMAIN http.socks :
        /\ http.socks[s].state = "connecting"
        /\ http' = TryFlush([http EXCEPT !.socks[s].state = "open"], http.socks[s].by)

\* The request that made the socket hears of the error.
Refused ==
    \E s \in DOMAIN http.socks :
        /\ http.socks[s].state = "connecting"
        /\ http' = Closed([http EXCEPT !.reqs[http.socks[s].by].failed = TRUE], s)

\* External: the server answers what it was asked first.
Answers ==
    \E s \in DOMAIN http.socks, redirect, closes \in BOOLEAN :
        /\ http.socks[s].state = "open" /\ http.asked[s] # <<>>
        /\ LET r == Head(http.asked[s])
           IN  /\ redirect => http.reqs[r].redirects < MaxRedirects
               /\ http' = [http EXCEPT !.asked[s] = Tail(@),
                                       !.wire[s] = @ \o <<[part |-> "head", of |-> r, redirect |-> redirect, closes |-> closes]>>
                                                     \o IF redirect THEN <<>>
                                                        ELSE <<[part |-> "body", of |-> r, redirect |-> FALSE, closes |-> closes]>>]

\* 'data'.
Data ==
    \E s \in DOMAIN http.socks :
        /\ http.wire[s] # <<>>
        /\ LET g == Head(http.wire[s])
               h == [http EXCEPT !.wire[s] = Tail(@)]
           IN  http' = IF h.socks[s].readers = {} THEN h ELSE Received(h, s, CHOOSE r \in h.socks[s].readers : TRUE, g)

\* External: the server closes between two answers.
ServerCloses ==
    \E s \in DOMAIN http.socks :
        /\ http.socks[s].state = "open" /\ http.wire[s] = <<>>
        /\ http.asked[s] # <<>> => Fault("cut")
        /\ http' = Closed(http, s)

IdleTimer == \E s \in DOMAIN http.socks : http.socks[s].timer /\ http' = Closed(http, s)

\* destroy() and abort().
Destroy ==
    \E r \in Reqs :
        LET q == http.reqs[r]
        IN  /\ q.begun /\ ~ q.aborted /\ ~ q.failed
            /\ r \in ToSet(http.agent.queue) => Fault("queued")
            /\ q.response = "whole" => Fault("stale")
            /\ http' = IF q.sock = None THEN [http EXCEPT !.reqs[r].aborted = TRUE]
                       ELSE Closed([http EXCEPT !.reqs[r].aborted = TRUE], q.sock)

\* Agent.destroy(): the queue is forgotten, and nobody hears of a 'close'.
AgentDestroy ==
    /\ Listed(http.agent) # {} /\ http.agent.live
    /\ http' = FoldSet(LAMBDA s, h : Destroyed([h EXCEPT !.socks[s].told = FALSE], s),
                       [http EXCEPT !.agent = [Pool(@.keepAlive) EXCEPT !.live = FALSE]], Listed(http.agent))

-----------------------------------------------------------------------------
NewRequest(b) == [begun |-> b, ended |-> FALSE, sent |-> FALSE, aborted |-> FALSE, failed |-> FALSE,
                  sock |-> None, response |-> "none", of |-> None, redirects |-> 0]
Begins(k, b) == http = [agent |-> Pool(k), reqs |-> [r \in Reqs |-> [NewRequest(b) EXCEPT !.ended = b, !.aborted = b]],
                        socks |-> <<>>, asked |-> <<>>, wire |-> <<>>]
HttpAgentInit == \E k \in BOOLEAN : Begins(k, FALSE)
HttpAgentIdle == Begins(FALSE, TRUE)

HttpAgentNext == \/ Request \/ End \/ Connected \/ Refused \/ Answers \/ Data
                 \/ ServerCloses \/ IdleTimer \/ Destroy \/ AgentDestroy

-----------------------------------------------------------------------------
Busy(r) == LET q == http.reqs[r] IN q.sock # None /\ http.socks[q.sock].state # "closed" /\ q.response \in {"none", "part"} /\ ~ q.failed

Unanswered(r) == LET q == http.reqs[r] IN q.sent /\ q.sock # None /\ q.response = "none" /\ ~ q.failed /\ ~ q.aborted

\* A socket that is not closed is listed once, in use or free, and counted; no
\* more are in use than allowed; it serves one request at a time and its idle
\* timer runs only while it is free; nobody is queued unless all are in use,
\* nobody who is queued was destroyed, and nobody waits for an answer from a
\* closed socket; and a response is made of the answer to its own request.
PoolKept ==
    /\ \A s \in DOMAIN http.socks :
          /\ http.socks[s].state # "closed" => s \in Listed(http.agent)
          /\ Cardinality(http.socks[s].readers) <= 1
          /\ http.socks[s].timer => s \in ToSet(http.agent.free)
    /\ Len(http.agent.active) + Len(http.agent.free) = Cardinality(Listed(http.agent))
    /\ http.agent.total = Cardinality(Listed(http.agent))
    /\ Len(http.agent.active) <= MaxSockets /\ Len(http.agent.free) <= MaxFree
    /\ \A r, q \in Reqs : Busy(r) /\ Busy(q) /\ http.reqs[r].sock = http.reqs[q].sock => r = q
    /\ http.agent.queue # <<>> => Len(http.agent.active) = MaxSockets
    /\ \A r \in ToSet(http.agent.queue) : ~ http.reqs[r].aborted
    /\ \A r \in Reqs : (http.agent.live /\ Unanswered(r)) => http.socks[http.reqs[r].sock].state # "closed"
    /\ \A r \in Reqs : http.reqs[r].of \in {None, r}
=============================================================================
