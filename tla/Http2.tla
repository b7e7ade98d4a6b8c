------------------------------- MODULE Http2 -------------------------------
(***************************************************************************)
(* http2.js: a ClientHttp2Session, a ServerHttp2Session and the streams     *)
(* between them. nghttp2 (external) sends a frame as it is submitted and    *)
(* queues an event for each thing that happens; JavaScript takes the events *)
(* only after a read, and calls the listeners of one before the next.       *)
(***************************************************************************)
EXTENDS Integers, Sequences, SequencesExt, FiniteSetsExt

CONSTANTS Reqs,          \* 1 .. n: requests, and the streams they become
          Http2Faults    \* "twice": end() again; "bare": end() with neither respond() nor a body; "within": a stream is closed
                         \* by its own listener; "late": a stream is used after its 'close'; "early": the client closes its
                         \* session while an answer arrives; "closing": a request of a session that closes; "cancelled": a
                         \* request closed before the connection is made; "unsent": settings() before it; "cut": the server
                         \* closes while requests are open

VARIABLES h2             \* [ses, st, n, wire, q: for each end; at, heard: the end whose events are being taken]

Fault(f) == f \in Http2Faults
Ends     == {"c", "s"}
Other(e) == IF e = "c" THEN "s" ELSE "c"

Frame(kind, i, end) == [kind |-> kind, i |-> i, end |-> end, value |-> 0]
Http2Stream == [listed |-> FALSE, made |-> FALSE, pending |-> FALSE, pendingWrites |-> 0, pendingEnd |-> FALSE, endStream |-> FALSE,
                   complete |-> FALSE, headersSent |-> FALSE, endedLocal |-> FALSE, destroyed |-> FALSE, closed |-> FALSE, wait |-> FALSE,
                   ready |-> FALSE, sentTrailers |-> FALSE, wrote |-> 0, ending |-> FALSE,
                   finishes |-> 0, late |-> FALSE, log |-> <<>>]
Http2Session(state) == [state |-> state, closing |-> FALSE, pending |-> <<>>, local |-> 0, remote |-> 0, unacked |-> FALSE, asked |-> 0]

Closed(s)        == s.closed \/ s.destroyed
Alive(h, e)      == h.ses[e].state = "open"
Emit(h, e, i, k) == [h EXCEPT !.st[e][i].log = Append(@, k)]
\* 'finish', or 'wantTrailers' before it.
Finish(h, e, i)  == [h EXCEPT !.st[e][i].finishes = @ + 1, !.st[e][i].late = Closed(h.st[e][i])]
Said(e, i, k)    == \E j \in DOMAIN h2.st[e][i].log : h2.st[e][i].log[j] = k

-----------------------------------------------------------------------------
(* nghttp2.                                                                *)

Wired(h, e, f) == IF h.ses[Other(e)].state = "destroyed" THEN h ELSE [h EXCEPT !.wire[e] = Append(@, f)]
Happened(h, e, kind, i, end) == [h EXCEPT !.q[e] = Append(@, Frame(kind, i, end))]
\* A stream is closed when both have ended it.
Over(h, e, i) ==
    IF h.n[e][i].local /\ h.n[e][i].remote /\ ~ h.n[e][i].shut
    THEN Happened([h EXCEPT !.n[e][i].shut = TRUE], e, "close", i, FALSE) ELSE h
\* h2Request, h2Respond, h2SubmitData, h2SubmitTrailer, and _h2Flush.
Send(h, e, f) ==
    IF ~ Alive(h, e) \/ h.n[e][f.i].shut \/ h.n[e][f.i].local THEN h
    ELSE Over(Wired([h EXCEPT !.n[e][f.i].local = f.end], e, f), e, f.i)
Reset(h, e, i) ==
    IF ~ Alive(h, e) \/ h.n[e][i].shut THEN h
    ELSE Happened(Wired([h EXCEPT !.n[e][i].shut = TRUE], e, Frame("rst", i, FALSE)), e, "close", i, TRUE)

\* h2SessionRecv: one frame.
Recv(h, e, f) ==
    CASE f.kind = "goaway"   -> Happened(h, e, "goaway", f.i, FALSE)
      [] f.kind = "settings" -> Wired([h EXCEPT !.q[e] = Append(@, f)], e, Frame("ack", f.i, FALSE))
      [] f.kind = "ack"      -> Happened(h, e, "ack", f.i, FALSE)
      [] OTHER ->
            IF h.n[e][f.i].shut THEN h
            ELSE IF f.kind = "rst" THEN Happened([h EXCEPT !.n[e][f.i].shut = TRUE], e, "close", f.i, TRUE)
            ELSE Over(Happened([h EXCEPT !.n[e][f.i].remote = f.end], e, f.kind, f.i, f.end), e, f.i)
Recvs(h, e, k) == FoldLeft(LAMBDA g, f : Recv(g, e, f), [h EXCEPT !.wire[Other(e)] = SubSeq(@, k + 1, Len(@))], SubSeq(h.wire[Other(e)], 1, k))

-----------------------------------------------------------------------------
(* Streams.                                                                *)

\* _h2SubmitBody.
Body(h, e, i, data, end) == IF ~ data /\ ~ end THEN h ELSE Send(h, e, Frame(IF data THEN "data" ELSE "end", i, end))

respond(h, i, wait, end) ==
    LET sent == [Send(h, "s", Frame("head", i, end)) EXCEPT !.st.s[i].headersSent = TRUE, !.st.s[i].wait = wait \/ @]
    IN  IF end THEN Finish([sent EXCEPT !.st.s[i].endedLocal = TRUE], "s", i) ELSE sent

\* Mutant: the first chunk does not make the server's stream respond.
HeadedNot(h, e, i) == h
Headed(h, e, i) == IF e = "s" /\ ~ h.st[e][i].headersSent THEN respond(h, i, FALSE, FALSE) ELSE h

write(h, e, i) ==
    IF h.st[e][i].pending THEN [h EXCEPT !.st[e][i].pendingWrites = @ + 1]
    ELSE IF h.st[e][i].endedLocal \/ h.st[e][i].destroyed THEN h
    ELSE Body(Headed(h, e, i), e, i, TRUE, FALSE)

\* END_STREAM, or with trailers to come the end of the body without it.
Ended(h, e, i) ==
    LET sent == Body([h EXCEPT !.st[e][i].ending = TRUE], e, i, FALSE, ~ h.st[e][i].wait)
    IN  Finish(IF h.st[e][i].wait THEN [sent EXCEPT !.st[e][i].ready = TRUE] ELSE [sent EXCEPT !.st[e][i].endedLocal = TRUE], e, i)
\* The server's end() of a stream that has sent nothing.
Bare(h, i) == Finish([respond(h, i, FALSE, TRUE) EXCEPT !.st.s[i].ending = TRUE], "s", i)
\* end() without data: with data it writes them before.
end(h, e, i) ==
    IF h.st[e][i].pending THEN [h EXCEPT !.st[e][i].pendingEnd = TRUE, !.st[e][i].ending = TRUE]
    ELSE IF h.st[e][i].endedLocal THEN [h EXCEPT !.st[e][i].ending = TRUE]
    ELSE IF e = "s" /\ ~ h.st[e][i].headersSent /\ ~ h.st[e][i].wait THEN Bare(h, i)
    ELSE Ended(h, e, i)

sendTrailers(h, e, i) ==
    [Send(h, e, Frame("trailers", i, TRUE)) EXCEPT !.st[e][i].sentTrailers = TRUE, !.st[e][i].endedLocal = TRUE]

\* Http2Stream.close(): RST_STREAM, then destroy().
close(h, e, i) ==
    LET reset == Reset(h, e, i)
    IN  IF h.st[e][i].destroyed THEN reset
        ELSE Emit([reset EXCEPT !.st[e][i].destroyed = TRUE, !.st[e][i].listed = FALSE], e, i, "close")

-----------------------------------------------------------------------------
(* Sessions.                                                               *)

\* _submitRequest.
Submitted(h, i) ==
    [Send(h, "c", Frame("head", i, h.st.c[i].endStream)) EXCEPT !.st.c[i].listed = TRUE, !.st.c[i].pending = FALSE, !.st.c[i].endedLocal = h.st.c[i].endStream]
\* _activatePendingStream: then the writes and the end that were kept.
WritesOf(h, i, k) == FoldLeft(LAMBDA g, j : write(g, "c", i), h, [j \in 1 .. k |-> j])
EndOf(h, i, ends) == IF ends THEN end(h, "c", i) ELSE h
\* Mutant: the end goes first.
ActivatedEnded(h, i) == WritesOf(EndOf(Submitted(h, i), i, h.st.c[i].pendingEnd), i, h.st.c[i].pendingWrites)
Activated(h, i) == EndOf(WritesOf(Submitted(h, i), i, h.st.c[i].pendingWrites), i, h.st.c[i].pendingEnd)

settings(h, e, v) ==
    IF ~ Alive(h, e) THEN [h EXCEPT !.ses[e].local = v]
    ELSE Wired([h EXCEPT !.ses[e].local = v, !.ses[e].unacked = TRUE], e, [Frame("settings", 0, FALSE) EXCEPT !.value = v])
AskedSettings(h) == IF h.ses.c.asked = 0 THEN h ELSE settings(h, "c", h.ses.c.asked)
\* _attachSocket.
Attached(h) ==
    FoldLeft(Activated, AskedSettings([h EXCEPT !.ses.c.state = "open", !.ses.s.state = "open", !.ses.c.pending = <<>>]), h.ses.c.pending)

\* Http2Session.destroy(): the events nobody has taken go with it.
Destroyed(h, e) ==
    [h EXCEPT !.ses[e].state = "destroyed", !.q[e] = <<>>, !.wire[Other(e)] = <<>>]

Errors(h, e, is) == FoldLeft(LAMBDA g, i : Emit(g, e, i, "error"), h, is)
Incomplete(h, e) == SetToSortSeq({i \in Reqs : h.st[e][i].listed /\ ~ h.st[e][i].destroyed /\ ~ (h.st[e][i].endedLocal /\ h.st[e][i].complete)}, <)
GoneAway(h, e)   == IF Alive(h, e) THEN Wired(h, e, Frame("goaway", 0, FALSE)) ELSE h
\* Mutant: requests that wait for the connection hear nothing.
ClosingQuiet(h, e) == Errors(GoneAway([h EXCEPT !.ses[e].closing = TRUE], e), e, Incomplete(h, e))
\* Http2Session.close(), whose destroy() comes with a timer.
Closing(h, e) ==
    [Errors(GoneAway([h EXCEPT !.ses[e].closing = TRUE], e), e,
            Incomplete(h, e) \o SelectSeq(h.ses[e].pending, LAMBDA i : ~ h.st[e][i].destroyed)) EXCEPT !.ses[e].pending = <<>>]

-----------------------------------------------------------------------------
(* Events.                                                                 *)

Made(h, e, i) == IF e = "s" /\ ~ h.st.s[i].listed THEN [h EXCEPT !.st.s[i] = [Http2Stream EXCEPT !.listed = TRUE, !.made = TRUE]] ELSE h
\* 'end' follows the listeners of 'stream', 'response' or 'trailers', whatever they did.
Then(h, e, i, ends) == IF ends THEN [h EXCEPT !.q[e] = <<Frame("endof", i, TRUE)>> \o @] ELSE h
\* Mutant: a second head is another response.
HeadAgain(h, e, i, ends) == Then(Emit([h EXCEPT !.st[e][i].complete = TRUE], e, i, "head"), e, i, ends)
Head1(h, e, i, ends) ==
    IF ~ h.st[e][i].listed THEN h
    ELSE IF h.st[e][i].complete THEN Then(Emit(h, e, i, "trailers"), e, i, ends)
    ELSE Then(Emit([h EXCEPT !.st[e][i].complete = TRUE], e, i, "head"), e, i, ends)
\* The end of a body looks its stream up again.
Chunk(h, e, i, ends) ==
    LET told == IF h.st[e][i].listed THEN Emit(h, e, i, "data") ELSE h
    IN  IF ends THEN [told EXCEPT !.q[e] = <<Frame("end", i, TRUE)>> \o @] ELSE told
\* Mutant: the stream stays in the session's table.
ClosedKept(h, e, i, failed) == IF ~ h.st[e][i].listed THEN h ELSE Emit(IF failed THEN Emit(h, e, i, "error") ELSE h, e, i, "close")
StreamClosed(h, e, i, failed) ==
    IF ~ h.st[e][i].listed THEN h
    ELSE Emit([IF failed THEN Emit(h, e, i, "error") ELSE h EXCEPT !.st[e][i].closed = TRUE, !.st[e][i].listed = FALSE], e, i, "close")

\* _h2DrainEvents, one event.
Drained(h, e, v) ==
    CASE v.kind \in {"head", "trailers"} -> Head1(Made(h, e, v.i), e, v.i, v.end)
      [] v.kind = "data"     -> Chunk(h, e, v.i, v.end)
      [] v.kind = "end"      -> IF v.end /\ h.st[e][v.i].listed THEN Emit(h, e, v.i, "end") ELSE h
      [] v.kind = "endof"    -> Emit(h, e, v.i, "end")
      [] v.kind = "close"    -> StreamClosed(h, e, v.i, v.end)
      [] v.kind = "settings" -> [h EXCEPT !.ses[e].remote = v.value]
      [] v.kind = "ack"      -> [h EXCEPT !.ses[e].unacked = FALSE]
      [] OTHER -> h

-----------------------------------------------------------------------------
(* Steps.                                                                  *)

\* The program runs at this end: in a listener of the server's, or when no events are taken.
Runs(e) == (\A d \in Ends : Alive(h2, d)) /\ ~ h2.ses[e].closing /\ (h2.at = "none" \/ (h2.at = "s" /\ e = "s" /\ h2.heard))
Usable(e, i) == h2.st[e][i].made /\ (Fault("late") \/ ~ Closed(h2.st[e][i]))
Answering(i) == h2.st.c[i].complete /\ ~ Said("c", i, "end") /\ ~ Closed(h2.st.c[i])

\* request(): the method decides whether the head ends the stream.
Request ==
    \E i \in Reqs, kind \in {"get", "post", "trailers"} :
        /\ ~ h2.st.c[i].made /\ \A j \in Reqs : j < i => (h2.st.c[j].made /\ kind = "get")
        /\ h2.ses.c.local + h2.ses.c.asked > 0 => kind = "get"
        /\ h2.ses.c.state = "connecting" \/ Runs("c") \/ (Fault("closing") /\ Alive(h2, "c"))
        /\ h2.ses.c.closing => Fault("closing")
        /\ h2.ses.s.closing => Fault("cut")
        /\ LET made == [h2 EXCEPT !.st.c[i].made = TRUE, !.st.c[i].endStream = (kind = "get"), !.st.c[i].wait = (kind = "trailers")]
           IN  h2' = IF h2.ses.c.state = "connecting"
                     THEN [made EXCEPT !.st.c[i].pending = TRUE, !.ses.c.pending = Append(@, i)]
                     ELSE Submitted(made, i)

Attach ==
    /\ h2.ses.c.state = "connecting"
    /\ h2' = Attached(h2)

Settings ==
    /\ h2.ses.c.local = 0
    /\ \/ Runs("c") /\ h2.ses.c.asked = 0 /\ (\A i \in Reqs : ~ h2.st.c[i].made) /\ h2' = settings(h2, "c", 1)
       \/ h2.ses.c.state = "connecting" /\ h2.ses.c.asked = 0 /\ (\A i \in Reqs : ~ h2.st.c[i].made) /\ h2' = [h2 EXCEPT !.ses.c.asked = 1]
       \/ Fault("unsent") /\ h2.ses.c.state = "connecting" /\ h2' = settings(h2, "c", 1)

Respond ==
    \E i \in Reqs, wait \in BOOLEAN :
        /\ Runs("s") /\ Usable("s", i) /\ h2.st.s[i].complete /\ ~ h2.st.s[i].headersSent
        /\ wait => h2.st.c[i].endStream
        /\ h2' = respond(h2, i, wait, FALSE)

\* The program's own part of a stream: what it does before it has ended it.
Waiting(e, i) == h2.st[e][i].pending /\ h2.ses[e].state = "connecting"
Open(e, i) == Usable(e, i) /\ ~ h2.st[e][i].ending /\ ~ h2.st[e][i].endStream /\ (e = "s" => h2.st.s[i].complete)
Write ==
    \E e \in Ends, i \in Reqs :
        /\ Runs(e) \/ Waiting(e, i)
        /\ Open(e, i) /\ h2.st[e][i].wrote = 0
        /\ h2' = write([h2 EXCEPT !.st[e][i].wrote = 1], e, i)

End ==
    \E e \in Ends, i \in Reqs :
        /\ Runs(e) \/ Waiting(e, i)
        /\ Open(e, i) \/ (Fault("twice") /\ Usable(e, i) /\ h2.st[e][i].ending)
        /\ (e = "s" /\ ~ h2.st.s[i].headersSent) => Fault("bare")
        /\ h2' = end(h2, e, i)

SendTrailers ==
    \E e \in Ends, i \in Reqs :
        /\ Runs(e) /\ Usable(e, i) /\ h2.st[e][i].ready /\ ~ h2.st[e][i].sentTrailers
        /\ h2' = sendTrailers(h2, e, i)

Close ==
    \E e \in Ends, i \in Reqs :
        /\ \/ Runs(e) /\ (h2.at = "none" \/ Fault("within"))
           \/ Fault("cancelled") /\ h2.st[e][i].pending
        /\ Usable(e, i) /\ (h2.st[e][i].pending => Fault("cancelled"))
        /\ \A d \in Ends, j \in Reqs : ~ h2.st[d][j].destroyed
        /\ h2' = close(h2, e, i)

CloseSession ==
    \E e \in Ends :
        /\ h2.at = "none" /\ (Runs(e) \/ (e = "c" /\ h2.ses.c.state = "connecting"))
        /\ \A d \in Ends : ~ h2.ses[d].closing
        /\ \E d \in Ends : h2.wire[d] = <<>>
        /\ e = "c" => (Fault("early") \/ \A i \in Reqs : ~ Answering(i))
        /\ e = "s" => (Fault("cut") \/ \A i \in Reqs : h2.st.c[i].made /\ Closed(h2.st.c[i]))
        /\ h2' = Closing(h2, e)

\* The timer of close().
Destroy ==
    \E e \in Ends :
        /\ h2.ses[e].closing /\ h2.ses[e].state # "destroyed" /\ h2.at = "none"
        /\ h2' = Destroyed(h2, e)

Read ==
    \E e \in Ends :
        /\ h2.at = "none" /\ Alive(h2, e)
        /\ h2.wire[Other(e)] # <<>> /\ h2' = [Recvs(h2, e, Len(h2.wire[Other(e)])) EXCEPT !.at = e, !.heard = FALSE]

Drain ==
    /\ h2.at # "none"
    /\ LET e == h2.at
       IN  h2' = IF h2.q[e] = <<>> THEN [h2 EXCEPT !.at = "none", !.heard = FALSE]
                 ELSE [Drained([h2 EXCEPT !.q[e] = Tail(@)], e, Head(h2.q[e])) EXCEPT !.heard = TRUE]

EOF ==
    \E e \in Ends :
        /\ h2.at = "none" /\ Alive(h2, e) /\ h2.ses[Other(e)].state = "destroyed" /\ h2.wire[Other(e)] = <<>>
        /\ h2' = Destroyed(h2, e)

-----------------------------------------------------------------------------
Sessions(state) ==
    [ses  |-> [e \in Ends |-> Http2Session(state)], at |-> "none", heard |-> FALSE,
     st   |-> [e \in Ends |-> [i \in Reqs |-> Http2Stream]],
     n    |-> [e \in Ends |-> [i \in Reqs |-> [local |-> FALSE, remote |-> FALSE, shut |-> FALSE]]],
     wire |-> [e \in Ends |-> <<>>], q |-> [e \in Ends |-> <<>>]]
Http2Idle == h2 = Sessions("none")
Http2Init == h2 = Sessions("connecting")

Http2Next ==
    \/ Request \/ Attach \/ Settings \/ Respond \/ Write \/ End \/ SendTrailers \/ Close \/ CloseSession \/ Destroy
    \/ Read \/ Drain \/ EOF

-----------------------------------------------------------------------------
Log(e, i)   == h2.st[e][i].log
At(s, k)    == {j \in DOMAIN s : s[j] = k}
Before(a, b) == \A j \in a, k \in b : j < k

\* What a stream emits: its head first, 'trailers' after the data, one 'end'
\* after both, and one 'close' after everything.
EventsOrdered ==
    \A e \in Ends, i \in Reqs :
        LET s == Log(e, i)
        IN  /\ h2.st[e][i].finishes <= 1 /\ ~ h2.st[e][i].late
            /\ \A k \in {"head", "trailers", "end", "close"} : Cardinality(At(s, k)) <= 1
            /\ Before(At(s, "head"), At(s, "data") \cup At(s, "trailers") \cup At(s, "end"))
            /\ Before(At(s, "data"), At(s, "trailers") \cup At(s, "end")) /\ Before(At(s, "trailers"), At(s, "end"))
            /\ Before(DOMAIN s \ At(s, "close"), At(s, "close"))

\* A body that has ended has come whole, with its trailers; a stream both ends
\* have ended closes, unless its 'close' waits for the next read.
BodiesWhole ==
    \A e \in Ends, i \in Reqs :
        /\ Said(e, i, "end") => /\ Cardinality(At(Log(e, i), "data")) = h2.st[Other(e)][i].wrote
                                /\ Said(e, i, "trailers") = h2.st[Other(e)][i].sentTrailers
                                /\ h2.st[Other(e)][i].endedLocal
        /\ (Alive(h2, e) /\ h2.n[e][i].shut) => \/ Said(e, i, "close")
                                              \/ \E j \in DOMAIN h2.q[e] : h2.q[e][j].i = i

\* Nothing is left of a request when its session is gone; settings reach the
\* other end.
SessionsSettle ==
    /\ h2.ses.c.state = "destroyed" => \A i \in Reqs : h2.st.c[i].made => \E k \in {"end", "error", "close"} : Said("c", i, k)
    /\ \A e \in Ends : (\A d \in Ends : Alive(h2, d) /\ h2.wire[d] = <<>> /\ h2.q[d] = <<>>) =>
          h2.ses[Other(e)].remote = h2.ses[e].local /\ ~ h2.ses[e].unacked
=============================================================================
