----------------------------- MODULE WebSockets -----------------------------
(***************************************************************************)
(* websocket.js and websocket_server.js: a WebSocket and the server it is    *)
(* connected to, each with its handshake, its read loop and its close.       *)
(*                                                                         *)
(* A frame, a request or a response is two cells on the wire, so a read can  *)
(* end within one. The program acts where a listener or a turn of the event  *)
(* loop lets it.                                                           *)
(***************************************************************************)
EXTENDS Naturals, Sequences, SequencesExt

CONSTANTS MaxTexts,   \* [client, server]: messages of each side
          MaxWsCalls, \* other calls of the program, on either side
          WsFaults    \* "early": close() or terminate() while connecting; "late": terminate() after a read
                      \* has its data; "buffered": a socket closed by a listener with frames left in its buffer;
                      \* "eof": a connection cut while the client is closing; "upgrade": the server is closed
                      \* while a request is read

VARIABLES ws,         \* the WebSocket
          srv,        \* the WebSocketServer, and the ServerWebSocket of its connection
          up, down,   \* to the server and from it: [cells, fin]
          wsSent      \* messages sent by each, and the calls of the program

wsVars == <<ws, srv, up, down, wsSent>>

Frame(op, n) == <<<<op, n, 1>>, <<op, n, 2>>>>
WholeFrame(cells) == Len(cells) >= 2
Rest(cells)  == SubSeq(cells, 3, Len(cells))
Texts(n)     == [i \in 1 .. n |-> i]
Got(events)  == LET m == SelectSeq(events, LAMBDA e : e[1] = "message") IN [i \in DOMAIN m |-> m[i][2]]
Fault(f)     == f \in WsFaults

\* Written to a handle that is closed, or whose peer is gone, it is lost.
Sent(pipe, open, cells) == IF open /\ ~ pipe.fin THEN [pipe EXCEPT !.cells = @ \o cells] ELSE pipe
Upward(cells)   == Sent(up, ws.handle /\ srv.handle, cells)
Downward(cells) == Sent(down, srv.handle /\ ws.handle, cells)

-----------------------------------------------------------------------------
(* The client.                                                             *)

\* _close().
Closed(w, code) ==
    IF w.state = "closed" THEN w
    ELSE [w EXCEPT !.state = "closed", !.handle = FALSE, !.code = code, !.events = Append(@, <<"close", code>>)]
Failed(w) == Closed([w EXCEPT !.events = Append(@, <<"error", 0>>)], 1006)
\* Closing a handle ends a read that waits; what was on its way is lost.
Hangs(w, pipe) == IF ws.handle /\ ~ w.handle THEN [pipe EXCEPT !.fin = TRUE] ELSE pipe
Drained(w, pipe) == IF ws.handle /\ ~ w.handle THEN [pipe EXCEPT !.cells = <<>>] ELSE pipe

Becomes(w) == ws' = w /\ up' = Hangs(w, up) /\ down' = Drained(w, down)

\* The connection waits to be accepted; _doHandshake.
Connected ==
    /\ ws.pc = "dialing" /\ srv.phase = "none" /\ srv.listening
    /\ ws' = [ws EXCEPT !.pc = "handshake", !.handle = TRUE]
    /\ srv' = [srv EXCEPT !.phase = "backlog", !.handle = TRUE]
    /\ up' = [up EXCEPT !.cells = Frame("request", 0)] /\ UNCHANGED <<down, wsSent>>

Refused == /\ ws.pc = "dialing" /\ UNCHANGED <<srv, up, down, wsSent>>
           /\ ws' = [Failed(ws) EXCEPT !.pc = "over"]

\* tcpReadNb has data, or the end; its callback is called later.
Fetch ==
    /\ ws.pc \in {"handshake", "reading"} /\ ws.handle /\ ~ ws.fetched
    /\ \E n \in 0 .. Len(down.cells) :
          /\ n > 0 \/ (down.fin /\ down.cells = <<>>)
          /\ ws' = [ws EXCEPT !.fetched = TRUE, !.read = SubSeq(down.cells, 1, n)]
          /\ down' = [down EXCEPT !.cells = SubSeq(@, n + 1, Len(@))]
    /\ UNCHANGED <<srv, up, wsSent>>

\* Mutant: what came in the same read as the response is dropped.
AfterHeadDropped(cells) == <<>>
AfterHead(cells) == Rest(cells)

\* _readHandshakeResponse.
HandshakeRead ==
    /\ ws.pc = "handshake" /\ ws.fetched /\ UNCHANGED <<srv, wsSent>>
    /\ LET w == [ws EXCEPT !.fetched = FALSE, !.read = <<>>, !.buffer = @ \o ws.read]
       IN  IF ws.read = <<>> THEN Becomes([Failed(w) EXCEPT !.pc = "over"])
           ELSE IF ~ WholeFrame(w.buffer) THEN Becomes(w)
           ELSE IF w.buffer[1][2] # 101
           THEN Becomes([Failed([w EXCEPT !.buffer = Rest(@)]) EXCEPT !.pc = "over"])
           ELSE Becomes([w EXCEPT !.buffer = AfterHead(@), !.state = "open", !.pc = "frames", !.called = TRUE,
                                  !.events = Append(@, <<"open", 0>>)])

\* The callback of _readLoop: an end while closing is left at that.
LoopRead ==
    /\ ws.pc = "reading" /\ ws.fetched /\ UNCHANGED <<srv, wsSent>>
    /\ LET w == [ws EXCEPT !.fetched = FALSE, !.read = <<>>, !.buffer = @ \o ws.read]
       IN  IF ws.read = <<>>
           THEN Becomes([(IF w.state \in {"closed", "closing"} THEN w ELSE Closed(w, 1006)) EXCEPT !.pc = "over"])
           ELSE Becomes([w EXCEPT !.pc = "frames", !.called = FALSE])

\* Mutant: a close frame is not waited for once close() was called.
OnCloseFrameOnce(w, code) == IF w.state = "open" THEN Closed(w, code) ELSE w
\* A close frame is answered unless it is the answer.
OnCloseFrame(w, code) == Closed(w, code)

\* _handleFrame.
Handle ==
    /\ ws.pc = "frames" /\ WholeFrame(ws.buffer) /\ UNCHANGED <<srv, wsSent>>
    /\ LET op == ws.buffer[1][1]
           n  == ws.buffer[1][2]
           w  == [ws EXCEPT !.buffer = Rest(@), !.called = TRUE]
       IN  IF op = "close"
           THEN LET c == OnCloseFrame(w, n)
                IN  /\ ws' = c /\ down' = Drained(c, down)
                    /\ up' = Hangs(c, IF w.state = "open" THEN Upward(Frame("close", n)) ELSE up)
           ELSE /\ ws' = [w EXCEPT !.events = Append(@, <<IF op = "text" THEN "message" ELSE op, n>>)]
                /\ up' = IF op = "ping" /\ ws.state = "open" THEN Upward(Frame("pong", n)) ELSE up
                /\ UNCHANGED down

LoopAgain ==
    /\ ws.pc = "frames" /\ ~ WholeFrame(ws.buffer) /\ UNCHANGED <<srv, up, down, wsSent>>
    /\ ws' = [ws EXCEPT !.pc = IF ws.state = "closed" THEN "over" ELSE "reading", !.called = FALSE]

\* The program is at work: not between a read and the first frame of it.
ClientFree == ws.pc \in {"handshake", "reading", "over"} \/ (ws.pc = "frames" /\ ws.called) \/ (ws.pc = "dialing" /\ Fault("early"))
Counted(field) == wsSent' = [wsSent EXCEPT ![field] = @ + 1]
Cut == down.fin /\ ~ \E c \in ToSet(down.cells \o ws.read \o ws.buffer) : c[1] = "close"

Send == /\ ClientFree /\ ws.state = "open" /\ wsSent.client < MaxTexts.client
        /\ up' = Upward(Frame("text", wsSent.client + 1)) /\ Counted("client") /\ UNCHANGED <<ws, srv, down>>

Ping == /\ ClientFree /\ ws.state = "open" /\ wsSent.calls < MaxWsCalls
        /\ up' = Upward(Frame("ping", 0)) /\ Counted("calls") /\ UNCHANGED <<ws, srv, down>>

Close ==
    /\ ClientFree /\ wsSent.calls < MaxWsCalls /\ UNCHANGED <<srv, down>>
    /\ ws.state = "open" \/ (ws.state = "connecting" /\ Fault("early"))
    /\ ~ Cut \/ Fault("eof")
    /\ ws' = [ws EXCEPT !.state = "closing"] /\ up' = Upward(Frame("close", 1000)) /\ Counted("calls")

Terminate ==
    /\ ClientFree /\ wsSent.calls < MaxWsCalls /\ ws.state # "closed"
    /\ ~ ws.fetched \/ Fault("late")
    /\ ~ (ws.pc = "frames" /\ WholeFrame(ws.buffer)) \/ Fault("buffered")
    /\ Becomes([Closed(ws, 1006) EXCEPT !.pc = IF @ \in {"handshake", "reading"} /\ ~ ws.fetched THEN "over" ELSE @])
    /\ Counted("calls") /\ UNCHANGED srv

-----------------------------------------------------------------------------
(* The server.                                                             *)

\* _doClose; the set of clients hears of it by 'close'.
ServerClosed(s, code) ==
    IF s.state = "closed" THEN s
    ELSE [s EXCEPT !.state = "closed", !.handle = FALSE, !.code = code, !.clients = FALSE, !.events = Append(@, <<"close", code>>)]
ServerBecomes(s, out) ==
    /\ srv' = s
    /\ down' = IF srv.handle /\ ~ s.handle THEN [out EXCEPT !.fin = TRUE] ELSE out
    /\ up' = IF srv.handle /\ ~ s.handle THEN [up EXCEPT !.cells = <<>>] ELSE up

Accept == /\ srv.phase = "backlog" /\ srv.listening /\ srv' = [srv EXCEPT !.phase = "request"] /\ UNCHANGED <<ws, up, down, wsSent>>

\* A client verifyClient turns down is told so, and its handle kept.
handleUpgrade(s) ==
    \/ /\ down' = Downward(Frame("response", 401)) /\ srv' = [s EXCEPT !.phase = "over"]
    \/ /\ down' = Downward(Frame("response", 101))
       /\ srv' = [s EXCEPT !.phase = "poll", !.state = "open", !.clients = TRUE, !.called = TRUE]

\* _readUpgradeRequest: what follows the head is dropped.
Upgrade ==
    /\ srv.phase = "request" /\ UNCHANGED <<ws, wsSent>>
    /\ \E n \in 0 .. Len(up.cells) :
          LET read == SubSeq(up.cells, 1, n)
              left == [up EXCEPT !.cells = SubSeq(@, n + 1, Len(@))]
              s    == [srv EXCEPT !.buffer = @ \o read]
          IN  IF n = 0
              THEN /\ up.fin /\ up.cells = <<>>
                   /\ srv' = [srv EXCEPT !.phase = "over", !.handle = FALSE] /\ down' = [down EXCEPT !.fin = TRUE] /\ UNCHANGED up
              ELSE IF ~ WholeFrame(s.buffer) THEN srv' = s /\ up' = left /\ UNCHANGED down
              ELSE up' = left /\ handleUpgrade([s EXCEPT !.buffer = <<>>])

\* _wsReadLoopNb: polls again after a millisecond when there is nothing.
Poll ==
    /\ srv.phase = "poll" /\ UNCHANGED <<ws, wsSent>>
    /\ \/ srv.state = "closed" /\ ServerBecomes([srv EXCEPT !.phase = "over"], down)
       \/ /\ srv.state = "open" /\ up.cells # <<>> /\ UNCHANGED down
          /\ \E n \in 1 .. Len(up.cells) :
                /\ srv' = [srv EXCEPT !.phase = "frames", !.called = FALSE, !.buffer = @ \o SubSeq(up.cells, 1, n)]
                /\ up' = [up EXCEPT !.cells = SubSeq(@, n + 1, Len(@))]
       \/ /\ srv.state = "open" /\ up.cells = <<>> /\ up.fin
          /\ ServerBecomes([ServerClosed(srv, 1006) EXCEPT !.phase = "over"], down)

\* Mutant: the close frame is not answered.
AnsweredCloseNot(n) == down
AnsweredClose(n) == Downward(Frame("close", n))

\* _processRecvBuf.
ServerHandle ==
    /\ srv.phase = "frames" /\ WholeFrame(srv.buffer) /\ UNCHANGED <<ws, wsSent>>
    /\ LET op == srv.buffer[1][1]
           n  == srv.buffer[1][2]
           s  == [srv EXCEPT !.buffer = Rest(@), !.called = TRUE]
       IN  IF op = "close" THEN ServerBecomes(ServerClosed(s, n), IF s.state = "open" THEN AnsweredClose(n) ELSE down)
           ELSE ServerBecomes([s EXCEPT !.events = Append(@, <<IF op = "text" THEN "message" ELSE op, n>>)],
                              IF op = "ping" THEN Downward(Frame("pong", n)) ELSE down)

ServerAgain ==
    /\ srv.phase = "frames" /\ ~ WholeFrame(srv.buffer) /\ UNCHANGED <<ws, up, down, wsSent>>
    /\ srv' = [srv EXCEPT !.phase = IF srv.state = "closed" THEN "over" ELSE "poll", !.called = FALSE]

ServerFree == srv.phase = "poll" \/ (srv.phase = "frames" /\ srv.called)

ServerSend == /\ ServerFree /\ srv.state = "open" /\ wsSent.server < MaxTexts.server
              /\ down' = Downward(Frame("text", wsSent.server + 1)) /\ Counted("server") /\ UNCHANGED <<ws, srv, up>>

\* It does not wait for the client's answer.
ServerClose ==
    /\ ServerFree /\ srv.state = "open" /\ wsSent.calls < MaxWsCalls
    /\ ~ (srv.phase = "frames" /\ WholeFrame(srv.buffer)) \/ Fault("buffered")
    /\ ServerBecomes([ServerClosed(srv, 1000) EXCEPT !.own = TRUE], Downward(Frame("close", 1000)))
    /\ Counted("calls") /\ UNCHANGED ws

\* terminate() of one client.
Terminated(s) == [ServerClosed(s, 1006) EXCEPT !.own = TRUE]
ServerTerminate ==
    /\ ServerFree /\ srv.state = "open" /\ wsSent.calls < MaxWsCalls
    /\ ~ (srv.phase = "frames" /\ WholeFrame(srv.buffer)) \/ Fault("buffered")
    /\ ws.state # "closing" \/ Fault("eof")
    /\ ServerBecomes(Terminated(srv), down)
    /\ Counted("calls") /\ UNCHANGED ws

\* close() of the server: its clients are terminated, who waits to be accepted is turned away.
ServerStops ==
    /\ srv.listening /\ wsSent.calls < MaxWsCalls
    /\ ws.state # "closing" \/ Fault("eof")
    /\ srv.phase # "request" \/ Fault("upgrade")
    /\ srv.phase \in {"frames", "poll"} => ServerFree /\ (srv.phase = "poll" \/ ~ WholeFrame(srv.buffer) \/ Fault("buffered"))
    /\ LET s == [srv EXCEPT !.listening = FALSE]
       IN  ServerBecomes(IF srv.clients THEN Terminated(s)
                         ELSE IF srv.phase = "backlog" THEN [s EXCEPT !.phase = "over", !.handle = FALSE] ELSE s, down)
    /\ Counted("calls") /\ UNCHANGED ws

-----------------------------------------------------------------------------
Client0(pc) == [state |-> "connecting", pc |-> pc, handle |-> FALSE, buffer |-> <<>>, fetched |-> FALSE, read |-> <<>>,
                called |-> FALSE, code |-> 0, events |-> <<>>]
Server0(on) == [listening |-> on, phase |-> "none", state |-> "none", handle |-> FALSE, buffer |-> <<>>, called |-> FALSE,
                clients |-> FALSE, code |-> 0, own |-> FALSE, events |-> <<>>]
Begins(pc, on, calls) == /\ ws = Client0(pc) /\ srv = Server0(on) /\ wsSent = [client |-> 0, server |-> 0, calls |-> calls]
                         /\ up = [cells |-> <<>>, fin |-> FALSE] /\ down = [cells |-> <<>>, fin |-> FALSE]
WebSocketsInit == Begins("dialing", TRUE, 0)
WebSocketsIdle == Begins("over", FALSE, MaxWsCalls)

WebSocketsNext ==
    \/ Connected \/ Refused \/ Fetch \/ HandshakeRead \/ LoopRead \/ Handle \/ LoopAgain
    \/ Send \/ Ping \/ Close \/ Terminate
    \/ Accept \/ Upgrade \/ Poll \/ ServerHandle \/ ServerAgain
    \/ ServerSend \/ ServerClose \/ ServerTerminate \/ ServerStops

-----------------------------------------------------------------------------
Closes(events) == {i \in DOMAIN events : events[i][1] = "close"}

\* Messages arrive in the order they were sent, none of them twice; 'close' is
\* the last event; and who learns of the end by a close frame of the other has
\* all that the other sent before it.
MessagesKept ==
    /\ IsPrefix(Got(ws.events), Texts(wsSent.server)) /\ IsPrefix(Got(srv.events), Texts(wsSent.client))
    /\ \A events \in {ws.events, srv.events} : Closes(events) \subseteq {Len(events)}
    /\ ws.state = "closed" /\ ws.code = 1000 => Got(ws.events) = Texts(wsSent.server)
    /\ srv.state = "closed" /\ srv.code = 1000 /\ ~ srv.own => Got(srv.events) = Texts(wsSent.client)

\* Who is closed holds no handle and is no client of the server, which has none
\* once it is closed itself; and when nothing is on its way any more both ends
\* are open or neither is.
Quiet == /\ up.cells = <<>> /\ down.cells = <<>> /\ ~ ws.fetched
         /\ ws.pc \in {"reading", "over"} /\ (ws.pc = "reading" => ~ down.fin)
         /\ srv.phase \in {"none", "poll", "over"} /\ (srv.phase = "poll" => srv.state = "open" /\ ~ up.fin)
EndsAgree ==
    /\ ws.state = "closed" => ~ ws.handle
    /\ srv.clients <=> srv.state = "open"
    /\ ~ srv.listening => srv.state # "open"
    /\ Quiet /\ ws.pc # "dialing" /\ srv.state # "none" => (ws.state = "closed" <=> srv.state = "closed")
=============================================================================
