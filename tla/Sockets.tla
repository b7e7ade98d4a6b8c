------------------------------ MODULE Sockets ------------------------------
(***************************************************************************)
(* net.js: the write queue, the read loop and the life of a Socket, and the *)
(* accept loop of a Server.                                                *)
(*                                                                         *)
(* The program acts between any two steps: what it does from within a       *)
(* listener or a callback is one of its actions while the tick that calls   *)
(* it (now) is not at its end.                                             *)
(***************************************************************************)
EXTENDS Naturals, Sequences, FiniteSets, SequencesExt

CONSTANTS Sizes,          \* bytes of each write
          HighWaterMark,
          Chunks,         \* what the peer sends
          SocketFaults,   \* "late": the kernel fails after it has taken a part;
                          \* "early": destroy() while connecting; "failed": destroy()
                          \* or end() after the connection failed; "callback": the socket is
                          \* destroyed by a listener of a tick
          Peers           \* connections a server is offered

VARIABLES sock,      \* the Socket's fields
          now,       \* the function of nextTick that runs
          wq,        \* _wq: [id, left]
          ticks,     \* functions given to nextTick
          kernel,    \* the writes whose bytes were sent, a byte each
          calls,     \* per write, what its callback was called with
          events,    \* what was emitted
          peer,      \* chunks the peer has left to send, and its FIN
          server     \* the Server's fields and its sockets

socketVars == <<sock, now, wq, ticks, kernel, calls, events, peer, server>>

Ids     == DOMAIN Sizes
Begun   == sock.state \notin {"new", "off"}
Written == {id \in Ids : id < sock.next}
Bytes(q) == FoldLeft(LAMBDA n, e : n + e.left, 0, q)
NoTick  == [kind |-> "none", ids |-> <<>>, empty |-> FALSE]
Idle    == now = NoTick /\ ~ sock.told /\ ~ sock.flush
Emit(e) == events' = Append(events, e)
Emitted(e) == e \in ToSet(events)
Flag(f) == f \in SocketFaults

\* destroy(): what was not sent is dropped, its callbacks get an error; 'close'.
DestroyedWith(s, q, ts, ev, error) ==
    IF s.destroyed THEN sock' = s /\ wq' = q /\ ticks' = ts /\ events' = ev
    ELSE /\ sock' = [s EXCEPT !.destroyed = TRUE, !.reading = FALSE, !.handle = FALSE,
                              !.needDrain = IF q = <<>> THEN @ ELSE FALSE,
                              !.closed = @ + IF s.handle THEN 1 ELSE 0]
         /\ wq' = <<>>
         /\ ticks' = IF q = <<>> THEN ts
                     ELSE Append(ts, [kind |-> "discarded", ids |-> [i \in 1 .. Len(q) |-> q[i].id]])
         /\ events' = ev \o (IF error THEN <<"error", "close">> ELSE <<"close">>)

-----------------------------------------------------------------------------
(* _flushWrites: the kernel takes n bytes of the queue, then it is full,    *)
(* fails, or there is nothing left.                                        *)

Taken(q, n) ==
    LET f[i \in 0 .. Len(q)] == IF i = 0 THEN n ELSE IF f[i - 1] > q[i].left THEN f[i - 1] - q[i].left ELSE 0
        whole(i) == f[i - 1] >= q[i].left
        rest == SelectSeq([i \in 1 .. Len(q) |-> [id |-> q[i].id, left |-> IF whole(i) THEN 0 ELSE q[i].left - f[i - 1]]],
                          LAMBDA e : e.left > 0)
    IN  [rest |-> rest, done |-> [i \in 1 .. Len(q) - Len(rest) |-> q[i].id],
         bytes |-> FlattenSeq([i \in 1 .. Len(q) |->
                      [b \in 1 .. (IF whole(i) THEN q[i].left ELSE f[i - 1]) |-> q[i].id]])]

Blocked(s) == s.waiting \/ s.destroyed \/ ~ s.handle

\* Mutant: a callback is called although a part of its bytes waits.
FlushedEarly(s, q) ==
    IF Blocked(s) THEN sock' = s /\ wq' = q /\ UNCHANGED <<ticks, kernel, events>>
    ELSE \E n \in 0 .. Bytes(q), ends \in {"full", "empty", "fails"} :
            LET t == Taken(q, n)
            IN  /\ (ends = "empty") = (n = Bytes(q)) /\ (ends = "fails" => n = 0 /\ now = NoTick)
                /\ kernel' = kernel \o t.bytes
                /\ IF ends = "fails" THEN DestroyedWith(s, t.rest, ticks, events, TRUE)
                   ELSE /\ sock' = [s EXCEPT !.waiting = ends = "full"] /\ wq' = t.rest /\ UNCHANGED events
                        /\ ticks' = IF n = 0 /\ t.rest # <<>> THEN ticks
                                    ELSE Append(ticks, [kind |-> "flushed", ids |-> [i \in 1 .. Len(q) |-> q[i].id]])

Flushed(s, q) ==
    IF Blocked(s) THEN sock' = s /\ wq' = q /\ UNCHANGED <<ticks, kernel, events>>
    ELSE \E n \in 0 .. Bytes(q), ends \in {"full", "empty", "fails"} :
            LET t == Taken(q, n)
            IN  /\ (ends = "empty") = (n = Bytes(q)) /\ (ends = "fails" => (n = 0 \/ Flag("late")) /\ (now = NoTick \/ Flag("callback")))
                /\ kernel' = kernel \o t.bytes
                /\ IF ends = "fails" THEN DestroyedWith(s, t.rest, ticks, events, TRUE)
                   ELSE /\ sock' = [s EXCEPT !.waiting = ends = "full"] /\ wq' = t.rest /\ UNCHANGED events
                        /\ ticks' = IF t.done = <<>> /\ t.rest # <<>> THEN ticks
                                    ELSE Append(ticks, [kind |-> "flushed", ids |-> t.done])

\* write(): refused once the socket has ended; else queued and flushed.
Write ==
    /\ Begun /\ sock.next \in Ids /\ ~ sock.told
    /\ LET id == sock.next
           s  == [sock EXCEPT !.next = @ + 1]
       IN  IF sock.destroyed \/ sock.writableEnded \/ (~ sock.handle /\ sock.state # "connecting")
           THEN /\ sock' = s /\ ticks' = Append(ticks, [kind |-> "discarded", ids |-> <<id>>])
                /\ UNCHANGED <<now, wq, kernel, calls, events, peer, server>>
           ELSE /\ Flushed([s EXCEPT !.told = TRUE, !.accepted = @ \cup {id}], Append(wq, [id |-> id, left |-> Sizes[id]]))
                /\ UNCHANGED <<now, calls, peer, server>>

\* What write() returns: whether 'drain' is to come.
WriteReturns ==
    /\ sock.told /\ UNCHANGED <<now, wq, ticks, kernel, calls, events, peer, server>>
    /\ sock' = [sock EXCEPT !.told = FALSE, !.needDrain = @ \/ Bytes(wq) >= HighWaterMark]

\* Mutant: the queue is not looked at when the kernel has room again.
WaitedIoIdle ==
    /\ sock.waiting /\ Idle /\ UNCHANGED <<now, wq, ticks, kernel, calls, events, peer, server>>
    /\ sock' = [sock EXCEPT !.waiting = FALSE]

\* The kernel has room again.
WaitedIo ==
    \E fails \in BOOLEAN :
        /\ sock.waiting /\ Idle /\ UNCHANGED <<now, calls, peer, server>>
        /\ IF fails
           THEN /\ DestroyedWith([sock EXCEPT !.waiting = FALSE], wq, ticks, events, TRUE) /\ UNCHANGED kernel
           ELSE Flushed([sock EXCEPT !.waiting = FALSE], wq)

End ==
    /\ Begun /\ ~ sock.writableEnded /\ ~ sock.told /\ (sock.state = "failed" => Flag("failed"))
    /\ sock' = [sock EXCEPT !.writableEnded = TRUE, !.ending = TRUE]
    /\ ticks' = IF wq = <<>> /\ sock.state # "connecting" THEN Append(ticks, [kind |-> "finish", ids |-> <<>>]) ELSE ticks
    /\ UNCHANGED <<now, wq, kernel, calls, events, peer, server>>

\* _wqFinish: FIN, 'finish', and the socket is closed unless it may be half open.
Finished(s) ==
    IF s.finished THEN sock' = s /\ UNCHANGED <<wq, ticks, events>>
    ELSE LET f == [s EXCEPT !.finished = TRUE, !.ending = FALSE]
         IN  IF s.ended \/ ~ s.halfOpen THEN DestroyedWith(f, wq, ticks, Append(events, "finish"), FALSE)
             ELSE sock' = f /\ Emit("finish") /\ UNCHANGED <<wq, ticks>>

-----------------------------------------------------------------------------
(* The functions given to nextTick.                                        *)

Tick ==
    /\ Idle /\ ticks # <<>> /\ ticks' = Tail(ticks) /\ UNCHANGED <<wq, kernel, calls, peer, server>>
    /\ LET t      == Head(ticks)
           empty  == wq = <<>> /\ ~ sock.destroyed
           drains == t.kind = "flushed" /\ empty /\ sock.needDrain /\ ~ sock.ending
       IN  /\ now' = [kind |-> t.kind, ids |-> t.ids, empty |-> empty]
           /\ sock' = [sock EXCEPT !.needDrain = @ /\ ~ drains]
           /\ IF drains THEN Emit("drain") ELSE UNCHANGED events

\* The write callbacks, in the order of the writes.
CallBack ==
    /\ now.ids # <<>> /\ ~ sock.told /\ UNCHANGED <<sock, wq, ticks, kernel, events, peer, server>>
    /\ now' = [now EXCEPT !.ids = Tail(@)]
    /\ calls' = [calls EXCEPT ![Head(now.ids)] = Append(@, IF now.kind = "flushed" THEN "ok" ELSE "error")]

\* Mutant: what the callbacks have written is not looked at.
TickEndsStale ==
    /\ now # NoTick /\ now.ids = <<>> /\ ~ sock.told /\ now' = NoTick /\ UNCHANGED <<kernel, calls, peer, server>>
    /\ IF \/ now.kind = "flushed" /\ now.empty /\ sock.ending
          \/ now.kind = "finish"
       THEN Finished(sock) ELSE UNCHANGED <<sock, wq, ticks, events>>

TickEnds ==
    /\ now # NoTick /\ now.ids = <<>> /\ ~ sock.told /\ now' = NoTick /\ UNCHANGED <<kernel, calls, peer, server>>
    /\ IF \/ now.kind = "flushed" /\ now.empty /\ sock.ending /\ wq = <<>>
          \/ now.kind = "finish" /\ now.empty
       THEN Finished(sock) ELSE UNCHANGED <<sock, wq, ticks, events>>

-----------------------------------------------------------------------------
(* connect(), the read loop, destroy() and the idle timer.                 *)

Connect ==
    /\ sock.state = "new" /\ sock' = [sock EXCEPT !.state = "connecting"]
    /\ UNCHANGED <<now, wq, ticks, kernel, calls, events, peer, server>>

\* A read is asked for, unless the socket is paused or gone.
ReadOne(s) ==
    IF s.destroyed \/ ~ s.handle \/ s.paused THEN [s EXCEPT !.reading = FALSE]
    ELSE [s EXCEPT !.reading = TRUE, !.reads = @ + 1]

StartReading(s) == IF s.reading \/ s.destroyed \/ ~ s.handle THEN s ELSE ReadOne(s)

\* The connection is there, and the listeners of 'connect' are at work; one
\* that comes after destroy() is left to itself.
Connected ==
    /\ Idle /\ sock.state = "connecting" /\ UNCHANGED <<now, calls, peer, server>>
    /\ LET s == [sock EXCEPT !.state = "open", !.opened = @ + 1]
       IN  IF sock.destroyed THEN sock' = s /\ UNCHANGED <<wq, ticks, kernel, events>>
           ELSE sock' = [s EXCEPT !.handle = TRUE, !.flush = TRUE] /\ Emit("connect") /\ UNCHANGED <<wq, ticks, kernel>>

\* After the listeners the first read is asked for, and what was written while
\* connecting is sent.
FlushAfterConnect ==
    /\ sock.flush /\ ~ sock.told /\ UNCHANGED <<now, calls, peer, server>>
    /\ Flushed(StartReading([sock EXCEPT !.flush = FALSE]), wq)

ConnectFails ==
    /\ Idle /\ sock.state = "connecting" /\ UNCHANGED <<now, kernel, calls, peer, server>>
    /\ IF sock.destroyed THEN sock' = [sock EXCEPT !.state = "failed"] /\ UNCHANGED <<wq, ticks, events>>
       ELSE /\ sock' = [sock EXCEPT !.state = "failed", !.needDrain = IF wq = <<>> THEN @ ELSE FALSE] /\ wq' = <<>>
            /\ ticks' = IF wq = <<>> THEN ticks
                        ELSE Append(ticks, [kind |-> "discarded", ids |-> [i \in 1 .. Len(wq) |-> wq[i].id]])
            /\ events' = events \o <<"error", "close">>

\* A chunk, or the peer's FIN: a socket that may not be half open is closed.
ReadDone ==
    /\ Idle /\ sock.reads > 0 /\ UNCHANGED <<now, kernel, calls, server>>
    /\ IF sock.destroyed THEN sock' = [sock EXCEPT !.reads = @ - 1] /\ UNCHANGED <<wq, ticks, events, peer>>
       ELSE IF peer.left > 0
       THEN /\ peer' = [peer EXCEPT !.left = @ - 1] /\ Emit("data") /\ UNCHANGED <<wq, ticks>>
            /\ sock' = ReadOne([sock EXCEPT !.reads = @ - 1])
       ELSE /\ peer.fin /\ UNCHANGED peer
            /\ LET s == [sock EXCEPT !.reads = @ - 1, !.ended = TRUE, !.reading = FALSE]
               IN  IF s.halfOpen THEN sock' = s /\ Emit("end") /\ UNCHANGED <<wq, ticks>>
                   ELSE DestroyedWith(s, wq, ticks, Append(events, "end"), FALSE)

Pause == /\ ~ sock.paused /\ sock.state = "open" /\ sock.pauses > 0
         /\ sock' = [sock EXCEPT !.paused = TRUE, !.pauses = @ - 1]
         /\ UNCHANGED <<now, wq, ticks, kernel, calls, events, peer, server>>

\* Mutant: a read that is under way is not taken into account.
ResumeAgain ==
    /\ sock.paused /\ UNCHANGED <<now, wq, ticks, kernel, calls, events, peer, server>>
    /\ LET s == [sock EXCEPT !.paused = FALSE] IN sock' = IF s.ended THEN s ELSE ReadOne(s)

Resume ==
    /\ sock.paused /\ UNCHANGED <<now, wq, ticks, kernel, calls, events, peer, server>>
    /\ LET s == [sock EXCEPT !.paused = FALSE] IN sock' = IF s.ended THEN s ELSE StartReading(s)

Destroy ==
    /\ ~ sock.destroyed /\ ~ sock.told /\ Begun
    /\ sock.state = "connecting" => Flag("early")
    /\ sock.state = "failed" => Flag("failed")
    /\ now # NoTick => Flag("callback")
    /\ DestroyedWith(sock, wq, ticks, events, FALSE) /\ UNCHANGED <<now, kernel, calls, peer, server>>

-----------------------------------------------------------------------------
(* Server.                                                                 *)

\* tcpAcceptNb's callback: a connection that comes while the server closes is
\* left to itself, a failure is tried again after a while.
Accepted ==
    \E fails \in BOOLEAN :
        /\ server.accepting /\ UNCHANGED <<sock, now, wq, ticks, kernel, calls, events, peer>>
        /\ IF server.closed
           THEN server' = [server EXCEPT !.accepting = FALSE]
           ELSE IF fails THEN /\ server.offered < Peers
                              /\ server' = [server EXCEPT !.accepting = FALSE, !.retry = TRUE]
           ELSE /\ server.offered < Peers
                /\ server' = [server EXCEPT !.offered = @ + 1, !.connections = @ + 1,
                                            !.sockets = @ \cup {server.offered + 1}]

AcceptAgain == /\ server.retry /\ server' = [server EXCEPT !.retry = FALSE, !.accepting = ~ server.closed]
               /\ UNCHANGED <<sock, now, wq, ticks, kernel, calls, events, peer>>

\* Mutant: the socket is not taken off the list.
ConnectionClosesKept ==
    \E s \in server.sockets :
        /\ server' = [server EXCEPT !.connections = @ - 1]
        /\ UNCHANGED <<sock, now, wq, ticks, kernel, calls, events, peer>>

ConnectionCloses ==
    \E s \in server.sockets :
        /\ server' = [server EXCEPT !.connections = @ - 1, !.sockets = @ \ {s}]
        /\ UNCHANGED <<sock, now, wq, ticks, kernel, calls, events, peer>>

ServerClose == /\ ~ server.closed /\ server' = [server EXCEPT !.closed = TRUE]
               /\ UNCHANGED <<sock, now, wq, ticks, kernel, calls, events, peer>>

SocketsInit(kinds) ==
    /\ \E kind \in kinds, halfOpen \in BOOLEAN, fin \in BOOLEAN :
          /\ sock = [state |-> IF kind = "socket" THEN "new" ELSE "off", destroyed |-> FALSE, handle |-> FALSE,
                     halfOpen |-> halfOpen, ended |-> FALSE, writableEnded |-> FALSE, ending |-> FALSE,
                     finished |-> FALSE, waiting |-> FALSE, needDrain |-> FALSE, reading |-> FALSE, reads |-> 0,
                     paused |-> FALSE, pauses |-> 1, next |-> 1, accepted |-> {}, told |-> FALSE, flush |-> FALSE,
                     opened |-> 0, closed |-> 0]
          /\ peer = [left |-> Chunks, fin |-> fin]
          /\ server = [accepting |-> kind = "server", retry |-> FALSE, closed |-> kind # "server", offered |-> 0,
                       connections |-> 0, sockets |-> {}]
          /\ kind # "socket" => ~ halfOpen /\ ~ fin
    /\ now = NoTick /\ wq = <<>> /\ ticks = <<>> /\ kernel = <<>> /\ calls = [id \in Ids |-> <<>>] /\ events = <<>>

SocketsIdle == SocketsInit({"none"})

SocketsNext ==
    \/ Write \/ End \/ Pause \/ Resume \/ Destroy \/ WriteReturns \/ WaitedIo
    \/ Tick \/ CallBack \/ TickEnds \/ Connect \/ Connected \/ FlushAfterConnect \/ ConnectFails \/ ReadDone
    \/ Accepted \/ AcceptAgain \/ ConnectionCloses \/ ServerClose

SocketsFair ==
    /\ WF_socketVars(WaitedIo) /\ WF_socketVars(Tick) /\ WF_socketVars(CallBack) /\ WF_socketVars(TickEnds)
    /\ WF_socketVars(WriteReturns) /\ WF_socketVars(Connected \/ ConnectFails) /\ WF_socketVars(FlushAfterConnect)
    /\ WF_socketVars(AcceptAgain)

-----------------------------------------------------------------------------
Sent(id) == Len(SelectSeq(kernel, LAMBDA k : k = id))
Closed   == Emitted("close")

\* The kernel is given the bytes in the order they were written, and a write's
\* callback is called once: without an error only when all its bytes were sent.
WritesKept ==
    /\ \A i \in 1 .. Len(kernel) - 1 : kernel[i] <= kernel[i + 1]
    /\ \A id \in Ids :
          /\ Sent(id) <= Sizes[id] /\ Len(calls[id]) <= 1
          /\ calls[id] = <<"ok">> => Sent(id) = Sizes[id]
          /\ \A k \in 1 .. id - 1 : Sent(id) > 0 => Sent(k) = Sizes[k]

\* 'finish' means that all that was accepted is in the kernel; 'close' is the last event, and there is one of each.
EventsInOrder ==
    /\ Emitted("finish") => \A id \in sock.accepted : Sent(id) = Sizes[id]
    /\ \A e \in {"connect", "finish", "end", "close"} : Len(SelectSeq(events, LAMBDA x : x = e)) <= 1
    /\ Closed => Last(events) = "close"

\* One read is under way at a time, and one is when the socket is not paused.
OneRead ==
    /\ sock.reads <= 1
    /\ sock.handle /\ ~ sock.paused /\ ~ sock.ended /\ ~ sock.flush => sock.reads = 1

\* What was opened is closed with its socket.
HandleClosed == sock.opened = sock.closed + IF sock.handle THEN 1 ELSE 0

ServerCounts ==
    /\ server.connections = Cardinality(server.sockets)
    /\ ~ server.closed => server.accepting \/ server.retry

\* A write that was accepted is answered, one that returned false is followed
\* by 'drain' unless the socket is ended or closed.
SocketPending ==
    \/ \E id \in Written : calls[id] = <<>>
    \/ sock.needDrain /\ ~ sock.destroyed /\ ~ sock.ending /\ ~ sock.finished
=============================================================================
