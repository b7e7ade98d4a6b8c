----------------------------- MODULE Datagrams -----------------------------
(***************************************************************************)
(* dgram.js: a UDP socket. The bridge (external) sends at once, or when the  *)
(* kernel has room, and reads one datagram when it is asked; what it calls   *)
(* back, and the timers of the module, keep their order, each among its own. *)
(***************************************************************************)
EXTENDS Integers, Sequences, FiniteSets, SequencesExt

CONSTANTS MaxArrivals,     \* datagrams for the socket
          MaxSends,        \* calls of send()
          DatagramFaults   \* "unread": a read fails; "full": the socket is closed while a datagram waits for room; "late": bind() after
                           \* close(); "silent": a send without callback fails

VARIABLE dg                \* the socket's fields and the bridge's: timers, fired, polling, full, inbox; and what the program has seen

DatagramFault(f) == f \in DatagramFaults
Idle(d)   == d.at = "none"
setTimeout(d, kind, value) == [d EXCEPT !.timers = Append(@, [kind |-> kind, value |-> value])]
Fire(d, kind, value, failed) == [d EXCEPT !.fired = Append(@, [kind |-> kind, value |-> value, failed |-> failed])]
Saw(d, event) == [d EXCEPT !.seen = Append(@, event)]

-----------------------------------------------------------------------------
(* Binding and receiving.                                                  *)

\* bind: free is whether the port is; a failed bind leaves the socket unbound.
bind(d, free) ==
    IF d.closed THEN setTimeout(d, "error", 0)
    ELSE IF free THEN setTimeout([d EXCEPT !.handle = TRUE, !.bound = TRUE], "listening", 0)
    ELSE setTimeout([d EXCEPT !.handle = TRUE], "error", 0)
Bound(d, free) == IF d.bound THEN d ELSE bind(d, free)

\* udpRecvNb.
Receive(d) == IF d.inbox = <<>> THEN [d EXCEPT !.polling = TRUE] ELSE Fire([d EXCEPT !.inbox = Tail(@)], "message", Head(d.inbox), FALSE)
_startReceiving(d) == IF d.receiving \/ d.closed \/ ~ d.handle THEN d ELSE Receive([d EXCEPT !.receiving = TRUE])

\* Mutant: a message that was read before the socket was closed is emitted.
onMsgAnyway(d, v) == IF v.failed THEN Saw([d EXCEPT !.receiving = FALSE], "error") ELSE [Saw([d EXCEPT !.receiving = FALSE], "message") EXCEPT !.heard = Append(@, v.value), !.at = "message"]
onMsg(d, v) ==
    LET idle == [d EXCEPT !.receiving = FALSE]
    IN  IF d.closed \/ ~ d.handle THEN idle
        ELSE IF v.failed THEN Saw(idle, "error")
        ELSE [Saw(idle, "message") EXCEPT !.heard = Append(@, v.value), !.at = "message"]

\* Mutant: the next datagram is not asked for.
RearmedNot(d) == d
Rearmed(d) == IF d.closed \/ ~ d.handle \/ ~ d.bound THEN d ELSE _startReceiving(d)

\* After the listeners of 'listening' and of 'message'.
Returned(d) == IF d.at = "listening" THEN _startReceiving([d EXCEPT !.at = "none"]) ELSE Rearmed([d EXCEPT !.at = "none"])

-----------------------------------------------------------------------------
(* Sending.                                                                *)

\* udpSendNb: sent, failed, or kept until there is room.
Outcomes == {"sent", "failed", "full"}
doSend(d, i, to, outcome) ==
    LET made == [d EXCEPT !.sends[i].to = to]
    IN  IF outcome = "full" THEN [made EXCEPT !.full = Append(@, i)] ELSE Fire(made, "send", i, outcome = "failed")
\* Mutant: a connected socket sends to whom it is told.
TargetTold(d, to) == to
Target(d, to) == IF d.connected # 0 THEN d.connected ELSE to

send(d, i, to, free, outcome) == LET ready == Bound(d, free) IN doSend(ready, i, Target(ready, to), outcome)

Answered(d, v) ==
    IF d.sends[v.value].callback THEN [d EXCEPT !.sends[v.value].called = @ + 1] ELSE IF v.failed THEN Saw(d, "error") ELSE d

-----------------------------------------------------------------------------
(* Connecting and closing.                                                 *)

connect(d, to, free) == setTimeout(Bound(d, free), "connect", to)
finishConnect(d, to) == IF d.closed THEN d ELSE Saw([d EXCEPT !.connected = to], "connect")

\* udpClose: what is polled for is never called back.
close(d) ==
    IF d.closed THEN d
    ELSE setTimeout([d EXCEPT !.closed = TRUE, !.receiving = FALSE, !.handle = FALSE, !.bound = FALSE, !.polling = FALSE, !.full = <<>>, !.inbox = <<>>], "close", 0)

Timed(d, v) ==
    CASE v.kind = "listening" -> IF d.closed THEN d ELSE [Saw(d, "listening") EXCEPT !.at = "listening"]
      [] v.kind = "connect"   -> finishConnect(d, v.value)
      [] OTHER                -> Saw(d, v.kind)

-----------------------------------------------------------------------------
(* Steps.                                                                  *)

Calls == dg.mode = "socket"
Bind ==
    /\ Calls /\ ~ dg.bound /\ (DatagramFault("late") \/ ~ dg.closed) /\ ~ dg.asked
    /\ \E free \in BOOLEAN : dg' = bind([dg EXCEPT !.asked = TRUE], free)

Send ==
    \E free \in BOOLEAN, outcome \in Outcomes, callback \in BOOLEAN :
        LET i == Len(dg.sends) + 1
        IN  /\ Calls /\ ~ dg.closed /\ i <= MaxSends
            /\ free = FALSE => ~ dg.bound /\ callback
            /\ outcome = "failed" => callback \/ DatagramFault("silent")
            /\ dg' = send([dg EXCEPT !.sends = Append(@, [to |-> 0, callback |-> callback, called |-> 0, when |-> dg.connected])], i, 3, free, outcome)

Connect ==
    \E free \in BOOLEAN, to \in {1, 2} :
        /\ Calls /\ ~ dg.closed /\ dg.connected = 0 /\ dg.connects < to /\ (~ free => ~ dg.bound)
        /\ dg' = connect([dg EXCEPT !.connects = to], to, free)

Disconnect ==
    /\ Calls /\ dg.connected # 0
    /\ dg' = [dg EXCEPT !.connected = 0]

Close ==
    /\ Calls /\ ~ dg.closed /\ (dg.full # <<>> => DatagramFault("full"))
    /\ dg' = close(dg)

Return ==
    /\ ~ Idle(dg)
    /\ dg' = Returned(dg)

Timer ==
    /\ Idle(dg) /\ dg.timers # <<>>
    /\ dg' = Timed([dg EXCEPT !.timers = Tail(@)], Head(dg.timers))

Callback ==
    /\ Idle(dg) /\ dg.fired # <<>>
    /\ LET v == Head(dg.fired)
           rest == [dg EXCEPT !.fired = Tail(@)]
       IN  dg' = IF v.kind = "message" THEN onMsg(rest, v) ELSE Answered(rest, v)

\* The kernel: a datagram arrives, one that is waited for is read, there is room again.
Arrive ==
    /\ dg.bound /\ dg.arrived < MaxArrivals
    /\ dg' = [dg EXCEPT !.arrived = @ + 1, !.inbox = Append(@, dg.arrived + 1)]
Poll ==
    /\ Idle(dg) /\ dg.polling /\ dg.inbox # <<>>
    /\ \E failed \in {FALSE} \cup {DatagramFault("unread")} : dg' = Fire([dg EXCEPT !.polling = FALSE, !.inbox = Tail(@)], "message", Head(dg.inbox), failed)
Room ==
    /\ Idle(dg) /\ dg.full # <<>>
    /\ dg' = Fire([dg EXCEPT !.full = Tail(@)], "send", Head(dg.full), FALSE)

-----------------------------------------------------------------------------
Socket(mode) ==
    [mode |-> mode, handle |-> FALSE, bound |-> FALSE, receiving |-> FALSE, closed |-> FALSE, connected |-> 0, asked |-> FALSE, connects |-> 0,
     timers |-> <<>>, fired |-> <<>>, polling |-> FALSE, full |-> <<>>, inbox |-> <<>>, arrived |-> 0, at |-> "none",
     sends |-> <<>>, heard |-> <<>>, seen |-> <<>>]
DatagramsInit == dg = Socket("socket")
DatagramsIdle == dg = Socket("none")

DatagramsNext ==
    \/ Bind \/ Send \/ Connect \/ Disconnect \/ Close \/ Return \/ Timer \/ Callback \/ Arrive \/ Poll \/ Room

-----------------------------------------------------------------------------
Settled == Idle(dg) /\ dg.timers = <<>> /\ dg.fired = <<>> /\ dg.full = <<>>
Times(event) == {i \in DOMAIN dg.seen : dg.seen[i] = event}

\* The socket hears what arrives for it once and in order, from 'listening' to
\* close(), and has heard all of it when it waits for more.
DatagramsHeard ==
    /\ IsPrefix(dg.heard, [i \in 1 .. dg.arrived |-> i])
    /\ \A i \in Times("message") : \E j \in Times("listening") : j < i
    /\ (Settled /\ dg.bound) => dg.polling /\ (dg.inbox = <<>> => Len(dg.heard) = dg.arrived)

\* A send is answered once, and goes where the socket was connected to when it
\* was made; the events of a socket's life come once, its 'close' last.
SocketLives ==
    /\ \A i \in DOMAIN dg.sends :
          LET s == dg.sends[i]
          IN  /\ s.called <= 1 /\ (Settled /\ s.callback => s.called = 1)
              /\ s.to = (IF s.when = 0 THEN 3 ELSE s.when)
    /\ Cardinality(Times("listening")) <= 1 /\ Cardinality(Times("close")) <= 1
    /\ \A i \in Times("close") : i = Len(dg.seen)
    /\ Settled /\ dg.closed => Times("close") # {}
    /\ dg.closed => \A i \in DOMAIN dg.timers : dg.timers[i].kind = "close" => i = Len(dg.timers)
=============================================================================
