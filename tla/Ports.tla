------------------------------- MODULE Ports -------------------------------
(***************************************************************************)
(* worker_threads.js: the two ports of a channel, which may be a Worker's    *)
(* ("p" with the program, "w" with the script), or BroadcastChannels of one  *)
(* name. Everything runs on one thread; setImmediate keeps the order.        *)
(***************************************************************************)
EXTENDS Integers, Sequences, SequencesExt, FiniteSets

CONSTANTS MaxPosts,      \* messages from each port, and those broadcast
          MaxListeners,  \* added at each port
          Casts,         \* 1 .. n: broadcast channels
          PortFaults     \* "leaving": the last listener leaves, or is for one message only; "away": receiveMessageOnPort of a port
                         \* that is listened to; "deaf": a port is closed whose twin has messages and has not been listened to;
                         \* "within": terminate() while the script is read; "failed": terminate() after its error

VARIABLE pt              \* [ports, at: the listener or script that runs, due: immediates, worker, open, posted, heard]

PortFault(f) == f \in PortFaults
Sides   == {"p", "w"}
twin(e) == IF e = "p" THEN "w" ELSE "p"
Nothing == [kind |-> "none"]

MessagePort == [queue |-> <<>>, listeners |-> <<>>, started |-> FALSE, closed |-> FALSE, scheduled |-> FALSE,
                sent |-> 0, got |-> <<>>, adds |-> 0, closes |-> 0, own |-> FALSE, late |-> FALSE]
setImmediate(t, kind, who, value) == [t EXCEPT !.due = Append(@, [kind |-> kind, who |-> who, value |-> value])]

-----------------------------------------------------------------------------
(* Ports.                                                                  *)

_scheduleDrain(t, e) ==
    IF t.ports[e].scheduled \/ t.ports[e].closed THEN t
    ELSE setImmediate([t EXCEPT !.ports[e].scheduled = TRUE], "drain", e, 0)

\* Mutant: what came before the first listener stays where it is.
startQuiet(t, e) == [t EXCEPT !.ports[e].started = TRUE]
start(t, e) == IF t.ports[e].queue = <<>> THEN [t EXCEPT !.ports[e].started = TRUE] ELSE _scheduleDrain([t EXCEPT !.ports[e].started = TRUE], e)

_addListener(t, e, l) == start([t EXCEPT !.ports[e].listeners = Append(@, l)], e)
off(t, e, id) == [t EXCEPT !.ports[e].listeners = SelectSeq(@, LAMBDA l : l.id # id)]

postMessage(t, to, m) ==
    LET told == [t EXCEPT !.ports[to].queue = Append(@, m)]
    IN  IF t.ports[to].started THEN _scheduleDrain(told, to) ELSE told

close(t, e) == IF t.ports[e].closed THEN t ELSE setImmediate([t EXCEPT !.ports[e].closed = TRUE], "closed", e, 0)
Closed(t, e) == close([t EXCEPT !.ports[e].closes = @ + 1], twin(e))

Heard(t, e, id, m) == [t EXCEPT !.ports[e].got = Append(@, [id |-> id, m |-> m])]
\* emit: the listeners there were when the message was taken; one for once leaves first.
Called(t, e) ==
    LET l == Head(t.at.snap)
        called == [Heard(t, e, l.id, t.at.m) EXCEPT !.at.snap = Tail(@)]
    IN  IF l.once THEN off(called, e, l.id) ELSE called
Taken(t, e) ==
    [t EXCEPT !.ports[e].queue = Tail(@), !.ports[e].late = @ \/ t.ports[e].closed,
              !.at = [kind |-> "drain", who |-> e, snap |-> t.ports[e].listeners, m |-> Head(t.ports[e].queue)]]
\* Mutant: a port that a listener has closed is drained to the end.
DrainedAll(t, e) == IF t.at.snap # <<>> THEN Called(t, e) ELSE IF t.ports[e].queue = <<>> THEN [t EXCEPT !.at = Nothing] ELSE Taken(t, e)
Drained(t, e) ==
    IF t.at.snap # <<>> THEN Called(t, e)
    ELSE IF t.ports[e].queue = <<>> \/ t.ports[e].closed THEN [t EXCEPT !.at = Nothing]
    ELSE Taken(t, e)

\* _drain.
Begun(t, e) ==
    LET free == [t EXCEPT !.ports[e].scheduled = FALSE]
    IN  IF t.ports[e].closed \/ ~ t.ports[e].started THEN free
        ELSE [free EXCEPT !.at = [kind |-> "drain", who |-> e, snap |-> <<>>, m |-> 0]]

-----------------------------------------------------------------------------
(* Workers.                                                                *)

\* _runWorker, and what follows the script or its error.
\* Mutant: a worker that was terminated is started all the same.
RunAnyway(t) == [t EXCEPT !.worker.state = "running", !.at = [kind |-> "script"]]
Run(t) == IF t.worker.state = "terminated" THEN t ELSE [t EXCEPT !.worker.state = "running", !.at = [kind |-> "script"]]

Online(t) == [t EXCEPT !.at = Nothing, !.worker.state = "idle", !.worker.said = Append(@, "online")]
Errored(t) == [t EXCEPT !.at = Nothing, !.worker.state = "errored", !.worker.said = @ \o <<"error", "exit">>]
terminate(t) ==
    close(close([t EXCEPT !.worker.state = "terminated", !.worker.terminated = TRUE, !.worker.said = Append(@, "exit"),
                          !.ports["p"].own = TRUE, !.ports["w"].own = TRUE], "w"), "p")

-----------------------------------------------------------------------------
(* Broadcast channels.                                                     *)

Siblings(t, b) == SetToSortSeq(t.open \ {b}, <)
BroadcastPost(t, b, m) ==
    FoldLeft(LAMBDA u, c : setImmediate(u, "cast", c, m), [t EXCEPT !.posted = Append(@, b)], Siblings(t, b))
\* Mutant: a channel that was closed since is told.
CastAnyway(t, b, m) == [t EXCEPT !.heard[b] = Append(@, [m |-> m, open |-> b \in t.open])]
Cast(t, b, m) == IF b \in t.open THEN [t EXCEPT !.heard[b] = Append(@, [m |-> m, open |-> b \in t.open])] ELSE t

-----------------------------------------------------------------------------
(* Steps.                                                                  *)

Fired(t, v) ==
    CASE v.kind = "drain"  -> Begun(t, v.who)
      [] v.kind = "closed" -> Closed(t, v.who)
      [] v.kind = "run"    -> Run(t)
      [] v.kind = "cast"   -> Cast(t, v.who, v.value)

Fire ==
    /\ pt.at.kind = "none" /\ pt.due # <<>>
    /\ pt' = Fired([pt EXCEPT !.due = Tail(@)], Head(pt.due))

Drain ==
    /\ pt.at.kind = "drain"
    /\ pt' = Drained(pt, pt.at.who)

\* What runs in a listener, or in the script, is at its own side of the channel.
Acts(e) ==
    /\ pt.worker.mode # "cast"
    /\ CASE pt.at.kind = "none"   -> e = "w" => pt.worker.state \in {"none", "idle"}
         [] pt.at.kind = "drain"  -> pt.at.who = e
         [] pt.at.kind = "script" -> e = "w"
Free(e) == pt.worker.mode = "worker" => e = "w"

Post ==
    \E e \in Sides :
        /\ Acts(e) /\ pt.ports[e].sent < MaxPosts[e] /\ ~ pt.ports[e].closed /\ ~ pt.ports[twin(e)].closed
        /\ pt' = postMessage([pt EXCEPT !.ports[e].sent = @ + 1], twin(e), pt.ports[e].sent + 1)

Listen ==
    \E e \in Sides, once \in BOOLEAN :
        /\ Acts(e) /\ pt.ports[e].adds < MaxListeners[e] /\ ~ pt.worker.terminated
        /\ once => (PortFault("leaving") \/ \E i \in DOMAIN pt.ports[e].listeners : ~ pt.ports[e].listeners[i].once)
        /\ pt' = _addListener([pt EXCEPT !.ports[e].adds = @ + 1], e, [id |-> pt.ports[e].adds + 1, once |-> once])

Off ==
    \E e \in Sides, i \in 1 .. 2 :
        /\ Acts(e) /\ i \in DOMAIN pt.ports[e].listeners
        /\ PortFault("leaving") \/ \E j \in DOMAIN pt.ports[e].listeners : j # i /\ ~ pt.ports[e].listeners[j].once
        /\ pt' = off(pt, e, pt.ports[e].listeners[i].id)

receiveMessageOnPort ==
    \E e \in Sides :
        /\ Acts(e) /\ Free(e) /\ ~ pt.ports[e].closed /\ pt.ports[e].queue # <<>>
        /\ PortFault("away") \/ ~ pt.ports[e].started
        /\ pt' = Heard([pt EXCEPT !.ports[e].queue = Tail(@)], e, 0, Head(pt.ports[e].queue))

Close ==
    \E e \in Sides :
        /\ Acts(e) /\ Free(e) /\ ~ pt.ports[e].closed
        /\ PortFault("deaf") \/ pt.ports[twin(e)].started \/ pt.ports[twin(e)].queue = <<>>
        /\ pt' = close([pt EXCEPT !.ports[e].own = TRUE], e)

Terminate ==
    /\ pt.worker.mode = "worker" /\ ~ pt.worker.terminated
    /\ pt.at.kind = "script" => PortFault("within")
    /\ pt.worker.state = "errored" => PortFault("failed")
    /\ pt.at.kind = "drain" => pt.at.who = "p"
    /\ pt' = terminate(pt)

Script ==
    /\ pt.at.kind = "script"
    /\ pt' \in {Online(pt), Errored(pt)}

BroadcastSend ==
    \E b \in pt.open :
        /\ pt.worker.mode = "cast" /\ Len(pt.posted) < MaxPosts["cast"]
        /\ pt' = BroadcastPost(pt, b, Len(pt.posted) + 1)

BroadcastClose ==
    \E b \in pt.open :
        /\ pt.worker.mode = "cast"
        /\ pt' = [pt EXCEPT !.open = @ \ {b}]

-----------------------------------------------------------------------------
Worker(mode) == [mode |-> mode, state |-> IF mode = "worker" THEN "created" ELSE "none", terminated |-> FALSE, said |-> <<>>]
PortsWith(mode) ==
    [ports |-> [e \in Sides |-> MessagePort], at |-> Nothing, worker |-> Worker(mode), open |-> Casts, posted |-> <<>>, heard |-> [b \in Casts |-> <<>>],
     due |-> IF mode = "worker" THEN <<[kind |-> "run", who |-> "w", value |-> 0]>> ELSE <<>>]
PortsInit == \E mode \in {"channel", "worker", "cast"} : pt = PortsWith(mode)
PortsIdle == pt = PortsWith("none")

PortsNext ==
    \/ Fire \/ Drain \/ Post \/ Listen \/ Off \/ receiveMessageOnPort \/ Close \/ Terminate \/ Script \/ BroadcastSend \/ BroadcastClose

-----------------------------------------------------------------------------
Quiet == pt.at.kind = "none" /\ pt.due = <<>>
Messages(e) == {pt.ports[e].got[i].m : i \in DOMAIN pt.ports[e].got}
Pending(e)  == IF pt.at.kind = "drain" /\ pt.at.who = e /\ pt.at.m > 0 THEN {pt.at.m} ELSE {}
Of(e, id)   == SelectSeq(pt.ports[e].got, LAMBDA g : g.id = id)

\* Each message is heard, in the order of sending and by no listener twice,
\* unless the port was closed at its own side; none is taken after that. When
\* one port is closed the other is too, and each says so once.
MessagesHeard ==
    \A e \in Sides :
        LET port == pt.ports[e]
        IN  /\ \A i \in 1 .. Len(port.got) - 1 : port.got[i].m <= port.got[i + 1].m
            /\ \A id \in {1, 2} : \A i \in 1 .. Len(Of(e, id)) - 1 : Of(e, id)[i].m < Of(e, id)[i + 1].m
            /\ Messages(e) \cup Pending(e) = 1 .. (pt.ports[twin(e)].sent - Len(port.queue))
            /\ ~ port.late /\ port.closes <= 1
            /\ Quiet => /\ port.started /\ ~ port.own => port.queue = <<>>
                        /\ port.closed => port.closes = 1 /\ pt.ports[twin(e)].closed

\* A worker is online, or fails, and then exits, or is terminated before; and
\* it exits once, whatever comes of its ports.
WorkersExit ==
    /\ pt.worker.said \in {<<>>, <<"online">>, <<"online", "exit">>, <<"error", "exit">>, <<"exit">>}
    /\ (Quiet /\ pt.worker.terminated) => pt.worker.state = "terminated" /\ \A e \in Sides : pt.ports[e].closed

\* A channel that stays open hears every message of the others, in order, and
\* one that was closed no more.
CastsHeard ==
    \A b \in Casts :
        LET of == SelectSeq([m \in 1 .. Len(pt.posted) |-> m], LAMBDA m : pt.posted[m] # b)
            heard == [i \in DOMAIN pt.heard[b] |-> pt.heard[b][i].m]
        IN  /\ IsPrefix(heard, of) /\ \A i \in DOMAIN pt.heard[b] : pt.heard[b][i].open
            /\ (Quiet /\ b \in pt.open) => heard = of
=============================================================================
