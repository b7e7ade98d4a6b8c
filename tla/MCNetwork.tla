------------------------------ MODULE MCNetwork ------------------------------
(***************************************************************************)
(* fetch() and the other clients and servers of the engine, one part at a    *)
(* time: the others are idle.                                              *)
(***************************************************************************)
EXTENDS Fetch

VARIABLE  part                                \* the part at work
VARIABLES ws, srv, up, down, wsSent           \* WebSockets
VARIABLE  http                                \* HttpAgent
VARIABLES link, exchanges, active, gone       \* HttpServer
VARIABLES calls, handles, bun                 \* BlockingServer
VARIABLE  h2                                  \* Http2
VARIABLE  dg                                  \* Datagrams

wsVars       == <<ws, srv, up, down, wsSent>>
serverVars   == <<link, exchanges, active, gone>>
blockingVars == <<calls, handles, bun>>

R(f, g, t, c) == [framing |-> f, gz |-> g, to |-> t, close |-> c]
MCSignalOf == [r \in Requests |-> ToString(r)]
Same  == [r \in Requests |-> "a"]
World(origin, reply) == [origin |-> origin, replies |-> [o \in {"a", "b"} |-> {reply}]]
Plain == R("length", FALSE, "none", FALSE)
MCWorlds ==
    {World(Same, reply) : reply \in
        {Plain, R("chunked", FALSE, "none", FALSE), R("chunked", TRUE, "none", TRUE),
         R("close", FALSE, "none", TRUE)}}
    \cup {World([Same EXCEPT ![2] = "b"], Plain)}
    \cup {[origin |-> Same,
           replies |-> [a |-> {R("length", FALSE, "b", FALSE)}, b |-> {Plain}]]}
    \cup {[origin |-> [Same EXCEPT ![1] = "c", ![2] = "c"],
           replies |-> [c |-> {R("chunked", FALSE, "c", TRUE)}]]}

\* The calls are over and no connection was made.
FetchIdle ==
    /\ world = CHOOSE w \in Worlds : TRUE
    /\ req = [r \in Requests |->
                 [pc |-> "settled", hop |-> 0, origin |-> world.origin[r], handle |-> Nobody,
                  reused |-> FALSE, dialing |-> {}, acc |-> <<>>, heads |-> <<>>, answers |-> <<>>]]
    /\ conn = [h \in Handles |-> [status |-> "unused", coming |-> <<>>, eof |-> FALSE, h2 |-> FALSE, origin |-> "none"]]
    /\ pool = [free |-> <<>>, timers |-> {}, active |-> 0]
    /\ body = <<>>
    /\ signal = Unheard(TRUE, MaxFaults)
    /\ LoopInit(<<>>)

-----------------------------------------------------------------------------
W == INSTANCE WebSockets WITH MaxTexts <- [client |-> 1, server |-> 2], MaxWsCalls <- 2, WsFaults <- {}
H == INSTANCE HttpAgent WITH MaxRequests <- 3, MaxSockets <- 1, MaxFree <- 1, MaxRedirects <- 1, AgentFaults <- {}
S == INSTANCE HttpServer WITH conn <- link, MaxExchanges <- 2, MaxWrites <- 1, MaxBody <- 1, MaxFramed <- 1, ServerFaults <- {}
L == INSTANCE BlockingServer WITH MaxHandles <- 3, BlockingFaults <- {}
I == INSTANCE Http2 WITH Reqs <- {1}, Http2Faults <- {}
F == INSTANCE Datagrams WITH MaxArrivals <- 2, MaxSends <- 1, DatagramFaults <- {}

\* Every part but one is idle, and stays so.
OthersIdle(but) ==
    /\ part = but
    /\ IF but = "fetch" THEN TRUE ELSE FetchIdle
    /\ IF but = "ws" THEN TRUE ELSE W!WebSocketsIdle
    /\ IF but = "agent" THEN TRUE ELSE H!HttpAgentIdle
    /\ IF but = "server" THEN TRUE ELSE S!HttpServerIdle
    /\ IF but = "blocking" THEN TRUE ELSE L!BlockingServerIdle
    /\ IF but = "http2" THEN TRUE ELSE I!Http2Idle
    /\ IF but = "datagrams" THEN TRUE ELSE F!DatagramsIdle

OthersStill(but) ==
    /\ UNCHANGED part
    /\ IF but = "fetch" THEN TRUE ELSE UNCHANGED fetchVars
    /\ IF but = "ws" THEN TRUE ELSE UNCHANGED wsVars
    /\ IF but = "agent" THEN TRUE ELSE UNCHANGED http
    /\ IF but = "server" THEN TRUE ELSE UNCHANGED serverVars
    /\ IF but = "blocking" THEN TRUE ELSE UNCHANGED blockingVars
    /\ IF but = "http2" THEN TRUE ELSE UNCHANGED h2
    /\ IF but = "datagrams" THEN TRUE ELSE UNCHANGED dg

MCInit ==
    \/ FetchInit /\ OthersIdle("fetch")
    \/ W!WebSocketsInit /\ OthersIdle("ws")
    \/ H!HttpAgentInit /\ OthersIdle("agent")
    \/ S!HttpServerInit /\ OthersIdle("server")
    \/ L!BlockingServerInit /\ OthersIdle("blocking")
    \/ I!Http2Init /\ OthersIdle("http2")
    \/ F!DatagramsInit /\ OthersIdle("datagrams")

MCNext ==
    \/ part = "fetch" /\ FetchNext /\ OthersStill("fetch")
    \/ part = "ws" /\ W!WebSocketsNext /\ OthersStill("ws")
    \/ part = "agent" /\ H!HttpAgentNext /\ OthersStill("agent")
    \/ part = "server" /\ S!HttpServerNext /\ OthersStill("server")
    \/ part = "blocking" /\ L!BlockingServerNext /\ OthersStill("blocking")
    \/ part = "http2" /\ I!Http2Next /\ OthersStill("http2")
    \/ part = "datagrams" /\ F!DatagramsNext /\ OthersStill("datagrams")

vars == <<part, fetchVars, wsVars, http, serverVars, blockingVars, h2, dg>>
MCSpec == MCInit /\ [][MCNext]_vars /\ FetchFair

\* Both ends of a connection agree on what was said and on its end, and the
\* sockets an agent keeps are free, open and counted.
ConnectionsKept ==
    /\ part = "ws"       => W!MessagesKept /\ W!EndsAgree
    /\ part = "agent"    => H!PoolKept
    /\ part = "server"   => S!MessagesRead /\ S!ResponsesFramed /\ S!TimersRight
    /\ part = "blocking" => L!ConnectionsAnswered
    /\ part = "http2"    => I!EventsOrdered /\ I!BodiesWhole /\ I!SessionsSettle
    /\ part = "datagrams" => F!DatagramsHeard /\ F!SocketLives
=============================================================================
