----------------------------- MODULE FetchProofs -----------------------------
(***************************************************************************)
(* What TLAPS proves of Fetch: fetch() settles once (SettledOnce), a socket  *)
(* has one owner (PoolIsKept), and an abort reaches its fetch               *)
(* (AbortAlwaysReaches).                                                   *)
(***************************************************************************)
EXTENDS Fetch, FiniteSetTheorems, SequenceTheorems, TLAPS

-----------------------------------------------------------------------------
(* Why fetch() settles once, whatever may go wrong: of a hop that is neither *)
(* waiting nor settled one call is left to be made, and it alone goes on.    *)

\* The calls that go on with a fetch, and the place of the fetch while one is due.
Settling == {"_fetchFollow", "_fetchOne", "done", "_buildStreamingResponse",
             "_handleFetchResponse", "h2Done"}
Leads(call, r) == call[1] \in Settling /\ call[2] = r
Due(call, q)   == q.pc = (IF call[1] = "h2Done" THEN "h2" ELSE "fired")

\* A sequence, of whatever.
Listed(s) == \E S : s \in Seq(S)
ReqFields == {"pc", "hop", "origin", "handle", "reused", "dialing", "acc", "heads", "answers"}
Shaped(q) == q = [f \in ReqFields |-> q[f]]
Once(q)   == q.answers = <<>> \/ (q.pc = "settled" /\ Len(q.answers) = 1)

LoopInv ==
    /\ Listed(stack) /\ Listed(jobs) /\ ticks = <<>>
    /\ \A i \in 1 .. Len(jobs) : jobs[i][1] = "pump"

SettleInv ==
    /\ req = [r \in Requests |-> req[r]]
    /\ \A r \in Requests : Shaped(req[r]) /\ Once(req[r])
    /\ \A r \in Requests, i \in 1 .. Len(stack) : Leads(stack[i], r) =>
          Due(stack[i], req[r]) /\ \A j \in 1 .. Len(stack) : Leads(stack[j], r) => j = i

\* What a call leaves to be done: the calls it makes, then what its callers have left.
LEMMA ThenDoes ==
    ASSUME Listed(stack), stack # <<>>, NEW calls, Listed(calls), Then(calls)
    PROVE  /\ Listed(stack')
           /\ Len(calls) \in Nat /\ Len(stack) \in Nat \ {0}
           /\ Len(stack') = Len(calls) + Len(stack) - 1
           /\ \A i \in 1 .. Len(stack') :
                 stack'[i] = IF i <= Len(calls) THEN calls[i] ELSE stack[i - Len(calls) + 1]
<1>1. PICK S, C : stack \in Seq(S) /\ calls \in Seq(C)
  BY DEF Listed
<1>2. stack \in Seq(S \cup C) /\ calls \in Seq(S \cup C)
  BY <1>1
<1>3. /\ Tail(stack) \in Seq(S \cup C) /\ Len(Tail(stack)) = Len(stack) - 1
      /\ Len(stack) \in Nat \ {0} /\ Len(calls) \in Nat
      /\ \A i \in 1 .. Len(stack) - 1 : Tail(stack)[i] = stack[i + 1]
  BY <1>2
<1>4. /\ stack' \in Seq(S \cup C) /\ Len(stack') = Len(calls) + Len(stack) - 1
      /\ \A i \in 1 .. Len(stack') :
            stack'[i] = IF i <= Len(calls) THEN calls[i] ELSE Tail(stack)[i - Len(calls)]
  BY <1>2, <1>3 DEF Then
<1>5. \A i \in 1 .. Len(stack') :
         stack'[i] = IF i <= Len(calls) THEN calls[i] ELSE stack[i - Len(calls) + 1]
  BY <1>3, <1>4
<1> QED
  BY <1>3, <1>4, <1>5 DEF Listed

\* A call that goes on with no fetch, and makes none that does.
LEMMA Aside ==
    ASSUME SettleInv, Listed(stack), stack # <<>>, NEW calls, Listed(calls), Then(calls),
           \A i \in 1 .. Len(calls), r \in Requests : ~ Leads(calls[i], r),
           req' = [r \in Requests |-> req'[r]],
           \A r \in Requests : Shaped(req'[r]) /\ req'[r].pc = req[r].pc
                                /\ req'[r].answers = req[r].answers
    PROVE  SettleInv'
<1>1. /\ \A r \in Requests, i \in 1 .. Len(stack') : Leads(stack'[i], r) =>
            i - Len(calls) + 1 \in 1 .. Len(stack) /\ stack'[i] = stack[i - Len(calls) + 1]
      /\ Len(calls) \in Nat /\ Len(stack') \in Nat
  BY ThenDoes
<1>2. \A r \in Requests, i \in 1 .. Len(stack') : Leads(stack'[i], r) =>
         Due(stack'[i], req'[r]) /\ \A j \in 1 .. Len(stack') : Leads(stack'[j], r) => j = i
  <2> SUFFICES ASSUME NEW r \in Requests, NEW i \in 1 .. Len(stack'), Leads(stack'[i], r),
                      NEW j \in 1 .. Len(stack'), Leads(stack'[j], r)
               PROVE  Due(stack'[i], req'[r]) /\ j = i
    OBVIOUS
  <2>1. Leads(stack[i - Len(calls) + 1], r) /\ Leads(stack[j - Len(calls) + 1], r)
    BY <1>1
  <2>2. Due(stack[i - Len(calls) + 1], req[r]) /\ j - Len(calls) + 1 = i - Len(calls) + 1
    BY <1>1, <2>1 DEF SettleInv
  <2>3. Due(stack'[i], req[r])
    BY <1>1, <2>2
  <2> QED
    BY <1>1, <2>2, <2>3 DEF Due
<1>3. \A r \in Requests : Shaped(req'[r]) /\ Once(req'[r])
  BY DEF SettleInv, Once
<1> QED
  BY <1>2, <1>3 DEF SettleInv

\* A call that takes one fetch on, if it was its turn or the fetch has waited.
LEMMA GoesOn ==
    ASSUME SettleInv, Listed(stack), stack # <<>>, NEW calls, Listed(calls), Then(calls),
           NEW r, NEW q, Shaped(q), Once(q), req' = [req EXCEPT ![r] = q],
           \A i \in 1 .. Len(calls), t \in Requests : Leads(calls[i], t) =>
              t = r /\ i = 1 /\ Due(calls[i], q),
           r \in Requests => Leads(stack[1], r) \/ req[r].pc \notin {"fired", "h2"}
    PROVE  SettleInv'
<1>1. /\ Len(calls) \in Nat /\ Len(stack) \in Nat \ {0} /\ Len(stack') \in Nat
      /\ \A i \in 1 .. Len(stack') : i > Len(calls) =>
            i - Len(calls) + 1 \in 2 .. Len(stack) /\ stack'[i] = stack[i - Len(calls) + 1]
      /\ \A i \in 1 .. Len(stack') : ~ i > Len(calls) =>
            i \in 1 .. Len(calls) /\ stack'[i] = calls[i]
  BY ThenDoes
<1>2. /\ req' = [t \in Requests |-> req'[t]]
      /\ \A t \in Requests : req'[t] = IF t = r THEN q ELSE req[t]
  BY DEF SettleInv
<1>3. \A t \in Requests : Shaped(req'[t]) /\ Once(req'[t])
  BY <1>2 DEF SettleInv
<1>4. \A i \in 2 .. Len(stack) : r \in Requests => ~ Leads(stack[i], r)
  <2> SUFFICES ASSUME NEW i \in 2 .. Len(stack), r \in Requests, Leads(stack[i], r) PROVE FALSE
    OBVIOUS
  <2>1. Due(stack[i], req[r]) /\ \A j \in 1 .. Len(stack) : Leads(stack[j], r) => j = i
    BY <1>1 DEF SettleInv
  <2>2. 1 \in 1 .. Len(stack) /\ 1 # i
    BY <1>1
  <2> QED
    BY <2>1, <2>2 DEF Due
<1>5. \A t \in Requests, i \in 1 .. Len(stack') : Leads(stack'[i], t) =>
         Due(stack'[i], req'[t]) /\ \A j \in 1 .. Len(stack') : Leads(stack'[j], t) => j = i
  <2> SUFFICES ASSUME NEW t \in Requests, NEW i \in 1 .. Len(stack'), Leads(stack'[i], t),
                      NEW j \in 1 .. Len(stack'), Leads(stack'[j], t)
               PROVE  Due(stack'[i], req'[t]) /\ j = i
    OBVIOUS
  <2>1. CASE t = r
    <3>1. ~ i > Len(calls) /\ ~ j > Len(calls)
      BY <1>1, <1>4, <2>1
    <3> QED
      BY <1>1, <1>2, <2>1, <3>1
  <2>2. CASE t # r
    <3>1. i > Len(calls) /\ j > Len(calls)
      BY <1>1, <2>2
    <3>2. Leads(stack[i - Len(calls) + 1], t) /\ Leads(stack[j - Len(calls) + 1], t)
      BY <1>1, <3>1
    <3>3. i - Len(calls) + 1 \in 1 .. Len(stack) /\ j - Len(calls) + 1 \in 1 .. Len(stack)
      BY <1>1, <3>1
    <3>4. Due(stack[i - Len(calls) + 1], req[t]) /\ j - Len(calls) + 1 = i - Len(calls) + 1
      BY <3>2, <3>3 DEF SettleInv
    <3> QED
      BY <1>1, <1>2, <2>2, <3>1, <3>4
  <2> QED
    BY <2>1, <2>2
<1> QED
  BY <1>2, <1>3, <1>5 DEF SettleInv

\* The outside takes one fetch on: nothing else is being called.
LEMMA Begins ==
    ASSUME SettleInv, NEW calls, Listed(calls), stack' = calls,
           NEW r, NEW q, Shaped(q), Once(q), req' = [req EXCEPT ![r] = q],
           \A i \in 1 .. Len(calls), t \in Requests : Leads(calls[i], t) =>
              t = r /\ i = 1 /\ Due(calls[i], q)
    PROVE  SettleInv'
<1>1. /\ req' = [t \in Requests |-> req'[t]]
      /\ \A t \in Requests : req'[t] = IF t = r THEN q ELSE req[t]
  BY DEF SettleInv
<1> QED
  BY <1>1 DEF SettleInv

\* The lists of calls that are made.
LEMMA Lists == Listed(<<>>) /\ (\A a : Listed(<<a>>)) /\ (\A a, b : Listed(<<a, b>>))
<1>1. Listed(<<>>)
  <2>1. <<>> \in Seq({})
    OBVIOUS
  <2> QED
    BY <2>1 DEF Listed
<1>2. ASSUME NEW a PROVE Listed(<<a>>)
  <2>1. <<a>> \in Seq({a})
    OBVIOUS
  <2> QED
    BY <2>1 DEF Listed
<1>3. ASSUME NEW a, NEW b PROVE Listed(<<a, b>>)
  <2>1. <<a, b>> \in Seq({a, b})
    OBVIOUS
  <2> QED
    BY <2>1 DEF Listed
<1> QED
  BY <1>1, <1>2, <1>3

\* Reactions of fetch.js read a body on; nothing is left for the next tick.
Queued == Now \/ \E b : React(<<<<"pump", b>>>>)

\* Whatever they queue, LoopInv holds again.
LEMMA QueuesKeep ==
    ASSUME LoopInv, Queued, Listed(stack')
    PROVE  LoopInv'
<1>1. CASE Now
  BY <1>1 DEF Now, LoopInv, Listed
<1>2. CASE \E b : React(<<<<"pump", b>>>>)
  <2>1. PICK b : jobs' = jobs \o <<<<"pump", b>>>> /\ ticks' = ticks
    BY <1>2 DEF React
  <2>2. PICK S : jobs \in Seq(S)
    BY DEF LoopInv, Listed
  <2> DEFINE T == S \cup {<<"pump", b>>}
  <2>3. jobs \in Seq(T) /\ <<<<"pump", b>>>> \in Seq(T) /\ Len(<<<<"pump", b>>>>) = 1
    BY <2>2
  <2> HIDE DEF T
  <2>4. /\ jobs' \in Seq(T) /\ Len(jobs') = Len(jobs) + 1 /\ Len(jobs) \in Nat
        /\ \A i \in 1 .. Len(jobs) : jobs'[i] = jobs[i]
        /\ jobs'[Len(jobs) + 1] = <<"pump", b>>
    BY <2>1, <2>3
  <2>5. \A i \in 1 .. Len(jobs') : jobs'[i][1] = "pump"
    <3>1. <<"pump", b>>[1] = "pump"
      OBVIOUS
    <3> QED
      BY <2>4, <3>1 DEF LoopInv
  <2> QED
    BY <2>1, <2>4, <2>5 DEF LoopInv, Listed
<1> QED
  BY <1>1, <1>2 DEF Queued

\* A call about bodies or signals only.
LEMMA Elsewhere ==
    ASSUME LoopInv, SettleInv, stack # <<>>, UNCHANGED req, Queued,
           NEW calls, Listed(calls), Then(calls),
           \A i \in 1 .. Len(calls) : calls[i][1] \notin Settling
    PROVE  LoopInv' /\ SettleInv'
<1>1. LoopInv'
  BY ThenDoes, QueuesKeep DEF LoopInv
<1>2. /\ \A i \in 1 .. Len(calls), r \in Requests : ~ Leads(calls[i], r)
      /\ req' = [r \in Requests |-> req'[r]]
      /\ \A r \in Requests : Shaped(req'[r]) /\ req'[r].pc = req[r].pc
                              /\ req'[r].answers = req[r].answers
  BY DEF Leads, SettleInv
<1> QED
  BY <1>1, <1>2, Aside DEF LoopInv

\* The outside calls in with something that goes on with no fetch.
LEMMA EntersElsewhere ==
    ASSUME LoopInv, SettleInv, NEW calls, Listed(calls), Enter(calls),
           \A i \in 1 .. Len(calls) : calls[i][1] \notin Settling,
           req' = [r \in Requests |-> req'[r]],
           \A r \in Requests : Shaped(req'[r]) /\ Once(req'[r])
    PROVE  LoopInv' /\ SettleInv'
  BY QueuesKeep DEF Enter, Queued, SettleInv, Leads

\* Functions that read a body, or tell a signal's listeners.
LEMMA BodiesMove ==
    ASSUME LoopInv, SettleInv,
           \/ Fire \/ Pull \/ AsyncStreamBody \/ AskForMore \/ StreamBody \/ Arrived
           \/ StreamChunked \/ StreamChunkedAccum \/ DecompressAndEnqueue \/ OnDone
    PROVE  LoopInv' /\ SettleInv'
<1> DEFINE Other(call) == call[1] \in {"_abortNow", "_fire", "chunks", "more", "onDone", "flush"}
<1>0. ASSUME UNCHANGED req, Queued, stack # <<>>,
             \/ Then(<<>>)
             \/ \E a : Other(a) /\ Then(<<a>>)
             \/ \E a, b : Other(a) /\ Other(b) /\ Then(<<a, b>>)
      PROVE  LoopInv' /\ SettleInv'
  <2>1. CASE Then(<<>>)
    BY <1>0, <2>1, Lists, Elsewhere
  <2>2. CASE \E a : Other(a) /\ Then(<<a>>)
    <3>1. PICK a : Other(a) /\ Then(<<a>>)
      BY <2>2
    <3>2. Listed(<<a>>) /\ \A i \in 1 .. Len(<<a>>) : <<a>>[i][1] \notin Settling
      BY <3>1, Lists DEF Settling
    <3> QED
      BY <1>0, <3>1, <3>2, Elsewhere
  <2>3. CASE \E a, b : Other(a) /\ Other(b) /\ Then(<<a, b>>)
    <3>1. PICK a, b : Other(a) /\ Other(b) /\ Then(<<a, b>>)
      BY <2>3
    <3>2. Listed(<<a, b>>) /\ \A i \in 1 .. Len(<<a, b>>) : <<a, b>>[i][1] \notin Settling
      BY <3>1, Lists DEF Settling
    <3> QED
      BY <1>0, <3>1, <3>2, Elsewhere
  <2> QED
    BY <1>0, <2>1, <2>2, <2>3
<1>1. CASE Fire
  BY <1>0, <1>1 DEF Fire, Calling, Queued
<1>2. CASE Pull
  BY <1>0, <1>2 DEF Pull, Calling, Queued
<1>3. CASE AsyncStreamBody
  <2> DEFINE b    == Arg(1)
             next == IF body[b].reply.framing = "chunked" THEN <<"chunks", b, FALSE>> ELSE <<"more", b>>
  <2>1. Other(next)
    OBVIOUS
  <2>2. UNCHANGED req /\ stack # <<>> /\ Queued /\ Then(<<next>>)
    BY <1>3 DEF AsyncStreamBody, Wakes, Calling, Queued
  <2> HIDE DEF next, b
  <2>3. \E call : Other(call) /\ Then(<<call>>)
    BY <2>1, <2>2
  <2> QED
    BY <1>0, <2>2, <2>3
<1>4. CASE AskForMore
  <2>1. UNCHANGED req /\ stack # <<>> /\ Queued
    BY <1>4 DEF AskForMore, Calling, Queued
  <2>2. Then(<<>>) \/ \E call : Other(call) /\ Then(<<call>>)
    BY <1>4 DEF AskForMore
  <2> QED
    BY <1>0, <2>1, <2>2
<1>5. CASE StreamBody
  <2>1. \E call : Other(call) /\ Then(<<call>>)
    BY <1>5 DEF StreamBody
  <2> QED
    BY <1>0, <1>5, <2>1 DEF StreamBody, Wakes, Calling, Queued
<1>6. CASE Arrived
  <2>1. \E call : Other(call) /\ Then(<<call>>)
    BY <1>6 DEF Arrived
  <2> QED
    BY <1>0, <1>6, <2>1 DEF Arrived, Calling, Queued
<1>7. CASE StreamChunked
  <2>1. \E call : Other(call) /\ Then(<<call>>)
    BY <1>7 DEF StreamChunked
  <2> QED
    BY <1>0, <1>7, <2>1 DEF StreamChunked, Wakes, Calling, Queued
<1>8. CASE StreamChunkedAccum
  <2>1. \E call : Other(call) /\ Then(<<call>>)
    BY <1>8 DEF StreamChunkedAccum
  <2> QED
    BY <1>0, <1>8, <2>1 DEF StreamChunkedAccum, Calling, Queued
<1>9. CASE DecompressAndEnqueue
  <2>1. \E call : Other(call) /\ Then(<<call>>)
    BY <1>9 DEF DecompressAndEnqueue
  <2> QED
    BY <1>0, <1>9, <2>1 DEF DecompressAndEnqueue, Wakes, Calling, Queued
<1>10. CASE OnDone
  BY <1>0, <1>10 DEF OnDone, Calling, Queued
<1> QED
  BY <1>1, <1>2, <1>3, <1>4, <1>5, <1>6, <1>7, <1>8, <1>9, <1>10

\* What the outside does with signals, sockets and bodies.
LEMMA OutsideMoves ==
    ASSUME LoopInv, SettleInv,
           Evict \/ AbortSignal \/ Text \/ SocketAnswers \/ Cut
    PROVE  LoopInv' /\ SettleInv'
<1> DEFINE Other(call) == call[1] \in {"_fire", "pump", "arrived", "data"}
<1>0. ASSUME UNCHANGED req, Enter(<<>>) \/ \E a : Other(a) /\ Enter(<<a>>)
      PROVE  LoopInv' /\ SettleInv'
  <2>1. CASE Enter(<<>>)
    BY <1>0, <2>1, Lists, EntersElsewhere DEF SettleInv
  <2>2. CASE \E a : Other(a) /\ Enter(<<a>>)
    <3>1. PICK a : Other(a) /\ Enter(<<a>>)
      BY <2>2
    <3>2. Listed(<<a>>) /\ \A i \in 1 .. Len(<<a>>) : <<a>>[i][1] \notin Settling
      BY <3>1, Lists DEF Settling
    <3> QED
      BY <1>0, <3>1, <3>2, EntersElsewhere DEF SettleInv
  <2> QED
    BY <1>0, <2>1, <2>2
<1>1. CASE Evict
  BY <1>0, <1>1 DEF Evict
<1>2. CASE AbortSignal
  BY <1>0, <1>2 DEF AbortSignal
<1>3. CASE Text
  BY <1>0, <1>3 DEF Text
<1>4. CASE SocketAnswers
  <2> DEFINE fn(b) == IF body[b].reply.framing = "chunked" THEN "arrived" ELSE "data"
  <2>1. UNCHANGED req /\ \E b, items, over : Enter(<<<<fn(b), b, items, over>>>>)
    BY <1>4 DEF SocketAnswers
  <2>2. \A b, items, over : Other(<<fn(b), b, items, over>>)
    OBVIOUS
  <2> QED
    BY <1>0, <2>1, <2>2
<1>5. CASE Cut
  BY <1>0, <1>5 DEF Cut
<1> QED
  BY <1>1, <1>2, <1>3, <1>4, <1>5

\* A function called for one fetch, whose turn it was, takes it on, and calls at
\* most one that goes on with it.
Takes(calls, r, q) ==
    /\ stack # <<>> /\ Now /\ Listed(calls) /\ Then(calls)
    /\ req' = [req EXCEPT ![r] = q]
    /\ \A i \in 1 .. Len(calls), t \in Requests : Leads(calls[i], t) => t = r /\ i = 1
    /\ r \in Requests =>
          /\ Shaped(q) /\ Once(q)
          /\ \A i \in 1 .. Len(calls) : Leads(calls[i], r) => Due(calls[i], q)
          /\ Leads(stack[1], r) \/ req[r].pc \notin {"fired", "h2"}

\* Taking a fetch on keeps the invariant.
LEMMA TakenOn ==
    ASSUME LoopInv, SettleInv, NEW calls, NEW r, NEW q, Takes(calls, r, q)
    PROVE  LoopInv' /\ SettleInv'
<1> USE DEF Takes
<1>1. LoopInv'
  <2>1. Listed(stack) /\ Queued
    BY DEF LoopInv, Queued
  <2>2. Listed(stack')
    BY <2>1, ThenDoes
  <2> QED
    BY <2>1, <2>2, QueuesKeep
<1>2. CASE r \in Requests
  <2>1. \A i \in 1 .. Len(calls), t \in Requests : Leads(calls[i], t) =>
           t = r /\ i = 1 /\ Due(calls[i], q)
    BY <1>2
  <2>2. Shaped(q) /\ Once(q) /\ (Leads(stack[1], r) \/ req[r].pc \notin {"fired", "h2"})
    BY <1>2
  <2>3. Listed(stack)
    BY DEF LoopInv
  <2> QED
    BY <1>1, <2>1, <2>2, <2>3, GoesOn
<1>3. CASE r \notin Requests
  <2>1. req' = req
    BY <1>3 DEF SettleInv
  <2>2. /\ \A i \in 1 .. Len(calls), t \in Requests : ~ Leads(calls[i], t)
        /\ req' = [t \in Requests |-> req'[t]]
        /\ \A t \in Requests : Shaped(req'[t]) /\ req'[t].pc = req[t].pc
                                /\ req'[t].answers = req[t].answers
    BY <1>3, <2>1 DEF SettleInv
  <2> QED
    BY <1>1, <2>2, Aside DEF LoopInv
<1> QED
  BY <1>2, <1>3

\* One call goes on with the fetch (a redirect, an answer).
LEMMA TakesOne ==
    ASSUME stack # <<>>, Now, NEW call, Then(<<call>>),
           NEW r, NEW q, req' = [req EXCEPT ![r] = q],
           \A t \in Requests : Leads(call, t) => t = r,
           r \in Requests => /\ Shaped(q) /\ Once(q) /\ Due(call, q)
                             /\ Leads(stack[1], r) \/ req[r].pc \notin {"fired", "h2"}
    PROVE  Takes(<<call>>, r, q)
<1> DEFINE calls == <<call>>
<1>1. Len(calls) = 1 /\ calls[1] = call /\ Listed(calls) /\ Then(calls)
  BY Lists
<1> HIDE DEF calls
<1>2. \A i \in 1 .. Len(calls) : i = 1 /\ calls[i] = call
  BY <1>1
<1>3. Takes(calls, r, q)
  BY <1>1, <1>2 DEF Takes
<1> QED
  BY <1>3 DEF calls

\* No call does: it waits for the outside (a connection), or is over.
LEMMA TakesNone ==
    ASSUME stack # <<>>, Now, Then(<<>>), NEW r, NEW q, req' = [req EXCEPT ![r] = q],
           r \in Requests => /\ Shaped(q) /\ Once(q)
                             /\ Leads(stack[1], r) \/ req[r].pc \notin {"fired", "h2"}
    PROVE  Takes(<<>>, r, q)
  BY Lists DEF Takes

\* Of the call that runs: the fetch it goes on with was waiting for it.
LEMMA ItsTurn ==
    ASSUME LoopInv, SettleInv, NEW r \in Requests, stack # <<>>, Leads(stack[1], r)
    PROVE  Due(stack[1], req[r])
<1>1. 1 \in 1 .. Len(stack)
  BY DEF LoopInv, Listed
<1> QED
  BY <1>1 DEF SettleInv

\* Functions called for a fetch.
LEMMA FetchesMove ==
    ASSUME LoopInv, SettleInv,
           \/ FetchFollow \/ FetchOne \/ AbortNow \/ Done \/ BuildStreamingResponse
           \/ HandleFetchResponse \/ H2Done
    PROVE  LoopInv' /\ SettleInv'
<1> DEFINE r == Arg(1)
<1>1. r = stack[1][2] /\ (r \in Requests => Shaped(req[r]) /\ Once(req[r]))
  BY DEF Arg, SettleInv
<1>2. req = [req EXCEPT ![r] = req[r]]
  BY DEF SettleInv
<1>3. ASSUME NEW f \in Settling, Calling(f)
      PROVE  stack # <<>> /\ Leads(stack[1], r) /\ (r \in Requests => Due(stack[1], req[r]))
  BY <1>1, <1>3, ItsTurn DEF Calling, Leads
<1> HIDE DEF r
<1>4. CASE FetchFollow
  <2> DEFINE call == IF req[r].hop > MaxRedirects THEN <<"done", r, "Too many redirects">>
                     ELSE IF Aborted(r) THEN <<"done", r, "AbortError">>
                     ELSE <<"_fetchOne", r>>
  <2>1. Calling("_fetchFollow") /\ Now /\ req' = req /\ Then(<<call>>)
    BY <1>4 DEF FetchFollow, r
  <2>2. \A t \in Requests : Leads(call, t) => t = r
    BY DEF Leads
  <2>3. call[1] # "h2Done"
    OBVIOUS
  <2>4. Leads(stack[1], r) /\ stack # <<>> /\ (r \in Requests => Due(call, req[r]))
    BY <1>3, <2>1, <2>3 DEF Due, Settling, Calling
  <2> HIDE DEF call
  <2>5. req' = [req EXCEPT ![r] = req[r]]
    BY <1>2, <2>1
  <2> QED
    BY <1>1, <2>1, <2>2, <2>4, <2>5, TakesOne, TakenOn
<1>5. CASE FetchOne
  <2>1. Calling("_fetchOne") /\ Now /\ Then(<<>>)
    BY <1>5 DEF FetchOne
  <2>2. Leads(stack[1], r) /\ stack # <<>>
    BY <1>3, <2>1 DEF Settling
  <2> DEFINE kept(h) == [req[r] EXCEPT !.pc = "headers", !.handle = h, !.reused = TRUE, !.acc = <<>>]
             fresh   == [req[r] EXCEPT !.pc = "connecting", !.handle = Nobody, !.reused = FALSE,
                                       !.dialing = @ \cup {req[r].hop}]
  <2>3. (\E h : req' = [req EXCEPT ![r] = kept(h)]) \/ req' = [req EXCEPT ![r] = fresh]
    BY <1>5 DEF FetchOne, r
  <2>4. r \in Requests => req[r].answers = <<>>
    BY <1>1, <1>3, <2>1 DEF Once, Due, Settling, Calling
  <2>5. \A h : r \in Requests => Shaped(kept(h)) /\ Once(kept(h))
    BY <1>1, <2>4 DEF Shaped, ReqFields, Once
  <2>6. r \in Requests => Shaped(fresh) /\ Once(fresh)
    BY <1>1, <2>4 DEF Shaped, ReqFields, Once
  <2> HIDE DEF kept, fresh
  <2>7. (\E h : Takes(<<>>, r, kept(h))) \/ Takes(<<>>, r, fresh)
    BY <2>1, <2>2, <2>3, <2>5, <2>6, TakesNone
  <2> QED
    BY <2>7, TakenOn
<1>6. CASE AbortNow
  <2>1. Calling("_abortNow") /\ Now /\ stack # <<>>
    BY <1>6 DEF AbortNow, Calling
  <2>2. CASE req[r].pc \notin {"connecting", "headers"}
    <3>1. UNCHANGED req /\ Then(<<>>) /\ Queued
      BY <1>6, <2>2 DEF AbortNow, r, Queued
    <3> QED
      BY <2>1, <3>1, Lists, Elsewhere
  <2>3. CASE req[r].pc \in {"connecting", "headers"}
    <3> DEFINE q    == [req[r] EXCEPT !.pc = "fired", !.handle = Nobody]
               call == <<"done", r, Arg(2)>>
    <3>1. req' = [req EXCEPT ![r] = q] /\ Then(<<call>>)
      BY <1>6, <2>3 DEF AbortNow, r
    <3>2. (\A t \in Requests : Leads(call, t) => t = r) /\ call[1] = "done"
      BY DEF Leads
    <3>3. r \in Requests => Shaped(q) /\ Once(q) /\ q.pc = "fired"
      BY <1>1, <2>3 DEF Shaped, ReqFields, Once
    <3> HIDE DEF q, call
    <3>4. r \in Requests => Due(call, q) /\ req[r].pc \notin {"fired", "h2"}
      BY <2>3, <3>2, <3>3 DEF Due
    <3> QED
      BY <2>1, <3>1, <3>2, <3>3, <3>4, TakesOne, TakenOn
  <2> QED
    BY <2>2, <2>3
<1>7. CASE Done
  <2> DEFINE q == [req[r] EXCEPT !.pc = "settled", !.answers = Append(@, Arg(2))]
  <2>1. Calling("done") /\ Now /\ Then(<<>>) /\ req' = [req EXCEPT ![r] = q]
    BY <1>7 DEF Done, r
  <2>2. Leads(stack[1], r) /\ stack # <<>> /\ (r \in Requests => req[r].pc = "fired")
    BY <1>3, <2>1 DEF Settling, Due, Calling
  <2>3. r \in Requests => Shaped(q) /\ Once(q)
    <3>1. r \in Requests => req[r].answers = <<>>
      BY <1>1, <2>2 DEF Once
    <3>2. Len(Append(<<>>, Arg(2))) = 1
      OBVIOUS
    <3> QED
      BY <1>1, <3>1, <3>2 DEF Shaped, ReqFields, Once
  <2> HIDE DEF q
  <2> QED
    BY <2>1, <2>2, <2>3, TakesNone, TakenOn
<1>8. CASE BuildStreamingResponse
  <2> DEFINE q     == [req[r] EXCEPT !.handle = Nobody]
             reply == IF Arg(2)[2] = "head" /\ Arg(2)[1] = Hop(r) THEN Arg(2)[3] ELSE NoReply
             goes  == <<"_handleFetchResponse", r, reply>>
             reads == <<"_asyncStreamBody", Hop(r), Arg(3)>>
  <2>1. /\ Calling("_buildStreamingResponse") /\ Now /\ req' = [req EXCEPT ![r] = q]
        /\ Then(<<goes, reads>>)
    BY <1>8 DEF BuildStreamingResponse, r
  <2>2. Leads(stack[1], r) /\ stack # <<>> /\ (r \in Requests => req[r].pc = "fired")
    BY <1>3, <2>1 DEF Settling, Due, Calling
  <2>3. /\ \A t \in Requests : Leads(goes, t) => t = r
        /\ \A t \in Requests : ~ Leads(reads, t)
        /\ goes[1] # "h2Done"
    BY DEF Leads, Settling
  <2>4. r \in Requests => Shaped(q) /\ Once(q) /\ q.pc = "fired"
    BY <1>1, <2>2 DEF Shaped, ReqFields, Once
  <2> HIDE DEF q, goes, reads
  <2> DEFINE calls == <<goes, reads>>
  <2>5. Len(calls) = 2 /\ calls[1] = goes /\ calls[2] = reads /\ Listed(calls)
    BY Lists
  <2>6. \A i \in 1 .. Len(calls) : (i = 1 /\ calls[i] = goes) \/ (i = 2 /\ calls[i] = reads)
    BY <2>5
  <2>7. Then(calls)
    BY <2>1
  <2> HIDE DEF calls
  <2>8. \A i \in 1 .. Len(calls), t \in Requests : Leads(calls[i], t) =>
           t = r /\ i = 1 /\ calls[i][1] # "h2Done"
    BY <2>3, <2>6
  <2>9. Takes(calls, r, q)
    BY <2>1, <2>2, <2>4, <2>5, <2>7, <2>8 DEF Takes, Due
  <2> QED
    BY <2>9, TakenOn
<1>9. CASE HandleFetchResponse
  <2>1. Calling("_handleFetchResponse") /\ Now
    BY <1>9 DEF HandleFetchResponse
  <2>2. Leads(stack[1], r) /\ stack # <<>> /\ (r \in Requests => req[r].pc = "fired")
    BY <1>3, <2>1 DEF Settling, Due, Calling
  <2>3. CASE Arg(2).to # "none"
    <3> DEFINE q    == [req[r] EXCEPT !.hop = @ + 1, !.origin = Arg(2).to]
               call == <<"_fetchFollow", r>>
    <3>1. req' = [req EXCEPT ![r] = q] /\ Then(<<call>>)
      BY <1>9, <2>3 DEF HandleFetchResponse, r
    <3>2. (\A t \in Requests : Leads(call, t) => t = r) /\ call[1] # "h2Done"
      BY DEF Leads
    <3>3. r \in Requests => Shaped(q) /\ Once(q) /\ q.pc = "fired"
      BY <1>1, <2>2 DEF Shaped, ReqFields, Once
    <3> HIDE DEF q, call
    <3>4. r \in Requests => Due(call, q)
      BY <3>2, <3>3 DEF Due
    <3> QED
      BY <2>1, <2>2, <3>1, <3>2, <3>3, <3>4, TakesOne, TakenOn
  <2>4. CASE Arg(2).to = "none"
    <3> DEFINE call == <<"done", r, "response">>
    <3>1. req' = [req EXCEPT ![r] = req[r]] /\ Then(<<call>>)
      BY <1>2, <1>9, <2>4 DEF HandleFetchResponse, r
    <3>2. (\A t \in Requests : Leads(call, t) => t = r) /\ call[1] # "h2Done"
      BY DEF Leads
    <3> HIDE DEF call
    <3>3. r \in Requests => Due(call, req[r])
      BY <2>2, <3>2 DEF Due
    <3> QED
      BY <1>1, <2>1, <2>2, <3>1, <3>2, <3>3, TakesOne, TakenOn
  <2> QED
    BY <2>3, <2>4
<1>10. CASE H2Done
  <2> DEFINE q    == [req[r] EXCEPT !.pc = "fired", !.handle = Nobody]
             call == <<"done", r, "response">>
  <2>1. Calling("h2Done") /\ Now /\ req' = [req EXCEPT ![r] = q] /\ Then(<<call>>)
    BY <1>10 DEF H2Done, r
  <2>2. Leads(stack[1], r) /\ stack # <<>> /\ (r \in Requests => req[r].pc = "h2")
    BY <1>3, <2>1 DEF Settling, Due, Calling
  <2>3. (\A t \in Requests : Leads(call, t) => t = r) /\ call[1] = "done"
    BY DEF Leads
  <2>4. r \in Requests => Shaped(q) /\ Once(q) /\ q.pc = "fired"
    BY <1>1, <2>2 DEF Shaped, ReqFields, Once
  <2> HIDE DEF q, call
  <2>5. r \in Requests => Due(call, q)
    BY <2>3, <2>4 DEF Due
  <2> QED
    BY <2>1, <2>2, <2>3, <2>4, <2>5, TakesOne, TakenOn
<1> QED
  BY <1>4, <1>5, <1>6, <1>7, <1>8, <1>9, <1>10

\* The outside enters for one fetch, which has no call of its own at that time.
Brings(calls, r, q) ==
    /\ Enter(calls) /\ Listed(calls) /\ r \in Requests /\ Shaped(q) /\ Once(q)
    /\ req' = [req EXCEPT ![r] = q]
    /\ \A i \in 1 .. Len(calls), t \in Requests : Leads(calls[i], t) =>
          t = r /\ i = 1 /\ Due(calls[i], q)

\* The outside bringing a fetch on keeps the invariant.
LEMMA Brought ==
    ASSUME LoopInv, SettleInv, NEW calls, NEW r, NEW q, Brings(calls, r, q)
    PROVE  LoopInv' /\ SettleInv'
<1>1. LoopInv'
  BY QueuesKeep DEF Brings, Enter, Queued
<1>2. SettleInv'
  BY Begins DEF Brings, Enter
<1> QED
  BY <1>1, <1>2

\* It leaves the fetch waiting.
LEMMA BringsNone ==
    ASSUME Enter(<<>>), NEW r \in Requests, NEW q, Shaped(q), Once(q), req' = [req EXCEPT ![r] = q]
    PROVE  Brings(<<>>, r, q)
  BY Lists DEF Brings

\* It makes one call, the one the fetch then waits for.
LEMMA BringsOne ==
    ASSUME NEW call, Enter(<<call>>), NEW r \in Requests, NEW q, Shaped(q), Once(q),
           req' = [req EXCEPT ![r] = q],
           \A t \in Requests : Leads(call, t) => t = r /\ Due(call, q)
    PROVE  Brings(<<call>>, r, q)
<1> DEFINE calls == <<call>>
<1>1. Len(calls) = 1 /\ calls[1] = call /\ Listed(calls) /\ Enter(calls)
  BY Lists
<1> HIDE DEF calls
<1>2. \A i \in 1 .. Len(calls) : i = 1 /\ calls[i] = call
  BY <1>1
<1>3. Brings(calls, r, q)
  BY <1>1, <1>2 DEF Brings
<1> QED
  BY <1>3 DEF calls

\* What reading a head comes to.
HeadReads(r) ==
    \/ \E acc : req' = [req EXCEPT ![r].acc = acc] /\ Enter(<<>>) /\ UNCHANGED signal
    \/ \E heads, a, b :
          /\ Unlisten(r)
          /\ req' = [req EXCEPT ![r] = [req[r] EXCEPT !.pc = "fired", !.acc = <<>>, !.heads = heads]]
          /\ Enter(<<<<"_buildStreamingResponse", r, a, b>>>>)
    \/ /\ req' = [req EXCEPT ![r] = [req[r] EXCEPT !.pc = "fired", !.handle = Nobody]]
       /\ Enter(<<<<"done", r, "ECONNRESET">>>>) /\ Unlisten(r)

\* A read gives the hop more of its head, or the end of it, or none.
LEMMA HeadersRead ==
    ASSUME ReadHeaders
    PROVE  \E r \in Requests :
              /\ req[r].pc = "headers" /\ UNCHANGED <<pool, body>> /\ HeadReads(r)
              /\ \/ UNCHANGED conn
                 \/ \E coming : conn' = [conn EXCEPT ![req[r].handle].coming = coming]
<1>1. PICK r \in Requests :
         LET h == req[r].handle
             c == conn[h]
         IN  /\ req[r].pc = "headers" /\ c.status = "open" /\ UNCHANGED <<pool, body>>
             /\ \/ \E k \in 1 .. Len(c.coming) :
                      LET acc == req[r].acc \o SubSeq(c.coming, 1, k)
                          at  == SelectInSeq(acc, EndsHeaders)
                      IN  /\ conn' = [conn EXCEPT ![h].coming = SubSeq(@, k + 1, Len(@))]
                          /\ IF at = 0
                             THEN /\ req' = [req EXCEPT ![r].acc = acc]
                                  /\ Enter(<<>>) /\ UNCHANGED signal
                             ELSE /\ Unlisten(r)
                                  /\ req' = [req EXCEPT ![r] = [req[r] EXCEPT !.pc = "fired",
                                        !.acc = <<>>, !.heads = Append(@, SubSeq(acc, 1, at))]]
                                  /\ Enter(<<<<"_buildStreamingResponse", r, acc[at],
                                              SubSeq(acc, at + 1, Len(acc))>>>>)
                \/ /\ c.coming = <<>> /\ c.eof /\ UNCHANGED conn /\ Unlisten(r)
                   /\ req' = [req EXCEPT ![r] = [req[r] EXCEPT !.pc = "fired", !.handle = Nobody]]
                   /\ Enter(<<<<"done", r, "ECONNRESET">>>>)
  BY Zenon DEF ReadHeaders
<1> DEFINE h == req[r].handle
           c == conn[h]
<1>2. CASE /\ c.coming = <<>> /\ c.eof /\ UNCHANGED conn /\ Unlisten(r)
           /\ req' = [req EXCEPT ![r] = [req[r] EXCEPT !.pc = "fired", !.handle = Nobody]]
           /\ Enter(<<<<"done", r, "ECONNRESET">>>>)
  <2>1. HeadReads(r)
    BY <1>2, Zenon DEF HeadReads
  <2> QED
    BY <1>1, <1>2, <2>1, Zenon
<1>3. ASSUME NEW k,
             LET acc == req[r].acc \o SubSeq(c.coming, 1, k)
                 at  == SelectInSeq(acc, EndsHeaders)
             IN  /\ conn' = [conn EXCEPT ![h].coming = SubSeq(@, k + 1, Len(@))]
                 /\ IF at = 0
                    THEN /\ req' = [req EXCEPT ![r].acc = acc]
                         /\ Enter(<<>>) /\ UNCHANGED signal
                    ELSE /\ Unlisten(r)
                         /\ req' = [req EXCEPT ![r] = [req[r] EXCEPT !.pc = "fired",
                               !.acc = <<>>, !.heads = Append(@, SubSeq(acc, 1, at))]]
                         /\ Enter(<<<<"_buildStreamingResponse", r, acc[at],
                                     SubSeq(acc, at + 1, Len(acc))>>>>)
      PROVE  /\ HeadReads(r)
             /\ \E coming : conn' = [conn EXCEPT ![h].coming = coming]
  <2> DEFINE acc == req[r].acc \o SubSeq(c.coming, 1, k)
             at  == SelectInSeq(acc, EndsHeaders)
  <2>1. \E coming : conn' = [conn EXCEPT ![h].coming = coming]
    BY <1>3
  <2>2. CASE at = 0
    <3>1. req' = [req EXCEPT ![r].acc = acc] /\ Enter(<<>>) /\ UNCHANGED signal
      BY <1>3, <2>2
    <3> HIDE DEF acc
    <3> QED
      BY <2>1, <3>1 DEF HeadReads
  <2>3. CASE at # 0
    <3> DEFINE heads == Append(req[r].heads, SubSeq(acc, 1, at))
               a     == acc[at]
               b     == SubSeq(acc, at + 1, Len(acc))
    <3>1. /\ Unlisten(r) /\ Enter(<<<<"_buildStreamingResponse", r, a, b>>>>)
          /\ req' = [req EXCEPT ![r] = [req[r] EXCEPT !.pc = "fired", !.acc = <<>>, !.heads = heads]]
      BY <1>3, <2>3
    <3> HIDE DEF acc, at, heads, a, b
    <3> QED
      BY <2>1, <3>1 DEF HeadReads
  <2> QED
    BY <2>2, <2>3
<1> QED
  BY <1>1, <1>2, <1>3

\* What a new socket h comes to, that was asked for by a hop of r.
ConnectedBy(h, r, hop, reply) ==
    LET fired == req[r].pc # "connecting" \/ req[r].hop # hop
        h2    == req[r].origin \in Http2
        open  == [conn EXCEPT ![h] = [@ EXCEPT !.status = "open", !.h2 = h2,
                                               !.origin = req[r].origin]]
    IN  /\ conn' = IF fired THEN Closed(open, h)
                   ELSE IF h2 THEN [open EXCEPT ![h].coming = Response(<<r, hop>>, reply)]
                   ELSE Asked(open, h, <<r, hop>>, reply)
        /\ req' = [req EXCEPT ![r] =
                      IF fired THEN [req[r] EXCEPT !.dialing = @ \ {hop}]
                      ELSE [req[r] EXCEPT !.dialing = @ \ {hop}, !.handle = h,
                               !.acc = <<>>, !.pc = IF h2 THEN "h2" ELSE "headers"]]
        /\ IF h2 /\ ~ fired THEN Unlisten(r) ELSE UNCHANGED signal
        /\ Enter(<<>>)

\* A connection is made with a socket that was not used before.
LEMMA NewConnection ==
    ASSUME Connected
    PROVE  \E h \in Handles, r \in Requests :
              /\ conn[h].status = "unused" /\ UNCHANGED <<pool, body>>
              /\ \E hop, reply : ConnectedBy(h, r, hop, reply)
<1> DEFINE new == CHOOSE h \in NewHandle : TRUE
<1>1. \E r \in Requests : \E hop \in req[r].dialing : \E reply \in world.replies[req[r].origin] :
         NewHandle # {} /\ UNCHANGED <<pool, body>> /\ ConnectedBy(new, r, hop, reply)
  BY Zenon DEF Connected, ConnectedBy
<1>2. new \in NewHandle
  BY <1>1
<1> HIDE DEF new
<1>3. new \in Handles /\ conn[new].status = "unused"
  BY <1>2 DEF NewHandle
<1> QED
  BY <1>1, <1>3, Zenon

\* The program fetches, connections and answers come.
LEMMA FetchesBegin ==
    ASSUME LoopInv, SettleInv,
           Fetch \/ ConnectFails \/ Connected \/ ReadHeaders \/ H2Fetch
    PROVE  LoopInv' /\ SettleInv'
<1>0. \A r \in Requests : Shaped(req[r]) /\ Once(req[r])
  BY DEF SettleInv
<1>1. CASE Fetch
  <2>1. PICK r \in Requests :
           /\ req[r].pc = "idle" /\ req' = [req EXCEPT ![r].pc = "fired"]
           /\ Enter(<<IF Aborted(r) THEN <<"done", r, "AbortError">> ELSE <<"_fetchFollow", r>>>>)
    BY <1>1 DEF Fetch
  <2> DEFINE q    == [req[r] EXCEPT !.pc = "fired"]
             call == IF Aborted(r) THEN <<"done", r, "AbortError">> ELSE <<"_fetchFollow", r>>
  <2>2. req' = [req EXCEPT ![r] = q] /\ Enter(<<call>>)
    BY <2>1
  <2>3. Shaped(q) /\ Once(q) /\ q.pc = "fired"
    BY <1>0, <2>1 DEF Shaped, ReqFields, Once
  <2>4. call[2] = r /\ call[1] # "h2Done"
    OBVIOUS
  <2> HIDE DEF q, call
  <2>5. \A t \in Requests : Leads(call, t) => t = r /\ Due(call, q)
    BY <2>3, <2>4 DEF Leads, Due
  <2> QED
    BY <2>2, <2>3, <2>5, BringsOne, Brought
<1>2. CASE ConnectFails
  <2>1. PICK r \in Requests : \E hop \in req[r].dialing :
           /\ req' = [req EXCEPT ![r].dialing = @ \ {hop}]
           /\ Enter(<<>>) \/ Enter(<<<<"_abortNow", r, "ECONNREFUSED">>>>)
    BY <1>2 DEF ConnectFails
  <2>2. PICK hop : /\ req' = [req EXCEPT ![r].dialing = @ \ {hop}]
                   /\ Enter(<<>>) \/ Enter(<<<<"_abortNow", r, "ECONNREFUSED">>>>)
    BY <2>1
  <2> DEFINE q    == [req[r] EXCEPT !.dialing = @ \ {hop}]
             call == <<"_abortNow", r, "ECONNREFUSED">>
  <2>3. req' = [req EXCEPT ![r] = q] /\ (Enter(<<>>) \/ Enter(<<call>>))
    BY <2>2
  <2>4. Shaped(q) /\ Once(q)
    BY <1>0 DEF Shaped, ReqFields, Once
  <2>5. \A t \in Requests : ~ Leads(call, t)
    BY DEF Leads, Settling
  <2> HIDE DEF q, call
  <2>6. Brings(<<>>, r, q) \/ Brings(<<call>>, r, q)
    BY <2>3, <2>4, <2>5, BringsNone, BringsOne
  <2> QED
    BY <2>6, Brought
<1>3. CASE Connected
  <2>1. PICK r \in Requests : \E hop \in req[r].dialing :
           /\ Enter(<<>>)
           /\ req' = [req EXCEPT ![r] =
                         IF req[r].pc # "connecting" \/ req[r].hop # hop
                         THEN [req[r] EXCEPT !.dialing = @ \ {hop}]
                         ELSE [req[r] EXCEPT !.dialing = @ \ {hop},
                                  !.handle = CHOOSE x \in NewHandle : TRUE, !.acc = <<>>,
                                  !.pc = IF req[r].origin \in Http2 THEN "h2" ELSE "headers"]]
    BY <1>3 DEF Connected
  <2> DEFINE h  == CHOOSE x \in NewHandle : TRUE
             pc == IF req[r].origin \in Http2 THEN "h2" ELSE "headers"
             gone(hop) == [req[r] EXCEPT !.dialing = @ \ {hop}]
             open(hop) == [req[r] EXCEPT !.dialing = @ \ {hop}, !.handle = h, !.acc = <<>>, !.pc = pc]
  <2>2. PICK hop \in req[r].dialing :
           \/ req' = [req EXCEPT ![r] = gone(hop)]
           \/ req[r].pc = "connecting" /\ req' = [req EXCEPT ![r] = open(hop)]
    BY <2>1
  <2> HIDE DEF h, pc
  <2>3. Shaped(gone(hop)) /\ Once(gone(hop))
    BY <1>0 DEF Shaped, ReqFields, Once
  <2>4. CASE req' = [req EXCEPT ![r] = gone(hop)]
    <3> HIDE DEF gone, open
    <3>1. Brings(<<>>, r, gone(hop))
      BY <2>1, <2>3, <2>4, BringsNone
    <3> QED
      BY <3>1, Brought
  <2>5. CASE req[r].pc = "connecting" /\ req' = [req EXCEPT ![r] = open(hop)]
    <3>1. Shaped(open(hop)) /\ Once(open(hop))
      BY <1>0, <2>5 DEF Shaped, ReqFields, Once
    <3> HIDE DEF gone, open
    <3>2. Brings(<<>>, r, open(hop))
      BY <2>1, <2>5, <3>1, BringsNone
    <3> QED
      BY <3>2, Brought
  <2> QED
    BY <2>2, <2>4, <2>5
<1>4. CASE ReadHeaders
  <2>1. PICK r \in Requests : req[r].pc = "headers" /\
           (\/ \E acc : req' = [req EXCEPT ![r].acc = acc] /\ Enter(<<>>)
            \/ \E heads, a, b :
                  /\ req' = [req EXCEPT ![r] = [req[r] EXCEPT !.pc = "fired", !.acc = <<>>, !.heads = heads]]
                  /\ Enter(<<<<"_buildStreamingResponse", r, a, b>>>>)
            \/ /\ req' = [req EXCEPT ![r] = [req[r] EXCEPT !.pc = "fired", !.handle = Nobody]]
               /\ Enter(<<<<"done", r, "ECONNRESET">>>>))
    BY <1>4, HeadersRead DEF HeadReads
  <2>2. ASSUME NEW acc, req' = [req EXCEPT ![r].acc = acc], Enter(<<>>)
        PROVE  LoopInv' /\ SettleInv'
    <3> DEFINE q == [req[r] EXCEPT !.acc = acc]
    <3>1. Shaped(q) /\ Once(q) /\ req' = [req EXCEPT ![r] = q]
      BY <1>0, <2>2 DEF Shaped, ReqFields, Once
    <3> HIDE DEF q
    <3>2. Brings(<<>>, r, q)
      BY <2>2, <3>1, BringsNone
    <3> QED
      BY <3>2, Brought
  <2>3. ASSUME NEW q, NEW call, Enter(<<call>>), req' = [req EXCEPT ![r] = q],
               Shaped(q), q.answers = req[r].answers, q.pc = "fired", call[2] = r, call[1] # "h2Done"
        PROVE  LoopInv' /\ SettleInv'
    <3>1. Once(q)
      BY <1>0, <2>1, <2>3 DEF Once
    <3>2. \A t \in Requests : Leads(call, t) => t = r /\ Due(call, q)
      BY <2>3 DEF Leads, Due
    <3>3. Brings(<<call>>, r, q)
      BY <2>3, <3>1, <3>2, BringsOne
    <3> QED
      BY <3>3, Brought
  <2>4. ASSUME NEW heads, NEW a, NEW b, Enter(<<<<"_buildStreamingResponse", r, a, b>>>>),
               req' = [req EXCEPT ![r] = [req[r] EXCEPT !.pc = "fired", !.acc = <<>>, !.heads = heads]]
        PROVE  LoopInv' /\ SettleInv'
    <3> DEFINE q    == [req[r] EXCEPT !.pc = "fired", !.acc = <<>>, !.heads = heads]
               call == <<"_buildStreamingResponse", r, a, b>>
    <3>1. Shaped(q) /\ q.answers = req[r].answers /\ q.pc = "fired"
      BY <1>0 DEF Shaped, ReqFields
    <3>2. call[2] = r /\ call[1] # "h2Done"
      OBVIOUS
    <3>3. Enter(<<call>>) /\ req' = [req EXCEPT ![r] = q]
      BY <2>4
    <3> HIDE DEF q, call
    <3> QED
      BY <2>3, <3>1, <3>2, <3>3
  <2>5. ASSUME Enter(<<<<"done", r, "ECONNRESET">>>>),
               req' = [req EXCEPT ![r] = [req[r] EXCEPT !.pc = "fired", !.handle = Nobody]]
        PROVE  LoopInv' /\ SettleInv'
    <3> DEFINE q    == [req[r] EXCEPT !.pc = "fired", !.handle = Nobody]
               call == <<"done", r, "ECONNRESET">>
    <3>1. Shaped(q) /\ q.answers = req[r].answers /\ q.pc = "fired"
      BY <1>0 DEF Shaped, ReqFields
    <3>2. call[2] = r /\ call[1] # "h2Done"
      OBVIOUS
    <3>3. Enter(<<call>>) /\ req' = [req EXCEPT ![r] = q]
      BY <2>5
    <3> HIDE DEF q, call
    <3> QED
      BY <2>3, <3>1, <3>2, <3>3
  <2> QED
    BY <2>1, <2>2, <2>4, <2>5
<1>5. CASE H2Fetch
  <2>1. PICK r \in Requests : req[r].pc = "h2" /\ req' = req /\ Enter(<<<<"h2Done", r>>>>)
    BY <1>5 DEF H2Fetch
  <2> DEFINE q    == req[r]
             call == <<"h2Done", r>>
  <2>2. req' = [req EXCEPT ![r] = q] /\ Enter(<<call>>)
    BY <2>1 DEF SettleInv
  <2>3. Shaped(q) /\ Once(q) /\ q.pc = "h2"
    BY <1>0, <2>1
  <2>4. call[2] = r /\ call[1] = "h2Done"
    OBVIOUS
  <2> HIDE DEF q, call
  <2>5. \A t \in Requests : Leads(call, t) => t = r /\ Due(call, q)
    BY <2>3, <2>4 DEF Leads, Due
  <2> QED
    BY <2>2, <2>3, <2>5, BringsOne, Brought
<1> QED
  BY <1>1, <1>2, <1>3, <1>4, <1>5

\* A reaction that is run reads a body on.
LEMMA DrainMoves ==
    ASSUME LoopInv, SettleInv, Drain, UNCHANGED req
    PROVE  LoopInv' /\ SettleInv'
<1>1. RunJob
  BY DEF Drain, RunTick, LoopInv
<1>2. PICK S : jobs \in Seq(S)
  BY DEF LoopInv, Listed
<1>3. /\ stack' = <<Head(jobs)>> /\ jobs' = Tail(jobs) /\ ticks' = ticks /\ jobs # <<>>
  BY <1>1 DEF RunJob
<1>4. /\ jobs' \in Seq(S) /\ Len(jobs') = Len(jobs) - 1 /\ Len(jobs) \in Nat \ {0}
      /\ Head(jobs) = jobs[1] /\ \A i \in 1 .. Len(jobs') : jobs'[i] = jobs[i + 1]
  BY <1>2, <1>3
<1>5. \A i \in 1 .. Len(jobs') : jobs'[i][1] = "pump"
  BY <1>4 DEF LoopInv
<1>6. Head(jobs)[1] = "pump"
  BY <1>4 DEF LoopInv
<1>7. LoopInv'
  BY <1>3, <1>4, <1>5, Lists DEF LoopInv, Listed
<1>8. Len(stack') = 1 /\ stack'[1] = Head(jobs)
  BY <1>3
<1>9. \A i \in 1 .. Len(stack'), r \in Requests : ~ Leads(stack'[i], r)
  BY <1>6, <1>8 DEF Leads, Settling
<1> QED
  BY <1>7, <1>9 DEF SettleInv

\* No fetch has begun and nothing is being called.
LEMMA SettleStarts ==
    ASSUME FetchInit
    PROVE  LoopInv /\ SettleInv
<1>1. stack = <<>> /\ jobs = <<>> /\ ticks = <<>>
  BY DEF FetchInit, LoopInit
<1>2. LoopInv
  BY <1>1, Lists DEF LoopInv
<1>3. req = [r \in Requests |->
         [pc |-> "idle", hop |-> 0, origin |-> world.origin[r], handle |-> Nobody,
          reused |-> FALSE, dialing |-> {}, acc |-> <<>>, heads |-> <<>>, answers |-> <<>>]]
  BY DEF FetchInit
<1>4. \A r \in Requests : Shaped(req[r]) /\ Once(req[r])
  BY <1>3 DEF Shaped, ReqFields, Once
<1>5. req = [r \in Requests |-> req[r]]
  BY <1>3
<1> QED
  BY <1>1, <1>2, <1>4, <1>5 DEF SettleInv

\* Every step keeps the invariant.
LEMMA SettleKept ==
    ASSUME LoopInv, SettleInv, [FetchNext]_fetchVars
    PROVE  LoopInv' /\ SettleInv'
<1>1. CASE FetchCalled
  BY <1>1, BodiesMove, FetchesMove, DrainMoves DEF FetchCalled
<1>2. CASE FetchNext /\ ~ FetchCalled
  BY <1>2, OutsideMoves, FetchesBegin DEF FetchNext
<1>3. CASE UNCHANGED fetchVars
  BY <1>3 DEF fetchVars, LoopInv, SettleInv, Listed
<1> QED
  BY <1>1, <1>2, <1>3

\* fetch() settles once, whatever races and whatever fails: for any number of
\* fetches that share signals, origins and connections, any redirects and any
\* of the faults.
THEOREM SettledOnce == FetchSpec => []SettlesOnce
<1>1. LoopInv /\ SettleInv => SettlesOnce
  <2> SUFFICES ASSUME SettleInv, NEW r \in Requests PROVE Len(req[r].answers) <= 1
    BY DEF SettlesOnce
  <2>1. Once(req[r])
    BY DEF SettleInv
  <2>2. CASE req[r].answers = <<>>
    <3>1. Len(req[r].answers) = 0
      BY <2>2
    <3> QED
      BY <3>1
  <2>3. CASE Len(req[r].answers) = 1
    BY <2>3
  <2> QED
    BY <2>1, <2>2, <2>3 DEF Once
<1> QED
  BY <1>1, SettleStarts, SettleKept, PTL DEF FetchSpec

-----------------------------------------------------------------------------
(* Why a socket has one owner and the pool keeps no more than it may.       *)

Distinct(s) == \A i, j \in 1 .. Len(s) : s[i] = s[j] => i = j

\* A list without the entry at a place.
LEMMA TakenOut ==
    ASSUME NEW S, NEW s \in Seq(S), NEW i \in 1 .. Len(s)
    PROVE  /\ RemoveAt(s, i) \in Seq(S) /\ Len(RemoveAt(s, i)) = Len(s) - 1
           /\ \A j \in 1 .. Len(s) - 1 : RemoveAt(s, i)[j] = IF j < i THEN s[j] ELSE s[j + 1]
<1> DEFINE a == SubSeq(s, 1, i - 1)
           b == SubSeq(s, i + 1, Len(s))
<1>1. a \in Seq(S) /\ Len(a) = i - 1 /\ \A j \in 1 .. i - 1 : a[j] = s[j]
  OBVIOUS
<1>2. b \in Seq(S) /\ Len(b) = Len(s) - i /\ \A j \in 1 .. Len(s) - i : b[j] = s[j + i]
  OBVIOUS
<1>3. RemoveAt(s, i) = a \o b
  BY DEF RemoveAt
<1> HIDE DEF a, b
<1>4. /\ a \o b \in Seq(S) /\ Len(a \o b) = Len(a) + Len(b)
      /\ \A j \in 1 .. Len(a) + Len(b) : (a \o b)[j] = IF j <= Len(a) THEN a[j] ELSE b[j - Len(a)]
  BY <1>1, <1>2, ConcatProperties
<1>5. Len(s) \in Nat
  OBVIOUS
<1>6. ASSUME NEW j \in 1 .. Len(s) - 1, ~ j < i PROVE (a \o b)[j] = s[j + 1]
  <2>1. /\ j \in 1 .. Len(a) + Len(b) /\ ~ j <= Len(a) /\ j - Len(a) \in 1 .. Len(s) - i
        /\ (j - Len(a)) + i = j + 1
    BY <1>1, <1>2, <1>5, <1>6
  <2> QED
    BY <1>2, <1>4, <2>1
<1>7. ASSUME NEW j \in 1 .. Len(s) - 1, j < i PROVE (a \o b)[j] = s[j]
  BY <1>1, <1>2, <1>4, <1>5, <1>7
<1> QED
  BY <1>1, <1>2, <1>3, <1>4, <1>5, <1>6, <1>7

\* An entry more, which the list did not have.
LEMMA Appended ==
    ASSUME NEW S, NEW s \in Seq(S), Distinct(s), NEW e \in S, e \notin ToSet(s)
    PROVE  /\ Append(s, e) \in Seq(S) /\ Distinct(Append(s, e))
           /\ ToSet(Append(s, e)) = ToSet(s) \cup {e}
<1>1. /\ Append(s, e) \in Seq(S)
      /\ Len(Append(s, e)) = Len(s) + 1 /\ Append(s, e)[Len(s) + 1] = e
      /\ \A i \in 1 .. Len(s) : Append(s, e)[i] = s[i]
  OBVIOUS
<1>2. ToSet(s) = {s[i] : i \in 1 .. Len(s)}
      /\ ToSet(Append(s, e)) = {Append(s, e)[i] : i \in 1 .. Len(s) + 1}
  BY <1>1 DEF ToSet
<1>3. Len(s) \in Nat
  OBVIOUS
<1>4. ToSet(Append(s, e)) = ToSet(s) \cup {e}
  BY <1>1, <1>2, <1>3
<1>5. Distinct(Append(s, e))
  BY <1>1, <1>2, <1>3 DEF Distinct
<1> QED
  BY <1>1, <1>4, <1>5

\* An entry less.
LEMMA Dropped ==
    ASSUME NEW S, NEW s \in Seq(S), Distinct(s), NEW i \in 1 .. Len(s)
    PROVE  /\ RemoveAt(s, i) \in Seq(S) /\ Distinct(RemoveAt(s, i))
           /\ ToSet(RemoveAt(s, i)) = ToSet(s) \ {s[i]}
<1> DEFINE t == RemoveAt(s, i)
<1>1. /\ t \in Seq(S) /\ Len(t) = Len(s) - 1 /\ Len(s) \in Nat
      /\ \A j \in 1 .. Len(s) - 1 : t[j] = IF j < i THEN s[j] ELSE s[j + 1]
  BY TakenOut
<1> HIDE DEF t
<1>2. ToSet(s) = {s[j] : j \in 1 .. Len(s)} /\ ToSet(t) = {t[j] : j \in 1 .. Len(s) - 1}
  <2>1. DOMAIN s = 1 .. Len(s) /\ DOMAIN t = 1 .. Len(s) - 1
    BY <1>1
  <2> QED
    BY <2>1 DEF ToSet
<1> DEFINE from(j) == IF j < i THEN j ELSE j + 1
<1>3. Distinct(t)
  <2> SUFFICES ASSUME NEW j \in 1 .. Len(s) - 1, NEW k \in 1 .. Len(s) - 1, t[j] = t[k]
               PROVE  j = k
    BY <1>1 DEF Distinct
  <2>1. from(j) \in 1 .. Len(s) /\ from(k) \in 1 .. Len(s) /\ (from(j) = from(k) => j = k)
    BY <1>1
  <2>2. t[j] = s[from(j)] /\ t[k] = s[from(k)]
    BY <1>1
  <2> HIDE DEF from
  <2> QED
    BY <2>1, <2>2 DEF Distinct
<1> HIDE DEF from
<1>4. ASSUME NEW e \in ToSet(t) PROVE e \in ToSet(s) \ {s[i]}
  <2>1. PICK j \in 1 .. Len(s) - 1 : e = t[j]
    BY <1>2
  <2>2. CASE j < i
    BY <1>1, <1>2, <2>1, <2>2 DEF Distinct
  <2>3. CASE ~ j < i
    BY <1>1, <1>2, <2>1, <2>3 DEF Distinct
  <2> QED
    BY <2>2, <2>3
<1>5. ASSUME NEW e \in ToSet(s) \ {s[i]} PROVE e \in ToSet(t)
  <2>1. PICK j \in 1 .. Len(s) : e = s[j] /\ j # i
    BY <1>2
  <2>2. CASE j < i
    BY <1>1, <1>2, <2>1, <2>2
  <2>3. CASE j > i
    <3>1. j - 1 \in 1 .. Len(s) - 1 /\ ~ (j - 1 < i) /\ (j - 1) + 1 = j
      BY <1>1, <2>3
    <3> QED
      BY <1>1, <1>2, <2>1, <3>1
  <2> QED
    BY <1>1, <2>1, <2>2, <2>3
<1> QED
  BY <1>1, <1>3, <1>4, <1>5 DEF t

\* Without leaves a list of what it was a list of.
LEMMA Shorter ==
    ASSUME NEW S, NEW s \in Seq(S), NEW e
    PROVE  Without(s, e) \in Seq(S)
<1>1. CASE e \in ToSet(s)
  <2>1. \E i \in DOMAIN s : s[i] = e
    BY <1>1 DEF ToSet
  <2>2. Place(s, e) \in 1 .. Len(s)
    BY <2>1 DEF Place
  <2> QED
    BY <1>1, <2>2, TakenOut DEF Without
<1>2. CASE e \notin ToSet(s)
  BY <1>2 DEF Without
<1> QED
  BY <1>1, <1>2

\* Without removes the entry, if it is there.
LEMMA Removed ==
    ASSUME NEW S, NEW s \in Seq(S), Distinct(s), NEW e
    PROVE  /\ Without(s, e) \in Seq(S) /\ Distinct(Without(s, e))
           /\ ToSet(Without(s, e)) = ToSet(s) \ {e}
<1>1. CASE e \in ToSet(s)
  <2>1. \E i \in DOMAIN s : s[i] = e
    BY <1>1 DEF ToSet
  <2>2. Place(s, e) \in DOMAIN s /\ s[Place(s, e)] = e
    BY <2>1 DEF Place
  <2>3. Place(s, e) \in 1 .. Len(s)
    BY <2>2
  <2> QED
    BY <1>1, <2>2, <2>3, Dropped DEF Without
<1>2. CASE e \notin ToSet(s)
  BY <1>2 DEF Without
<1> QED
  BY <1>1, <1>2

-----------------------------------------------------------------------------
(* Whom the calls are about: fetches and signals there are; and a body that *)
(* ends does not stay open.                                                *)

KnownCall(call) ==
    /\ call[1] \in Settling \cup {"_abortNow"} => call[2] \in Requests
    /\ call[1] = "_fire" => call[2] \in Signals /\ call[3] \in Nat \ {0}
    /\ call[1] = "onDone" => call[3] # "open"

SignalInv ==
    /\ signal = [s \in Signals \cup {"faults"} |-> signal[s]]
    /\ \A s \in Signals : /\ signal[s] = [f \in {"aborted", "listeners"} |-> signal[s][f]]
                          /\ signal[s].listeners \in Seq(Requests)

KnownInv == SignalInv /\ \A i \in 1 .. Len(stack) : KnownCall(stack[i])

\* The call that runs is such a call.
LEMMA KnownFirst ==
    ASSUME LoopInv, KnownInv, stack # <<>>
    PROVE  KnownCall(stack[1])
<1>1. 1 \in 1 .. Len(stack)
  BY DEF LoopInv, Listed
<1> QED
  BY <1>1 DEF KnownInv

\* A function that calls what is known, and the outside that does.
KnownNext ==
    /\ stack # <<>>
    /\ \/ Then(<<>>)
       \/ \E a : KnownCall(a) /\ Then(<<a>>)
       \/ \E a, b : KnownCall(a) /\ KnownCall(b) /\ Then(<<a, b>>)
KnownEnter == Enter(<<>>) \/ \E a : KnownCall(a) /\ Enter(<<a>>)

\* Either way all that is being called is known.
LEMMA KnownGoesOn ==
    ASSUME LoopInv, KnownInv, KnownNext \/ KnownEnter
    PROVE  \A i \in 1 .. Len(stack') : KnownCall(stack'[i])
<1>1. ASSUME stack # <<>>, NEW calls, Listed(calls), Then(calls),
             \A i \in 1 .. Len(calls) : KnownCall(calls[i])
      PROVE  \A i \in 1 .. Len(stack') : KnownCall(stack'[i])
  <2>1. /\ Len(calls) \in Nat /\ Len(stack) \in Nat \ {0}
        /\ Len(stack') = Len(calls) + Len(stack) - 1
        /\ \A i \in 1 .. Len(stack') :
              stack'[i] = IF i <= Len(calls) THEN calls[i] ELSE stack[i - Len(calls) + 1]
    BY <1>1, ThenDoes DEF LoopInv
  <2> SUFFICES ASSUME NEW i \in 1 .. Len(stack') PROVE KnownCall(stack'[i])
    OBVIOUS
  <2>2. CASE i <= Len(calls)
    BY <1>1, <2>1, <2>2
  <2>3. CASE ~ i <= Len(calls)
    <3>1. i - Len(calls) + 1 \in 1 .. Len(stack)
      BY <2>1, <2>3
    <3> QED
      BY <2>1, <2>3, <3>1 DEF KnownInv
  <2> QED
    BY <2>2, <2>3
<1>2. CASE KnownNext /\ Then(<<>>)
  <2>1. \A i \in 1 .. Len(<<>>) : KnownCall(<<>>[i])
    OBVIOUS
  <2> QED
    BY <1>1, <1>2, <2>1, Lists DEF KnownNext
<1>3. CASE stack # <<>> /\ \E a : KnownCall(a) /\ Then(<<a>>)
  <2>1. PICK a : KnownCall(a) /\ Then(<<a>>)
    BY <1>3
  <2> DEFINE calls == <<a>>
  <2>2. Len(calls) = 1 /\ calls[1] = a /\ Listed(calls) /\ Then(calls)
    BY <2>1, Lists
  <2> HIDE DEF calls
  <2>3. \A i \in 1 .. Len(calls) : KnownCall(calls[i])
    BY <2>1, <2>2
  <2> QED
    BY <1>1, <1>3, <2>2, <2>3
<1>4. CASE stack # <<>> /\ \E a, b : KnownCall(a) /\ KnownCall(b) /\ Then(<<a, b>>)
  <2>1. PICK a, b : KnownCall(a) /\ KnownCall(b) /\ Then(<<a, b>>)
    BY <1>4
  <2> DEFINE calls == <<a, b>>
  <2>2. Len(calls) = 2 /\ calls[1] = a /\ calls[2] = b /\ Listed(calls) /\ Then(calls)
    BY <2>1, Lists
  <2> HIDE DEF calls
  <2>3. \A i \in 1 .. Len(calls) : KnownCall(calls[i])
    BY <2>1, <2>2
  <2> QED
    BY <1>1, <1>4, <2>2, <2>3
<1>5. CASE KnownEnter
  <2>1. stack' = <<>> \/ \E a : KnownCall(a) /\ stack' = <<a>>
    BY <1>5 DEF KnownEnter, Enter
  <2>2. CASE stack' = <<>>
    BY <2>2
  <2>3. CASE \E a : KnownCall(a) /\ stack' = <<a>>
    <3>1. PICK a : KnownCall(a) /\ stack' = <<a>>
      BY <2>3
    <3>2. Len(stack') = 1 /\ stack'[1] = a
      BY <3>1
    <3> QED
      BY <3>1, <3>2
  <2> QED
    BY <2>1, <2>2, <2>3
<1> QED
  BY <1>2, <1>3, <1>4, <1>5 DEF KnownNext

\* Whom the functions call.
LEMMA KnownCalled ==
    ASSUME LoopInv, KnownInv, FetchCalled
    PROVE  KnownNext \/ Drain
<1>0. stack # <<>> => KnownCall(stack[1])
  BY KnownFirst
<1>1. CASE Fire
  <2>1. stack # <<>> /\ Arg(1) \in Signals /\ Arg(2) \in Nat \ {0}
    BY <1>0, <1>1 DEF Fire, Calling, KnownCall, Arg
  <2> DEFINE listeners == signal[Arg(1)].listeners
             i         == Arg(2)
             a         == <<"_abortNow", listeners[i], "AbortError">>
             b         == <<"_fire", Arg(1), i + 1>>
  <2>2. Then(<<>>) \/ (~ i > Len(listeners) /\ Then(<<a, b>>))
    BY <1>1 DEF Fire
  <2>3. KnownCall(b)
    BY <2>1 DEF KnownCall, Settling
  <2>4. ~ i > Len(listeners) => KnownCall(a)
    <3>1. listeners \in Seq(Requests)
      BY <2>1 DEF KnownInv, SignalInv
    <3> HIDE DEF listeners
    <3>2. ~ i > Len(listeners) => listeners[i] \in Requests
      BY <2>1, <3>1
    <3> QED
      BY <3>2 DEF KnownCall, Settling
  <2> QED
    BY <2>1, <2>2, <2>3, <2>4 DEF KnownNext
<1>2. CASE FetchFollow \/ Done \/ AbortNow \/ HandleFetchResponse \/ BuildStreamingResponse \/ H2Done \/ FetchOne
  <2>0. \E f \in Settling \cup {"_abortNow"} : Calling(f)
    BY <1>2 DEF FetchFollow, Done, AbortNow, HandleFetchResponse, BuildStreamingResponse,
                H2Done, FetchOne, Settling
  <2>1. stack # <<>> /\ Arg(1) \in Requests
    BY <1>0, <2>0 DEF Calling, KnownCall, Arg
  <2>2. CASE FetchFollow
    <3>1. \E a : a[2] = Arg(1) /\ a[1] \in Settling /\ Then(<<a>>)
      BY <2>2 DEF FetchFollow, Settling
    <3> QED
      BY <2>1, <3>1 DEF KnownNext, KnownCall, Settling
  <2>3. CASE Done \/ FetchOne
    BY <2>1, <2>3 DEF Done, FetchOne, KnownNext
  <2>4. CASE AbortNow \/ HandleFetchResponse \/ H2Done
    <3>1. Then(<<>>) \/ \E a : a[2] = Arg(1) /\ a[1] \in Settling /\ Then(<<a>>)
      BY <2>4 DEF AbortNow, HandleFetchResponse, H2Done, Settling
    <3> QED
      BY <2>1, <3>1 DEF KnownNext, KnownCall, Settling
  <2>5. CASE BuildStreamingResponse
    <3>1. \E a, b : /\ a[2] = Arg(1) /\ a[1] \in Settling /\ b[1] = "_asyncStreamBody"
                    /\ Then(<<a, b>>)
      BY <2>5 DEF BuildStreamingResponse, Settling
    <3> QED
      BY <2>1, <3>1 DEF KnownNext, KnownCall, Settling
  <2> QED
    BY <1>2, <2>2, <2>3, <2>4, <2>5
<1>3. CASE Pull \/ OnDone
  BY <1>3 DEF Pull, OnDone, KnownNext, Calling
<1>4. ASSUME stack # <<>>,
             \/ Then(<<>>)
             \/ \E a : /\ a[1] \in {"chunks", "more", "flush"} \/ (a[1] = "onDone" /\ a[3] # "open")
                      /\ Then(<<a>>)
      PROVE  KnownNext
  BY <1>4 DEF KnownNext, KnownCall, Settling
<1>5. CASE AsyncStreamBody
  <2> DEFINE b    == Arg(1)
             next == IF body[b].reply.framing = "chunked" THEN <<"chunks", b, FALSE>> ELSE <<"more", b>>
  <2>1. next[1] \in {"chunks", "more", "flush"}
    OBVIOUS
  <2>2. Then(<<next>>) /\ stack # <<>>
    BY <1>5 DEF AsyncStreamBody, Calling
  <2> HIDE DEF next
  <2> QED
    BY <1>4, <2>1, <2>2
<1>6. CASE AskForMore
  BY <1>4, <1>6 DEF AskForMore, Calling
<1>7. CASE StreamBody
  BY <1>4, <1>7 DEF StreamBody, Calling
<1>8. CASE Arrived
  BY <1>4, <1>8 DEF Arrived, Calling
<1>9. CASE StreamChunked
  BY <1>4, <1>9 DEF StreamChunked, Calling
<1>10. CASE StreamChunkedAccum
  BY <1>4, <1>10 DEF StreamChunkedAccum, Calling
<1>11. CASE DecompressAndEnqueue
  BY <1>4, <1>11 DEF DecompressAndEnqueue, Calling
<1> QED
  BY <1>1, <1>2, <1>3, <1>5, <1>6, <1>7, <1>8, <1>9, <1>10, <1>11 DEF FetchCalled

\* With what the outside calls in.
LEMMA KnownEntered ==
    ASSUME LoopInv, KnownInv,
           Evict \/ AbortSignal \/ Fetch \/ ConnectFails \/ Connected \/ ReadHeaders \/ Text
           \/ SocketAnswers \/ H2Fetch \/ Cut
    PROVE  KnownEnter
<1>1. CASE Evict \/ Connected \/ Cut
  BY <1>1 DEF Evict, Connected, Cut, KnownEnter
<1>2. CASE AbortSignal
  <2>1. PICK s \in Signals : Enter(<<<<"_fire", s, 1>>>>)
    BY <1>2 DEF AbortSignal
  <2> DEFINE a == <<"_fire", s, 1>>
  <2>2. KnownCall(a)
    BY DEF KnownCall, Settling
  <2>3. Enter(<<a>>)
    BY <2>1
  <2> HIDE DEF a
  <2> QED
    BY <2>2, <2>3 DEF KnownEnter
<1>3. CASE Fetch \/ ConnectFails \/ ReadHeaders \/ H2Fetch
  <2>1. \/ Enter(<<>>)
        \/ \E r \in Requests : \E a : a[1] \in Settling \cup {"_abortNow"} /\ a[2] = r /\ Enter(<<a>>)
    <3>1. CASE Fetch
      BY <3>1 DEF Fetch, Settling
    <3>2. CASE ConnectFails
      BY <3>2 DEF ConnectFails, Settling
    <3>3. CASE ReadHeaders
      <4>1. PICK r \in Requests : HeadReads(r)
        BY <3>3, HeadersRead
      <4>2. Enter(<<>>) \/ \E a : a[1] \in Settling /\ a[2] = r /\ Enter(<<a>>)
        BY <4>1 DEF HeadReads, Settling
      <4> QED
        BY <4>2
    <3>4. CASE H2Fetch
      BY <3>4 DEF H2Fetch, Settling
    <3> QED
      BY <1>3, <3>1, <3>2, <3>3, <3>4
  <2> QED
    BY <2>1 DEF KnownEnter, KnownCall, Settling
<1>4. CASE Text \/ SocketAnswers
  <2>1. \E a : a[1] \in {"pump", "arrived", "data"} /\ Enter(<<a>>)
    <3>1. CASE Text
      BY <3>1 DEF Text
    <3>2. CASE SocketAnswers
      <4> DEFINE fn(b) == IF body[b].reply.framing = "chunked" THEN "arrived" ELSE "data"
      <4>1. \E b, items, over : Enter(<<<<fn(b), b, items, over>>>>)
        BY <3>2 DEF SocketAnswers
      <4>2. \A b, items, over : <<fn(b), b, items, over>>[1] \in {"pump", "arrived", "data"}
        OBVIOUS
      <4> QED
        BY <4>1, <4>2
    <3> QED
      BY <1>4, <3>1, <3>2
  <2> QED
    BY <2>1 DEF KnownEnter, KnownCall, Settling
<1> QED
  BY <1>1, <1>2, <1>3, <1>4

\* A signal is aborted, or its listeners change; all else leaves it alone.
LEMMA SignalsKept ==
    ASSUME LoopInv, KnownInv, [FetchNext]_fetchVars
    PROVE  SignalInv'
<1>0. /\ "faults" \notin Signals /\ SignalInv
      /\ \A r \in Requests : SignalOf[r] \in Signals
  BY FetchAssumption DEF Signals, KnownInv
<1>1. CASE UNCHANGED signal
  BY <1>0, <1>1 DEF SignalInv
<1>2. CASE signal' = [signal EXCEPT !.faults = @ + 1]
  BY <1>0, <1>2 DEF SignalInv
<1>3. ASSUME NEW r \in Requests, Listen(r) \/ Unlisten(r)
      PROVE  SignalInv'
  <2> DEFINE s == SignalOf[r]
             l == signal[s].listeners
  <2>1. s \in Signals /\ l \in Seq(Requests)
    BY <1>0 DEF SignalInv
  <2>2. \E m \in Seq(Requests) : signal' = [signal EXCEPT ![s].listeners = m]
    <3>1. Append(l, r) \in Seq(Requests) /\ Without(l, r) \in Seq(Requests)
      BY <2>1, Shorter
    <3> QED
      BY <1>3, <3>1 DEF Listen, Unlisten
  <2>3. PICK m \in Seq(Requests) : signal' = [signal EXCEPT ![s].listeners = m]
    BY <2>2
  <2> HIDE DEF s
  <2> QED
    BY <1>0, <2>1, <2>3 DEF SignalInv
<1>4. CASE AbortSignal
  <2>1. PICK s \in Signals : signal' = [signal EXCEPT ![s].aborted = TRUE]
    BY <1>4 DEF AbortSignal
  <2> QED
    BY <1>0, <2>1 DEF SignalInv
<1>5. stack # <<>> => KnownCall(stack[1])
  BY KnownFirst
<1>6. CASE FetchOne \/ AbortNow
  <2>0. \E f \in Settling \cup {"_abortNow"} : Calling(f)
    BY <1>6 DEF FetchOne, AbortNow, Settling
  <2>1. Arg(1) \in Requests
    BY <1>5, <2>0 DEF Calling, KnownCall, Arg
  <2> QED
    BY <1>1, <1>3, <1>6, <2>1 DEF FetchOne, AbortNow
<1>7. CASE FetchCalled /\ ~ FetchOne /\ ~ AbortNow
  <2>1. UNCHANGED signal
    BY <1>7 DEF FetchCalled, Fire, FetchFollow, Done, BuildStreamingResponse, HandleFetchResponse,
                Pull, AsyncStreamBody, AskForMore, StreamBody, Arrived, StreamChunked,
                StreamChunkedAccum, DecompressAndEnqueue, OnDone, H2Done
  <2> QED
    BY <1>1, <2>1
<1>8. CASE Evict \/ Fetch \/ Text \/ SocketAnswers \/ H2Fetch
  BY <1>1, <1>8 DEF Evict, Fetch, Text, SocketAnswers, H2Fetch
<1>9. CASE ConnectFails \/ Cut
  BY <1>2, <1>9 DEF ConnectFails, Cut
<1>10. CASE Connected \/ ReadHeaders
  <2>1. UNCHANGED signal \/ \E r \in Requests : Unlisten(r)
    BY <1>10, HeadersRead DEF Connected, HeadReads
  <2> QED
    BY <1>1, <1>3, <2>1
<1>11. CASE UNCHANGED fetchVars
  BY <1>1, <1>11 DEF fetchVars
<1> QED
  BY <1>4, <1>6, <1>7, <1>8, <1>9, <1>10, <1>11 DEF FetchNext

\* All calls stay about what there is.
LEMMA KnownKept ==
    ASSUME LoopInv, KnownInv, [FetchNext]_fetchVars
    PROVE  KnownInv'
<1>1. CASE FetchNext /\ ~ Drain
  BY <1>1, KnownCalled, KnownEntered, KnownGoesOn, SignalsKept DEF FetchNext, KnownInv
<1>2. CASE Drain
  <2>1. RunJob
    BY <1>2 DEF Drain, RunTick, LoopInv
  <2>2. jobs[1][1] = "pump" /\ stack' = <<jobs[1]>>
    <3>1. 1 \in 1 .. Len(jobs) /\ Head(jobs) = jobs[1]
      BY <2>1 DEF RunJob, LoopInv, Listed
    <3> QED
      BY <2>1, <3>1 DEF RunJob, LoopInv
  <2>3. \A i \in 1 .. Len(stack') : stack'[i][1] = "pump"
    <3>1. Len(stack') = 1 /\ stack'[1] = jobs[1]
      BY <2>2
    <3> QED
      BY <2>2, <3>1
  <2>4. \A i \in 1 .. Len(stack') : KnownCall(stack'[i])
    BY <2>3 DEF KnownCall, Settling
  <2> QED
    BY <2>4, SignalsKept DEF KnownInv
<1>3. CASE UNCHANGED fetchVars
  BY <1>3, SignalsKept DEF fetchVars, KnownInv
<1> QED
  BY <1>1, <1>2, <1>3

\* Nothing is called, and no signal is heard.
LEMMA KnownStarts ==
    ASSUME FetchInit
    PROVE  KnownInv
<1>1. stack = <<>> /\ signal = Unheard(FALSE, 0)
  BY DEF FetchInit, LoopInit
<1>2. SignalInv
  BY <1>1, FetchAssumption DEF SignalInv, Unheard, Signals
<1> QED
  BY <1>1, <1>2 DEF KnownInv

-----------------------------------------------------------------------------
(* Who reads a body: one call, or the answer it waits for, while it is open. *)

ReadCall(call) == call[1] \in {"_asyncStreamBody", "more", "chunks", "arrived", "data", "flush", "onDone"}
BodyFields == {"handle", "reply", "left", "acc", "queue", "waiting", "reading", "state", "got", "text"}
BodyShaped(bd) == bd = [f \in BodyFields |-> bd[f]]

BodyInv ==
    /\ body = [b \in DOMAIN body |-> body[b]]
    /\ \A b \in DOMAIN body : BodyShaped(body[b]) /\ (body[b].reading => body[b].state = "open")

ThreadInv ==
    \A i \in 1 .. Len(stack) : ReadCall(stack[i]) =>
        /\ stack[i][2] \in DOMAIN body
        /\ body[stack[i][2]].state = "open" /\ ~ body[stack[i][2]].reading
        /\ \A j \in 1 .. Len(stack) : ReadCall(stack[j]) /\ stack[j][2] = stack[i][2] => j = i

\* A hop has no body before its head has been read: then the fetch is over, or
\* what is left to be done is to follow a redirect or to answer.
Ends(call, r) == call[1] \in {"_handleFetchResponse", "done"} /\ call[2] = r
Final(r)      == req[r].pc = "settled" \/ \E i \in 1 .. Len(stack) : Ends(stack[i], r)

HopInv ==
    /\ \A r \in Requests : req[r].hop \in Nat
    /\ \A b \in DOMAIN body, r \in Requests : b[1] = r =>
          b[2] \in Nat /\ b[2] <= req[r].hop /\ (b[2] = req[r].hop => Final(r))

ReadInv == BodyInv /\ ThreadInv /\ HopInv

\* The hop a fetch is at stays, and the fetch over if it is.
HopStays(r) == /\ req'[r].hop = req[r].hop
               /\ req[r].pc = "settled" => req'[r].pc = "settled"

\* It is over, or will be, unless the call that would have ended it does not.
LEMMA FinalKept ==
    ASSUME LoopInv, stack # <<>>, NEW calls, Listed(calls), Then(calls),
           NEW r \in Requests, HopStays(r), Ends(stack[1], r) => Final(r)', Final(r)
    PROVE  Final(r)'
<1>1. CASE req[r].pc = "settled"
  BY <1>1 DEF HopStays, Final
<1>2. CASE \E i \in 1 .. Len(stack) : Ends(stack[i], r)
  <2>1. PICK i \in 1 .. Len(stack) : Ends(stack[i], r)
    BY <1>2
  <2>2. CASE i = 1
    BY <2>1, <2>2
  <2>3. CASE i # 1
    <3> DEFINE j == i + Len(calls) - 1
    <3>1. /\ Len(calls) \in Nat /\ Len(stack) \in Nat \ {0}
          /\ Len(stack') = Len(calls) + Len(stack) - 1
          /\ \A k \in 1 .. Len(stack') :
                stack'[k] = IF k <= Len(calls) THEN calls[k] ELSE stack[k - Len(calls) + 1]
      BY ThenDoes DEF LoopInv
    <3>2. j \in 1 .. Len(stack') /\ ~ j <= Len(calls) /\ j - Len(calls) + 1 = i
      BY <2>3, <3>1
    <3>3. stack'[j] = stack[i]
      BY <3>1, <3>2
    <3> QED
      BY <2>1, <3>2, <3>3 DEF Final
  <2> QED
    BY <2>2, <2>3
<1> QED
  BY <1>1, <1>2 DEF Final

\* A function that leaves the hops where they are, or takes one of them on.
LEMMA HopsGoOn ==
    ASSUME LoopInv, HopInv, stack # <<>>, NEW calls, Listed(calls), Then(calls),
           DOMAIN body' = DOMAIN body,
           \A r \in Requests : \/ HopStays(r) /\ (Ends(stack[1], r) => Final(r)')
                               \/ req'[r].hop = req[r].hop + 1
    PROVE  HopInv'
<1>1. \A r \in Requests : req'[r].hop \in Nat
  BY DEF HopInv, HopStays
<1>2. ASSUME NEW b \in DOMAIN body', NEW r \in Requests, b[1] = r
      PROVE  b[2] \in Nat /\ b[2] <= req'[r].hop /\ (b[2] = req'[r].hop => Final(r)')
  <2>1. b[2] \in Nat /\ req[r].hop \in Nat /\ b[2] <= req[r].hop /\ (b[2] = req[r].hop => Final(r))
    BY <1>2 DEF HopInv
  <2>2. CASE HopStays(r) /\ (Ends(stack[1], r) => Final(r)')
    <3>1. Final(r) => Final(r)'
      BY <2>2, FinalKept
    <3> QED
      BY <2>1, <2>2, <3>1 DEF HopStays
  <2>3. CASE req'[r].hop = req[r].hop + 1
    BY <2>1, <2>3
  <2> QED
    BY <2>2, <2>3
<1> QED
  BY <1>1, <1>2 DEF HopInv

\* The outside adds to no hop.
LEMMA HopsEntered ==
    ASSUME HopInv, NEW calls, Enter(calls), DOMAIN body' = DOMAIN body,
           \A r \in Requests : HopStays(r)
    PROVE  HopInv'
<1>1. \A r \in Requests : Final(r) => Final(r)'
  BY DEF Enter, Idle, Final, HopStays
<1> QED
  BY <1>1 DEF HopInv, HopStays

\* A function that reads no body and calls none that does.
BodiesStill ==
    /\ DOMAIN body' = DOMAIN body
    /\ \A b \in DOMAIN body : body'[b].state = body[b].state /\ body'[b].reading = body[b].reading

LEMMA ThreadsStay ==
    ASSUME LoopInv, ThreadInv, stack # <<>>, NEW calls, Listed(calls), Then(calls), BodiesStill,
           \A i \in 1 .. Len(calls) : ~ ReadCall(calls[i])
    PROVE  ThreadInv'
<1>1. /\ Len(calls) \in Nat /\ Len(stack') \in Nat
      /\ \A i \in 1 .. Len(stack') : ReadCall(stack'[i]) =>
            i - Len(calls) + 1 \in 1 .. Len(stack) /\ stack'[i] = stack[i - Len(calls) + 1]
  BY ThenDoes DEF LoopInv
<1> SUFFICES ASSUME NEW i \in 1 .. Len(stack'), ReadCall(stack'[i])
             PROVE  /\ stack'[i][2] \in DOMAIN body'
                    /\ body'[stack'[i][2]].state = "open" /\ ~ body'[stack'[i][2]].reading
                    /\ \A j \in 1 .. Len(stack') :
                          ReadCall(stack'[j]) /\ stack'[j][2] = stack'[i][2] => j = i
  BY DEF ThreadInv
<1> DEFINE k == i - Len(calls) + 1
<1>2. k \in 1 .. Len(stack) /\ stack'[i] = stack[k]
  BY <1>1
<1>3. /\ stack[k][2] \in DOMAIN body
      /\ body[stack[k][2]].state = "open" /\ ~ body[stack[k][2]].reading
      /\ \A j \in 1 .. Len(stack) : ReadCall(stack[j]) /\ stack[j][2] = stack[k][2] => j = k
  <2> HIDE DEF k
  <2> QED
    BY <1>2 DEF ThreadInv
<1>4. ASSUME NEW j \in 1 .. Len(stack'), ReadCall(stack'[j]), stack'[j][2] = stack'[i][2]
      PROVE  j = i
  <2>1. j - Len(calls) + 1 \in 1 .. Len(stack) /\ stack'[j] = stack[j - Len(calls) + 1]
    BY <1>1, <1>4
  <2>2. j - Len(calls) + 1 = k
    BY <1>2, <1>3, <1>4, <2>1
  <2> QED
    BY <1>1, <2>2
<1> QED
  BY <1>2, <1>3, <1>4 DEF BodiesStill

\* A function that reads body b on, or the first to read it.
LEMMA ThreadsGoOn ==
    ASSUME LoopInv, ThreadInv, stack # <<>>, NEW calls, Listed(calls), Then(calls), NEW b,
           DOMAIN body \subseteq DOMAIN body',
           \A d \in DOMAIN body : d # b =>
              body'[d].state = body[d].state /\ body'[d].reading = body[d].reading,
           \A i \in 2 .. Len(stack) : ReadCall(stack[i]) => stack[i][2] # b,
           \A i \in 1 .. Len(calls) : ReadCall(calls[i]) =>
              /\ i = Len(calls) /\ calls[i][2] = b /\ b \in DOMAIN body'
              /\ body'[b].state = "open" /\ ~ body'[b].reading
    PROVE  ThreadInv'
<1>1. /\ Len(calls) \in Nat /\ Len(stack) \in Nat \ {0} /\ Len(stack') \in Nat
      /\ \A i \in 1 .. Len(stack') : i > Len(calls) =>
            i - Len(calls) + 1 \in 2 .. Len(stack) /\ stack'[i] = stack[i - Len(calls) + 1]
      /\ \A i \in 1 .. Len(stack') : ~ i > Len(calls) =>
            i \in 1 .. Len(calls) /\ stack'[i] = calls[i]
  BY ThenDoes DEF LoopInv
<1> SUFFICES ASSUME NEW i \in 1 .. Len(stack'), ReadCall(stack'[i])
             PROVE  /\ stack'[i][2] \in DOMAIN body'
                    /\ body'[stack'[i][2]].state = "open" /\ ~ body'[stack'[i][2]].reading
                    /\ \A j \in 1 .. Len(stack') :
                          ReadCall(stack'[j]) /\ stack'[j][2] = stack'[i][2] => j = i
  BY DEF ThreadInv
<1>2. CASE ~ i > Len(calls)
  <2>1. stack'[i][2] = b /\ i = Len(calls)
    BY <1>1, <1>2
  <2>2. ASSUME NEW j \in 1 .. Len(stack'), ReadCall(stack'[j]), stack'[j][2] = b PROVE j = i
    BY <1>1, <2>1, <2>2
  <2> QED
    BY <1>1, <1>2, <2>1, <2>2
<1>3. CASE i > Len(calls)
  <2> DEFINE k == i - Len(calls) + 1
  <2>1. k \in 2 .. Len(stack) /\ k \in 1 .. Len(stack) /\ stack'[i] = stack[k]
    BY <1>1, <1>3
  <2>2. /\ stack[k][2] \in DOMAIN body /\ stack[k][2] # b
        /\ body[stack[k][2]].state = "open" /\ ~ body[stack[k][2]].reading
        /\ \A j \in 1 .. Len(stack) : ReadCall(stack[j]) /\ stack[j][2] = stack[k][2] => j = k
    <3> HIDE DEF k
    <3> QED
      BY <2>1 DEF ThreadInv
  <2>3. ASSUME NEW j \in 1 .. Len(stack'), ReadCall(stack'[j]), stack'[j][2] = stack'[i][2]
        PROVE  j = i
    <3>1. j > Len(calls)
      BY <1>1, <2>1, <2>2, <2>3
    <3>2. j - Len(calls) + 1 \in 1 .. Len(stack) /\ stack'[j] = stack[j - Len(calls) + 1]
      BY <1>1, <3>1
    <3>3. j - Len(calls) + 1 = k
      BY <2>1, <2>2, <2>3, <3>2
    <3> QED
      BY <1>1, <3>3
  <2> QED
    BY <2>1, <2>2, <2>3
<1> QED
  BY <1>2, <1>3

\* The outside calls in for a body that waits for its socket, or for none.
LEMMA ThreadsEnter ==
    ASSUME NEW calls, stack' = calls, calls = <<>> \/ \E a : calls = <<a>> /\ (ReadCall(a) =>
              a[2] \in DOMAIN body' /\ body'[a[2]].state = "open" /\ ~ body'[a[2]].reading)
    PROVE  ThreadInv'
<1>1. CASE calls = <<>>
  BY <1>1 DEF ThreadInv
<1>2. CASE \E a : calls = <<a>> /\ (ReadCall(a) =>
              a[2] \in DOMAIN body' /\ body'[a[2]].state = "open" /\ ~ body'[a[2]].reading)
  <2>1. PICK a : stack' = <<a>> /\ (ReadCall(a) =>
              a[2] \in DOMAIN body' /\ body'[a[2]].state = "open" /\ ~ body'[a[2]].reading)
    BY <1>2
  <2>2. Len(stack') = 1 /\ stack'[1] = a
    BY <2>1
  <2> QED
    BY <2>1, <2>2 DEF ThreadInv
<1> QED
  BY <1>1, <1>2

\* What enqueue leaves alone.
LEMMA EnqueuedShaped ==
    ASSUME NEW bd, NEW items, BodyShaped(bd)
    PROVE  LET new == Enqueued(bd, items)
           IN  /\ BodyShaped(new) /\ new.handle = bd.handle /\ new.state = bd.state
               /\ new.reading = bd.reading
  BY DEF Enqueued, BodyShaped, BodyFields

\* A function that reads a body on: it goes on itself or waits for the socket.
ReadsOn(b, new) ==
    /\ stack # <<>> /\ ReadCall(stack[1]) /\ b = stack[1][2]
    /\ UNCHANGED <<req, conn, pool, signal>> /\ body' = [body EXCEPT ![b] = new]
    /\ b \in DOMAIN body => /\ BodyShaped(new) /\ new.handle = body[b].handle
                            /\ new.state = body[b].state
    /\ \/ Then(<<>>)
       \/ \E a : /\ ReadCall(a) /\ a[2] = b /\ Then(<<a>>)
                 /\ b \in DOMAIN body => new.reading = body[b].reading

LEMMA Readers ==
    ASSUME BodyInv,
           \/ AsyncStreamBody \/ AskForMore \/ StreamBody \/ Arrived \/ StreamChunked
           \/ StreamChunkedAccum \/ DecompressAndEnqueue
    PROVE  \E b, new : ReadsOn(b, new)
<1> DEFINE b  == Arg(1)
           bd == body[b]
           read(x) == Enqueued(bd, x)
<1>0. b \in DOMAIN body => BodyShaped(bd)
  BY DEF BodyInv
<1>1. \A x : b \in DOMAIN body => /\ BodyShaped(read(x)) /\ read(x).handle = bd.handle
                                  /\ read(x).state = bd.state /\ read(x).reading = bd.reading
  BY <1>0, EnqueuedShaped
<1>2. \A x, n : b \in DOMAIN body =>
         LET new == [read(x) EXCEPT !.left = n]
         IN  BodyShaped(new) /\ new.handle = bd.handle /\ new.state = bd.state /\ new.reading = bd.reading
  <2> HIDE DEF read, bd
  <2> QED
    BY <1>1 DEF BodyShaped, BodyFields
<1>3. \A x, y : b \in DOMAIN body =>
         LET new == [read(x) EXCEPT !.acc = y]
         IN  BodyShaped(new) /\ new.handle = bd.handle /\ new.state = bd.state /\ new.reading = bd.reading
  <2> HIDE DEF read, bd
  <2> QED
    BY <1>1 DEF BodyShaped, BodyFields
<1>4. \A y : b \in DOMAIN body =>
         LET new == [bd EXCEPT !.acc = y]
         IN  BodyShaped(new) /\ new.handle = bd.handle /\ new.state = bd.state /\ new.reading = bd.reading
  <2> HIDE DEF bd
  <2> QED
    BY <1>0 DEF BodyShaped, BodyFields
<1>5. ASSUME NEW f, Calling(f), f \in {"_asyncStreamBody", "more", "chunks", "arrived", "data", "flush", "onDone"}
      PROVE  stack # <<>> /\ ReadCall(stack[1]) /\ b = stack[1][2]
  BY <1>5 DEF Calling, ReadCall, Arg
<1>6. CASE AsyncStreamBody
  <2> DEFINE next == IF bd.reply.framing = "chunked" THEN <<"chunks", b, FALSE>> ELSE <<"more", b>>
             new  == IF bd.reply.framing = "chunked" THEN [bd EXCEPT !.acc = Arg(2)]
                     ELSE [read(Arg(2)) EXCEPT !.left = BodyLen - Len(Arg(2))]
  <2>1. /\ Calling("_asyncStreamBody") /\ UNCHANGED <<req, conn, pool, signal>>
        /\ body' = [body EXCEPT ![b] = new] /\ Then(<<next>>)
    BY <1>6 DEF AsyncStreamBody
  <2>2. ReadCall(next) /\ next[2] = b
    BY DEF ReadCall
  <2>3. b \in DOMAIN body => /\ BodyShaped(new) /\ new.handle = bd.handle
                             /\ new.state = bd.state /\ new.reading = bd.reading
    BY <1>2, <1>4
  <2> HIDE DEF next, new, b
  <2>4. stack # <<>> /\ ReadCall(stack[1]) /\ b = stack[1][2]
    BY <1>5, <2>1
  <2> QED
    BY <2>1, <2>2, <2>3, <2>4 DEF ReadsOn
<1>7. CASE AskForMore
  <2> DEFINE asks == [bd EXCEPT !.reading = TRUE]
  <2>1. Calling("more") /\ UNCHANGED <<req, conn, pool, signal>>
    BY <1>7 DEF AskForMore
  <2>2. stack # <<>> /\ ReadCall(stack[1]) /\ b = stack[1][2]
    BY <1>5, <2>1
  <2>3. \/ Then(<<>>) /\ body' = [body EXCEPT ![b] = asks]
        \/ body' = body /\ \E state : Then(<<<<"onDone", b, state>>>>)
    BY <1>7 DEF AskForMore
  <2>4. b \in DOMAIN body => BodyShaped(asks) /\ asks.handle = bd.handle /\ asks.state = bd.state
    <3> HIDE DEF bd
    <3> QED
      BY <1>0 DEF BodyShaped, BodyFields
  <2>5. body = [body EXCEPT ![b] = bd]
    BY DEF BodyInv
  <2>6. \A state : LET call == <<"onDone", b, state>> IN ReadCall(call) /\ call[2] = b
    BY DEF ReadCall
  <2> HIDE DEF asks, b
  <2>7. CASE Then(<<>>) /\ body' = [body EXCEPT ![b] = asks]
    <3>1. ReadsOn(b, asks)
      BY <2>1, <2>2, <2>4, <2>7 DEF ReadsOn
    <3> QED
      BY <3>1
  <2>8. CASE body' = body /\ \E state : Then(<<<<"onDone", b, state>>>>)
    <3>1. ReadsOn(b, bd)
      BY <1>0, <2>1, <2>2, <2>5, <2>6, <2>8 DEF ReadsOn
    <3> QED
      BY <3>1
  <2> QED
    BY <2>3, <2>7, <2>8
<1>8. CASE StreamBody
  <2> DEFINE new == [read(Arg(2)) EXCEPT !.left = @ - Len(Arg(2))]
  <2>1. /\ Calling("data") /\ UNCHANGED <<req, conn, pool, signal>>
        /\ body' = [body EXCEPT ![b] = new]
    BY <1>8 DEF StreamBody
  <2>2. \E a : ReadCall(a) /\ a[2] = b /\ Then(<<a>>)
    BY <1>8 DEF StreamBody, ReadCall
  <2>3. b \in DOMAIN body => /\ BodyShaped(new) /\ new.handle = bd.handle
                             /\ new.state = bd.state /\ new.reading = bd.reading
    BY <1>2
  <2> HIDE DEF new, b
  <2>4. stack # <<>> /\ ReadCall(stack[1]) /\ b = stack[1][2]
    BY <1>5, <2>1
  <2> QED
    BY <2>1, <2>2, <2>3, <2>4 DEF ReadsOn
<1>9. CASE Arrived
  <2> DEFINE new == [bd EXCEPT !.acc = @ \o Arg(2)]
  <2>1. /\ Calling("arrived") /\ UNCHANGED <<req, conn, pool, signal>>
        /\ body' = [body EXCEPT ![b] = new]
    BY <1>9 DEF Arrived
  <2>2. \E a : ReadCall(a) /\ a[2] = b /\ Then(<<a>>)
    BY <1>9 DEF Arrived, ReadCall
  <2>3. b \in DOMAIN body => /\ BodyShaped(new) /\ new.handle = bd.handle
                             /\ new.state = bd.state /\ new.reading = bd.reading
    BY <1>4
  <2> HIDE DEF new, b
  <2>4. stack # <<>> /\ ReadCall(stack[1]) /\ b = stack[1][2]
    BY <1>5, <2>1
  <2> QED
    BY <2>1, <2>2, <2>3, <2>4 DEF ReadsOn
<1>10. CASE StreamChunked
  <2>1. PICK items : /\ Calling("chunks") /\ UNCHANGED <<req, conn, pool, signal>>
                     /\ body' = [body EXCEPT ![b] = [read(items) EXCEPT !.acc = <<>>]]
    BY <1>10 DEF StreamChunked
  <2> DEFINE new == [read(items) EXCEPT !.acc = <<>>]
  <2>2. \E a : ReadCall(a) /\ a[2] = b /\ Then(<<a>>)
    BY <1>10 DEF StreamChunked, ReadCall
  <2>3. b \in DOMAIN body => /\ BodyShaped(new) /\ new.handle = bd.handle
                             /\ new.state = bd.state /\ new.reading = bd.reading
    BY <1>3
  <2>4. body' = [body EXCEPT ![b] = new]
    BY <2>1
  <2> HIDE DEF new, b
  <2>5. stack # <<>> /\ ReadCall(stack[1]) /\ b = stack[1][2]
    BY <1>5, <2>1
  <2> QED
    BY <2>1, <2>2, <2>3, <2>4, <2>5 DEF ReadsOn
<1>11. CASE StreamChunkedAccum
  <2>1. PICK acc : /\ Calling("chunks") /\ UNCHANGED <<req, conn, pool, signal>>
                   /\ body' = [body EXCEPT ![b].acc = acc]
    BY <1>11 DEF StreamChunkedAccum
  <2> DEFINE new == [bd EXCEPT !.acc = acc]
  <2>2. \E a : ReadCall(a) /\ a[2] = b /\ Then(<<a>>)
    BY <1>11 DEF StreamChunkedAccum, ReadCall
  <2>3. b \in DOMAIN body => /\ BodyShaped(new) /\ new.handle = bd.handle
                             /\ new.state = bd.state /\ new.reading = bd.reading
    BY <1>4
  <2>4. body' = [body EXCEPT ![b] = new]
    BY <2>1
  <2> HIDE DEF new, b
  <2>5. stack # <<>> /\ ReadCall(stack[1]) /\ b = stack[1][2]
    BY <1>5, <2>1
  <2> QED
    BY <2>1, <2>2, <2>3, <2>4, <2>5 DEF ReadsOn
<1>12. CASE DecompressAndEnqueue
  <2>1. PICK items : /\ Calling("flush") /\ UNCHANGED <<req, conn, pool, signal>>
                     /\ body' = [body EXCEPT ![b] = [read(items) EXCEPT !.acc = <<>>]]
    BY <1>12 DEF DecompressAndEnqueue
  <2> DEFINE new == [read(items) EXCEPT !.acc = <<>>]
  <2>2. \E a : ReadCall(a) /\ a[2] = b /\ Then(<<a>>)
    BY <1>12 DEF DecompressAndEnqueue, ReadCall
  <2>3. b \in DOMAIN body => /\ BodyShaped(new) /\ new.handle = bd.handle
                             /\ new.state = bd.state /\ new.reading = bd.reading
    BY <1>3
  <2>4. body' = [body EXCEPT ![b] = new]
    BY <2>1
  <2> HIDE DEF new, b
  <2>5. stack # <<>> /\ ReadCall(stack[1]) /\ b = stack[1][2]
    BY <1>5, <2>1
  <2> QED
    BY <2>1, <2>2, <2>3, <2>4, <2>5 DEF ReadsOn
<1> QED
  BY <1>6, <1>7, <1>8, <1>9, <1>10, <1>11, <1>12

\* Reading a body on keeps it read by one.
LEMMA ReadersKeep ==
    ASSUME LoopInv, ReadInv, NEW b, NEW new, ReadsOn(b, new)
    PROVE  ReadInv'
<1>1. /\ b \in DOMAIN body /\ body[b].state = "open" /\ ~ body[b].reading
      /\ \A i \in 2 .. Len(stack) : ReadCall(stack[i]) => stack[i][2] # b
  <2>1. 1 \in 1 .. Len(stack)
    BY DEF ReadsOn, LoopInv, Listed
  <2>2. /\ stack[1][2] \in DOMAIN body
        /\ body[stack[1][2]].state = "open" /\ ~ body[stack[1][2]].reading
        /\ \A j \in 1 .. Len(stack) : ReadCall(stack[j]) /\ stack[j][2] = stack[1][2] => j = 1
    BY <2>1 DEF ReadInv, ThreadInv, ReadsOn
  <2> QED
    BY <2>2 DEF ReadsOn
<1>2. /\ DOMAIN body' = DOMAIN body /\ body'[b] = new /\ new.state = "open" /\ BodyShaped(new)
      /\ \A d \in DOMAIN body : d # b => body'[d] = body[d]
      /\ body' = [d \in DOMAIN body' |-> body'[d]]
  BY <1>1 DEF ReadsOn, ReadInv, BodyInv
<1>3. BodyInv'
  BY <1>2 DEF ReadInv, BodyInv
<1>4. \E calls : /\ Listed(calls) /\ Then(calls)
                 /\ \A i \in 1 .. Len(calls) : ReadCall(calls[i]) =>
                       i = Len(calls) /\ calls[i][2] = b /\ ~ new.reading
  <2>1. CASE Then(<<>>)
    <3>1. \A i \in 1 .. Len(<<>>) : FALSE
      OBVIOUS
    <3> QED
      BY <2>1, <3>1, Lists
  <2>2. CASE \E a : ReadCall(a) /\ a[2] = b /\ Then(<<a>>) /\ new.reading = body[b].reading
    <3>1. PICK a : ReadCall(a) /\ a[2] = b /\ Then(<<a>>) /\ new.reading = body[b].reading
      BY <2>2
    <3> DEFINE calls == <<a>>
    <3>2. Len(calls) = 1 /\ calls[1] = a /\ Listed(calls) /\ Then(calls)
      BY <3>1, Lists
    <3> HIDE DEF calls
    <3>3. \A i \in 1 .. Len(calls) : i = Len(calls) /\ calls[i][2] = b /\ ~ new.reading
      BY <1>1, <3>1, <3>2
    <3> QED
      BY <3>2, <3>3
  <2> QED
    BY <1>1, <2>1, <2>2 DEF ReadsOn
<1>5. PICK calls : /\ Listed(calls) /\ Then(calls)
                   /\ \A i \in 1 .. Len(calls) : ReadCall(calls[i]) =>
                         i = Len(calls) /\ calls[i][2] = b /\ ~ new.reading
  BY <1>4
<1>6. stack # <<>>
  BY DEF ReadsOn
<1>7. ThreadInv'
  BY <1>1, <1>2, <1>5, <1>6, ThreadsGoOn DEF ReadInv
<1>8. \A r \in Requests : HopStays(r) /\ ~ Ends(stack[1], r)
  BY DEF ReadsOn, HopStays, Ends, ReadCall
<1>9. HopInv'
  BY <1>2, <1>5, <1>6, <1>8, HopsGoOn DEF ReadInv
<1> QED
  BY <1>3, <1>7, <1>9 DEF ReadInv

\* What ends a body is the one call that has read it.
LEMMA OnDoneEnds ==
    ASSUME LoopInv, ReadInv, OnDone
    PROVE  /\ ReadInv' /\ Arg(1) \in DOMAIN body /\ body[Arg(1)].state = "open"
           /\ DOMAIN body' = DOMAIN body
           /\ \A b \in DOMAIN body : /\ body'[b].handle = body[b].handle
                                     /\ b # Arg(1) => body'[b] = body[b]
           /\ body'[Arg(1)].state = Arg(2)
<1> DEFINE b   == Arg(1)
           new == Ended(body[b], Arg(2), Arg(2))
<1>1. /\ stack # <<>> /\ ReadCall(stack[1]) /\ b = stack[1][2] /\ stack[1][1] = "onDone"
      /\ Then(<<>>) /\ UNCHANGED <<req, signal>> /\ body' = [body EXCEPT ![b] = new]
  BY DEF OnDone, Calling, ReadCall, Arg
<1> HIDE DEF b
<1>2. /\ b \in DOMAIN body /\ body[b].state = "open" /\ ~ body[b].reading
      /\ \A i \in 2 .. Len(stack) : ReadCall(stack[i]) => stack[i][2] # b
  <2>1. 1 \in 1 .. Len(stack)
    BY <1>1 DEF LoopInv, Listed
  <2>2. /\ stack[1][2] \in DOMAIN body
        /\ body[stack[1][2]].state = "open" /\ ~ body[stack[1][2]].reading
        /\ \A j \in 1 .. Len(stack) : ReadCall(stack[j]) /\ stack[j][2] = stack[1][2] => j = 1
    BY <1>1, <2>1 DEF ReadInv, ThreadInv
  <2> QED
    BY <1>1, <2>2
<1>3. BodyShaped(new) /\ new.handle = body[b].handle /\ new.state = Arg(2) /\ ~ new.reading
  <2>1. BodyShaped(body[b])
    BY <1>2 DEF ReadInv, BodyInv
  <2> QED
    BY <1>2, <2>1 DEF Ended, BodyShaped, BodyFields
<1> HIDE DEF new
<1>4. /\ DOMAIN body' = DOMAIN body /\ body'[b] = new
      /\ \A d \in DOMAIN body : d # b => body'[d] = body[d]
      /\ body' = [d \in DOMAIN body' |-> body'[d]]
  BY <1>1, <1>2 DEF ReadInv, BodyInv
<1>5. BodyInv'
  BY <1>3, <1>4 DEF ReadInv, BodyInv
<1>6. \A i \in 1 .. Len(<<>>) : FALSE
  OBVIOUS
<1>7. ThreadInv'
  BY <1>1, <1>2, <1>4, <1>6, ThreadsGoOn, Lists DEF ReadInv
<1>8. \A r \in Requests : HopStays(r) /\ ~ Ends(stack[1], r)
  BY <1>1 DEF HopStays, Ends
<1>9. HopInv'
  BY <1>1, <1>4, <1>8, HopsGoOn, Lists DEF ReadInv
<1> QED
  BY <1>2, <1>3, <1>4, <1>5, <1>7, <1>9 DEF ReadInv, b

\* The reader of a stream takes from it, and waits.
LEMMA PullReads ==
    ASSUME LoopInv, ReadInv, Pull
    PROVE  /\ ReadInv' /\ DOMAIN body' = DOMAIN body
           /\ \A b \in DOMAIN body : body'[b].handle = body[b].handle /\ body'[b].state = body[b].state
<1> DEFINE b  == Arg(1)
           bd == body[b]
           takes == [bd EXCEPT !.got = Append(@, Head(bd.queue)), !.queue = Tail(@)]
           waits == [bd EXCEPT !.waiting = bd.state = "open",
                               !.text = IF bd.state = "open" THEN @ ELSE bd.state]
<1>1. /\ stack # <<>> /\ stack[1][1] = "pump" /\ Then(<<>>) /\ UNCHANGED <<req, conn, pool, signal>>
      /\ body' = [body EXCEPT ![b] = takes] \/ body' = [body EXCEPT ![b] = waits]
  BY DEF Pull, Calling
<1>2. b \in DOMAIN body =>
         /\ BodyShaped(takes) /\ takes.handle = bd.handle /\ takes.state = bd.state
         /\ takes.reading = bd.reading
         /\ BodyShaped(waits) /\ waits.handle = bd.handle /\ waits.state = bd.state
         /\ waits.reading = bd.reading
  <2>1. b \in DOMAIN body => BodyShaped(bd)
    BY DEF ReadInv, BodyInv
  <2> HIDE DEF bd
  <2> QED
    BY <2>1 DEF BodyShaped, BodyFields
<1>3. PICK new : /\ body' = [body EXCEPT ![b] = new]
                 /\ b \in DOMAIN body =>
                       /\ BodyShaped(new) /\ new.handle = bd.handle /\ new.state = bd.state
                       /\ new.reading = bd.reading
  <2> HIDE DEF takes, waits
  <2> QED
    BY <1>1, <1>2
<1> HIDE DEF b
<1>4. /\ DOMAIN body' = DOMAIN body /\ body' = [d \in DOMAIN body' |-> body'[d]]
      /\ \A d \in DOMAIN body : /\ BodyShaped(body'[d]) /\ body'[d].handle = body[d].handle
                                /\ body'[d].state = body[d].state
                                /\ body'[d].reading = body[d].reading
  BY <1>3 DEF ReadInv, BodyInv
<1>5. BodyInv'
  BY <1>4 DEF ReadInv, BodyInv
<1>6. \A i \in 1 .. Len(<<>>) : FALSE
  OBVIOUS
<1>7. ThreadInv'
  BY <1>1, <1>4, <1>6, ThreadsStay, Lists DEF ReadInv, BodiesStill
<1>8. \A r \in Requests : HopStays(r) /\ ~ Ends(stack[1], r)
  BY <1>1 DEF HopStays, Ends
<1>9. HopInv'
  BY <1>1, <1>4, <1>8, HopsGoOn, Lists DEF ReadInv
<1> QED
  BY <1>4, <1>5, <1>7, <1>9 DEF ReadInv

\* Calls that read no body.
Unreading == \/ Then(<<>>)
             \/ \E a : ~ ReadCall(a) /\ Then(<<a>>)
             \/ \E a, b : ~ ReadCall(a) /\ ~ ReadCall(b) /\ Then(<<a, b>>)

\* A function that has to do with no body.
LEMMA UnreadKeeps ==
    ASSUME LoopInv, ReadInv, stack # <<>>, UNCHANGED body, Unreading,
           \A r \in Requests : \/ HopStays(r) /\ (Ends(stack[1], r) => Final(r)')
                               \/ req'[r].hop = req[r].hop + 1
    PROVE  ReadInv'
<1>1. \E calls : Listed(calls) /\ Then(calls) /\ \A i \in 1 .. Len(calls) : ~ ReadCall(calls[i])
  <2>1. CASE Then(<<>>)
    <3>1. \A i \in 1 .. Len(<<>>) : FALSE
      OBVIOUS
    <3> QED
      BY <2>1, <3>1, Lists
  <2>2. CASE \E a : ~ ReadCall(a) /\ Then(<<a>>)
    <3>1. PICK a : ~ ReadCall(a) /\ Then(<<a>>)
      BY <2>2
    <3> DEFINE calls == <<a>>
    <3>2. Len(calls) = 1 /\ calls[1] = a /\ Listed(calls) /\ Then(calls)
      BY <3>1, Lists
    <3> HIDE DEF calls
    <3>3. \A i \in 1 .. Len(calls) : ~ ReadCall(calls[i])
      BY <3>1, <3>2
    <3> QED
      BY <3>2, <3>3
  <2>3. CASE \E a, b : ~ ReadCall(a) /\ ~ ReadCall(b) /\ Then(<<a, b>>)
    <3>1. PICK a, b : ~ ReadCall(a) /\ ~ ReadCall(b) /\ Then(<<a, b>>)
      BY <2>3
    <3> DEFINE calls == <<a, b>>
    <3>2. Len(calls) = 2 /\ calls[1] = a /\ calls[2] = b /\ Listed(calls) /\ Then(calls)
      BY <3>1, Lists
    <3> HIDE DEF calls
    <3>3. \A i \in 1 .. Len(calls) : ~ ReadCall(calls[i])
      BY <3>1, <3>2
    <3> QED
      BY <3>2, <3>3
  <2> QED
    BY <2>1, <2>2, <2>3 DEF Unreading
<1>2. PICK calls : Listed(calls) /\ Then(calls) /\ \A i \in 1 .. Len(calls) : ~ ReadCall(calls[i])
  BY <1>1
<1>3. ThreadInv'
  BY <1>2, ThreadsStay DEF ReadInv, BodiesStill
<1>4. HopInv'
  BY <1>2, HopsGoOn DEF ReadInv
<1>5. BodyInv'
  BY DEF ReadInv, BodyInv
<1> QED
  BY <1>3, <1>4, <1>5 DEF ReadInv

\* The fetch a running call goes on with is where it should be, and no other call
\* goes on with it.
LEMMA TurnFirst ==
    ASSUME LoopInv, SettleInv, stack # <<>>, NEW r \in Requests, Leads(stack[1], r)
    PROVE  Due(stack[1], req[r]) /\ \A j \in 2 .. Len(stack) : ~ Leads(stack[j], r)
<1>1. 1 \in 1 .. Len(stack) /\ Len(stack) \in Nat
  BY DEF LoopInv, Listed
<1>2. Due(stack[1], req[r]) /\ \A j \in 1 .. Len(stack) : Leads(stack[j], r) => j = 1
  BY <1>1 DEF SettleInv
<1> QED
  BY <1>1, <1>2

\* The functions that go on with a fetch, but for the one that makes its body.
LEMMA FetchesKeepReads ==
    ASSUME LoopInv, SettleInv, KnownInv, ReadInv,
           Fire \/ FetchFollow \/ FetchOne \/ AbortNow \/ Done \/ HandleFetchResponse \/ H2Done
    PROVE  ReadInv'
<1> DEFINE r == Arg(1)
<1>0. UNCHANGED body /\ stack # <<>>
  BY DEF Fire, FetchFollow, FetchOne, AbortNow, Done, HandleFetchResponse, H2Done, Calling
<1>1. ASSUME NEW f \in Settling, Calling(f)
      PROVE  r \in Requests /\ Leads(stack[1], r) /\ Due(stack[1], req[r])
  <2>1. r \in Requests /\ Leads(stack[1], r)
    BY <1>0, <1>1, KnownFirst DEF KnownCall, Calling, Arg, Leads
  <2> QED
    BY <1>0, <2>1, TurnFirst
<1>2. ASSUME NEW f, Calling(f), f \notin {"done", "_handleFetchResponse"}, NEW t
      PROVE  ~ Ends(stack[1], t)
  BY <1>2 DEF Ends, Calling
<1>3. /\ req = [t \in Requests |-> req[t]]
      /\ \A t \in Requests : Shaped(req[t])
  BY DEF SettleInv
<1>4. ASSUME NEW q, r \in Requests, req' = [req EXCEPT ![r] = q], q.hop = req[r].hop,
             req[r].pc = "settled" => q.pc = "settled"
      PROVE  \A t \in Requests : HopStays(t)
  BY <1>3, <1>4 DEF HopStays
<1>5. CASE Fire
  <2>1. Calling("_fire") /\ UNCHANGED req /\ Unreading
    BY <1>5 DEF Fire, Unreading, ReadCall
  <2> QED
    BY <1>0, <1>2, <2>1, UnreadKeeps DEF HopStays
<1>6. CASE FetchFollow
  <2>1. Calling("_fetchFollow") /\ UNCHANGED req /\ Unreading
    BY <1>6 DEF FetchFollow, Unreading, ReadCall
  <2> QED
    BY <1>0, <1>2, <2>1, UnreadKeeps DEF HopStays
<1>7. CASE FetchOne
  <2>1. Calling("_fetchOne") /\ Unreading
    BY <1>7 DEF FetchOne, Unreading
  <2>2. r \in Requests /\ req[r].pc = "fired"
    BY <1>1, <2>1 DEF Settling, Due, Calling
  <2>3. \E q : req' = [req EXCEPT ![r] = q] /\ q.hop = req[r].hop
    <3> DEFINE kept(h) == [req[r] EXCEPT !.pc = "headers", !.handle = h, !.reused = TRUE, !.acc = <<>>]
               fresh   == [req[r] EXCEPT !.pc = "connecting", !.handle = Nobody, !.reused = FALSE,
                                         !.dialing = @ \cup {req[r].hop}]
    <3>1. (\E h : req' = [req EXCEPT ![r] = kept(h)]) \/ req' = [req EXCEPT ![r] = fresh]
      BY <1>7 DEF FetchOne
    <3>2. (\A h : kept(h).hop = req[r].hop) /\ fresh.hop = req[r].hop
      BY <1>3, <2>2 DEF Shaped, ReqFields
    <3> HIDE DEF kept, fresh
    <3> QED
      BY <3>1, <3>2
  <2>4. \A t \in Requests : HopStays(t)
    BY <1>4, <2>2, <2>3
  <2> QED
    BY <1>0, <1>2, <2>1, <2>4, UnreadKeeps
<1>8. CASE AbortNow
  <2>1. Calling("_abortNow") /\ Unreading
    BY <1>8 DEF AbortNow, Unreading, ReadCall
  <2>2. \A t \in Requests : HopStays(t)
    <3>1. r \in Requests
      BY <1>0, <2>1, KnownFirst DEF KnownCall, Calling, Arg
    <3>2. CASE req[r].pc \notin {"connecting", "headers"}
      BY <1>8, <3>2 DEF AbortNow, HopStays
    <3>3. CASE req[r].pc \in {"connecting", "headers"}
      <4> DEFINE q == [req[r] EXCEPT !.pc = "fired", !.handle = Nobody]
      <4>1. req' = [req EXCEPT ![r] = q]
        BY <1>8, <3>3 DEF AbortNow
      <4>2. q.hop = req[r].hop /\ req[r].pc # "settled"
        BY <1>3, <3>1, <3>3 DEF Shaped, ReqFields
      <4> HIDE DEF q
      <4> QED
        BY <1>4, <3>1, <4>1, <4>2
    <3> QED
      BY <3>2, <3>3
  <2> QED
    BY <1>0, <1>2, <2>1, <2>2, UnreadKeeps
<1>9. CASE Done
  <2> DEFINE q == [req[r] EXCEPT !.pc = "settled", !.answers = Append(@, Arg(2))]
  <2>1. Calling("done") /\ Unreading /\ req' = [req EXCEPT ![r] = q]
    BY <1>9 DEF Done, Unreading
  <2>2. r \in Requests
    BY <1>1, <2>1 DEF Settling
  <2>3. q.hop = req[r].hop /\ q.pc = "settled"
    BY <1>3, <2>2 DEF Shaped, ReqFields
  <2> HIDE DEF q
  <2>4. \A t \in Requests : HopStays(t)
    BY <1>4, <2>1, <2>2, <2>3
  <2>5. req'[r].pc = "settled"
    BY <1>3, <2>1, <2>2, <2>3
  <2>6. \A t \in Requests : Ends(stack[1], t) => t = r
    BY DEF Ends, Arg
  <2> QED
    BY <1>0, <2>1, <2>4, <2>5, <2>6, UnreadKeeps DEF Final
<1>10. CASE HandleFetchResponse
  <2>1. Calling("_handleFetchResponse")
    BY <1>10 DEF HandleFetchResponse
  <2>2. r \in Requests /\ \A t \in Requests : Ends(stack[1], t) => t = r
    BY <1>1, <2>1 DEF Settling, Ends, Arg
  <2>3. CASE Arg(2).to # "none"
    <3> DEFINE q == [req[r] EXCEPT !.hop = @ + 1, !.origin = Arg(2).to]
    <3>1. req' = [req EXCEPT ![r] = q] /\ Unreading
      BY <1>10, <2>3 DEF HandleFetchResponse, Unreading, ReadCall
    <3>2. q.hop = req[r].hop + 1
      BY <1>3, <2>2 DEF Shaped, ReqFields
    <3> HIDE DEF q
    <3>3. \A t \in Requests : IF t = r THEN req'[t].hop = req[t].hop + 1 ELSE req'[t] = req[t]
      BY <1>3, <2>2, <3>1, <3>2
    <3>4. \A t \in Requests : \/ HopStays(t) /\ (Ends(stack[1], t) => Final(t)')
                              \/ req'[t].hop = req[t].hop + 1
      BY <2>2, <3>3 DEF HopStays
    <3> QED
      BY <1>0, <3>1, <3>4, UnreadKeeps
  <2>4. CASE Arg(2).to = "none"
    <3> DEFINE a == <<"done", r, "response">>
    <3>1. UNCHANGED req /\ Then(<<a>>)
      BY <1>10, <2>4 DEF HandleFetchResponse
    <3>2. PICK t \in Requests : t = r
      BY <2>2
    <3>3. ~ ReadCall(a) /\ Ends(a, t)
      BY <3>2 DEF ReadCall, Ends
    <3> HIDE DEF a
    <3>4. 1 \in 1 .. Len(stack') /\ stack'[1] = a
      <4> DEFINE calls == <<a>>
      <4>1. Len(calls) = 1 /\ calls[1] = a /\ Listed(calls) /\ Then(calls)
        BY <3>1, Lists
      <4> HIDE DEF calls
      <4> QED
        BY <1>0, <4>1, ThenDoes DEF LoopInv
    <3>5. Final(t)'
      BY <3>3, <3>4 DEF Final
    <3> QED
      BY <1>0, <2>2, <3>1, <3>2, <3>3, <3>5, UnreadKeeps DEF HopStays, Unreading
  <2> QED
    BY <2>3, <2>4
<1>11. CASE H2Done
  <2> DEFINE q == [req[r] EXCEPT !.pc = "fired", !.handle = Nobody]
  <2>1. Calling("h2Done") /\ Unreading /\ req' = [req EXCEPT ![r] = q]
    BY <1>11 DEF H2Done, Unreading, ReadCall
  <2>2. r \in Requests /\ req[r].pc = "h2"
    BY <1>1, <2>1 DEF Settling, Due, Calling
  <2>3. q.hop = req[r].hop
    BY <1>3, <2>2 DEF Shaped, ReqFields
  <2> HIDE DEF q
  <2>4. \A t \in Requests : HopStays(t)
    BY <1>4, <2>1, <2>2, <2>3
  <2> QED
    BY <1>0, <1>2, <2>1, <2>4, UnreadKeeps
<1> QED
  BY <1>5, <1>6, <1>7, <1>8, <1>9, <1>10, <1>11

\* The response of a hop: its body is new, and takes the socket over.
LEMMA BuildReads ==
    ASSUME LoopInv, SettleInv, KnownInv, ReadInv, BuildStreamingResponse
    PROVE  /\ ReadInv'
           /\ \E r \in Requests :
                 /\ req' = [req EXCEPT ![r].handle = Nobody]
                 /\ Hop(r) \notin DOMAIN body /\ DOMAIN body' = DOMAIN body \cup {Hop(r)}
                 /\ body'[Hop(r)].handle = req[r].handle
                 /\ \A b \in DOMAIN body : body'[b] = body[b]
<1>1. stack # <<>> /\ stack[1][1] = "_buildStreamingResponse" /\ Arg(1) \in Requests
  <2>1. Calling("_buildStreamingResponse")
    BY DEF BuildStreamingResponse
  <2> QED
    BY <2>1, KnownFirst DEF KnownCall, Calling, Arg, Settling
<1>2. PICK r \in Requests : r = Arg(1)
  BY <1>1
<1>3. Leads(stack[1], r)
  BY <1>1, <1>2 DEF Leads, Settling, Arg
<1>4. req[r].pc = "fired" /\ \A j \in 2 .. Len(stack) : ~ Leads(stack[j], r)
  BY <1>1, <1>3, TurnFirst DEF Due
<1>5. PICK h : h = Hop(r)
  OBVIOUS
<1>6. h \notin DOMAIN body
  <2>1. ~ Final(r)
    <3>1. req[r].pc # "settled"
      BY <1>4
    <3>2. \A i \in 1 .. Len(stack) : Ends(stack[i], r) => i = 1
      BY <1>4 DEF Ends, Leads, Settling
    <3>3. ~ Ends(stack[1], r)
      BY <1>1 DEF Ends
    <3> QED
      BY <3>1, <3>2, <3>3 DEF Final
  <2>2. h[1] = r /\ h[2] = req[r].hop
    BY <1>5 DEF Hop
  <2> QED
    BY <2>1, <2>2 DEF ReadInv, HopInv
<1>7. PICK reply : /\ body' = [b \in DOMAIN body \cup {h} |->
                                  IF b = h THEN NewBody(req[r].handle, reply) ELSE body[b]]
                   /\ Then(<<<<"_handleFetchResponse", r, reply>>,
                             <<"_asyncStreamBody", h, Arg(3)>>>>)
                   /\ req' = [req EXCEPT ![r].handle = Nobody]
  BY <1>2, <1>5 DEF BuildStreamingResponse, WithBody
<1>8. /\ DOMAIN body' = DOMAIN body \cup {h}
      /\ body'[h] = NewBody(req[r].handle, reply)
      /\ \A b \in DOMAIN body : body'[b] = body[b]
      /\ body' = [b \in DOMAIN body' |-> body'[b]]
  BY <1>6, <1>7
<1>9. /\ BodyShaped(body'[h]) /\ body'[h].handle = req[r].handle
      /\ body'[h].state = "open" /\ ~ body'[h].reading
  BY <1>8 DEF NewBody, BodyShaped, BodyFields
<1>10. BodyInv'
  BY <1>8, <1>9 DEF ReadInv, BodyInv
<1> DEFINE goes  == <<"_handleFetchResponse", r, reply>>
           reads == <<"_asyncStreamBody", h, Arg(3)>>
           calls == <<goes, reads>>
<1>11. /\ ~ ReadCall(goes) /\ Ends(goes, r) /\ reads[2] = h
  BY DEF ReadCall, Ends
<1>12. Len(calls) = 2 /\ calls[1] = goes /\ calls[2] = reads /\ Listed(calls) /\ Then(calls)
  <2> HIDE DEF goes, reads
  <2>1. Then(<<goes, reads>>)
    BY <1>7 DEF goes, reads
  <2> QED
    BY <2>1, Lists
<1> HIDE DEF goes, reads, calls
<1>13. \A i \in 1 .. Len(calls) : ReadCall(calls[i]) => i = Len(calls) /\ calls[i][2] = h
  BY <1>11, <1>12
<1>14. \A i \in 2 .. Len(stack) : ReadCall(stack[i]) => stack[i][2] # h
  <2>1. \A i \in 2 .. Len(stack) : i \in 1 .. Len(stack)
    BY <1>1 DEF LoopInv, Listed
  <2> QED
    BY <1>6, <2>1 DEF ReadInv, ThreadInv
<1>15. ThreadInv'
  <2>1. /\ \A i \in 1 .. Len(calls) : ReadCall(calls[i]) =>
              /\ i = Len(calls) /\ calls[i][2] = h /\ h \in DOMAIN body'
              /\ body'[h].state = "open" /\ ~ body'[h].reading
        /\ DOMAIN body \subseteq DOMAIN body'
        /\ \A d \in DOMAIN body : d # h =>
              body'[d].state = body[d].state /\ body'[d].reading = body[d].reading
    BY <1>8, <1>9, <1>13
  <2>2. ThreadInv /\ stack # <<>> /\ Listed(calls) /\ Then(calls)
    BY <1>1, <1>12 DEF ReadInv
  <2> HIDE DEF calls
  <2> QED
    BY <1>1, <1>14, <2>1, <2>2, ThreadsGoOn
<1>16. \A t \in Requests : HopStays(t) /\ ~ Ends(stack[1], t)
  <2>1. req = [t \in Requests |-> req[t]] /\ Shaped(req[r])
    BY DEF SettleInv
  <2> DEFINE q == [req[r] EXCEPT !.handle = Nobody]
  <2>2. q.hop = req[r].hop /\ q.pc = req[r].pc
    BY <2>1 DEF Shaped, ReqFields
  <2>3. req' = [req EXCEPT ![r] = q]
    BY <1>7
  <2> HIDE DEF q
  <2>4. \A t \in Requests : req'[t].hop = req[t].hop /\ req'[t].pc = req[t].pc
    BY <2>1, <2>2, <2>3
  <2> QED
    BY <1>1, <2>4 DEF HopStays, Ends
<1>17. \A t \in Requests : Final(t) => Final(t)'
  BY <1>1, <1>12, <1>16, FinalKept
<1>18. Final(r)'
  <2>1. /\ Len(stack) \in Nat \ {0} /\ Len(stack') = Len(calls) + Len(stack) - 1
        /\ \A i \in 1 .. Len(stack') :
              stack'[i] = IF i <= Len(calls) THEN calls[i] ELSE stack[i - Len(calls) + 1]
    BY <1>1, <1>12, ThenDoes DEF LoopInv
  <2>2. 1 \in 1 .. Len(stack') /\ stack'[1] = goes
    BY <1>12, <2>1
  <2> QED
    BY <1>11, <2>2 DEF Final
<1>19. HopInv'
  <2>1. \A t \in Requests : req'[t].hop = req[t].hop /\ req[t].hop \in Nat
    BY <1>16 DEF HopStays, ReadInv, HopInv
  <2>2. h[1] = r /\ h[2] = req[r].hop
    BY <1>5 DEF Hop
  <2>3. ASSUME NEW b \in DOMAIN body', NEW t \in Requests, b[1] = t
        PROVE  b[2] \in Nat /\ b[2] <= req'[t].hop /\ (b[2] = req'[t].hop => Final(t)')
    <3>1. CASE b = h
      BY <1>18, <2>1, <2>2, <2>3, <3>1
    <3>2. CASE b # h
      BY <1>8, <1>17, <2>1, <2>3, <3>2 DEF ReadInv, HopInv
    <3> QED
      BY <3>1, <3>2
  <2> QED
    BY <2>1, <2>3 DEF HopInv
<1> QED
  BY <1>5, <1>6, <1>7, <1>8, <1>9, <1>10, <1>15, <1>19 DEF ReadInv

\* What the outside does to the fetches leaves them at their hops.
LEMMA HopsOutside ==
    ASSUME SettleInv,
           Evict \/ AbortSignal \/ Fetch \/ ConnectFails \/ Connected \/ ReadHeaders \/ Text
           \/ SocketAnswers \/ H2Fetch \/ Cut
    PROVE  \A t \in Requests : HopStays(t)
<1>0. /\ req = [t \in Requests |-> req[t]]
      /\ \A t \in Requests : Shaped(req[t])
  BY DEF SettleInv
<1>1. ASSUME NEW r \in Requests, NEW q, req' = [req EXCEPT ![r] = q], q.hop = req[r].hop,
             req[r].pc = "settled" => q.pc = "settled"
      PROVE  \A t \in Requests : HopStays(t)
  BY <1>0, <1>1 DEF HopStays
<1>2. CASE UNCHANGED req
  BY <1>2 DEF HopStays
<1>3. CASE Evict \/ AbortSignal \/ Text \/ SocketAnswers \/ H2Fetch \/ Cut
  BY <1>2, <1>3 DEF Evict, AbortSignal, Text, SocketAnswers, H2Fetch, Cut
<1>4. CASE Fetch
  <2>1. PICK r \in Requests : req[r].pc = "idle" /\ req' = [req EXCEPT ![r].pc = "fired"]
    BY <1>4 DEF Fetch
  <2> DEFINE q == [req[r] EXCEPT !.pc = "fired"]
  <2>2. req' = [req EXCEPT ![r] = q] /\ q.hop = req[r].hop
    BY <1>0, <2>1 DEF Shaped, ReqFields
  <2> HIDE DEF q
  <2> QED
    BY <1>1, <2>1, <2>2
<1>5. CASE ConnectFails
  <2>1. PICK r \in Requests : \E hop : req' = [req EXCEPT ![r].dialing = @ \ {hop}]
    BY <1>5 DEF ConnectFails
  <2>2. PICK hop : req' = [req EXCEPT ![r].dialing = @ \ {hop}]
    BY <2>1
  <2> DEFINE q == [req[r] EXCEPT !.dialing = @ \ {hop}]
  <2>3. req' = [req EXCEPT ![r] = q] /\ q.hop = req[r].hop /\ q.pc = req[r].pc
    BY <1>0, <2>2 DEF Shaped, ReqFields
  <2> HIDE DEF q
  <2> QED
    BY <1>1, <2>3
<1>6. CASE Connected
  <2>1. PICK h \in Handles, r \in Requests : \E hop, reply : ConnectedBy(h, r, hop, reply)
    BY <1>6, NewConnection
  <2>2. PICK hop, reply : ConnectedBy(h, r, hop, reply)
    BY <2>1
  <2> DEFINE gone == [req[r] EXCEPT !.dialing = @ \ {hop}]
             open == [req[r] EXCEPT !.dialing = @ \ {hop}, !.handle = h, !.acc = <<>>,
                                    !.pc = IF req[r].origin \in Http2 THEN "h2" ELSE "headers"]
  <2>3. \/ req' = [req EXCEPT ![r] = gone]
        \/ req[r].pc = "connecting" /\ req' = [req EXCEPT ![r] = open]
    BY <2>2 DEF ConnectedBy
  <2>4. gone.hop = req[r].hop /\ gone.pc = req[r].pc /\ open.hop = req[r].hop
    BY <1>0 DEF Shaped, ReqFields
  <2> HIDE DEF gone, open
  <2> QED
    BY <1>1, <2>3, <2>4
<1>7. CASE ReadHeaders
  <2> DEFINE more(r, acc)   == [req[r] EXCEPT !.acc = acc]
             head(r, heads) == [req[r] EXCEPT !.pc = "fired", !.acc = <<>>, !.heads = heads]
             gone(r)        == [req[r] EXCEPT !.pc = "fired", !.handle = Nobody]
  <2>1. PICK r \in Requests : req[r].pc = "headers" /\
           (\/ \E acc : req' = [req EXCEPT ![r].acc = acc]
            \/ \E heads : req' = [req EXCEPT ![r] = head(r, heads)]
            \/ req' = [req EXCEPT ![r] = gone(r)])
    BY <1>7, HeadersRead DEF HeadReads
  <2>2. /\ \A acc : more(r, acc).hop = req[r].hop
        /\ \A heads : head(r, heads).hop = req[r].hop
        /\ gone(r).hop = req[r].hop
    BY <1>0 DEF Shaped, ReqFields
  <2>3. \/ \E acc : req' = [req EXCEPT ![r] = more(r, acc)]
        \/ \E heads : req' = [req EXCEPT ![r] = head(r, heads)]
        \/ req' = [req EXCEPT ![r] = gone(r)]
    BY <2>1
  <2> HIDE DEF more, head, gone
  <2> QED
    BY <1>1, <2>1, <2>2, <2>3
<1> QED
  BY <1>3, <1>4, <1>5, <1>6, <1>7

\* What the outside does keeps a body read by one.
LEMMA OutsideKeepsReads ==
    ASSUME LoopInv, SettleInv, ReadInv,
           Evict \/ AbortSignal \/ Fetch \/ ConnectFails \/ Connected \/ ReadHeaders \/ Text
           \/ SocketAnswers \/ H2Fetch \/ Cut
    PROVE  /\ ReadInv' /\ DOMAIN body' = DOMAIN body
           /\ \A b \in DOMAIN body : body'[b].handle = body[b].handle /\ body'[b].state = body[b].state
<1>0. \A t \in Requests : HopStays(t)
  BY HopsOutside
<1>1. ASSUME UNCHANGED body, Enter(<<>>) \/ \E a : ~ ReadCall(a) /\ Enter(<<a>>)
      PROVE  ReadInv'
  <2>1. \E calls : Enter(calls) /\ (calls = <<>> \/ \E a : calls = <<a>> /\ ~ ReadCall(a))
    BY <1>1
  <2>2. PICK calls : Enter(calls) /\ (calls = <<>> \/ \E a : calls = <<a>> /\ ~ ReadCall(a))
    BY <2>1
  <2>3. ThreadInv'
    BY <2>2, ThreadsEnter DEF Enter
  <2>4. HopInv'
    BY <1>0, <1>1, <2>2, HopsEntered DEF ReadInv
  <2> QED
    BY <1>1, <2>3, <2>4 DEF ReadInv, BodyInv
<1>2. CASE Evict \/ Connected \/ Cut
  BY <1>1, <1>2 DEF Evict, Connected, Cut
<1>3. CASE AbortSignal
  <2>1. UNCHANGED body /\ \E s : Enter(<<<<"_fire", s, 1>>>>)
    BY <1>3 DEF AbortSignal
  <2>2. \A s : ~ ReadCall(<<"_fire", s, 1>>)
    BY DEF ReadCall
  <2> QED
    BY <1>1, <2>1, <2>2
<1>4. CASE Fetch
  <2>1. UNCHANGED body /\ \E a : a[1] \in Settling /\ Enter(<<a>>)
    BY <1>4 DEF Fetch, Settling
  <2> QED
    BY <1>1, <2>1 DEF ReadCall, Settling
<1>5. CASE ConnectFails
  <2>1. UNCHANGED body /\ (Enter(<<>>) \/ \E a : a[1] = "_abortNow" /\ Enter(<<a>>))
    BY <1>5 DEF ConnectFails
  <2> QED
    BY <1>1, <2>1 DEF ReadCall
<1>6. CASE ReadHeaders
  <2>1. UNCHANGED body /\ (Enter(<<>>) \/ \E a : a[1] \in Settling /\ Enter(<<a>>))
    <3>1. PICK r \in Requests : UNCHANGED body /\ HeadReads(r)
      BY <1>6, HeadersRead
    <3>2. ASSUME NEW a, NEW b, Enter(<<<<"_buildStreamingResponse", r, a, b>>>>)
          PROVE  \E call : call[1] \in Settling /\ Enter(<<call>>)
      BY <3>2 DEF Settling
    <3>3. Enter(<<<<"done", r, "ECONNRESET">>>>) => \E call : call[1] \in Settling /\ Enter(<<call>>)
      BY DEF Settling
    <3> QED
      BY <3>1, <3>2, <3>3 DEF HeadReads
  <2> QED
    BY <1>1, <2>1 DEF ReadCall, Settling
<1>7. CASE H2Fetch
  <2>1. UNCHANGED body /\ \E a : a[1] = "h2Done" /\ Enter(<<a>>)
    BY <1>7 DEF H2Fetch
  <2> QED
    BY <1>1, <2>1 DEF ReadCall
<1>8. ASSUME NEW b \in DOMAIN body, NEW new, body' = [body EXCEPT ![b] = new], BodyShaped(new),
             new.handle = body[b].handle, new.state = body[b].state,
             NEW a, Enter(<<a>>),
             new.reading => body[b].reading,
             ReadCall(a) => a[2] = b /\ new.state = "open" /\ ~ new.reading
      PROVE  /\ ReadInv' /\ DOMAIN body' = DOMAIN body
             /\ \A d \in DOMAIN body : body'[d].handle = body[d].handle /\ body'[d].state = body[d].state
  <2>1. /\ DOMAIN body' = DOMAIN body /\ body' = [d \in DOMAIN body' |-> body'[d]]
        /\ body'[b] = new /\ \A d \in DOMAIN body : d # b => body'[d] = body[d]
    BY <1>8 DEF ReadInv, BodyInv
  <2>2. BodyInv'
    BY <1>8, <2>1 DEF ReadInv, BodyInv
  <2>3. ThreadInv'
    BY <1>8, <2>1, ThreadsEnter DEF Enter
  <2>4. HopInv'
    BY <1>0, <1>8, <2>1, HopsEntered DEF ReadInv
  <2> QED
    BY <1>8, <2>1, <2>2, <2>3, <2>4 DEF ReadInv
<1>9. CASE Text
  <2>1. PICK r \in Requests : /\ Hop(r) \in DOMAIN body
                              /\ body' = [body EXCEPT ![Hop(r)].text = "reading"]
                              /\ Enter(<<<<"pump", Hop(r)>>>>)
    BY <1>9 DEF Text
  <2>2. PICK b \in DOMAIN body : /\ body' = [body EXCEPT ![b].text = "reading"]
                                 /\ Enter(<<<<"pump", b>>>>)
    BY <2>1
  <2> DEFINE new == [body[b] EXCEPT !.text = "reading"]
             a   == <<"pump", b>>
  <2>3. /\ BodyShaped(new) /\ new.handle = body[b].handle /\ new.state = body[b].state
        /\ new.reading = body[b].reading
    <3>1. BodyShaped(body[b])
      BY DEF ReadInv, BodyInv
    <3> QED
      BY <3>1 DEF BodyShaped, BodyFields
  <2>4. body' = [body EXCEPT ![b] = new] /\ Enter(<<a>>) /\ ~ ReadCall(a)
    BY <2>2 DEF ReadCall
  <2> HIDE DEF new, a
  <2> QED
    BY <1>8, <2>3, <2>4
<1>10. CASE SocketAnswers
  <2>1. PICK b \in DOMAIN body : \E items, over :
           /\ body[b].reading /\ body' = [body EXCEPT ![b].reading = FALSE]
           /\ Enter(<<<<IF body[b].reply.framing = "chunked" THEN "arrived" ELSE "data", b, items, over>>>>)
    BY <1>10 DEF SocketAnswers
  <2>2. PICK items, over :
           /\ body[b].reading /\ body' = [body EXCEPT ![b].reading = FALSE]
           /\ Enter(<<<<IF body[b].reply.framing = "chunked" THEN "arrived" ELSE "data", b, items, over>>>>)
    BY <2>1
  <2> DEFINE new == [body[b] EXCEPT !.reading = FALSE]
             a   == <<IF body[b].reply.framing = "chunked" THEN "arrived" ELSE "data", b, items, over>>
  <2>3. /\ BodyShaped(new) /\ new.handle = body[b].handle /\ new.state = body[b].state
        /\ ~ new.reading
    <3>1. BodyShaped(body[b])
      BY DEF ReadInv, BodyInv
    <3> QED
      BY <3>1 DEF BodyShaped, BodyFields
  <2>4. body' = [body EXCEPT ![b] = new] /\ Enter(<<a>>) /\ a[2] = b
    BY <2>2
  <2>5. body[b].state = "open"
    BY <2>2 DEF ReadInv, BodyInv
  <2> HIDE DEF new, a
  <2> QED
    BY <1>8, <2>3, <2>4, <2>5
<1>11. UNCHANGED body =>
         /\ DOMAIN body' = DOMAIN body
         /\ \A b \in DOMAIN body : body'[b].handle = body[b].handle /\ body'[b].state = body[b].state
  OBVIOUS
<1>12. CASE Evict \/ AbortSignal \/ Fetch \/ ConnectFails \/ Connected \/ ReadHeaders \/ H2Fetch \/ Cut
  <2>1. UNCHANGED body
    BY <1>12 DEF Evict, AbortSignal, Fetch, ConnectFails, Connected, ReadHeaders, H2Fetch, Cut
  <2> QED
    BY <1>2, <1>3, <1>4, <1>5, <1>6, <1>7, <1>11, <1>12, <2>1
<1> QED
  BY <1>9, <1>10, <1>12

\* A reaction reads no body from its socket.
LEMMA DrainKeepsReads ==
    ASSUME LoopInv, ReadInv, Drain, UNCHANGED <<req, body>>
    PROVE  ReadInv'
<1>1. stack = <<>> /\ \E a : stack' = <<a>> /\ a[1] = "pump"
  <2>1. RunJob
    BY DEF Drain, RunTick, LoopInv
  <2>2. 1 \in 1 .. Len(jobs) /\ Head(jobs) = jobs[1]
    BY <2>1 DEF RunJob, LoopInv, Listed
  <2> QED
    BY <2>1, <2>2 DEF RunJob, LoopInv
<1>2. ThreadInv'
  BY <1>1, ThreadsEnter DEF ReadCall
<1>3. \A r \in Requests : Final(r) => Final(r)'
  BY <1>1 DEF Final
<1> QED
  BY <1>2, <1>3 DEF ReadInv, BodyInv, HopInv

\* Every step keeps each body read by one, and each hop with one body.
LEMMA ReadKept ==
    ASSUME LoopInv, SettleInv, KnownInv, ReadInv, [FetchNext]_fetchVars
    PROVE  ReadInv'
<1>1. CASE AsyncStreamBody \/ AskForMore \/ StreamBody \/ Arrived \/ StreamChunked
           \/ StreamChunkedAccum \/ DecompressAndEnqueue
  BY <1>1, Readers, ReadersKeep DEF ReadInv
<1>2. CASE FetchCalled
  BY <1>1, <1>2, OnDoneEnds, PullReads, FetchesKeepReads, BuildReads, DrainKeepsReads DEF FetchCalled
<1>3. CASE FetchNext /\ ~ FetchCalled
  BY <1>3, OutsideKeepsReads DEF FetchNext
<1>4. CASE UNCHANGED fetchVars
  BY <1>4 DEF fetchVars, ReadInv, BodyInv, ThreadInv, HopInv, Final
<1> QED
  BY <1>2, <1>3, <1>4

\* There is no body and no call.
LEMMA ReadStarts ==
    ASSUME FetchInit
    PROVE  ReadInv
<1>1. stack = <<>> /\ body = <<>> /\ DOMAIN body = {}
  BY DEF FetchInit, LoopInit
<1>2. \A r \in Requests : req[r].hop = 0
  BY DEF FetchInit
<1> QED
  BY <1>1, <1>2 DEF ReadInv, BodyInv, ThreadInv, HopInv

-----------------------------------------------------------------------------
(* Who has a socket: a fetch, an open body or the pool.                    *)

ConnFields == {"status", "coming", "eof", "h2", "origin"}
ConnShaped(c) == c = [f \in ConnFields |-> c[f]]

PoolTyped ==
    /\ pool = [f \in {"free", "timers", "active"} |-> pool[f]]
    /\ pool.free \in Seq(Handles) /\ Distinct(pool.free) /\ pool.timers = ToSet(pool.free)
    /\ conn = [h \in Handles |-> conn[h]]
    /\ \A h \in Handles : ConnShaped(conn[h])
    /\ \A r \in Requests : req[r].handle \in Handles \cup {Nobody}
    /\ \A b \in DOMAIN body : body[b].handle \in Handles \cup {Nobody}

Holds(b, h) == b \in DOMAIN body /\ body[b].handle = h /\ body[b].state = "open"

Sole(h) ==
    /\ \A r, t \in Requests : req[r].handle = h /\ req[t].handle = h => r = t
    /\ \A b, d : Holds(b, h) /\ Holds(d, h) => b = d
    /\ \A r \in Requests : req[r].handle = h => (\A b : ~ Holds(b, h)) /\ h \notin pool.timers
    /\ \A b : Holds(b, h) => h \notin pool.timers
    /\ \/ (\E r \in Requests : req[r].handle = h) \/ (\E b : Holds(b, h)) \/ h \in pool.timers
       => conn[h].status = "open"

IdleAt(o) == {h \in pool.timers : conn[h].origin = o}
IdleKept  == \A o : Cardinality(IdleAt(o)) <= MaxFree

PoolInv == PoolTyped /\ (\A h \in Handles : Sole(h)) /\ IdleKept

\* The idle sockets are as many as their places.
LEMMA SameNumber ==
    ASSUME NEW s \in Seq(Handles), Distinct(s), NEW Test
    PROVE  LET places == {i \in 1 .. Len(s) : s[i] \in Test}
               there  == {h \in ToSet(s) : h \in Test}
           IN  /\ IsFiniteSet(places) /\ IsFiniteSet(there) /\ IsFiniteSet(ToSet(s))
               /\ Cardinality(places) = Cardinality(there) /\ Cardinality(there) \in Nat
<1>1. Len(s) \in Nat /\ ToSet(s) = {s[i] : i \in 1 .. Len(s)} /\ s \in [1 .. Len(s) -> ToSet(s)]
  <2>1. DOMAIN s = 1 .. Len(s) /\ Len(s) \in Nat /\ s = [i \in 1 .. Len(s) |-> s[i]]
    OBVIOUS
  <2>2. ToSet(s) = {s[i] : i \in 1 .. Len(s)}
    BY <2>1 DEF ToSet
  <2> QED
    BY <2>1, <2>2
<1>2. IsFiniteSet(1 .. Len(s))
  <2>1. ASSUME NEW n \in Nat PROVE IsFiniteSet(1 .. n)
    BY FS_Interval
  <2> QED
    BY <1>1, <2>1
<1>3. IsFiniteSet(ToSet(s))
  <2>1. s \in Surjection(1 .. Len(s), ToSet(s))
    BY <1>1 DEF Surjection
  <2> QED
    BY <1>2, <2>1, FS_Surjection
<1> DEFINE places == {i \in 1 .. Len(s) : s[i] \in Test}
           there  == {h \in ToSet(s) : h \in Test}
           f      == [i \in places |-> s[i]]
<1>4. IsFiniteSet(places) /\ IsFiniteSet(there) /\ Cardinality(there) \in Nat
  <2>1. places \subseteq 1 .. Len(s) /\ there \subseteq ToSet(s)
    OBVIOUS
  <2> HIDE DEF places, there
  <2> QED
    BY <1>2, <1>3, <2>1, FS_Subset, FS_CardinalityType
<1>5. f \in Bijection(places, there)
  <2>1. f \in [places -> there]
    BY <1>1
  <2>2. \A i, j \in places : f[i] = f[j] => i = j
    BY <1>1 DEF Distinct
  <2>3. \A h \in there : \E i \in places : f[i] = h
    BY <1>1
  <2>4. DOMAIN f = places
    OBVIOUS
  <2> HIDE DEF f, places, there
  <2> QED
    BY <2>1, <2>2, <2>3, <2>4 DEF Bijection, Injection, Surjection, IsInjective
<1>6. Cardinality(there) = Cardinality(places)
  <2> HIDE DEF f, places, there
  <2> QED
    BY <1>4, <1>5, FS_Bijection DEF ExistsBijection
<1> QED
  BY <1>3, <1>4, <1>6

\* Whoever looks for the places of idle sockets finds as many as there are sockets.
LEMMA IdleCount ==
    ASSUME PoolTyped, NEW o
    PROVE  /\ Cardinality(Idling(o)) = Cardinality(IdleAt(o))
           /\ IsFiniteSet(IdleAt(o)) /\ Cardinality(IdleAt(o)) \in Nat /\ IsFiniteSet(pool.timers)
<1> DEFINE Test == {h \in Handles : conn[h].origin = o}
<1>1. pool.free \in Seq(Handles) /\ Distinct(pool.free) /\ pool.timers = ToSet(pool.free)
  BY DEF PoolTyped
<1>2. DOMAIN pool.free = 1 .. Len(pool.free) /\ \A i \in 1 .. Len(pool.free) : pool.free[i] \in Handles
  BY <1>1
<1>3. Idling(o) = {i \in 1 .. Len(pool.free) : pool.free[i] \in Test}
  BY <1>2 DEF Idling
<1>4. ToSet(pool.free) \subseteq Handles
  BY <1>2 DEF ToSet
<1>5. IdleAt(o) = {h \in ToSet(pool.free) : h \in Test}
  BY <1>1, <1>4 DEF IdleAt
<1> HIDE DEF Test
<1> QED
  BY <1>1, <1>3, <1>5, SameNumber

\* A socket nobody has taken since is its owner's still, or nobody's.
LessHeld(h) ==
    /\ \A r \in Requests : req'[r].handle = h => req[r].handle = h
    /\ \A b : Holds(b, h)' => Holds(b, h)
    /\ h \in pool'.timers => h \in pool.timers
    /\ conn'[h].status = conn[h].status \/ conn[h].status # "open"

LEMMA LessHeldSole ==
    ASSUME NEW h \in Handles, Sole(h), LessHeld(h)
    PROVE  Sole(h)'
  BY DEF Sole, LessHeld

Unheld(h) == (\A r \in Requests : req[r].handle # h) /\ (\A b : ~ Holds(b, h)) /\ h \notin pool.timers

LEMMA UnheldSole ==
    ASSUME NEW h \in Handles, Unheld(h)'
    PROVE  Sole(h)'
  BY DEF Sole, Unheld

\* No more are idle than were, of any origin.
LEMMA IdleFewer ==
    ASSUME PoolInv, pool'.timers \subseteq pool.timers,
           \A h \in pool.timers : conn'[h].origin = conn[h].origin
    PROVE  IdleKept'
<1> SUFFICES ASSUME NEW o PROVE Cardinality(IdleAt(o)') <= MaxFree
  BY DEF IdleKept
<1>1. IdleAt(o)' \subseteq IdleAt(o)
  BY DEF IdleAt
<1>2. /\ IsFiniteSet(IdleAt(o)) /\ Cardinality(IdleAt(o)) \in Nat
      /\ Cardinality(IdleAt(o)) <= MaxFree
  BY IdleCount DEF PoolInv, IdleKept
<1>3. IsFiniteSet(IdleAt(o)') /\ Cardinality(IdleAt(o)') <= Cardinality(IdleAt(o))
  BY <1>1, <1>2, FS_Subset
<1>4. Cardinality(IdleAt(o)') \in Nat
  BY <1>3, FS_CardinalityType
<1> QED
  BY <1>2, <1>3, <1>4, FetchAssumption

-----------------------------------------------------------------------------
(* What becomes of the connections.                                        *)

ConnTyped(c) == c = [h \in Handles |-> c[h]] /\ \A h \in Handles : ConnShaped(c[h])

\* One that is closed, if there is one.
LEMMA ClosedConn ==
    ASSUME ConnTyped(conn), NEW h, conn' = Closed(conn, h)
    PROVE  /\ ConnTyped(conn')
           /\ \A g \in Handles : /\ conn'[g].origin = conn[g].origin
                                 /\ g # h => conn'[g] = conn[g]
                                 /\ g = h => conn'[g].status = "closed"
<1>1. CASE h = Nobody
  BY <1>1, FetchAssumption DEF Closed, Nobody
<1>2. CASE h # Nobody
  <2> DEFINE c == [conn[h] EXCEPT !.status = "closed"]
  <2>1. h \in Handles => ConnShaped(c) /\ c.origin = conn[h].origin /\ c.status = "closed"
    BY DEF ConnTyped, ConnShaped, ConnFields
  <2>2. conn' = [conn EXCEPT ![h] = c]
    BY <1>2 DEF Closed
  <2> HIDE DEF c
  <2> QED
    BY <2>1, <2>2 DEF ConnTyped
<1> QED
  BY <1>1, <1>2

\* One that is written to, or read from.
SameConns ==
    /\ ConnTyped(conn')
    /\ \A h \in Handles : conn'[h].origin = conn[h].origin /\ conn'[h].status = conn[h].status

LEMMA CarriedConn ==
    ASSUME ConnTyped(conn), NEW h, NEW coming, NEW eof,
           \/ conn' = [conn EXCEPT ![h] = [conn[h] EXCEPT !.coming = coming, !.eof = eof]]
           \/ conn' = [conn EXCEPT ![h].coming = coming]
    PROVE  SameConns
<1> DEFINE c == [conn[h] EXCEPT !.coming = coming, !.eof = eof]
           d == [conn[h] EXCEPT !.coming = coming]
<1>1. h \in Handles => /\ ConnShaped(c) /\ c.origin = conn[h].origin /\ c.status = conn[h].status
                       /\ ConnShaped(d) /\ d.origin = conn[h].origin /\ d.status = conn[h].status
  BY DEF ConnTyped, ConnShaped, ConnFields
<1>2. conn' = [conn EXCEPT ![h] = c] \/ conn' = [conn EXCEPT ![h] = d]
  OBVIOUS
<1> HIDE DEF c, d
<1> QED
  BY <1>1, <1>2 DEF ConnTyped, SameConns

LEMMA AskedConn ==
    ASSUME ConnTyped(conn), NEW h, NEW b, NEW reply, conn' = Asked(conn, h, b, reply)
    PROVE  SameConns
<1>1. CASE conn[h].eof
  BY <1>1 DEF Asked, SameConns
<1>2. CASE ~ conn[h].eof
  <2>1. \E coming, eof : conn' = [conn EXCEPT ![h] = [conn[h] EXCEPT !.coming = coming, !.eof = eof]]
    BY <1>2 DEF Asked
  <2> QED
    BY <2>1, CarriedConn
<1> QED
  BY <1>1, <1>2

-----------------------------------------------------------------------------
(* Those who take no socket and give none back.                            *)

PoolLists == pool = [f \in {"free", "timers", "active"} |-> pool[f]]
             /\ pool.free \in Seq(Handles) /\ Distinct(pool.free) /\ pool.timers = ToSet(pool.free)
HandlesTyped == /\ \A r \in Requests : req[r].handle \in Handles \cup {Nobody}
                /\ \A b \in DOMAIN body : body[b].handle \in Handles \cup {Nobody}

\* Each socket is held by who held it, or by nobody.
LEMMA HeldOrNot ==
    ASSUME PoolInv, PoolLists', HandlesTyped', ConnTyped(conn'),
           \A h \in Handles : LessHeld(h) \/ Sole(h)',
           pool'.timers \subseteq pool.timers,
           \A h \in pool.timers : conn'[h].origin = conn[h].origin
    PROVE  PoolInv'
<1>1. PoolTyped'
  BY DEF PoolTyped, PoolLists, HandlesTyped, ConnTyped
<1>2. \A h \in Handles : Sole(h)'
  BY LessHeldSole DEF PoolInv
<1> QED
  BY <1>1, <1>2, IdleFewer DEF PoolInv

Aloof ==
    /\ UNCHANGED pool /\ SameConns
    /\ \A r \in Requests : req'[r].handle \in {req[r].handle, Nobody}
    /\ DOMAIN body' = DOMAIN body
    /\ \A b \in DOMAIN body : body'[b].handle = body[b].handle /\ body'[b].state = body[b].state

LEMMA AloofKeeps ==
    ASSUME PoolInv, Aloof
    PROVE  PoolInv'
<1>1. PoolTyped
  BY DEF PoolInv
<1>2. PoolLists'
  BY <1>1 DEF PoolTyped, PoolLists, Aloof
<1>3. HandlesTyped'
  BY <1>1 DEF PoolTyped, HandlesTyped, Aloof
<1>4. \A h \in Handles : LessHeld(h)
  BY FetchAssumption DEF LessHeld, Holds, Aloof, SameConns, Nobody
<1>5. pool.timers \subseteq Handles
  BY <1>1 DEF PoolTyped, ToSet
<1> QED
  BY <1>2, <1>3, <1>4, <1>5, HeldOrNot DEF Aloof, SameConns

\* Nothing that is called while a head is waited for, or a body read.
LEMMA AloofCalled ==
    ASSUME LoopInv, SettleInv, ReadInv, PoolInv,
           \/ Fire \/ FetchFollow \/ Done \/ HandleFetchResponse \/ Pull
           \/ AsyncStreamBody \/ AskForMore \/ StreamBody \/ Arrived \/ StreamChunked
           \/ StreamChunkedAccum \/ DecompressAndEnqueue
    PROVE  Aloof
<1>0. ConnTyped(conn) /\ req = [r \in Requests |-> req[r]] /\ (\A r \in Requests : Shaped(req[r]))
  BY DEF PoolInv, PoolTyped, ConnTyped, SettleInv
<1>1. UNCHANGED conn => SameConns
  BY <1>0 DEF SameConns
<1>2. CASE Fire \/ FetchFollow
  BY <1>1, <1>2 DEF Fire, FetchFollow, Aloof
<1>3. CASE Done \/ HandleFetchResponse
  <2>1. UNCHANGED <<conn, pool, body>>
    BY <1>3 DEF Done, HandleFetchResponse
  <2>2. CASE UNCHANGED req
    BY <1>1, <2>1, <2>2 DEF Aloof
  <2>3. ASSUME NEW r, NEW q, req' = [req EXCEPT ![r] = q], r \in Requests => q.handle = req[r].handle
        PROVE  Aloof
    <3>1. \A t \in Requests : req'[t].handle = req[t].handle
      BY <1>0, <2>3
    <3> QED
      BY <1>1, <2>1, <3>1 DEF Aloof
  <2>4. CASE Done
    <3>1. PICK r : req' = [req EXCEPT ![r] = [req[r] EXCEPT !.pc = "settled",
                                                  !.answers = Append(@, Arg(2))]]
      BY <2>4 DEF Done
    <3> DEFINE q == [req[r] EXCEPT !.pc = "settled", !.answers = Append(@, Arg(2))]
    <3>2. r \in Requests => q.handle = req[r].handle
      BY <1>0 DEF Shaped, ReqFields
    <3>3. req' = [req EXCEPT ![r] = q]
      BY <3>1
    <3> HIDE DEF q
    <3> QED
      BY <2>3, <3>2, <3>3
  <2>5. CASE HandleFetchResponse /\ ~ UNCHANGED req
    <3>1. PICK r, to : req' = [req EXCEPT ![r] = [req[r] EXCEPT !.hop = @ + 1, !.origin = to]]
      BY <2>5 DEF HandleFetchResponse
    <3> DEFINE q == [req[r] EXCEPT !.hop = @ + 1, !.origin = to]
    <3>2. r \in Requests => q.handle = req[r].handle
      BY <1>0 DEF Shaped, ReqFields
    <3>3. req' = [req EXCEPT ![r] = q]
      BY <3>1
    <3> HIDE DEF q
    <3> QED
      BY <2>3, <3>2, <3>3
  <2> QED
    BY <1>3, <2>2, <2>4, <2>5
<1>4. CASE Pull
  <2>1. UNCHANGED <<req, conn, pool>>
    BY <1>4 DEF Pull
  <2> QED
    BY <1>1, <1>4, <2>1, PullReads DEF Aloof
<1>5. CASE \/ AsyncStreamBody \/ AskForMore \/ StreamBody \/ Arrived \/ StreamChunked
           \/ StreamChunkedAccum \/ DecompressAndEnqueue
  <2>1. PICK b, new : ReadsOn(b, new)
    BY <1>5, Readers DEF ReadInv
  <2>2. UNCHANGED <<req, conn, pool>> /\ body' = [body EXCEPT ![b] = new]
        /\ (b \in DOMAIN body => new.handle = body[b].handle /\ new.state = body[b].state)
    BY <2>1 DEF ReadsOn
  <2>3. /\ DOMAIN body' = DOMAIN body
        /\ \A d \in DOMAIN body : body'[d].handle = body[d].handle /\ body'[d].state = body[d].state
    BY <2>2 DEF ReadInv, BodyInv
  <2> QED
    BY <1>1, <2>2, <2>3 DEF Aloof
<1> QED
  BY <1>2, <1>3, <1>4, <1>5

\* Nor the outside, but for a timer and a connection that is made.
LEMMA AloofEntered ==
    ASSUME LoopInv, SettleInv, ReadInv, PoolInv,
           \/ AbortSignal \/ Fetch \/ ConnectFails \/ ReadHeaders \/ Text
           \/ SocketAnswers \/ H2Fetch \/ Cut
    PROVE  Aloof
<1>0. ConnTyped(conn) /\ req = [r \in Requests |-> req[r]] /\ (\A r \in Requests : Shaped(req[r]))
  BY DEF PoolInv, PoolTyped, ConnTyped, SettleInv
<1>1. SameConns
  <2>1. CASE UNCHANGED conn
    BY <1>0, <2>1 DEF SameConns
  <2>2. \/ UNCHANGED conn
        \/ \E h, coming, eof :
              \/ conn' = [conn EXCEPT ![h] = [conn[h] EXCEPT !.coming = coming, !.eof = eof]]
              \/ conn' = [conn EXCEPT ![h].coming = coming]
    <3>1. CASE AbortSignal \/ Fetch \/ ConnectFails \/ Text
      BY <3>1 DEF AbortSignal, Fetch, ConnectFails, Text
    <3>2. CASE ReadHeaders
      BY <3>2, HeadersRead
    <3>3. CASE SocketAnswers
      BY <3>3 DEF SocketAnswers
    <3>4. CASE H2Fetch
      BY <3>4 DEF H2Fetch
    <3>5. CASE Cut
      <4>1. PICK h, k :
               conn' = [conn EXCEPT ![h] = [conn[h] EXCEPT !.coming = SubSeq(@, 1, k), !.eof = TRUE]]
        BY <3>5 DEF Cut
      <4> DEFINE coming == SubSeq(conn[h].coming, 1, k)
      <4>2. conn' = [conn EXCEPT ![h] = [conn[h] EXCEPT !.coming = coming, !.eof = TRUE]]
        BY <4>1
      <4> HIDE DEF coming
      <4> QED
        BY <4>2
    <3> QED
      BY <3>1, <3>2, <3>3, <3>4, <3>5
  <2> QED
    BY <1>0, <2>1, <2>2, CarriedConn
<1>2. UNCHANGED pool
  BY DEF AbortSignal, Fetch, ConnectFails, ReadHeaders, Text, SocketAnswers, H2Fetch, Cut
<1>3. \A r \in Requests : req'[r].handle \in {req[r].handle, Nobody}
  <2>1. ASSUME NEW r \in Requests, NEW q, req' = [req EXCEPT ![r] = q],
               q.handle \in {req[r].handle, Nobody}
        PROVE  \A t \in Requests : req'[t].handle \in {req[t].handle, Nobody}
    BY <1>0, <2>1
  <2>2. CASE AbortSignal \/ Text \/ SocketAnswers \/ H2Fetch \/ Cut
    BY <2>2 DEF AbortSignal, Text, SocketAnswers, H2Fetch, Cut
  <2>3. CASE Fetch
    <3>1. PICK r \in Requests : req' = [req EXCEPT ![r].pc = "fired"]
      BY <2>3 DEF Fetch
    <3>2. \A t \in Requests : req'[t].handle = req[t].handle
      BY <1>0, <3>1 DEF Shaped, ReqFields
    <3> QED
      BY <3>2
  <2>4. CASE ConnectFails
    <3>1. PICK r \in Requests : \E hop : req' = [req EXCEPT ![r].dialing = @ \ {hop}]
      BY <2>4 DEF ConnectFails
    <3>2. \A t \in Requests : req'[t].handle = req[t].handle
      BY <1>0, <3>1 DEF Shaped, ReqFields
    <3> QED
      BY <3>2
  <2>5. CASE ReadHeaders
    <3>1. PICK r \in Requests :
             \/ \E acc : req' = [req EXCEPT ![r].acc = acc]
             \/ \E heads : req' = [req EXCEPT ![r] = [req[r] EXCEPT !.pc = "fired",
                                       !.acc = <<>>, !.heads = heads]]
             \/ req' = [req EXCEPT ![r] = [req[r] EXCEPT !.pc = "fired", !.handle = Nobody]]
      BY <2>5, HeadersRead DEF HeadReads
    <3>2. Shaped(req[r])
      BY <1>0
    <3>3. CASE \E acc : req' = [req EXCEPT ![r].acc = acc]
      <4>1. \A t \in Requests : req'[t].handle = req[t].handle
        BY <1>0, <3>2, <3>3 DEF Shaped, ReqFields
      <4> QED
        BY <4>1
    <3>4. ASSUME NEW heads, req' = [req EXCEPT ![r] = [req[r] EXCEPT !.pc = "fired",
                                       !.acc = <<>>, !.heads = heads]]
          PROVE  \A t \in Requests : req'[t].handle = req[t].handle
      BY <1>0, <3>2, <3>4 DEF Shaped, ReqFields
    <3>5. CASE req' = [req EXCEPT ![r] = [req[r] EXCEPT !.pc = "fired", !.handle = Nobody]]
      BY <1>0, <3>2, <3>5 DEF Shaped, ReqFields
    <3> QED
      BY <3>1, <3>3, <3>4, <3>5
  <2> QED
    BY <2>2, <2>3, <2>4, <2>5
<1> QED
  BY <1>1, <1>2, <1>3, OutsideKeepsReads DEF Aloof

-----------------------------------------------------------------------------
(* Those who take a socket, or let one go.                                 *)

\* A fetch takes the idle socket that was used last, or sets out to connect.
LEMMA FetchOneTakes ==
    ASSUME LoopInv, SettleInv, KnownInv, PoolInv, FetchOne
    PROVE  PoolInv'
<1> DEFINE r == Arg(1)
           o == req[r].origin
<1>0. /\ PoolTyped /\ ConnTyped(conn) /\ pool.timers \subseteq Handles /\ 0 \notin Handles
      /\ req = [t \in Requests |-> req[t]]
  BY FetchAssumption DEF PoolInv, PoolTyped, ConnTyped, SettleInv, ToSet
<1>1. r \in Requests /\ Shaped(req[r]) /\ UNCHANGED body
  <2>1. stack # <<>> /\ stack[1][1] = "_fetchOne" /\ UNCHANGED body
    BY DEF FetchOne, Calling
  <2> QED
    BY <2>1, KnownFirst DEF KnownCall, Settling, SettleInv, Arg
<1>2. PICK t \in Requests : t = r
  BY <1>1
<1>3. CASE TrackActive /\ UNCHANGED conn
           /\ req' = [req EXCEPT ![r] = [req[r] EXCEPT !.pc = "connecting",
                        !.handle = Nobody, !.reused = FALSE, !.dialing = @ \cup {req[r].hop}]]
  <2>1. \A u \in Requests : req'[u].handle \in {req[u].handle, Nobody}
    BY <1>0, <1>1, <1>3 DEF Shaped, ReqFields
  <2>2. \A h \in Handles : LessHeld(h)
    BY <1>0, <1>1, <1>3, <2>1 DEF LessHeld, Holds, TrackActive, PoolTyped, Nobody
  <2>3. PoolLists'
    BY <1>0, <1>3 DEF PoolTyped, PoolLists, TrackActive
  <2>4. HandlesTyped' /\ ConnTyped(conn')
    BY <1>0, <1>1, <1>3, <2>1 DEF HandlesTyped, PoolTyped
  <2>5. pool'.timers = pool.timers
    BY <1>0, <1>3 DEF TrackActive, PoolTyped
  <2> QED
    BY <1>3, <2>2, <2>3, <2>4, <2>5, HeldOrNot
<1>4. ASSUME NEW h \in Kept(o), Acquire(h), NEW reply, conn' = Asked(conn, h, Hop(r), reply),
             req' = [req EXCEPT ![r] = [req[r] EXCEPT !.pc = "headers", !.handle = h,
                                                      !.reused = TRUE, !.acc = <<>>]]
      PROVE  PoolInv'
  <2>1. h \in pool.timers
    BY <1>0 DEF Kept, Idling, PoolTyped, ToSet
  <2>2. /\ pool' = [pool EXCEPT !.free = Without(@, h), !.timers = @ \ {h}, !.active = @ + 1]
        /\ Without(pool.free, h) \in Seq(Handles) /\ Distinct(Without(pool.free, h))
        /\ ToSet(Without(pool.free, h)) = pool.timers \ {h}
    BY <1>0, <1>4, Removed DEF PoolTyped, Acquire
  <2>3. PoolLists' /\ pool'.timers = pool.timers \ {h}
    BY <1>0, <2>2 DEF PoolTyped, PoolLists
  <2>4. SameConns
    BY <1>0, <1>4, AskedConn
  <2>5. req'[t].handle = h /\ \A u \in Requests : u # t => req'[u] = req[u]
    BY <1>0, <1>1, <1>2, <1>4 DEF Shaped, ReqFields
  <2>6. HandlesTyped'
    BY <1>0, <1>1, <2>1, <2>5 DEF HandlesTyped, PoolTyped
  <2>7. Sole(h) /\ h \in Handles
    BY <1>0, <2>1 DEF PoolInv
  <2>8. Sole(h)'
    BY <1>1, <2>1, <2>3, <2>4, <2>5, <2>7 DEF Sole, Holds, SameConns
  <2>9. \A g \in Handles : g # h => LessHeld(g)
    BY <1>1, <2>3, <2>4, <2>5 DEF LessHeld, Holds, SameConns
  <2> QED
    BY <1>0, <2>3, <2>4, <2>6, <2>8, <2>9, HeldOrNot DEF SameConns
<1> QED
  BY <1>3, <1>4 DEF FetchOne

\* An aborted hop closes the socket it has.
LEMMA AbortNowCloses ==
    ASSUME LoopInv, SettleInv, KnownInv, PoolInv, AbortNow
    PROVE  PoolInv'
<1> DEFINE r == Arg(1)
<1>0. /\ PoolTyped /\ ConnTyped(conn) /\ pool.timers \subseteq Handles /\ 0 \notin Handles
      /\ req = [t \in Requests |-> req[t]]
  BY FetchAssumption DEF PoolInv, PoolTyped, ConnTyped, SettleInv, ToSet
<1>1. r \in Requests /\ Shaped(req[r]) /\ UNCHANGED body
  <2>1. stack # <<>> /\ stack[1][1] = "_abortNow" /\ UNCHANGED body
    BY DEF AbortNow, Calling
  <2> QED
    BY <2>1, KnownFirst DEF KnownCall, Settling, SettleInv, Arg
<1>2. PICK t \in Requests : t = r
  BY <1>1
<1>3. CASE UNCHANGED <<req, conn, pool>>
  <2>1. Aloof
    BY <1>0, <1>1, <1>3 DEF Aloof, SameConns
  <2> QED
    BY <2>1, AloofKeeps
<1>4. CASE /\ req' = [req EXCEPT ![r] = [req[r] EXCEPT !.pc = "fired", !.handle = Nobody]]
           /\ conn' = Closed(conn, req[r].handle)
           /\ pool' = IF req[r].reused /\ pool.active > 0
                      THEN [pool EXCEPT !.active = @ - 1] ELSE pool
  <2>1. PICK h \in Handles \cup {Nobody} : h = req[t].handle
    BY <1>0 DEF PoolTyped
  <2>2. PoolLists' /\ pool'.timers = pool.timers
    <3>1. CASE pool' = pool
      BY <1>0, <3>1 DEF PoolTyped, PoolLists
    <3>2. CASE pool' = [pool EXCEPT !.active = @ - 1]
      BY <1>0, <3>2 DEF PoolTyped, PoolLists
    <3> QED
      BY <1>4, <3>1, <3>2
  <2>3. /\ ConnTyped(conn')
        /\ \A g \in Handles : /\ conn'[g].origin = conn[g].origin
                              /\ g # h => conn'[g] = conn[g]
    BY <1>0, <1>2, <1>4, <2>1, ClosedConn
  <2>4. req'[t].handle = Nobody /\ \A u \in Requests : u # t => req'[u] = req[u]
    BY <1>0, <1>1, <1>2, <1>4 DEF Shaped, ReqFields
  <2>5. HandlesTyped'
    BY <1>0, <1>1, <2>4 DEF HandlesTyped, PoolTyped
  <2>6. h \in Handles => Sole(h)'
    <3> SUFFICES ASSUME h \in Handles PROVE Unheld(h)'
      BY UnheldSole
    <3>1. Sole(h)
      BY DEF PoolInv
    <3> QED
      BY <1>0, <1>1, <2>1, <2>2, <2>4, <3>1 DEF Sole, Unheld, Holds, Nobody
  <2>7. \A g \in Handles : g # h => LessHeld(g)
    BY <1>0, <1>1, <2>2, <2>3, <2>4 DEF LessHeld, Holds, Nobody
  <2> QED
    BY <1>0, <2>2, <2>3, <2>5, <2>6, <2>7, HeldOrNot
<1> QED
  BY <1>3, <1>4 DEF AbortNow

\* The body takes the socket over from its fetch.
LEMMA BuildTakesOver ==
    ASSUME LoopInv, SettleInv, KnownInv, ReadInv, PoolInv, BuildStreamingResponse
    PROVE  PoolInv'
<1>0. /\ PoolTyped /\ ConnTyped(conn) /\ pool.timers \subseteq Handles /\ 0 \notin Handles
      /\ req = [t \in Requests |-> req[t]] /\ UNCHANGED <<conn, pool>>
      /\ \A t \in Requests : Shaped(req[t])
  BY FetchAssumption DEF PoolInv, PoolTyped, ConnTyped, SettleInv, ToSet, BuildStreamingResponse
<1>1. PICK r \in Requests :
         /\ req' = [req EXCEPT ![r].handle = Nobody]
         /\ Hop(r) \notin DOMAIN body /\ DOMAIN body' = DOMAIN body \cup {Hop(r)}
         /\ body'[Hop(r)].handle = req[r].handle
         /\ \A b \in DOMAIN body : body'[b] = body[b]
  BY BuildReads
<1>2. PICK d, h : d = Hop(r) /\ h = req[r].handle
  OBVIOUS
<1>3. req'[r].handle = Nobody /\ \A t \in Requests : t # r => req'[t].handle = req[t].handle
  BY <1>0, <1>1 DEF Shaped, ReqFields
<1>4. /\ d \notin DOMAIN body /\ DOMAIN body' = DOMAIN body \cup {d}
      /\ body'[d].handle = h /\ \A b \in DOMAIN body : body'[b] = body[b]
  BY <1>1, <1>2
<1>5. HandlesTyped' /\ PoolLists'
  <2>1. h \in Handles \cup {Nobody}
    BY <1>0, <1>2 DEF PoolTyped
  <2> QED
    BY <1>0, <1>3, <1>4, <2>1 DEF HandlesTyped, PoolTyped, PoolLists
<1>6. ASSUME h \in Handles PROVE Sole(h)'
  <2>1. Sole(h)
    BY <1>6 DEF PoolInv
  <2>2. \A t \in Requests : req'[t].handle # h
    BY <1>0, <1>2, <1>3, <1>6, <2>1 DEF Sole, Nobody
  <2>3. (\A b : ~ Holds(b, h)) /\ h \notin pool.timers /\ conn[h].status = "open"
    BY <1>2, <2>1 DEF Sole
  <2>4. \A b : Holds(b, h)' => b = d
    BY <1>4, <2>3 DEF Holds
  <2> QED
    BY <1>0, <2>2, <2>3, <2>4 DEF Sole
<1>7. \A g \in Handles : g # h => LessHeld(g)
  BY <1>0, <1>3, <1>4 DEF LessHeld, Holds, Nobody
<1> QED
  BY <1>0, <1>5, <1>6, <1>7, HeldOrNot

\* A socket whose timer fires was idle; it is closed.
LEMMA EvictCloses ==
    ASSUME SettleInv, PoolInv, Evict
    PROVE  PoolInv'
<1>0. /\ PoolTyped /\ ConnTyped(conn) /\ pool.timers \subseteq Handles
      /\ UNCHANGED <<req, body>>
  BY DEF PoolInv, PoolTyped, ConnTyped, ToSet, Evict
<1>1. PICK h \in pool.timers :
         /\ pool' = [pool EXCEPT !.free = Without(@, h), !.timers = @ \ {h}]
         /\ conn' = Closed(conn, h)
  BY DEF Evict
<1>2. /\ Without(pool.free, h) \in Seq(Handles) /\ Distinct(Without(pool.free, h))
      /\ ToSet(Without(pool.free, h)) = pool.timers \ {h}
  BY <1>0, Removed DEF PoolTyped
<1>3. PoolLists' /\ pool'.timers = pool.timers \ {h}
  BY <1>0, <1>1, <1>2 DEF PoolTyped, PoolLists
<1>4. /\ ConnTyped(conn')
      /\ \A g \in Handles : /\ conn'[g].origin = conn[g].origin
                            /\ g # h => conn'[g] = conn[g]
  BY <1>0, <1>1, ClosedConn
<1>5. HandlesTyped'
  BY <1>0 DEF HandlesTyped, PoolTyped
<1>6. h \in Handles /\ Sole(h)
  BY <1>0 DEF PoolInv
<1>7. Sole(h)'
  <2>1. Unheld(h)'
    BY <1>0, <1>3, <1>6 DEF Sole, Unheld, Holds
  <2> QED
    BY <1>6, <2>1, UnheldSole
<1>8. \A g \in Handles : g # h => LessHeld(g)
  BY <1>0, <1>3, <1>4 DEF LessHeld, Holds
<1> QED
  BY <1>0, <1>3, <1>4, <1>5, <1>7, <1>8, HeldOrNot

\* A connection that is made for nobody is closed, any other is its hop's.
LEMMA ConnectedTakes ==
    ASSUME SettleInv, PoolInv, Connected
    PROVE  PoolInv'
<1>0. /\ PoolTyped /\ ConnTyped(conn) /\ pool.timers \subseteq Handles /\ 0 \notin Handles
      /\ req = [t \in Requests |-> req[t]] /\ UNCHANGED <<pool, body>>
      /\ \A t \in Requests : Shaped(req[t])
  <2>1. UNCHANGED <<pool, body>>
    BY DEF Connected
  <2> QED
    BY <2>1, FetchAssumption DEF PoolInv, PoolTyped, ConnTyped, SettleInv, ToSet
<1>1. PICK h \in Handles, r \in Requests :
         conn[h].status = "unused" /\ \E hop, reply : ConnectedBy(h, r, hop, reply)
  BY NewConnection
<1>2. PICK hop, reply : ConnectedBy(h, r, hop, reply)
  BY <1>1
<1> DEFINE fired == req[r].pc # "connecting" \/ req[r].hop # hop
           h2    == req[r].origin \in Http2
           opened == [conn[h] EXCEPT !.status = "open", !.h2 = h2, !.origin = req[r].origin]
           open  == [conn EXCEPT ![h] = opened]
<1>3. ConnShaped(opened) /\ opened.status = "open"
  BY <1>0 DEF ConnTyped, ConnShaped, ConnFields
<1>4. open[h] = opened /\ (\A g \in Handles : g # h => open[g] = conn[g])
      /\ open = [g \in Handles |-> open[g]]
  BY <1>0 DEF ConnTyped
<1>5. /\ conn' = IF fired THEN Closed(open, h)
                 ELSE IF h2 THEN [open EXCEPT ![h].coming = Response(<<r, hop>>, reply)]
                 ELSE Asked(open, h, <<r, hop>>, reply)
      /\ fired => req' = [req EXCEPT ![r] = [req[r] EXCEPT !.dialing = @ \ {hop}]]
      /\ ~ fired => req' = [req EXCEPT ![r] = [req[r] EXCEPT !.dialing = @ \ {hop}, !.handle = h,
                                    !.acc = <<>>, !.pc = IF h2 THEN "h2" ELSE "headers"]]
  BY <1>2 DEF ConnectedBy
<1>6. /\ ConnTyped(conn') /\ (conn'[h].status = IF fired THEN "closed" ELSE "open")
      /\ \A g \in Handles : g # h => conn'[g] = conn[g]
  <2> HIDE DEF opened, open
  <2>1. ASSUME NEW c, conn' = [open EXCEPT ![h] = c], ConnShaped(c),
               c.status = IF fired THEN "closed" ELSE "open"
        PROVE  <1>6!:
    BY <1>0, <1>4, <2>1 DEF ConnTyped
  <2>2. CASE fired
    <3> DEFINE c == [opened EXCEPT !.status = "closed"]
    <3>1. ConnShaped(c) /\ c.status = "closed"
      BY <1>3 DEF ConnShaped, ConnFields
    <3>2. conn' = [open EXCEPT ![h] = c]
      BY <1>0, <1>4, <1>5, <2>2 DEF Closed, Nobody
    <3> HIDE DEF c, fired
    <3> QED
      BY <2>1, <2>2, <3>1, <3>2
  <2>3. ASSUME ~ fired, NEW coming, NEW eof,
               \/ conn' = [open EXCEPT ![h] = [opened EXCEPT !.coming = coming, !.eof = eof]]
               \/ conn' = [open EXCEPT ![h] = [opened EXCEPT !.coming = coming]]
        PROVE  <1>6!:
    <3> DEFINE c == [opened EXCEPT !.coming = coming, !.eof = eof]
               d == [opened EXCEPT !.coming = coming]
    <3>1. ConnShaped(c) /\ c.status = "open" /\ ConnShaped(d) /\ d.status = "open"
      BY <1>3 DEF ConnShaped, ConnFields
    <3>2. conn' = [open EXCEPT ![h] = c] \/ conn' = [open EXCEPT ![h] = d]
      BY <2>3
    <3> HIDE DEF c, d, fired
    <3> QED
      BY <2>1, <2>3, <3>1, <3>2
  <2>4. CASE ~ fired /\ h2
    <3> DEFINE coming == Response(<<r, hop>>, reply)
    <3>1. conn' = [open EXCEPT ![h] = [opened EXCEPT !.coming = coming]]
      BY <1>4, <1>5, <2>4
    <3> HIDE DEF coming, fired
    <3> QED
      BY <2>3, <2>4, <3>1
  <2>5. CASE ~ fired /\ ~ h2
    <3>1. conn' = Asked(open, h, <<r, hop>>, reply)
      BY <1>5, <2>5
    <3>2. CASE open[h].eof
      <4>1. conn' = open
        BY <3>1, <3>2 DEF Asked
      <4>2. open = [open EXCEPT ![h] = opened]
        BY <1>4
      <4> QED
        BY <1>3, <2>1, <2>5, <4>1, <4>2
    <3>3. CASE ~ open[h].eof
      <4>1. \E coming, eof : conn' = [open EXCEPT ![h] = [opened EXCEPT !.coming = coming, !.eof = eof]]
        BY <1>4, <3>1, <3>3 DEF Asked
      <4> HIDE DEF fired
      <4> QED
        BY <2>3, <2>5, <4>1
    <3> QED
      BY <3>2, <3>3
  <2> QED
    BY <2>2, <2>4, <2>5
<1> HIDE DEF opened, open
<1>7. /\ \A t \in Requests : t # r => req'[t].handle = req[t].handle
      /\ req'[r].handle = IF fired THEN req[r].handle ELSE h
  <2> DEFINE gone == [req[r] EXCEPT !.dialing = @ \ {hop}]
             goes == [req[r] EXCEPT !.dialing = @ \ {hop}, !.handle = h,
                                    !.acc = <<>>, !.pc = IF h2 THEN "h2" ELSE "headers"]
  <2>1. gone.handle = req[r].handle /\ goes.handle = h
    BY <1>0 DEF Shaped, ReqFields
  <2>2. (fired => req' = [req EXCEPT ![r] = gone]) /\ (~ fired => req' = [req EXCEPT ![r] = goes])
    BY <1>5
  <2> HIDE DEF fired, h2, gone, goes
  <2> QED
    BY <1>0, <2>1, <2>2
<1> HIDE DEF fired, h2
<1>8. PoolLists' /\ HandlesTyped'
  BY <1>0, <1>7 DEF PoolLists, PoolTyped, HandlesTyped
<1>9. Sole(h) /\ (\A t \in Requests : req[t].handle # h) /\ (\A b : ~ Holds(b, h)) /\ h \notin pool.timers
  BY <1>1 DEF PoolInv, Sole
<1>10. Sole(h)'
  <2>1. CASE fired
    <3>1. Unheld(h)'
      BY <1>0, <1>7, <1>9, <2>1 DEF Unheld, Holds
    <3> QED
      BY <3>1, UnheldSole
  <2>2. CASE ~ fired
    BY <1>0, <1>6, <1>7, <1>9, <2>2 DEF Sole, Holds
  <2> QED
    BY <2>1, <2>2
<1>11. \A g \in Handles : g # h => LessHeld(g)
  BY <1>0, <1>6, <1>7 DEF LessHeld, Holds
<1> QED
  BY <1>0, <1>6, <1>8, <1>9, <1>10, <1>11, HeldOrNot

\* Whoever gives a socket back has it no longer: the pool keeps it, if it may,
\* or closes it.
LEMMA Released ==
    ASSUME PoolInv, NEW h \in Handles \cup {Nobody}, NEW close, Release(h, close), HandlesTyped',
           h \in Handles => /\ h \notin pool.timers /\ conn[h].status = "open"
                            /\ \A r \in Requests : req'[r].handle # h
                            /\ \A b : ~ Holds(b, h)',
           \A r \in Requests : req'[r].handle \in {req[r].handle, Nobody},
           \A b, g : Holds(b, g)' => Holds(b, g)
    PROVE  PoolInv'
<1>0. /\ PoolTyped /\ ConnTyped(conn) /\ pool.timers \subseteq Handles /\ 0 \notin Handles
      /\ pool.free \in Seq(Handles) /\ Distinct(pool.free) /\ pool.timers = ToSet(pool.free)
  BY FetchAssumption DEF PoolInv, PoolTyped, ConnTyped, ToSet
<1> DEFINE left == IF pool.active > 0 THEN pool.active - 1 ELSE 0
           keep == ~ close /\ h # Nobody /\ Cardinality(Idling(conn[h].origin)) < MaxFree
<1>1. /\ pool' = IF keep THEN [pool EXCEPT !.active = left, !.free = Append(@, h),
                                           !.timers = @ \cup {h}]
                 ELSE [pool EXCEPT !.active = left]
      /\ conn' = IF keep THEN conn ELSE Closed(conn, h)
  BY DEF Release
<1>2. keep => /\ h \in Handles /\ h \notin pool.timers /\ conn[h].status = "open"
              /\ Cardinality(Idling(conn[h].origin)) < MaxFree
  OBVIOUS
<1> HIDE DEF left, keep
<1>3. CASE ~ keep
  <2>1. PoolLists' /\ pool'.timers = pool.timers
    BY <1>0, <1>1, <1>3 DEF PoolTyped, PoolLists
  <2>2. /\ ConnTyped(conn')
        /\ \A g \in Handles : /\ conn'[g].origin = conn[g].origin
                              /\ g # h => conn'[g] = conn[g]
    BY <1>0, <1>1, <1>3, ClosedConn
  <2>3. h \in Handles => Sole(h)'
    <3>1. h \in Handles => Unheld(h)'
      BY <2>1 DEF Unheld
    <3> QED
      BY <3>1, UnheldSole
  <2>4. \A g \in Handles : g # h => LessHeld(g)
    BY <1>0, <2>1, <2>2 DEF LessHeld, Nobody
  <2> QED
    BY <1>0, <2>1, <2>2, <2>3, <2>4, HeldOrNot
<1>4. CASE keep
  <2>1. h \in Handles /\ h \notin ToSet(pool.free) /\ conn' = conn
    BY <1>0, <1>1, <1>2, <1>4
  <2>2. /\ Append(pool.free, h) \in Seq(Handles) /\ Distinct(Append(pool.free, h))
        /\ ToSet(Append(pool.free, h)) = pool.timers \cup {h}
    BY <1>0, <2>1, Appended
  <2>3. PoolLists' /\ pool'.timers = pool.timers \cup {h}
    BY <1>0, <1>1, <1>4, <2>2 DEF PoolTyped, PoolLists
  <2>4. PoolTyped'
    BY <1>0, <2>1, <2>3 DEF PoolTyped, PoolLists, HandlesTyped, ConnTyped
  <2>5. \A g \in Handles : g # h => LessHeld(g)
    BY <1>0, <2>1, <2>3 DEF LessHeld, Nobody
  <2>6. Sole(h)'
    BY <1>2, <1>4, <2>1 DEF Sole
  <2>7. \A g \in Handles : Sole(g)'
    BY <2>5, <2>6, LessHeldSole DEF PoolInv
  <2>8. IdleKept'
    <3> SUFFICES ASSUME NEW o PROVE Cardinality(IdleAt(o)') <= MaxFree
      BY DEF IdleKept
    <3>1. /\ IsFiniteSet(IdleAt(o)) /\ Cardinality(IdleAt(o)) \in Nat
          /\ Cardinality(Idling(o)) = Cardinality(IdleAt(o)) /\ Cardinality(IdleAt(o)) <= MaxFree
      BY <1>0, IdleCount DEF PoolInv, IdleKept
    <3>2. CASE o = conn[h].origin
      <4>1. IdleAt(o)' = IdleAt(o) \cup {h} /\ h \notin IdleAt(o)
        BY <1>0, <2>1, <2>3, <3>2 DEF IdleAt
      <4>2. Cardinality(IdleAt(o)') = Cardinality(IdleAt(o)) + 1
        BY <3>1, <4>1, FS_AddElement
      <4> QED
        BY <1>2, <1>4, <3>1, <3>2, <4>2, FetchAssumption
    <3>3. CASE o # conn[h].origin
      <4>1. IdleAt(o)' = IdleAt(o)
        BY <2>1, <2>3, <3>3 DEF IdleAt
      <4> QED
        BY <3>1, <4>1
    <3> QED
      BY <3>2, <3>3
  <2> QED
    BY <2>4, <2>7, <2>8 DEF PoolInv
<1> QED
  BY <1>3, <1>4

\* A body that has ended gives its socket back.
LEMMA OnDoneReleases ==
    ASSUME LoopInv, KnownInv, ReadInv, PoolInv, OnDone
    PROVE  PoolInv'
<1>1. PICK d \in DOMAIN body : d = Arg(1) /\ body[d].state = "open"
  BY OnDoneEnds
<1>2. /\ DOMAIN body' = DOMAIN body
      /\ \A b \in DOMAIN body : body'[b].handle = body[b].handle /\ (b # d => body'[b] = body[b])
      /\ body'[d].state = Arg(2)
  BY <1>1, OnDoneEnds
<1>3. Arg(2) # "open"
  <2>1. stack # <<>> /\ stack[1][1] = "onDone"
    BY DEF OnDone, Calling
  <2> QED
    BY <2>1, KnownFirst DEF KnownCall, Arg
<1>4. body'[d].state # "open"
  BY <1>2, <1>3
<1>5. PICK h \in Handles \cup {Nobody} : h = body[d].handle /\ Release(h, body[d].reply.close)
  BY <1>1 DEF OnDone, PoolInv, PoolTyped
<1>6. req' = req
  BY DEF OnDone
<1>7. HandlesTyped' /\ \A r \in Requests : req'[r].handle \in {req[r].handle, Nobody}
  BY <1>2, <1>6 DEF PoolInv, PoolTyped, HandlesTyped
<1>8. \A b, g : Holds(b, g)' => Holds(b, g)
  BY <1>2, <1>4 DEF Holds
<1>9. ASSUME h \in Handles
      PROVE  /\ h \notin pool.timers /\ conn[h].status = "open"
             /\ \A r \in Requests : req'[r].handle # h
             /\ \A b : ~ Holds(b, h)'
  <2>1. Sole(h) /\ Holds(d, h)
    BY <1>1, <1>5, <1>9 DEF PoolInv, Holds
  <2>2. h \notin pool.timers /\ conn[h].status = "open" /\ \A r \in Requests : req[r].handle # h
    BY <2>1 DEF Sole
  <2>3. \A b : Holds(b, h) => b = d
    BY <2>1 DEF Sole
  <2>4. ~ Holds(d, h)'
    BY <1>4 DEF Holds
  <2> QED
    BY <1>6, <1>8, <2>2, <2>3, <2>4
<1> QED
  BY <1>5, <1>7, <1>8, <1>9, Released

\* So does an HTTP/2 fetch.
LEMMA H2DoneReleases ==
    ASSUME LoopInv, SettleInv, KnownInv, PoolInv, H2Done
    PROVE  PoolInv'
<1>0. /\ req = [t \in Requests |-> req[t]] /\ 0 \notin Handles
      /\ \A t \in Requests : Shaped(req[t])
  BY FetchAssumption DEF SettleInv
<1>1. PICK r \in Requests : r = Arg(1)
  <2>1. stack # <<>> /\ stack[1][1] = "h2Done"
    BY DEF H2Done, Calling
  <2> QED
    BY <2>1, KnownFirst DEF KnownCall, Settling, Arg
<1>2. /\ Release(req[r].handle, FALSE) /\ UNCHANGED body
      /\ req' = [req EXCEPT ![r] = [req[r] EXCEPT !.pc = "fired", !.handle = Nobody]]
  BY <1>1 DEF H2Done
<1>3. req'[r].handle = Nobody /\ \A t \in Requests : t # r => req'[t].handle = req[t].handle
  BY <1>0, <1>2 DEF Shaped, ReqFields
<1>4. PICK h \in Handles \cup {Nobody} : h = req[r].handle /\ Release(h, FALSE)
  BY <1>2 DEF PoolInv, PoolTyped
<1>5. HandlesTyped'
  BY <1>2, <1>3 DEF PoolInv, PoolTyped, HandlesTyped
<1>6. \A b, g : Holds(b, g)' => Holds(b, g)
  BY <1>2 DEF Holds
<1>7. ASSUME h \in Handles
      PROVE  /\ h \notin pool.timers /\ conn[h].status = "open"
             /\ \A t \in Requests : req'[t].handle # h
             /\ \A b : ~ Holds(b, h)'
  <2>1. Sole(h)
    BY <1>7 DEF PoolInv
  <2>2. (\A t \in Requests : req[t].handle = h => t = r) /\ (\A b : ~ Holds(b, h))
        /\ h \notin pool.timers /\ conn[h].status = "open"
    BY <1>4, <2>1 DEF Sole
  <2> QED
    BY <1>0, <1>3, <1>6, <1>7, <2>2 DEF Nobody
<1> QED
  BY <1>3, <1>4, <1>5, <1>6, <1>7, Released

\* No socket is open at first.
LEMMA PoolStarts ==
    ASSUME FetchInit
    PROVE  PoolInv
<1>1. /\ pool = [free |-> <<>>, timers |-> {}, active |-> 0] /\ body = <<>>
      /\ conn = [h \in Handles |-> [status |-> "unused", coming |-> <<>>, eof |-> FALSE,
                                    h2 |-> FALSE, origin |-> "none"]]
      /\ \A r \in Requests : req[r].handle = Nobody
  BY DEF FetchInit
<1>2. PoolTyped
  <2>1. /\ pool = [f \in {"free", "timers", "active"} |-> pool[f]]
        /\ pool.free \in Seq(Handles) /\ Distinct(pool.free) /\ pool.timers = ToSet(pool.free)
    BY <1>1 DEF Distinct, ToSet
  <2>2. \A h \in Handles : ConnShaped(conn[h])
    BY <1>1 DEF ConnShaped, ConnFields
  <2>3. DOMAIN body = {}
    BY <1>1
  <2> QED
    BY <1>1, <2>1, <2>2, <2>3 DEF PoolTyped
<1>3. \A h \in Handles : Sole(h)
  <2>1. \A h \in Handles : Unheld(h)
    BY <1>1, FetchAssumption DEF Unheld, Holds, Nobody
  <2> QED
    BY <2>1 DEF Unheld, Sole
<1>4. IdleKept
  <2> SUFFICES ASSUME NEW o PROVE Cardinality(IdleAt(o)) <= MaxFree
    BY DEF IdleKept
  <2>1. IdleAt(o) = {}
    BY <1>1 DEF IdleAt
  <2> QED
    BY <2>1, FS_EmptySet, FetchAssumption
<1> QED
  BY <1>2, <1>3, <1>4 DEF PoolInv

\* Every step keeps the pool.
LEMMA PoolStepKept ==
    ASSUME LoopInv, SettleInv, KnownInv, ReadInv, PoolInv, [FetchNext]_fetchVars
    PROVE  PoolInv'
<1>1. CASE \/ Fire \/ FetchFollow \/ Done \/ HandleFetchResponse \/ Pull
           \/ AsyncStreamBody \/ AskForMore \/ StreamBody \/ Arrived \/ StreamChunked
           \/ StreamChunkedAccum \/ DecompressAndEnqueue
  BY <1>1, AloofCalled, AloofKeeps
<1>2. CASE \/ AbortSignal \/ Fetch \/ ConnectFails \/ ReadHeaders \/ Text
           \/ SocketAnswers \/ H2Fetch \/ Cut
  BY <1>2, AloofEntered, AloofKeeps
<1>3. CASE FetchOne \/ AbortNow \/ BuildStreamingResponse
  BY <1>3, FetchOneTakes, AbortNowCloses, BuildTakesOver
<1>4. CASE OnDone \/ H2Done
  BY <1>4, OnDoneReleases, H2DoneReleases
<1>5. CASE Evict \/ Connected
  BY <1>5, EvictCloses, ConnectedTakes
<1>6. CASE UNCHANGED <<req, conn, pool, body>>
  <2>1. Aloof
    BY <1>6 DEF Aloof, SameConns, PoolInv, PoolTyped, ConnTyped
  <2> QED
    BY <2>1, AloofKeeps
<1>7. CASE FetchCalled
  BY <1>1, <1>3, <1>4, <1>6, <1>7 DEF FetchCalled
<1>8. CASE FetchNext /\ ~ FetchCalled
  BY <1>2, <1>5, <1>8 DEF FetchNext
<1>9. CASE UNCHANGED fetchVars
  BY <1>6, <1>9 DEF fetchVars
<1> QED
  BY <1>7, <1>8, <1>9

\* One of many is counted as one.
LEMMA AtMostOne ==
    ASSUME NEW S, \A a, b \in S : a = b
    PROVE  Cardinality(S) \in {0, 1} /\ (Cardinality(S) = 0 <=> S = {})
<1>1. CASE S = {}
  BY <1>1, FS_EmptySet
<1>2. CASE S # {}
  <2>1. PICK a : S = {a}
    BY <1>2
  <2> QED
    <3>1. Cardinality({a}) = 1
      BY FS_Singleton
    <3> QED
      BY <1>2, <2>1, <3>1
<1> QED
  BY <1>1, <1>2

\* What the invariant says of owners, counted.
LEMMA OwnersCounted ==
    ASSUME PoolInv
    PROVE  PoolKept
<1>1. /\ pool.free \in Seq(Handles) /\ Distinct(pool.free) /\ pool.timers = ToSet(pool.free)
      /\ DOMAIN pool.free = 1 .. Len(pool.free)
  BY DEF PoolInv, PoolTyped
<1>2. ASSUME NEW h \in Handles
      PROVE  InUse(h) <= 1 /\ (InUse(h) = 1 => conn[h].status = "open")
  <2> DEFINE R == {r \in Requests : req[r].handle = h}
             B == {b \in DOMAIN body : body[b].handle = h /\ body[b].state = "open"}
             P == {i \in DOMAIN pool.free : pool.free[i] = h}
  <2>1. Sole(h)
    BY DEF PoolInv
  <2>2. \A r, t \in R : r = t
    BY <2>1 DEF Sole
  <2>3. \A b, d \in B : b = d
    BY <2>1 DEF Sole, Holds
  <2>4. \A i, j \in P : i = j
    BY <1>1 DEF Distinct
  <2>5. P # {} => h \in pool.timers
    BY <1>1 DEF ToSet
  <2>6. /\ R # {} => B = {} /\ h \notin pool.timers
        /\ B # {} => h \notin pool.timers
        /\ R # {} \/ B # {} \/ h \in pool.timers => conn[h].status = "open"
    BY <2>1 DEF Sole, Holds
  <2>7. InUse(h) = Cardinality(R) + Cardinality(B) + Cardinality(P)
    BY DEF InUse
  <2> HIDE DEF R, B, P
  <2>8. /\ Cardinality(R) \in {0, 1} /\ (Cardinality(R) = 0 <=> R = {})
        /\ Cardinality(B) \in {0, 1} /\ (Cardinality(B) = 0 <=> B = {})
        /\ Cardinality(P) \in {0, 1} /\ (Cardinality(P) = 0 <=> P = {})
    BY <2>2, <2>3, <2>4, AtMostOne
  <2> QED
    BY <2>5, <2>6, <2>7, <2>8
<1>3. IdleBounded
  <2> SUFFICES ASSUME NEW h \in Handles PROVE Cardinality(Idling(conn[h].origin)) <= MaxFree
    BY DEF IdleBounded
  <2>1. Cardinality(Idling(conn[h].origin)) = Cardinality(IdleAt(conn[h].origin))
    BY IdleCount DEF PoolInv
  <2> QED
    BY <2>1 DEF PoolInv, IdleKept
<1> QED
  BY <1>2, <1>3 DEF PoolKept, OneOwner

\* A socket is held by one fetch, by one open body or by the pool, who find it
\* open, and of no origin are more kept idle than maxSocketsPerOrigin: for any
\* number of fetches, origins, signals and sockets, and any of the faults.
THEOREM PoolIsKept == FetchSpec => []PoolKept
<1>1. FetchInit => LoopInv /\ SettleInv /\ KnownInv /\ ReadInv /\ PoolInv
  BY SettleStarts, KnownStarts, ReadStarts, PoolStarts
<1>2. LoopInv /\ SettleInv /\ KnownInv /\ ReadInv /\ PoolInv /\ [FetchNext]_fetchVars
      => LoopInv' /\ SettleInv' /\ KnownInv' /\ ReadInv' /\ PoolInv'
  BY SettleKept, KnownKept, ReadKept, PoolStepKept
<1> QED
  BY <1>1, <1>2, OwnersCounted, PTL DEF FetchSpec

-----------------------------------------------------------------------------
(* Why an abort reaches its fetch.                                         *)

\* The listeners of a signal are the fetches that wait, each once.
Waits(r) == req[r].pc \in {"connecting", "headers"}
ListenInv ==
    \A s \in Signals : /\ Distinct(signal[s].listeners)
                       /\ ToSet(signal[s].listeners) = {r \in Requests : SignalOf[r] = s /\ Waits(r)}

\* Who waits, and what a signal is told, change together.
SameWaits == \A r \in Requests : Waits(r)' <=> Waits(r)
SameEars  == \A s \in Signals : signal'[s].listeners = signal[s].listeners
SameNews  == \A s \in Signals : signal'[s].aborted = signal[s].aborted

Starts(r) == /\ ~ Waits(r) /\ Waits(r)' /\ Listen(r) /\ stack # <<>> /\ stack[1][1] = "_fetchOne"
             /\ stack[1][2] = r /\ \A t \in Requests : t # r => (Waits(t)' <=> Waits(t))
Stops(r)  == /\ Waits(r) /\ ~ Waits(r)' /\ Unlisten(r)
             /\ \A t \in Requests : t # r => (Waits(t)' <=> Waits(t))
Moves == \/ SameWaits /\ SameEars
         \/ \E r \in Requests : Starts(r) \/ Stops(r)

\* Listening and unlistening tell nobody that a signal was aborted.
LEMMA Eared ==
    ASSUME SignalInv, NEW r \in Requests, Listen(r) \/ Unlisten(r)
    PROVE  /\ SameNews
           /\ \A s \in Signals : s # SignalOf[r] => signal'[s].listeners = signal[s].listeners
           /\ Listen(r) => signal'[SignalOf[r]].listeners = Append(signal[SignalOf[r]].listeners, r)
           /\ Unlisten(r) => signal'[SignalOf[r]].listeners = Without(signal[SignalOf[r]].listeners, r)
<1> DEFINE s == SignalOf[r]
<1>1. s \in Signals
  BY DEF Signals
<1>2. PICK l : /\ signal' = [signal EXCEPT ![s].listeners = l]
               /\ Listen(r) => l = Append(signal[s].listeners, r)
               /\ Unlisten(r) => l = Without(signal[s].listeners, r)
  <2>1. CASE Listen(r) /\ Unlisten(r)
    <3>1. \E l : /\ signal' = [signal EXCEPT ![s].listeners = l]
                 /\ l = Append(signal[s].listeners, r)
      BY <2>1 DEF Listen
    <3>2. \E l : /\ signal' = [signal EXCEPT ![s].listeners = l]
                 /\ l = Without(signal[s].listeners, r)
      BY <2>1 DEF Unlisten
    <3> HIDE DEF s
    <3> QED
      BY <1>1, <3>1, <3>2 DEF SignalInv
  <2>2. CASE Listen(r) /\ ~ Unlisten(r)
    BY <2>2 DEF Listen
  <2>3. CASE Unlisten(r) /\ ~ Listen(r)
    BY <2>3 DEF Unlisten
  <2> QED
    BY <2>1, <2>2, <2>3
<1> HIDE DEF s
<1>3. \A t \in Signals : /\ signal'[t].aborted = signal[t].aborted
                         /\ t # s => signal'[t].listeners = signal[t].listeners
                         /\ t = s => signal'[t].listeners = l
  BY <1>1, <1>2 DEF SignalInv
<1> QED
  BY <1>1, <1>2, <1>3 DEF SameNews, s

\* What moves keeps the listeners.
LEMMA ListenersKept ==
    ASSUME SignalInv, ListenInv, Moves
    PROVE  ListenInv'
<1>1. CASE SameWaits /\ SameEars
  BY <1>1 DEF ListenInv, SameWaits, SameEars
<1>2. ASSUME NEW r \in Requests, Starts(r) \/ Stops(r)
      PROVE  ListenInv'
  <2> SUFFICES ASSUME NEW s \in Signals
               PROVE  /\ Distinct(signal'[s].listeners)
                      /\ ToSet(signal'[s].listeners) = {t \in Requests : SignalOf[t] = s /\ Waits(t)'}
    BY DEF ListenInv
  <2>1. /\ Distinct(signal[s].listeners) /\ signal[s].listeners \in Seq(Requests)
        /\ ToSet(signal[s].listeners) = {t \in Requests : SignalOf[t] = s /\ Waits(t)}
    BY DEF ListenInv, SignalInv
  <2>2. CASE s # SignalOf[r]
    <3>1. signal'[s].listeners = signal[s].listeners
      BY <1>2, <2>2, Eared DEF Starts, Stops
    <3>2. {t \in Requests : SignalOf[t] = s /\ Waits(t)'} = {t \in Requests : SignalOf[t] = s /\ Waits(t)}
      BY <1>2, <2>2 DEF Starts, Stops
    <3> QED
      BY <2>1, <3>1, <3>2
  <2>3. CASE s = SignalOf[r] /\ Starts(r)
    <3>1. signal'[s].listeners = Append(signal[s].listeners, r)
      BY <2>3, Eared DEF Starts
    <3>2. r \notin ToSet(signal[s].listeners)
      BY <2>1, <2>3 DEF Starts
    <3>3. /\ Distinct(Append(signal[s].listeners, r))
          /\ ToSet(Append(signal[s].listeners, r)) = ToSet(signal[s].listeners) \cup {r}
      BY <2>1, <3>2, Appended
    <3>4. {t \in Requests : SignalOf[t] = s /\ Waits(t)'} = {t \in Requests : SignalOf[t] = s /\ Waits(t)} \cup {r}
      BY <2>3 DEF Starts
    <3> QED
      BY <2>1, <3>1, <3>3, <3>4
  <2>4. CASE s = SignalOf[r] /\ Stops(r)
    <3>1. signal'[s].listeners = Without(signal[s].listeners, r)
      BY <2>4, Eared DEF Stops
    <3>2. /\ Distinct(Without(signal[s].listeners, r))
          /\ ToSet(Without(signal[s].listeners, r)) = ToSet(signal[s].listeners) \ {r}
      BY <2>1, Removed
    <3>3. {t \in Requests : SignalOf[t] = s /\ Waits(t)'} = {t \in Requests : SignalOf[t] = s /\ Waits(t)} \ {r}
      BY <2>4 DEF Stops
    <3> QED
      BY <2>1, <3>1, <3>2, <3>3
  <2> QED
    BY <1>2, <2>2, <2>3, <2>4
<1> QED
  BY <1>1, <1>2 DEF Moves

\* Who waits changes with the listeners, in every step.
LEMMA CalledMoves ==
    ASSUME LoopInv, SettleInv, KnownInv, FetchCalled
    PROVE  Moves
<1> DEFINE r == Arg(1)
<1>0. /\ req = [t \in Requests |-> req[t]] /\ \A t \in Requests : Shaped(req[t])
  BY DEF SettleInv
<1>1. CASE UNCHANGED <<req, signal>>
  BY <1>1 DEF Moves, SameWaits, SameEars, Waits
<1>2. ASSUME NEW f \in Settling \cup {"_abortNow"}, Calling(f)
      PROVE  /\ r \in Requests /\ stack # <<>>
             /\ f \in Settling => req[r].pc = (IF f = "h2Done" THEN "h2" ELSE "fired")
  <2>1. stack # <<>> /\ stack[1][1] = f
    BY <1>2 DEF Calling
  <2>2. r \in Requests
    BY <2>1, KnownFirst DEF KnownCall, Arg
  <2>3. f \in Settling => Due(stack[1], req[r])
    <3> SUFFICES ASSUME f \in Settling PROVE Due(stack[1], req[r])
      OBVIOUS
    <3>1. PICK t \in Requests : t = r
      BY <2>2
    <3>2. Leads(stack[1], t)
      BY <2>1, <3>1 DEF Leads, Arg
    <3> QED
      BY <2>1, <3>1, <3>2, TurnFirst
  <2> QED
    BY <2>1, <2>2, <2>3 DEF Due
<1>3. ASSUME NEW q, r \in Requests, req' = [req EXCEPT ![r] = q]
      PROVE  req'[r].pc = q.pc /\ \A t \in Requests : t # r => req'[t].pc = req[t].pc
  BY <1>0, <1>3
<1>4. ASSUME NEW q, r \in Requests, req' = [req EXCEPT ![r] = q], UNCHANGED signal,
             ~ Waits(r), q.pc \notin {"connecting", "headers"}
      PROVE  Moves
  BY <1>3, <1>4 DEF Moves, SameWaits, SameEars, Waits
<1>5. CASE Done
  <2> DEFINE q == [req[r] EXCEPT !.pc = "settled", !.answers = Append(@, Arg(2))]
  <2>1. Calling("done") /\ req' = [req EXCEPT ![r] = q] /\ UNCHANGED signal
    BY <1>5 DEF Done
  <2>2. r \in Requests /\ ~ Waits(r)
    BY <1>2, <2>1 DEF Settling, Waits
  <2>3. q.pc = "settled"
    BY <1>0, <2>2 DEF Shaped, ReqFields
  <2> HIDE DEF q
  <2> QED
    BY <1>4, <2>1, <2>2, <2>3
<1>6. CASE BuildStreamingResponse
  <2> DEFINE q == [req[r] EXCEPT !.handle = Nobody]
  <2>1. Calling("_buildStreamingResponse") /\ req' = [req EXCEPT ![r] = q] /\ UNCHANGED signal
    BY <1>6 DEF BuildStreamingResponse
  <2>2. r \in Requests /\ req[r].pc = "fired" /\ ~ Waits(r)
    BY <1>2, <2>1 DEF Settling, Waits
  <2>3. q.pc = "fired"
    BY <1>0, <2>2 DEF Shaped, ReqFields
  <2> HIDE DEF q
  <2> QED
    BY <1>4, <2>1, <2>2, <2>3
<1>7. CASE HandleFetchResponse
  <2> DEFINE q == [req[r] EXCEPT !.hop = @ + 1, !.origin = Arg(2).to]
  <2>1. /\ Calling("_handleFetchResponse") /\ UNCHANGED signal
        /\ UNCHANGED req \/ req' = [req EXCEPT ![r] = q]
    BY <1>7 DEF HandleFetchResponse
  <2>2. r \in Requests /\ req[r].pc = "fired" /\ ~ Waits(r)
    BY <1>2, <2>1 DEF Settling, Waits
  <2>3. q.pc = "fired"
    BY <1>0, <2>2 DEF Shaped, ReqFields
  <2> HIDE DEF q
  <2> QED
    BY <1>1, <1>4, <2>1, <2>2, <2>3
<1>8. CASE H2Done
  <2> DEFINE q == [req[r] EXCEPT !.pc = "fired", !.handle = Nobody]
  <2>1. Calling("h2Done") /\ req' = [req EXCEPT ![r] = q] /\ UNCHANGED signal
    BY <1>8 DEF H2Done
  <2>2. r \in Requests /\ ~ Waits(r)
    BY <1>2, <2>1 DEF Settling, Waits
  <2>3. q.pc = "fired"
    BY <1>0, <2>2 DEF Shaped, ReqFields
  <2> HIDE DEF q
  <2> QED
    BY <1>4, <2>1, <2>2, <2>3
<1>9. CASE FetchOne
  <2> DEFINE kept(h) == [req[r] EXCEPT !.pc = "headers", !.handle = h, !.reused = TRUE, !.acc = <<>>]
             fresh   == [req[r] EXCEPT !.pc = "connecting", !.handle = Nobody, !.reused = FALSE,
                                       !.dialing = @ \cup {req[r].hop}]
  <2>1. Calling("_fetchOne") /\ Listen(r)
    BY <1>9 DEF FetchOne
  <2>2. r \in Requests /\ req[r].pc = "fired" /\ stack # <<>>
    BY <1>2, <2>1 DEF Settling
  <2>3. (\E h : req' = [req EXCEPT ![r] = kept(h)]) \/ req' = [req EXCEPT ![r] = fresh]
    BY <1>9 DEF FetchOne
  <2>4. (\A h : kept(h).pc = "headers") /\ fresh.pc = "connecting"
    BY <1>0, <2>2 DEF Shaped, ReqFields
  <2> HIDE DEF kept, fresh
  <2>5. /\ req'[r].pc \in {"headers", "connecting"}
        /\ \A t \in Requests : t # r => req'[t].pc = req[t].pc
    BY <1>3, <2>2, <2>3, <2>4
  <2>6. PICK t \in Requests : t = r
    BY <2>2
  <2>7. Starts(t)
    BY <2>1, <2>2, <2>5, <2>6 DEF Starts, Waits, Calling, Arg
  <2> QED
    BY <2>7 DEF Moves
<1>10. CASE AbortNow /\ ~ UNCHANGED <<req, signal>>
  <2> DEFINE q == [req[r] EXCEPT !.pc = "fired", !.handle = Nobody]
  <2>1. /\ Calling("_abortNow") /\ Unlisten(r) /\ req' = [req EXCEPT ![r] = q]
        /\ req[r].pc \in {"connecting", "headers"}
    BY <1>10 DEF AbortNow
  <2>2. r \in Requests
    BY <1>2, <2>1
  <2>3. q.pc = "fired"
    BY <1>0, <2>2 DEF Shaped, ReqFields
  <2> HIDE DEF q
  <2>4. req'[r].pc = "fired" /\ \A t \in Requests : t # r => req'[t].pc = req[t].pc
    BY <1>3, <2>1, <2>2, <2>3
  <2>5. PICK t \in Requests : t = r
    BY <2>2
  <2>6. Stops(t)
    BY <2>1, <2>4, <2>5 DEF Stops, Waits
  <2> QED
    BY <2>6 DEF Moves
<1>11. CASE \/ Fire \/ FetchFollow \/ Pull \/ AsyncStreamBody \/ AskForMore \/ StreamBody \/ Arrived
            \/ StreamChunked \/ StreamChunkedAccum \/ DecompressAndEnqueue \/ OnDone
  BY <1>1, <1>11 DEF Fire, FetchFollow, Pull, AsyncStreamBody, AskForMore, StreamBody, Arrived,
                     StreamChunked, StreamChunkedAccum, DecompressAndEnqueue, OnDone
<1> QED
  BY <1>1, <1>5, <1>6, <1>7, <1>8, <1>9, <1>10, <1>11 DEF FetchCalled

\* An abort is told to the listeners of its signal.
Tells(s) == /\ s \in Signals /\ stack' = <<<<"_fire", s, 1>>>>
            /\ \A t \in Signals : t # s => signal'[t].aborted = signal[t].aborted

\* What the outside does stops waits, begins none, and calls no hop.
LEMMA EnteredMoves ==
    ASSUME LoopInv, SettleInv, KnownInv,
           Evict \/ AbortSignal \/ Fetch \/ ConnectFails \/ Connected \/ ReadHeaders \/ Text
           \/ SocketAnswers \/ H2Fetch \/ Cut
    PROVE  /\ stack = <<>> /\ Moves
           /\ stack' = <<>> \/ \E a : a[1] # "_fetchOne" /\ stack' = <<a>>
           /\ SameNews \/ \E s : Tells(s)
<1> DEFINE Quiet == \/ Enter(<<>>) 
                    \/ \E a : a[1] # "_fetchOne" /\ Enter(<<a>>)
<1>0. /\ req = [t \in Requests |-> req[t]] /\ (\A t \in Requests : Shaped(req[t]))
      /\ SignalInv /\ \A s \in Signals : s # "faults"
  BY FetchAssumption DEF SettleInv, KnownInv, Signals
<1>1. ASSUME UNCHANGED signal \/ signal' = [signal EXCEPT !.faults = @ + 1]
      PROVE  SameEars /\ SameNews
  BY <1>0, <1>1 DEF SameEars, SameNews, SignalInv
<1>2. ASSUME SameWaits, SameEars, SameNews, Quiet
      PROVE  /\ stack = <<>> /\ Moves
             /\ stack' = <<>> \/ \E a : a[1] # "_fetchOne" /\ stack' = <<a>>
             /\ SameNews \/ \E s : Tells(s)
  BY <1>2 DEF Moves, Enter, Idle
<1>3. ASSUME NEW r \in Requests, Stops(r), Quiet
      PROVE  /\ stack = <<>> /\ Moves
             /\ stack' = <<>> \/ \E a : a[1] # "_fetchOne" /\ stack' = <<a>>
             /\ SameNews \/ \E s : Tells(s)
  <2>1. SameNews
    BY <1>0, <1>3, Eared DEF Stops
  <2> QED
    BY <1>3, <2>1 DEF Moves, Enter, Idle
<1>4. ASSUME NEW r \in Requests, NEW q, Shaped(q), req' = [req EXCEPT ![r] = q]
      PROVE  req'[r].pc = q.pc /\ \A t \in Requests : t # r => req'[t].pc = req[t].pc
  BY <1>0, <1>4
<1>5. CASE Evict \/ Text \/ SocketAnswers \/ H2Fetch
  <2>1. UNCHANGED <<req, signal>>
    BY <1>5 DEF Evict, Text, SocketAnswers, H2Fetch
  <2>2. Quiet
    <3>1. Evict => Quiet
      BY DEF Evict
    <3>2. Text => Quiet
      BY DEF Text
    <3>3. SocketAnswers => Quiet
      BY DEF SocketAnswers
    <3>4. H2Fetch => Quiet
      BY DEF H2Fetch
    <3> QED
      BY <1>5, <3>1, <3>2, <3>3, <3>4
  <2>3. SameWaits
    BY <2>1 DEF SameWaits, Waits
  <2> HIDE DEF Quiet
  <2> QED
    BY <1>1, <1>2, <2>1, <2>2, <2>3
<1>6. CASE AbortSignal
  <2>1. PICK s \in Signals : /\ signal' = [signal EXCEPT ![s].aborted = TRUE]
                             /\ Enter(<<<<"_fire", s, 1>>>>) /\ UNCHANGED req
    BY <1>6 DEF AbortSignal
  <2>2. SameEars /\ \A t \in Signals : t # s => signal'[t].aborted = signal[t].aborted
    BY <1>0, <2>1 DEF SameEars, SignalInv
  <2>3. SameWaits
    BY <2>1 DEF SameWaits, Waits
  <2>4. Tells(s)
    BY <2>1, <2>2 DEF Tells, Enter
  <2> DEFINE a == <<"_fire", s, 1>>
  <2>5. a[1] # "_fetchOne" /\ Enter(<<a>>)
    BY <2>1
  <2> HIDE DEF a
  <2> QED
    BY <2>2, <2>3, <2>4, <2>5 DEF Moves, Enter, Idle
<1>7. CASE Fetch
  <2>1. PICK r \in Requests :
           /\ req[r].pc = "idle" /\ UNCHANGED signal /\ req' = [req EXCEPT ![r].pc = "fired"]
           /\ Enter(<<IF Aborted(r) THEN <<"done", r, "AbortError">> ELSE <<"_fetchFollow", r>>>>)
    BY <1>7, Zenon DEF Fetch
  <2>2. SameWaits
    <3> DEFINE q == [req[r] EXCEPT !.pc = "fired"]
    <3>1. Shaped(q) /\ q.pc = "fired"
      BY <1>0 DEF Shaped, ReqFields
    <3>2. req' = [req EXCEPT ![r] = q]
      BY <2>1
    <3> HIDE DEF q
    <3> QED
      BY <1>4, <2>1, <3>1, <3>2 DEF SameWaits, Waits
  <2> DEFINE a == IF Aborted(r) THEN <<"done", r, "AbortError">> ELSE <<"_fetchFollow", r>>
  <2>3. a[1] # "_fetchOne" /\ Enter(<<a>>)
    BY <2>1
  <2>4. Quiet
    <3> HIDE DEF a
    <3> QED
      BY <2>3
  <2> HIDE DEF Quiet
  <2> QED
    BY <1>1, <1>2, <2>1, <2>2, <2>4
<1>8. CASE ConnectFails
  <2>0. PICK r \in Requests : \E hop :
           /\ signal' = [signal EXCEPT !.faults = @ + 1]
           /\ req' = [req EXCEPT ![r].dialing = @ \ {hop}]
           /\ Enter(IF req[r].pc # "connecting" \/ req[r].hop # hop THEN <<>>
                    ELSE <<<<"_abortNow", r, "ECONNREFUSED">>>>)
    BY <1>8, Zenon DEF ConnectFails
  <2>1. PICK hop :
           /\ signal' = [signal EXCEPT !.faults = @ + 1]
           /\ req' = [req EXCEPT ![r].dialing = @ \ {hop}]
           /\ Enter(IF req[r].pc # "connecting" \/ req[r].hop # hop THEN <<>>
                    ELSE <<<<"_abortNow", r, "ECONNREFUSED">>>>)
    BY <2>0
  <2>2. SameWaits
    <3> DEFINE q == [req[r] EXCEPT !.dialing = @ \ {hop}]
    <3>1. Shaped(q) /\ q.pc = req[r].pc
      BY <1>0 DEF Shaped, ReqFields
    <3>2. req' = [req EXCEPT ![r] = q]
      BY <2>1
    <3> HIDE DEF q
    <3> QED
      BY <1>4, <2>1, <3>1, <3>2 DEF SameWaits, Waits
  <2>3. Quiet
    BY <2>1
  <2> HIDE DEF Quiet
  <2> QED
    BY <1>1, <1>2, <2>1, <2>2, <2>3
<1>9. CASE Cut
  <2>1. signal' = [signal EXCEPT !.faults = @ + 1] /\ Enter(<<>>) /\ UNCHANGED req
    BY <1>9 DEF Cut
  <2>2. SameWaits
    BY <2>1 DEF SameWaits, Waits
  <2> QED
    BY <1>1, <1>2, <2>1, <2>2
<1>10. CASE Connected
  <2>1. PICK h \in Handles, r \in Requests : \E hop, reply : ConnectedBy(h, r, hop, reply)
    BY <1>10, NewConnection
  <2>2. PICK hop, reply : ConnectedBy(h, r, hop, reply)
    BY <2>1
  <2> DEFINE fired == req[r].pc # "connecting" \/ req[r].hop # hop
             h2    == req[r].origin \in Http2
             q == IF fired THEN [req[r] EXCEPT !.dialing = @ \ {hop}]
                  ELSE [req[r] EXCEPT !.dialing = @ \ {hop}, !.handle = h,
                           !.acc = <<>>, !.pc = IF h2 THEN "h2" ELSE "headers"]
  <2>3. /\ req' = [req EXCEPT ![r] = q] /\ Enter(<<>>)
        /\ IF h2 /\ ~ fired THEN Unlisten(r) ELSE UNCHANGED signal
    BY <2>2 DEF ConnectedBy
  <2>4. /\ Shaped(q)
        /\ q.pc = IF fired THEN req[r].pc ELSE IF h2 THEN "h2" ELSE "headers"
    BY <1>0 DEF Shaped, ReqFields
  <2> HIDE DEF q
  <2>5. req'[r].pc = q.pc /\ \A t \in Requests : t # r => req'[t].pc = req[t].pc
    BY <1>4, <2>3, <2>4
  <2>6. CASE h2 /\ ~ fired
    <3>1. Stops(r)
      BY <2>3, <2>4, <2>5, <2>6 DEF Stops, Waits
    <3> QED
      BY <1>3, <2>3, <3>1
  <2>7. CASE ~ (h2 /\ ~ fired)
    <3>1. SameWaits /\ UNCHANGED signal
      BY <2>3, <2>4, <2>5, <2>7 DEF SameWaits, Waits
    <3> QED
      BY <1>1, <1>2, <2>3, <3>1
  <2> QED
    BY <2>6, <2>7
<1>11. CASE ReadHeaders
  <2>1. PICK r \in Requests : req[r].pc = "headers" /\ HeadReads(r)
    BY <1>11, HeadersRead
  <2>2. CASE \E acc : req' = [req EXCEPT ![r].acc = acc] /\ Enter(<<>>) /\ UNCHANGED signal
    <3>1. PICK acc : req' = [req EXCEPT ![r].acc = acc] /\ Enter(<<>>) /\ UNCHANGED signal
      BY <2>2
    <3> DEFINE q == [req[r] EXCEPT !.acc = acc]
    <3>2. Shaped(q) /\ q.pc = req[r].pc
      BY <1>0 DEF Shaped, ReqFields
    <3>3. req' = [req EXCEPT ![r] = q]
      BY <3>1
    <3> HIDE DEF q
    <3>4. SameWaits
      BY <1>4, <3>2, <3>3 DEF SameWaits, Waits
    <3> QED
      BY <1>1, <1>2, <3>1, <3>4
  <2>3. ASSUME NEW q, Shaped(q), q.pc = "fired", req' = [req EXCEPT ![r] = q], Unlisten(r)
        PROVE  Stops(r)
    <3>1. req'[r].pc = q.pc /\ \A t \in Requests : t # r => req'[t].pc = req[t].pc
      BY <1>4, <2>3
    <3> QED
      BY <2>1, <2>3, <3>1 DEF Stops, Waits
  <2>4. CASE \E heads, a, b :
          /\ Unlisten(r)
          /\ req' = [req EXCEPT ![r] = [req[r] EXCEPT !.pc = "fired", !.acc = <<>>, !.heads = heads]]
          /\ Enter(<<<<"_buildStreamingResponse", r, a, b>>>>)
    <3>1. PICK heads, a, b :
          /\ Unlisten(r)
          /\ req' = [req EXCEPT ![r] = [req[r] EXCEPT !.pc = "fired", !.acc = <<>>, !.heads = heads]]
          /\ Enter(<<<<"_buildStreamingResponse", r, a, b>>>>)
      BY <2>4
    <3> DEFINE q == [req[r] EXCEPT !.pc = "fired", !.acc = <<>>, !.heads = heads]
    <3>2. Shaped(q) /\ q.pc = "fired"
      BY <1>0 DEF Shaped, ReqFields
    <3>3. req' = [req EXCEPT ![r] = q]
      BY <3>1
    <3> HIDE DEF q
    <3>4. Stops(r)
      BY <2>3, <3>1, <3>2, <3>3
    <3> QED
      BY <1>3, <3>1, <3>4
  <2>5. CASE /\ req' = [req EXCEPT ![r] = [req[r] EXCEPT !.pc = "fired", !.handle = Nobody]]
             /\ Enter(<<<<"done", r, "ECONNRESET">>>>) /\ Unlisten(r)
    <3> DEFINE q == [req[r] EXCEPT !.pc = "fired", !.handle = Nobody]
    <3>2. Shaped(q) /\ q.pc = "fired"
      BY <1>0 DEF Shaped, ReqFields
    <3>3. req' = [req EXCEPT ![r] = q]
      BY <2>5
    <3> HIDE DEF q
    <3>4. Stops(r)
      BY <2>3, <2>5, <3>2, <3>3
    <3> QED
      BY <1>3, <2>5, <3>4
  <2> QED
    BY <2>1, <2>2, <2>4, <2>5 DEF HeadReads
<1> QED
  BY <1>5, <1>6, <1>7, <1>8, <1>9, <1>10, <1>11

\* What is being called that will make r stop waiting.
Reaches(call, r) == \/ call[1] = "_fire" /\ call[2] = SignalOf[r] /\ call[3] = 1
                    \/ call[1] = "_abortNow" /\ call[2] = r

\* r has its signal for itself.
Alone(r) == \A t \in Requests : SignalOf[t] = SignalOf[r] => t = r

\* No hop begins after its signal was aborted, and what waits for one that was
\* is about to be told.
AbortInv ==
    /\ \A i \in 1 .. Len(stack) : stack[i][1] = "_fetchOne" => ~ Aborted(stack[i][2])
    /\ \A r \in Requests : Alone(r) /\ Waits(r) /\ Aborted(r) =>
          \E i \in 1 .. Len(stack) : Reaches(stack[i], r)

\* Who stays aborted and who not.
LEMMA NewsKept ==
    ASSUME SameNews, NEW r \in Requests
    PROVE  Aborted(r)' <=> Aborted(r)
<1>1. SignalOf[r] \in Signals
  BY DEF Signals
<1> QED
  BY <1>1 DEF SameNews, Aborted

\* A call that has made others, and told those it was to tell.
LEMMA AbortsGoOn ==
    ASSUME LoopInv, AbortInv, KnownInv', SameNews, stack # <<>>,
           NEW calls, Listed(calls), Then(calls),
           \A i \in 1 .. Len(calls) : calls[i][1] = "_fetchOne" => ~ Aborted(calls[i][2]),
           \A r \in Requests : Alone(r) /\ Waits(r)' /\ Aborted(r) =>
              \/ Waits(r) /\ ~ Reaches(stack[1], r)
              \/ \E i \in 1 .. Len(calls) : Reaches(calls[i], r)
    PROVE  AbortInv'
<1>1. /\ Len(calls) \in Nat /\ Len(stack) \in Nat \ {0}
      /\ Len(stack') = Len(calls) + Len(stack) - 1
      /\ \A i \in 1 .. Len(stack') :
            stack'[i] = IF i <= Len(calls) THEN calls[i] ELSE stack[i - Len(calls) + 1]
  BY ThenDoes DEF LoopInv
<1>2. ASSUME NEW i \in 1 .. Len(stack'), stack'[i][1] = "_fetchOne"
      PROVE  ~ signal'[SignalOf[stack'[i][2]]].aborted
  <2>1. stack'[i][2] \in Requests
    BY <1>2 DEF KnownInv, KnownCall, Settling
  <2>2. ~ Aborted(stack'[i][2])
    <3>1. CASE i <= Len(calls)
      BY <1>1, <1>2, <3>1
    <3>2. CASE ~ i <= Len(calls)
      <4>1. i - Len(calls) + 1 \in 1 .. Len(stack)
        BY <1>1, <3>2
      <4> QED
        BY <1>1, <1>2, <3>2, <4>1 DEF AbortInv
    <3> QED
      BY <3>1, <3>2
  <2>3. PICK r \in Requests : r = stack'[i][2]
    BY <2>1
  <2>4. ~ Aborted(r)'
    BY <2>2, <2>3, NewsKept
  <2> QED
    BY <2>3, <2>4 DEF Aborted
<1>3. ASSUME NEW r \in Requests, Alone(r), Waits(r)', Aborted(r)'
      PROVE  \E i \in 1 .. Len(stack') : Reaches(stack'[i], r)
  <2>1. Aborted(r)
    BY <1>3, NewsKept
  <2>2. CASE \E i \in 1 .. Len(calls) : Reaches(calls[i], r)
    <3>1. PICK i \in 1 .. Len(calls) : Reaches(calls[i], r)
      BY <2>2
    <3>2. i \in 1 .. Len(stack') /\ stack'[i] = calls[i]
      BY <1>1
    <3> QED
      BY <3>1, <3>2
  <2>3. CASE Waits(r) /\ ~ Reaches(stack[1], r)
    <3>1. PICK i \in 1 .. Len(stack) : Reaches(stack[i], r)
      BY <1>3, <2>1, <2>3 DEF AbortInv
    <3>2. i # 1
      BY <2>3, <3>1
    <3> DEFINE k == i + Len(calls) - 1
    <3>3. k \in 1 .. Len(stack') /\ ~ k <= Len(calls) /\ k - Len(calls) + 1 = i
      BY <1>1, <3>2
    <3> HIDE DEF k
    <3>4. stack'[k] = stack[i]
      BY <1>1, <3>3
    <3> QED
      BY <3>1, <3>3, <3>4
  <2> QED
    BY <1>3, <2>1, <2>2, <2>3
<1> QED
  BY <1>2, <1>3 DEF AbortInv, Aborted

\* Who waits and was aborted waited already.
LEMMA NoneStarts ==
    ASSUME LoopInv, AbortInv, Moves, NEW r \in Requests, Waits(r)', Aborted(r)
    PROVE  Waits(r)
<1>1. CASE SameWaits
  BY <1>1 DEF SameWaits
<1>2. CASE \E t \in Requests : Starts(t) \/ Stops(t)
  <2>1. PICK t \in Requests : Starts(t) \/ Stops(t)
    BY <1>2
  <2>2. CASE t # r
    BY <2>1, <2>2 DEF Starts, Stops
  <2>3. CASE t = r /\ Starts(r)
    <3>1. stack # <<>> /\ stack[1][1] = "_fetchOne" /\ stack[1][2] = r
      BY <2>3 DEF Starts
    <3>2. 1 \in 1 .. Len(stack)
      BY <3>1 DEF LoopInv, Listed
    <3> QED
      BY <3>1, <3>2 DEF AbortInv
  <2>4. CASE t = r /\ Stops(r)
    BY <2>4 DEF Stops
  <2> QED
    BY <2>1, <2>2, <2>3, <2>4
<1> QED
  BY <1>1, <1>2 DEF Moves

\* The functions tell nobody that a signal was aborted.
LEMMA CalledNews ==
    ASSUME LoopInv, KnownInv, FetchCalled
    PROVE  SameNews
<1>1. stack # <<>> => KnownCall(stack[1])
  BY KnownFirst
<1>2. CASE FetchOne \/ AbortNow
  <2>0. \E f \in Settling \cup {"_abortNow"} : Calling(f)
    BY <1>2 DEF FetchOne, AbortNow, Settling
  <2>1. Arg(1) \in Requests
    BY <1>1, <2>0 DEF Calling, KnownCall, Arg
  <2>2. UNCHANGED signal \/ Listen(Arg(1)) \/ Unlisten(Arg(1))
    BY <1>2 DEF FetchOne, AbortNow
  <2>3. CASE Listen(Arg(1)) \/ Unlisten(Arg(1))
    <3>1. PICK r \in Requests : r = Arg(1)
      BY <2>1
    <3>2. Listen(r) \/ Unlisten(r)
      BY <2>3, <3>1 DEF Listen, Unlisten
    <3> QED
      BY <3>2, Eared DEF KnownInv
  <2> QED
    BY <2>2, <2>3 DEF SameNews
<1>3. CASE FetchCalled /\ ~ FetchOne /\ ~ AbortNow
  <2>1. UNCHANGED signal
    BY <1>3 DEF FetchCalled, Fire, FetchFollow, Done, BuildStreamingResponse, HandleFetchResponse,
                Pull, AsyncStreamBody, AskForMore, StreamBody, Arrived, StreamChunked,
                StreamChunkedAccum, DecompressAndEnqueue, OnDone, H2Done
  <2> QED
    BY <2>1 DEF SameNews
<1> QED
  BY <1>2, <1>3

\* Calls that begin no hop.
Hopless == \/ Then(<<>>)
           \/ \E a : a[1] # "_fetchOne" /\ Then(<<a>>)
           \/ \E a, b : a[1] # "_fetchOne" /\ b[1] # "_fetchOne" /\ Then(<<a, b>>)

\* A function that begins no hop, and tells no fetch of its signal.
LEMMA HoplessKeeps ==
    ASSUME LoopInv, AbortInv, KnownInv', SameNews, stack # <<>>, Hopless,
           \A r \in Requests : Waits(r)' /\ Aborted(r) => Waits(r) /\ ~ Reaches(stack[1], r)
    PROVE  AbortInv'
<1>1. \E calls : Listed(calls) /\ Then(calls) /\ \A i \in 1 .. Len(calls) : calls[i][1] # "_fetchOne"
  <2>1. CASE Then(<<>>)
    <3>1. \A i \in 1 .. Len(<<>>) : FALSE
      OBVIOUS
    <3> QED
      BY <2>1, <3>1, Lists
  <2>2. CASE \E a : a[1] # "_fetchOne" /\ Then(<<a>>)
    <3>1. PICK a : a[1] # "_fetchOne" /\ Then(<<a>>)
      BY <2>2
    <3> DEFINE calls == <<a>>
    <3>2. Len(calls) = 1 /\ calls[1] = a /\ Listed(calls) /\ Then(calls)
      BY <3>1, Lists
    <3> HIDE DEF calls
    <3>3. \A i \in 1 .. Len(calls) : calls[i][1] # "_fetchOne"
      BY <3>1, <3>2
    <3> QED
      BY <3>2, <3>3
  <2>3. CASE \E a, b : a[1] # "_fetchOne" /\ b[1] # "_fetchOne" /\ Then(<<a, b>>)
    <3>1. PICK a, b : a[1] # "_fetchOne" /\ b[1] # "_fetchOne" /\ Then(<<a, b>>)
      BY <2>3
    <3> DEFINE calls == <<a, b>>
    <3>2. Len(calls) = 2 /\ calls[1] = a /\ calls[2] = b /\ Listed(calls) /\ Then(calls)
      BY <3>1, Lists
    <3> HIDE DEF calls
    <3>3. \A i \in 1 .. Len(calls) : calls[i][1] # "_fetchOne"
      BY <3>1, <3>2
    <3> QED
      BY <3>2, <3>3
  <2> QED
    BY <2>1, <2>2, <2>3 DEF Hopless
<1>2. PICK calls : Listed(calls) /\ Then(calls) /\ \A i \in 1 .. Len(calls) : calls[i][1] # "_fetchOne"
  BY <1>1
<1> QED
  BY <1>2, AbortsGoOn

\* A signal's first listener is the one there is, and it is told.
LEMMA FireReaches ==
    ASSUME LoopInv, AbortInv, KnownInv, KnownInv', ListenInv, Moves, SameNews, Fire
    PROVE  AbortInv'
<1> DEFINE s         == Arg(1)
           listeners == signal[s].listeners
           i         == Arg(2)
           a         == <<"_abortNow", listeners[i], "AbortError">>
           b         == <<"_fire", s, i + 1>>
<1>1. stack # <<>> /\ stack[1][1] = "_fire" /\ KnownCall(stack[1])
  BY KnownFirst DEF Fire, Calling
<1>2. /\ s \in Signals /\ i \in Nat \ {0} /\ listeners \in Seq(Requests)
      /\ ToSet(listeners) = {r \in Requests : SignalOf[r] = s /\ Waits(r)}
  BY <1>1 DEF KnownCall, Arg, ListenInv, KnownInv, SignalInv
<1>3. IF i > Len(listeners) THEN Then(<<>>) ELSE Then(<<a, b>>)
  BY DEF Fire
<1>4. \A r \in Requests : Reaches(stack[1], r) => s = SignalOf[r] /\ i = 1
  BY <1>1 DEF Reaches, Arg
<1>5. \A r \in Requests : Waits(r)' /\ Aborted(r) => Waits(r)
  BY NoneStarts
<1> HIDE DEF s, i, listeners
<1>6. ASSUME NEW r \in Requests, Alone(r), Waits(r), Reaches(stack[1], r)
      PROVE  ~ i > Len(listeners) /\ Reaches(a, r)
  <2>1. ToSet(listeners) = {r} /\ i = 1
    BY <1>2, <1>4, <1>6 DEF Alone
  <2>2. PICK j \in 1 .. Len(listeners) : listeners[j] = r
    BY <2>1 DEF ToSet
  <2>3. ~ i > Len(listeners) /\ listeners[i] \in ToSet(listeners)
    BY <1>2, <2>1, <2>2 DEF ToSet
  <2> QED
    BY <2>1, <2>3 DEF Reaches
<1>7. CASE i > Len(listeners)
  <2>1. Then(<<>>) /\ Listed(<<>>) /\ Len(<<>>) = 0
    BY <1>3, <1>7, Lists
  <2>2. \A r \in Requests : Alone(r) /\ Waits(r)' /\ Aborted(r) => Waits(r) /\ ~ Reaches(stack[1], r)
    BY <1>5, <1>6, <1>7
  <2> QED
    BY <1>1, <2>1, <2>2, AbortsGoOn
<1>8. CASE ~ i > Len(listeners)
  <2> DEFINE calls == <<a, b>>
  <2>1. /\ Then(calls) /\ Listed(calls) /\ Len(calls) = 2 /\ calls[1] = a /\ calls[2] = b
        /\ a[1] # "_fetchOne" /\ b[1] # "_fetchOne"
    BY <1>3, <1>8, Lists
  <2> HIDE DEF calls, a, b
  <2>2. /\ \A j \in 1 .. Len(calls) : calls[j][1] # "_fetchOne"
        /\ 1 \in 1 .. Len(calls)
    BY <2>1
  <2>3. \A r \in Requests : Alone(r) /\ Waits(r)' /\ Aborted(r) =>
           \/ Waits(r) /\ ~ Reaches(stack[1], r)
           \/ \E j \in 1 .. Len(calls) : Reaches(calls[j], r)
    BY <1>5, <1>6, <2>1, <2>2
  <2> QED
    BY <1>1, <2>1, <2>2, <2>3, AbortsGoOn
<1> QED
  BY <1>7, <1>8

\* A hop is begun only when its signal is not aborted.
LEMMA FollowLooks ==
    ASSUME LoopInv, AbortInv, KnownInv, KnownInv', Moves, SameNews, FetchFollow
    PROVE  AbortInv'
<1> DEFINE r == Arg(1)
           a == IF req[r].hop > MaxRedirects THEN <<"done", r, "Too many redirects">>
                ELSE IF Aborted(r) THEN <<"done", r, "AbortError">>
                ELSE <<"_fetchOne", r>>
<1>1. stack # <<>> /\ stack[1][1] = "_fetchFollow" /\ Then(<<a>>)
  BY DEF FetchFollow, Calling
<1>2. a[1] = "_fetchOne" => ~ Aborted(a[2])
  BY DEF Aborted
<1> HIDE DEF a
<1> DEFINE calls == <<a>>
<1>3. Then(calls) /\ Listed(calls) /\ Len(calls) = 1 /\ calls[1] = a
  BY <1>1, Lists
<1> HIDE DEF calls
<1>4. \A i \in 1 .. Len(calls) : calls[i][1] = "_fetchOne" => ~ Aborted(calls[i][2])
  BY <1>2, <1>3
<1>5. \A t \in Requests : Waits(t)' /\ Aborted(t) => Waits(t) /\ ~ Reaches(stack[1], t)
  BY <1>1, NoneStarts DEF Reaches
<1> QED
  BY <1>1, <1>3, <1>4, <1>5, AbortsGoOn

\* What was told to stop does.
LEMMA AbortNowStops ==
    ASSUME LoopInv, SettleInv, AbortInv, KnownInv, KnownInv', Moves, SameNews, AbortNow
    PROVE  AbortInv'
<1>1. stack # <<>> /\ stack[1][1] = "_abortNow" /\ Arg(1) = stack[1][2]
  BY DEF AbortNow, Calling, Arg
<1>2. PICK r \in Requests : r = Arg(1)
  BY <1>1, KnownFirst DEF KnownCall
<1>3. ~ Waits(r)'
  <2>1. CASE req[r].pc \notin {"connecting", "headers"}
    BY <1>2, <2>1 DEF AbortNow, Waits
  <2>2. CASE req[r].pc \in {"connecting", "headers"}
    <3> DEFINE q == [req[r] EXCEPT !.pc = "fired", !.handle = Nobody]
    <3>1. req' = [req EXCEPT ![r] = q]
      BY <1>2, <2>2 DEF AbortNow
    <3>2. q.pc = "fired" /\ req = [t \in Requests |-> req[t]]
      BY <1>2 DEF SettleInv, Shaped, ReqFields
    <3> HIDE DEF q
    <3> QED
      BY <1>2, <3>1, <3>2 DEF Waits
  <2> QED
    BY <2>1, <2>2
<1>4. Hopless
  <2>1. Then(<<>>) \/ \E a : a[1] # "_fetchOne" /\ Then(<<a>>)
    BY DEF AbortNow
  <2> QED
    BY <2>1 DEF Hopless
<1>5. \A t \in Requests : Waits(t)' /\ Aborted(t) => Waits(t) /\ ~ Reaches(stack[1], t)
  BY <1>1, <1>2, <1>3, NoneStarts DEF Reaches
<1> QED
  BY <1>1, <1>4, <1>5, HoplessKeeps

\* All other functions tell nobody to stop, and begin no hop.
LEMMA OthersKeepAborts ==
    ASSUME LoopInv, AbortInv, KnownInv, KnownInv', Moves, SameNews,
           \/ FetchOne \/ Done \/ BuildStreamingResponse \/ HandleFetchResponse \/ Pull
           \/ AsyncStreamBody \/ AskForMore \/ StreamBody \/ Arrived \/ StreamChunked
           \/ StreamChunkedAccum \/ DecompressAndEnqueue \/ OnDone \/ H2Done
    PROVE  AbortInv'
<1> DEFINE Untold == stack # <<>> /\ stack[1][1] \notin {"_fire", "_abortNow"} /\ Hopless
<1>1. CASE FetchOne \/ Done \/ Pull \/ OnDone
  <2>1. Untold
    BY <1>1 DEF FetchOne, Done, Pull, OnDone, Calling, Hopless
  <2> QED
    BY <2>1, HoplessKeeps, NoneStarts DEF Reaches
<1>2. ASSUME stack # <<>>, stack[1][1] \notin {"_fire", "_abortNow"},
             \E a : a[1] # "_fetchOne" /\ Then(<<a>>)
      PROVE  AbortInv'
  BY <1>2, HoplessKeeps, NoneStarts DEF Reaches, Hopless
<1>3. CASE BuildStreamingResponse
  <2>1. \E a, b : a[1] # "_fetchOne" /\ b[1] # "_fetchOne" /\ Then(<<a, b>>)
    BY <1>3 DEF BuildStreamingResponse
  <2>2. stack # <<>> /\ stack[1][1] \notin {"_fire", "_abortNow"}
    BY <1>3 DEF BuildStreamingResponse, Calling
  <2> QED
    BY <2>1, <2>2, HoplessKeeps, NoneStarts DEF Reaches, Hopless
<1>4. CASE HandleFetchResponse
  BY <1>2, <1>4 DEF HandleFetchResponse, Calling
<1>5. CASE H2Done
  BY <1>2, <1>5 DEF H2Done, Calling
<1>6. CASE AsyncStreamBody
  <2> DEFINE b    == Arg(1)
             next == IF body[b].reply.framing = "chunked" THEN <<"chunks", b, FALSE>> ELSE <<"more", b>>
  <2>1. next[1] # "_fetchOne"
    OBVIOUS
  <2>2. Then(<<next>>) /\ stack # <<>> /\ stack[1][1] \notin {"_fire", "_abortNow"}
    BY <1>6 DEF AsyncStreamBody, Calling
  <2> HIDE DEF next
  <2> QED
    BY <1>2, <2>1, <2>2
<1>7. CASE AskForMore
  <2>1. stack # <<>> /\ stack[1][1] \notin {"_fire", "_abortNow"}
    BY <1>7 DEF AskForMore, Calling
  <2>2. Then(<<>>) \/ \E a : a[1] # "_fetchOne" /\ Then(<<a>>)
    BY <1>7 DEF AskForMore
  <2> QED
    BY <2>1, <2>2, HoplessKeeps, NoneStarts DEF Reaches, Hopless
<1>8. CASE StreamBody
  BY <1>2, <1>8 DEF StreamBody, Calling
<1>9. CASE Arrived
  BY <1>2, <1>9 DEF Arrived, Calling
<1>10. CASE StreamChunked
  BY <1>2, <1>10 DEF StreamChunked, Calling
<1>11. CASE StreamChunkedAccum
  BY <1>2, <1>11 DEF StreamChunkedAccum, Calling
<1>12. CASE DecompressAndEnqueue
  BY <1>2, <1>12 DEF DecompressAndEnqueue, Calling
<1> QED
  BY <1>1, <1>3, <1>4, <1>5, <1>6, <1>7, <1>8, <1>9, <1>10, <1>11, <1>12

\* The outside calls in: nobody waits that was aborted before.
LEMMA AbortsEntered ==
    ASSUME LoopInv, SettleInv, AbortInv, KnownInv,
           Evict \/ AbortSignal \/ Fetch \/ ConnectFails \/ Connected \/ ReadHeaders \/ Text
           \/ SocketAnswers \/ H2Fetch \/ Cut
    PROVE  AbortInv'
<1>1. /\ stack = <<>> /\ Moves
      /\ stack' = <<>> \/ \E a : a[1] # "_fetchOne" /\ stack' = <<a>>
      /\ SameNews \/ \E s : Tells(s)
  BY EnteredMoves
<1>2. \A i \in 1 .. Len(stack') : stack'[i][1] # "_fetchOne"
  <2>1. CASE stack' = <<>>
    BY <2>1
  <2>2. CASE \E a : a[1] # "_fetchOne" /\ stack' = <<a>>
    <3>1. PICK a : a[1] # "_fetchOne" /\ stack' = <<a>>
      BY <2>2
    <3>2. Len(stack') = 1 /\ stack'[1] = a
      BY <3>1
    <3> QED
      BY <3>1, <3>2
  <2> QED
    BY <1>1, <2>1, <2>2
<1>3. ASSUME NEW r \in Requests, Alone(r), Waits(r)', Aborted(r)'
      PROVE  \E i \in 1 .. Len(stack') : Reaches(stack'[i], r)
  <2>1. ~ Aborted(r)
    <3>1. SUFFICES ASSUME Aborted(r) PROVE FALSE
      OBVIOUS
    <3>2. Waits(r)
      BY <1>1, <1>3, <3>1, NoneStarts
    <3>3. PICK i \in 1 .. Len(stack) : Reaches(stack[i], r)
      BY <1>3, <3>1, <3>2 DEF AbortInv
    <3> QED
      BY <1>1, <3>3
  <2>2. PICK s : Tells(s)
    BY <1>1, <1>3, <2>1, NewsKept
  <2>3. SignalOf[r] = s
    <3>1. SignalOf[r] \in Signals
      BY DEF Signals
    <3> QED
      BY <1>3, <2>1, <2>2, <3>1 DEF Tells, Aborted
  <2> DEFINE a == <<"_fire", s, 1>>
  <2>4. stack' = <<a>> /\ Reaches(a, r)
    BY <2>2, <2>3 DEF Tells, Reaches
  <2> HIDE DEF a
  <2>5. 1 \in 1 .. Len(stack') /\ stack'[1] = a
    BY <2>4
  <2> QED
    BY <2>4, <2>5
<1> QED
  BY <1>2, <1>3 DEF AbortInv

\* Every step keeps the invariants of abort signals.
LEMMA AbortsKept ==
    ASSUME LoopInv, SettleInv, KnownInv, ListenInv, AbortInv, [FetchNext]_fetchVars
    PROVE  ListenInv' /\ AbortInv'
<1>1. KnownInv'
  BY KnownKept
<1>2. CASE FetchCalled
  <2>1. Moves /\ SameNews
    BY <1>2, CalledMoves, CalledNews
  <2>2. ListenInv'
    BY <2>1, ListenersKept DEF KnownInv
  <2>3. CASE Drain
    <3>1. stack = <<>> /\ \E a : a[1] = "pump" /\ stack' = <<a>>
      <4>1. RunJob
        BY <2>3 DEF Drain, RunTick, LoopInv
      <4>2. 1 \in 1 .. Len(jobs) /\ Head(jobs) = jobs[1]
        BY <4>1 DEF RunJob, LoopInv, Listed
      <4> QED
        BY <4>1, <4>2 DEF RunJob, LoopInv
    <3>2. PICK a : a[1] = "pump" /\ stack' = <<a>>
      BY <3>1
    <3>3. Len(stack') = 1 /\ stack'[1] = a
      BY <3>2
    <3>4. \A i \in 1 .. Len(stack') : stack'[i][1] # "_fetchOne"
      BY <3>2, <3>3
    <3>5. ASSUME NEW r \in Requests, Alone(r), Waits(r)', Aborted(r)'
          PROVE  FALSE
      <4>1. Aborted(r) /\ Waits(r)
        BY <2>1, <3>5, NewsKept, NoneStarts
      <4>2. PICK i \in 1 .. Len(stack) : Reaches(stack[i], r)
        BY <3>5, <4>1 DEF AbortInv
      <4> QED
        BY <3>1, <4>2
    <3> QED
      BY <2>2, <3>4, <3>5 DEF AbortInv
  <2>4. CASE FetchCalled /\ ~ Drain
    BY <1>1, <2>1, <2>2, <2>4, FireReaches, FollowLooks, AbortNowStops, OthersKeepAborts DEF FetchCalled
  <2> QED
    BY <1>2, <2>3, <2>4
<1>3. CASE FetchNext /\ ~ FetchCalled
  <2>1. Moves /\ AbortInv'
    BY <1>3, EnteredMoves, AbortsEntered DEF FetchNext
  <2> QED
    BY <2>1, ListenersKept DEF KnownInv
<1>4. CASE UNCHANGED fetchVars
  <2>1. UNCHANGED <<req, signal, stack>>
    BY <1>4 DEF fetchVars
  <2> QED
    BY <2>1 DEF ListenInv, AbortInv, Waits, Aborted
<1> QED
  BY <1>2, <1>3, <1>4

\* No signal is aborted, and none has a listener.
LEMMA AbortsStart ==
    ASSUME FetchInit
    PROVE  ListenInv /\ AbortInv
<1>1. stack = <<>> /\ signal = Unheard(FALSE, 0) /\ \A r \in Requests : req[r].pc = "idle"
  BY DEF FetchInit, LoopInit
<1>2. \A s \in Signals : signal[s].listeners = <<>> /\ ~ signal[s].aborted
  BY <1>1, FetchAssumption DEF Unheard, Signals
<1>3. \A r \in Requests : ~ Waits(r)
  BY <1>1 DEF Waits
<1>4. Distinct(<<>>) /\ ToSet(<<>>) = {}
  BY DEF Distinct, ToSet
<1>5. ListenInv
  BY <1>2, <1>3, <1>4 DEF ListenInv
<1>6. \A i \in 1 .. Len(stack) : FALSE
  BY <1>1
<1> QED
  BY <1>3, <1>5, <1>6 DEF AbortInv

\* A fetch that has its signal for itself does not wait once it was aborted.
AloneReached == stack = <<>> => \A r \in Requests : Alone(r) /\ Aborted(r) => ~ Waits(r)

\* An abort reaches the fetch that has the signal for itself, whenever it comes:
\* before the fetch, while it connects, while it waits for a head, between two
\* hops; whatever the other fetches do, and share, and whatever fails.
THEOREM AloneIsReached == FetchSpec => []AloneReached
<1>1. AbortInv => AloneReached
  <2> SUFFICES ASSUME AbortInv, stack = <<>>, NEW r \in Requests, Alone(r), Aborted(r), Waits(r)
               PROVE  FALSE
    BY DEF AloneReached
  <2>1. PICK i \in 1 .. Len(stack) : Reaches(stack[i], r)
    BY DEF AbortInv
  <2> QED
    BY <2>1
<1>2. FetchInit => LoopInv /\ SettleInv /\ KnownInv /\ ListenInv /\ AbortInv
  BY SettleStarts, KnownStarts, AbortsStart
<1>3. LoopInv /\ SettleInv /\ KnownInv /\ ListenInv /\ AbortInv /\ [FetchNext]_fetchVars
      => (LoopInv /\ SettleInv /\ KnownInv /\ ListenInv /\ AbortInv)'
  BY SettleKept, KnownKept, AbortsKept
<1> QED
  BY <1>1, <1>2, <1>3, PTL DEF FetchSpec

\* So no fetch waits whose signal is aborted, if no two of them share one.  (Of
\* the fetches that share a signal some are not told: see Fire.)
THEOREM AbortAlwaysReaches ==
    ASSUME \A r \in Requests : Alone(r)
    PROVE  FetchSpec => []AbortReaches
<1>1. AloneReached => AbortReaches
  BY DEF AloneReached, AbortReaches, Waits
<1> QED
  BY <1>1, AloneIsReached, PTL
=============================================================================
