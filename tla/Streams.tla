------------------------------- MODULE Streams -------------------------------
(***************************************************************************)
(* stream.js: Readable, Writable, Transform, pipe and pipeline, and the     *)
(* async iterator.                                                         *)
(*                                                                         *)
(* A chain of object-mode streams: a Readable, perhaps a Transform, and a   *)
(* Writable joined by pipeline(); or a Readable read by `for await`.  Every *)
(* function of stream.js is one call of EventLoop, so a listener runs in    *)
(* the middle of the function that emits its event, as it does in the code. *)
(* The user's own hooks (_read, _write, _final) and the outside are choices.*)
(* Chunks are numbered in the order they are pushed.                        *)
(***************************************************************************)
EXTENDS EventLoop, FiniteSets, SequencesExt, TLAPS

CONSTANTS Setups,     \* [chain, source, mid, sink]: the streams in the order of the
                      \* pipe, how _read, _transform and _write work
          Chunks,     \* how many chunks the source has
          Hwm,        \* highWaterMark of every stream
          MaxFaults   \* failures and destroy() calls of the application

\* A chain of one stream is read by an iterator, or written by the application.
ASSUME StreamsAssumption ==
    /\ Chunks \in Nat /\ Hwm \in Nat \ {0} /\ MaxFaults \in Nat
    /\ \A setup \in Setups :
          /\ Len(setup.chain) \in 1 .. 3 /\ IsInjective(setup.chain)
          /\ setup.source \in {"sync", "async", "iter", "writer"}
          /\ {setup.mid, setup.sink} \subseteq {"sync", "async"}

VARIABLES st,    \* per stream, its _readableState and _writableState
          app    \* the hooks and listeners around the streams, and what they saw

streamVars == <<st, app, stack, ticks, jobs, phase>>

\* Only the queue of calls moves on.
Quiet == UNCHANGED <<st, app>>

Chain     == app.chain
StreamIds == ToSet(Chain)
Source    == Head(Chain)
Sink      == Last(Chain)
ByHand  == app.source = "writer"                 \* no pipe: the application writes
Iterating == Len(Chain) = 1 /\ ~ ByHand          \* no pipe: `for await` reads
Joints    == StreamIds \ {Sink}                    \* streams that pipe on
Position(s) == CHOOSE i \in DOMAIN Chain : Chain[i] = s
To(s)     == Chain[Position(s) + 1]
From(d)   == Chain[Position(d) - 1]
IsTransform(s) == s \notin {Source, Sink}

NoChunk == 0                                       \* push(null)
NoErr   == "none"

-----------------------------------------------------------------------------
(* The states the constructors leave.                                      *)

ReadableState ==
    [rbuf |-> <<>>, rlen |-> 0, rended |-> FALSE, endEmitted |-> FALSE,
     reading |-> FALSE, needReadable |-> FALSE,
     flowing |-> FALSE, readMoreScheduled |-> FALSE]

WritableState ==
    [wbuf |-> <<>>, wlen |-> 0, ended |-> FALSE, ending |-> FALSE,
     finished |-> FALSE, finalCalled |-> FALSE, pendingcb |-> 0, writing |-> FALSE]

\* What Duplex adds for both halves, and Transform for itself.
StreamState ==
    ReadableState @@ WritableState @@
    [destroyed |-> FALSE, errored |-> FALSE, closed |-> FALSE,
     writable |-> TRUE, readable |-> TRUE,
     transforming |-> FALSE, writechunk |-> NoChunk]

NeedMoreData(r) == ~ r.rended /\ (r.rlen < Hwm \/ r.rlen = 0)

NeedDrain(w) == w.ending \/ w.finished \/ w.wlen >= Hwm

-----------------------------------------------------------------------------
(* EventEmitter.emit: the listeners of the chain, in the order they were    *)
(* added.  A joint is what pipe() put between a stream and the next.        *)

OnJoint(s, calls) == IF s \in Joints /\ s \in app.joined THEN calls ELSE <<>>
InJoint(s, calls) == IF s # Source /\ From(s) \in app.joined THEN calls ELSE <<>>
AtEnd(s, calls)   == IF s = Sink /\ ~ Iterating /\ s # Source THEN calls ELSE <<>>
IfRead(calls)     == IF Iterating THEN calls ELSE <<>>

Listeners(s, ev, x) ==
    CASE ev = "data"   -> OnJoint(s, <<<<"ondata", s, x>>>>) \o IfRead(<<<<"pushValue", x>>>>)
      [] ev = "drain"  -> InJoint(s, <<<<"ondrain", From(s)>>>>)
      [] ev = "end"    -> OnJoint(s, <<<<"end", To(s)>>>>) \o IfRead(<<<<"pushEnd">>>>)
      [] ev = "error"  -> InJoint(s, <<<<"unpipe", From(s)>>>>)
                          \o (IF s = Source THEN <<>> ELSE <<<<"onError", x>>>>)
                          \o OnJoint(s, <<<<"unpipe", s>>>>)
                          \o (IF s \in Joints THEN <<<<"onError", x>>>> ELSE <<>>)
                          \o AtEnd(s, <<<<"eosDone", x>>>>)
                          \o IfRead(<<<<"iterError">>>>)
      [] ev = "finish" -> (IF s = Source THEN <<>> ELSE <<<<"emit", From(s), "end", NoErr>>>>)
                          \o AtEnd(s, <<<<"eosDone", NoErr>>>>)
      [] ev = "close"  -> OnJoint(s, <<<<"end", To(s)>>>>) \o AtEnd(s, <<<<"eosDone", NoErr>>>>)
      [] OTHER         -> <<>>

Emit == Calling("emit") /\ Then(Listeners(Arg(1), Arg(2), Arg(3))) /\ Now /\ Quiet

-----------------------------------------------------------------------------
(* Readable.                                                               *)

\* readableAddChunk, at the end of the buffer.
Push ==
    /\ Calling("push") /\ Now /\ UNCHANGED app
    /\ LET s == Arg(1)
           c == Arg(2)
           r == st[s]
       IN  IF r.destroyed THEN Then(<<>>) /\ UNCHANGED st
           ELSE IF c = NoChunk THEN Then(<<<<"onEofChunk", s>>>>) /\ UNCHANGED st
           ELSE /\ st' = [st EXCEPT ![s].rbuf = Append(@, c), ![s].rlen = @ + 1]
                /\ Then(IF r.flowing THEN <<<<"flow", s>>, <<"readMore", s>>>> ELSE <<>>)

\* Mutant: a hook that pushes from a callback is not asked again.
ReadMoreNever == Calling("readMore") /\ Now /\ Quiet /\ Then(<<>>)

\* A hook that pushes from a callback is asked again on the next tick.
ReadMore ==
    /\ Calling("readMore") /\ UNCHANGED app /\ Then(<<>>)
    /\ LET s == Arg(1)
           r == st[s]
       IN  IF ~ r.rended /\ ~ r.readMoreScheduled /\ r.rlen < Hwm
           THEN st' = [st EXCEPT ![s].readMoreScheduled = TRUE] /\ Later(<<<<"rearm", s>>>>)
           ELSE Now /\ UNCHANGED st

Rearm ==
    /\ Calling("rearm") /\ Now /\ UNCHANGED app
    /\ LET s == Arg(1)
           r == st[s]
       IN  /\ st' = [st EXCEPT ![s].readMoreScheduled = FALSE]
           /\ Then(IF r.flowing /\ ~ r.rended /\ ~ r.destroyed /\ ~ r.reading
                   THEN <<<<"read", s>>>> ELSE <<>>)

\* (emitReadable does nothing here: it asks for needReadable, set only now.)
OnEofChunk ==
    /\ Calling("onEofChunk") /\ Now /\ UNCHANGED app
    /\ LET s == Arg(1)
           r == st[s]
       IN  IF r.rended THEN Then(<<>>) /\ UNCHANGED st
           ELSE /\ st' = [st EXCEPT ![s].rended = TRUE, ![s].readable = FALSE,
                                    ![s].needReadable = @ \/ (~ r.flowing /\ r.rlen > 0)]
                /\ Then(IF r.flowing THEN <<<<"flow", s>>>> ELSE <<>>)

\* Mutant: a stream paused in the middle ends with what it still holds.
FlowEndsEarly ==
    /\ Calling("flow") /\ UNCHANGED app
    /\ LET s == Arg(1)
           r == st[s]
       IN  IF r.flowing /\ r.rbuf # <<>>
           THEN /\ st' = [st EXCEPT ![s].rbuf = Tail(@), ![s].rlen = IF @ = 0 THEN 0 ELSE @ - 1]
                /\ Then(<<<<"emit", s, "data", Head(r.rbuf)>>, <<"flow", s>>>>) /\ Now
           ELSE IF r.rended /\ ~ r.endEmitted
           THEN /\ st' = [st EXCEPT ![s].endEmitted = TRUE]
                /\ Then(<<>>) /\ Later(<<<<"emitEnd", s>>>>)
           ELSE Then(<<>>) /\ Now /\ UNCHANGED st

\* Then 'data' of one chunk and again, or the end.
Flow ==
    /\ Calling("flow") /\ UNCHANGED app
    /\ LET s == Arg(1)
           r == st[s]
       IN  IF r.flowing /\ r.rbuf # <<>>
           THEN /\ st' = [st EXCEPT ![s].rbuf = Tail(@), ![s].rlen = IF @ = 0 THEN 0 ELSE @ - 1]
                /\ Then(<<<<"emit", s, "data", Head(r.rbuf)>>, <<"flow", s>>>>) /\ Now
           ELSE IF r.rbuf = <<>> /\ r.rended /\ ~ r.endEmitted
           THEN /\ st' = [st EXCEPT ![s].endEmitted = TRUE]
                /\ Then(<<>>) /\ Later(<<<<"emitEnd", s>>>>)
           ELSE Then(<<>>) /\ Now /\ UNCHANGED st

EmitEnd ==
    /\ Calling("emitEnd") /\ Now /\ Quiet
    /\ Then(IF st[Arg(1)].destroyed THEN <<>> ELSE <<<<"emit", Arg(1), "end", NoErr>>>>)

\* read(0): what is first in the buffer is taken, whoever asks.  (The call
\* of maybeReadMore inside does nothing: reading is set.)
Read ==
    /\ Calling("read") /\ Now /\ UNCHANGED app
    /\ LET s == Arg(1)
           r == st[s]
       IN  IF r.destroyed THEN Then(<<>>) /\ UNCHANGED st
           ELSE /\ st' = [st EXCEPT ![s].reading = TRUE,
                                    ![s].rbuf = IF @ = <<>> THEN @ ELSE Tail(@),
                                    ![s].rlen = IF r.rbuf = <<>> \/ @ = 0 THEN @ ELSE @ - 1]
                /\ Then((IF r.rended THEN <<>> ELSE <<<<"_read", s>>>>) \o <<<<"readDone", s>>>>)

ReadDone ==
    /\ Calling("readDone") /\ Now /\ UNCHANGED app
    /\ st' = [st EXCEPT ![Arg(1)].reading = FALSE]
    /\ Then(IF st[Arg(1)].flowing THEN <<<<"flow", Arg(1)>>>> ELSE <<>>)

\* on("data"): the stream flows from here on.
OnData ==
    /\ Calling("onData") /\ Now /\ UNCHANGED app
    /\ st' = [st EXCEPT ![Arg(1)].flowing = TRUE]
    /\ Then(<<<<"read", Arg(1)>>, <<"flow", Arg(1)>>>>)

Pause(s) == st' = [st EXCEPT ![s].flowing = FALSE]

Resume ==
    /\ Calling("resume") /\ UNCHANGED app
    /\ IF st[Arg(1)].flowing THEN Then(<<>>) /\ Now /\ UNCHANGED st
       ELSE /\ st' = [st EXCEPT ![Arg(1)].flowing = TRUE]
            /\ Then(<<<<"flow", Arg(1)>>, <<"resume_", Arg(1)>>>>) /\ Now

ResumeLater == Calling("resume_") /\ Then(<<>>) /\ Later(<<<<"resumed", Arg(1)>>>>) /\ Quiet

\* Mutant: the stream may have been paused again meanwhile.
ResumedAnyway ==
    /\ Calling("resumed") /\ Now /\ Quiet
    /\ LET r == st[Arg(1)]
       IN  Then(IF ~ r.reading /\ ~ r.rended /\ ~ r.destroyed
                THEN <<<<"read", Arg(1)>>>> ELSE <<>>)

Resumed ==
    /\ Calling("resumed") /\ Now /\ Quiet
    /\ LET r == st[Arg(1)]
       IN  Then(IF r.flowing /\ ~ r.reading /\ ~ r.rended /\ ~ r.destroyed
                THEN <<<<"read", Arg(1)>>>> ELSE <<>>)

-----------------------------------------------------------------------------
(* Writable.                                                               *)

\* write(), whose answer goes to `caller`: a joint pauses its source on FALSE.
Write ==
    /\ Calling("write") /\ UNCHANGED app
    /\ LET s == Arg(1)
           c == Arg(2)
           w == st[s]
           tellFalse == <<<<"wrote", Arg(3), FALSE>>>>
       IN  IF w.destroyed THEN Then(tellFalse) /\ Now /\ UNCHANGED st
           ELSE IF w.ended
           THEN Then(tellFalse) /\ Later(<<<<"errorOrDestroy", s, "afterEnd">>>>) /\ UNCHANGED st
           ELSE IF ~ w.writing /\ w.wbuf = <<>>
           THEN Then(<<<<"doWrite", s, c>>, <<"written", s, Arg(3)>>>>) /\ Now /\ UNCHANGED st
           ELSE /\ st' = [st EXCEPT ![s].wbuf = Append(@, c), ![s].wlen = @ + 1]
                /\ Then(<<<<"written", s, Arg(3)>>>>) /\ Now

Written ==
    /\ Calling("written") /\ Now /\ Quiet
    /\ LET w == st[Arg(1)] IN Then(<<<<"wrote", Arg(2), ~ w.writing /\ ~ NeedDrain(w)>>>>)

\* pendingcb counts the write only once _write has returned.
DoWrite ==
    /\ Calling("doWrite") /\ Now /\ UNCHANGED app
    /\ st' = [st EXCEPT ![Arg(1)].writing = TRUE]
    /\ Then(<<<<"_write", Arg(1), Arg(2)>>, <<"didWrite", Arg(1)>>>>)

DidWrite ==
    /\ Calling("didWrite") /\ Then(<<>>) /\ Now /\ UNCHANGED app
    /\ st' = [st EXCEPT ![Arg(1)].pendingcb = @ + 1]

ClearBuffer ==
    /\ Calling("clearBuffer") /\ Now /\ UNCHANGED app
    /\ LET s == Arg(1)
           w == st[s]
       IN  IF w.wbuf = <<>> \/ w.writing THEN Then(<<>>) /\ UNCHANGED st
           ELSE /\ st' = [st EXCEPT ![s].wbuf = Tail(@), ![s].wlen = @ - 1]
                /\ Then(<<<<"doWrite", s, Head(w.wbuf)>>, <<"clearBuffer", s>>>>)

OnWrite ==
    /\ Calling("onwrite") /\ Now /\ UNCHANGED app
    /\ LET s == Arg(1)
       IN  IF Arg(2) # NoErr
           THEN /\ st' = [st EXCEPT ![s].writing = FALSE]
                /\ Then(<<<<"errorOrDestroy", s, Arg(2)>>>>)
           ELSE /\ st' = [st EXCEPT ![s].writing = FALSE, ![s].pendingcb = @ - 1]
                /\ Then(<<<<"finishMaybe", s>>, <<"clearBuffer", s>>, <<"drain", s>>>>)

Drained ==
    /\ Calling("drain") /\ Now /\ Quiet
    /\ LET w == st[Arg(1)]
       IN  Then(IF w.writing \/ NeedDrain(w) THEN <<>>
                ELSE <<<<"emit", Arg(1), "drain", NoErr>>>>)

End ==
    /\ Calling("end") /\ Now /\ UNCHANGED app
    /\ LET s == Arg(1)
       IN  IF st[s].ending THEN Then(<<>>) /\ UNCHANGED st
           ELSE /\ st' = [st EXCEPT ![s].ended = TRUE, ![s].ending = TRUE, ![s].writable = FALSE]
                /\ Then(<<<<"finishMaybe", s>>>>)

\* Only a Transform has a _final here: it ends its readable half.
FinishMaybe ==
    /\ Calling("finishMaybe") /\ Now /\ UNCHANGED app
    /\ LET s == Arg(1)
           w == st[s]
       IN  IF ~ (w.ending /\ w.pendingcb = 0 /\ w.wbuf = <<>> /\ ~ w.finished)
           THEN Then(<<>>) /\ UNCHANGED st
           ELSE IF IsTransform(s) /\ ~ w.finalCalled
           THEN /\ st' = [st EXCEPT ![s].finalCalled = TRUE]
                /\ Then(<<<<"push", s, NoChunk>>, <<"finish", s>>>>)
           ELSE Then(<<<<"finish", s>>>>) /\ UNCHANGED st

Finish ==
    /\ Calling("finish") /\ Now /\ UNCHANGED app
    /\ st' = [st EXCEPT ![Arg(1)].finished = TRUE, ![Arg(1)].closed = FALSE]
    /\ Then(<<<<"emit", Arg(1), "finish", NoErr>>, <<"finished", Arg(1)>>>>)

Finished ==
    /\ Calling("finished") /\ Then(<<>>) /\ UNCHANGED app
    /\ LET s == Arg(1)
       IN  IF st[s].destroyed THEN Now /\ UNCHANGED st
           ELSE /\ st' = [st EXCEPT ![s].closed = TRUE]
                /\ Later(<<<<"emit", s, "close", NoErr>>>>)

-----------------------------------------------------------------------------
(* Errors and the end of a stream.                                         *)

\* The error is emitted here and once more by destroy.
ErrorOrDestroy ==
    /\ Calling("errorOrDestroy") /\ UNCHANGED app
    /\ st' = [st EXCEPT ![Arg(1)].errored = TRUE]
    /\ Then(<<<<"destroy", Arg(1), Arg(2)>>>>)
    /\ Later(<<<<"emit", Arg(1), "error", Arg(2)>>>>)

Destroy ==
    /\ Calling("destroy") /\ UNCHANGED app /\ Then(<<>>)
    /\ LET s   == Arg(1)
           err == Arg(2)
       IN  IF st[s].destroyed THEN Now /\ UNCHANGED st
           ELSE /\ st' = [st EXCEPT ![s].destroyed = TRUE, ![s].closed = FALSE,
                                    ![s].readable = FALSE, ![s].writable = FALSE,
                                    ![s].errored = @ \/ err # NoErr]
                /\ Later((IF err = NoErr THEN <<>> ELSE <<<<"emit", s, "error", err>>>>)
                         \o <<<<"onClose", s>>>>)

OnClose ==
    /\ Calling("onClose") /\ Now /\ UNCHANGED app
    /\ st' = [st EXCEPT ![Arg(1)].closed = TRUE]
    /\ Then(<<<<"emit", Arg(1), "close", NoErr>>>>)

-----------------------------------------------------------------------------
(* Transform, whose _transform is the user's and passes its chunk on.      *)

TransformWrite ==
    /\ Calling("_write") /\ IsTransform(Arg(1)) /\ Now /\ UNCHANGED app
    /\ LET s == Arg(1)
       IN  /\ st' = [st EXCEPT ![s].writechunk = Arg(2), ![s].transforming = TRUE]
           /\ Then(IF st[s].transforming THEN <<>> ELSE <<<<"_transform", s, Arg(2)>>>>)

\* A chunk in hand is transformed only if the transform is not at work already.
TransformRead ==
    /\ Calling("_read") /\ IsTransform(Arg(1)) /\ Now /\ UNCHANGED app
    /\ LET s == Arg(1)
           again == st[s].writechunk # NoChunk /\ ~ st[s].transforming
       IN  /\ st' = [st EXCEPT ![s].transforming = @ \/ again]
           /\ Then(IF again THEN <<<<"_transform", s, st[s].writechunk>>>> ELSE <<>>)

AfterTransform ==
    /\ Calling("afterTransform") /\ Now /\ UNCHANGED app
    /\ LET s == Arg(1)
       IN  /\ st' = [st EXCEPT ![s].transforming = FALSE, ![s].writechunk = NoChunk]
           /\ Then(IF Arg(3) # NoErr
                   THEN <<<<"errorOrDestroy", s, Arg(3)>>, <<"onwrite", s, Arg(3)>>>>
                   ELSE <<<<"push", s, Arg(2)>>, <<"onwrite", s, NoErr>>,
                          <<"afterCallback", s>>>>)

AfterCallback ==
    /\ Calling("afterCallback") /\ Now /\ Quiet
    /\ LET s == Arg(1)
       IN  Then(IF st[s].wlen > 0 THEN <<<<"_write", s, Head(st[s].wbuf)>>>>
                ELSE IF st[s].needReadable THEN <<<<"read", s>>>> ELSE <<>>)

-----------------------------------------------------------------------------
(* pipe(): what a joint between two streams does.                          *)

JointOnData ==
    /\ Calling("ondata") /\ Now /\ Quiet
    /\ Then(<<<<"write", To(Arg(1)), Arg(2), Arg(1)>>>>)

\* Mutant: what write() answers is not looked at.
JointWroteDeaf == Calling("wrote") /\ Now /\ Then(<<>>) /\ Quiet

JointWrote ==
    /\ Calling("wrote") /\ Now /\ Then(<<>>) /\ UNCHANGED app
    /\ IF Arg(2) \/ ByHand THEN UNCHANGED st ELSE Pause(Arg(1))

JointOnDrain ==
    /\ Calling("ondrain") /\ Now /\ Quiet
    /\ Then(IF st[Arg(1)].flowing THEN <<>> ELSE <<<<"resume", Arg(1)>>>>)

\* onerror of either side.  (pipeline listens too, so the error is not
\* emitted again for want of a listener.)  What 'finish' does stays.
Unpipe ==
    /\ Calling("unpipe") /\ Now /\ Then(<<>>) /\ UNCHANGED st
    /\ app' = [app EXCEPT !.joined = @ \ {Arg(1)}]

\* pipe(s, To(s)), then pipeline goes on to the next joint.
Pipe ==
    /\ Calling("pipe") /\ Now /\ UNCHANGED st
    /\ app' = [app EXCEPT !.joined = @ \cup {Arg(1)}]
    /\ Then(<<<<"onData", Arg(1)>>>>)

-----------------------------------------------------------------------------
(* pipeline(): one answer for all of them.                                 *)

\* Mutant: the guard that all listeners share is missing.
OnErrorAgain ==
    /\ Calling("onError") /\ Now /\ UNCHANGED st
    /\ app' = [app EXCEPT !.settled = TRUE, !.answers = Append(@, Arg(1))]
    /\ Then([i \in DOMAIN Chain |-> <<"destroy", Chain[i], Arg(1)>>])

OnError ==
    /\ Calling("onError") /\ Now /\ UNCHANGED st
    /\ IF app.settled THEN Then(<<>>) /\ UNCHANGED app
       ELSE /\ app' = [app EXCEPT !.settled = TRUE, !.answers = Append(@, Arg(1))]
            /\ Then([i \in DOMAIN Chain |-> <<"destroy", Chain[i], Arg(1)>>])

\* eos of the last stream: 'finish', 'error' or 'close', whichever is first.
EosDone ==
    /\ Calling("eosDone") /\ Now /\ Then(<<>>) /\ UNCHANGED st
    /\ app' = IF app.eosCalled THEN app
              ELSE [app EXCEPT !.eosCalled = TRUE, !.settled = TRUE,
                               !.answers = IF app.settled THEN @ ELSE Append(@, Arg(1))]

-----------------------------------------------------------------------------
(* Readable[Symbol.asyncIterator], and the consumer that awaits it.        *)

\* A promise of next() is settled: the consumer goes on in a reaction.
PushValue ==
    /\ Calling("pushValue") /\ Then(<<>>) /\ UNCHANGED st
    /\ IF app.waiting
       THEN /\ app' = [app EXCEPT !.waiting = FALSE, !.got = Append(@, Arg(1))]
            /\ React(<<<<"next">>>>)
       ELSE app' = [app EXCEPT !.queue = Append(@, Arg(1))] /\ Now

PushEnd ==
    /\ Calling("pushEnd") /\ Now /\ Then(<<>>) /\ UNCHANGED st
    /\ app' = [app EXCEPT !.iterEnded = TRUE, !.waiting = FALSE,
                          !.over = @ \/ app.waiting]

\* An error nobody waits for at this moment is dropped.
IterError ==
    /\ Calling("iterError") /\ Now /\ Then(<<>>) /\ UNCHANGED st
    /\ app' = [app EXCEPT !.over = @ \/ app.waiting]

IterNext ==
    /\ Calling("next") /\ Then(<<>>) /\ UNCHANGED st
    /\ IF app.queue # <<>>
       THEN /\ app' = [app EXCEPT !.queue = Tail(@), !.got = Append(@, Head(app.queue))]
            /\ React(<<<<"next">>>>)
       ELSE /\ app' = IF app.iterEnded THEN [app EXCEPT !.over = TRUE]
                      ELSE [app EXCEPT !.waiting = TRUE]
            /\ Now

-----------------------------------------------------------------------------
(* The hooks of the application, and the outside.                          *)

MayFail == app.faults < MaxFaults

\* What the source has next: a chunk or the end.
NextPush == <<"push", Source, IF app.next > Chunks THEN NoChunk ELSE app.next>>

SourceRead ==
    /\ Calling("_read") /\ Arg(1) = Source /\ Now /\ UNCHANGED st
    /\ IF app.source = "sync" /\ app.next <= Chunks + 1
       THEN Then(<<NextPush>>) /\ app' = [app EXCEPT !.next = @ + 1]
       ELSE Then(<<>>) /\ app' = [app EXCEPT !.asked = @ \/ (app.source = "async"
                                                               /\ app.next <= Chunks + 1)]

\* Readable.from: pumpIterable asks an async iterator, and asks again unless
\* push said to wait; it then waits for 'readable', which does not come.
Pump ==
    /\ Calling("pump") /\ Now /\ Then(<<>>) /\ UNCHANGED st
    /\ app' = [app EXCEPT !.asked = TRUE]

Pumped ==
    /\ Calling("pumped") /\ Now /\ Quiet
    /\ Then(IF ~ st[Source].destroyed /\ NeedMoreData(st[Source])
            THEN <<<<"pump">>>> ELSE <<>>)

SourceAnswers ==
    /\ app.asked /\ UNCHANGED st
    /\ \/ /\ app' = [app EXCEPT !.asked = FALSE, !.next = @ + 1]
          /\ Enter(<<NextPush>> \o
                   IF app.source = "iter" /\ app.next <= Chunks THEN <<<<"pumped">>>> ELSE <<>>)
       \/ /\ MayFail /\ app' = [app EXCEPT !.asked = FALSE, !.faults = @ + 1]
          /\ Enter(<<<<"destroy", Source, "failed">>>>)

SinkWrite ==
    /\ Calling("_write") /\ Arg(1) = Sink /\ Now /\ UNCHANGED st
    /\ \/ /\ app' = [app EXCEPT !.written = Append(@, Arg(2)), !.sinking = app.sink = "async"]
          /\ Then(IF app.sink = "async" THEN <<>> ELSE <<<<"onwrite", Sink, NoErr>>>>)
       \/ /\ app.sink = "sync" /\ MayFail /\ app' = [app EXCEPT !.faults = @ + 1]
          /\ Then(<<<<"onwrite", Sink, "failed">>>>)

SinkAnswers ==
    /\ app.sinking /\ UNCHANGED st
    /\ \/ /\ app' = [app EXCEPT !.sinking = FALSE]
          /\ Enter(<<<<"onwrite", Sink, NoErr>>>>)
       \/ /\ MayFail /\ app' = [app EXCEPT !.sinking = FALSE, !.faults = @ + 1]
          /\ Enter(<<<<"onwrite", Sink, "failed">>>>)

UserTransform ==
    /\ Calling("_transform") /\ Now /\ UNCHANGED st
    /\ IF app.mid = "sync"
       THEN Then(<<<<"afterTransform", Arg(1), Arg(2), NoErr>>>>) /\ UNCHANGED app
       ELSE Then(<<>>) /\ app' = [app EXCEPT !.inHand = @ \cup {<<Arg(1), Arg(2)>>}]

TransformAnswers ==
    \E h \in app.inHand :
        /\ UNCHANGED st
        /\ \/ /\ app' = [app EXCEPT !.inHand = @ \ {h}]
              /\ Enter(<<<<"afterTransform", h[1], h[2], NoErr>>>>)
           \/ /\ MayFail /\ app' = [app EXCEPT !.inHand = @ \ {h}, !.faults = @ + 1]
              /\ Enter(<<<<"afterTransform", h[1], h[2], "failed">>>>)

\* Writes as they come, without waiting for 'drain', and the end.
Writer ==
    /\ ByHand /\ app.next <= Chunks + 1 /\ UNCHANGED st
    /\ app' = [app EXCEPT !.next = @ + 1]
    /\ Enter(IF app.next <= Chunks THEN <<<<"write", Sink, app.next, Sink>>>>
             ELSE <<<<"end", Sink>>>>)

\* The application loses interest in one of the streams.
Abandon ==
    \E s \in StreamIds :
        /\ MayFail /\ UNCHANGED st
        /\ app' = [app EXCEPT !.faults = @ + 1, !.abandoned = TRUE]
        /\ Enter(<<<<"destroy", s, NoErr>>>>)

-----------------------------------------------------------------------------

Application(setup) ==
    [chain |-> setup.chain, source |-> setup.source, mid |-> setup.mid, sink |-> setup.sink,
     next |-> 1, asked |-> FALSE, sinking |-> FALSE, inHand |-> {},
     written |-> <<>>, joined |-> {}, settled |-> FALSE, eosCalled |-> FALSE,
     answers |-> <<>>, queue |-> <<>>, waiting |-> FALSE,
     iterEnded |-> FALSE, got |-> <<>>, over |-> FALSE, faults |-> 0, abandoned |-> FALSE]

StreamsInit ==
    /\ \E setup \in Setups : app = Application(setup)
    /\ st = [s \in StreamIds |-> StreamState]
    /\ ticks = IF app.source = "iter" THEN <<<<"pump">>>> ELSE <<>>
    /\ stack = IF ByHand THEN <<>>
               ELSE IF Iterating THEN <<<<"onData", Source>>, <<"next">>>>
               ELSE [i \in 1 .. Len(Chain) - 1 |-> <<"pipe", Chain[i]>>]
    /\ jobs = <<>> /\ phase = "ticks"

\* A stream that has been read, with nothing left to do.
StreamsIdle ==
    /\ app = [Application([chain |-> <<"src">>, source |-> "sync", mid |-> "sync", sink |-> "sync"]) EXCEPT !.over = TRUE]
    /\ st = [s \in StreamIds |-> StreamState]
    /\ LoopInit(<<>>)

StreamsCalled ==
    \/ Emit \/ Push \/ ReadMore \/ Rearm \/ OnEofChunk \/ Flow \/ EmitEnd \/ Read
    \/ ReadDone \/ OnData \/ Resume \/ ResumeLater \/ Resumed \/ Write \/ Written
    \/ DoWrite \/ DidWrite \/ ClearBuffer \/ OnWrite \/ Drained \/ End \/ FinishMaybe
    \/ Finish \/ Finished \/ ErrorOrDestroy \/ Destroy \/ OnClose \/ TransformWrite
    \/ TransformRead \/ AfterTransform \/ AfterCallback \/ JointOnData \/ JointWrote
    \/ JointOnDrain \/ Unpipe \/ Pipe \/ OnError \/ EosDone \/ PushValue \/ PushEnd
    \/ IterError \/ IterNext \/ SourceRead \/ Pump \/ Pumped \/ SinkWrite \/ UserTransform

StreamsRun == StreamsCalled \/ (Drain /\ Quiet)
                \/ SourceAnswers \/ SinkAnswers \/ Writer \/ TransformAnswers

StreamsNext == StreamsRun \/ Abandon

StreamsFair == WF_streamVars(StreamsRun)
StreamsSpec == StreamsInit /\ [][StreamsNext]_streamVars /\ StreamsFair

-----------------------------------------------------------------------------
AllChunks == [i \in 1 .. Chunks |-> i]

\* What arrives is what was pushed, in order and with nothing left out,
\* whatever fails on the way.
NothingDropped == IsPrefix(app.written, AllChunks) /\ IsPrefix(app.got \o app.queue, AllChunks)

\* pipeline's callback is called once: not by the error and the end, not by
\* two streams that fail of one cause.
OneAnswer == Len(app.answers) <= 1

\* It is not told of success while a chunk is missing, unless the
\* application itself has destroyed a stream.
SuccessMeansAll ==
    app.answers = <<NoErr>> /\ ~ app.abandoned => app.written = AllChunks

\* pipeline does what Transfer promises, step by step.
Outcome == IF app.answers = <<>> THEN "open"
           ELSE IF app.answers[1] = NoErr THEN "ok" ELSE "failed"

Promise == INSTANCE Transfer WITH moved <- app.written, result <- Outcome,
                                  givenUp <- app.abandoned
ImplementsTransfer == Promise!Spec

\* A slow sink holds its source back: at most one chunk is
\* written at a time and none waits behind it.
HeldBack == ByHand \/ \A s \in StreamIds : st[s].wbuf = <<>>

\* pipeline answers, the loop of an iterator ends, end() comes to 'finish'.
StreamsSettle ==
    <>(IF Iterating THEN app.over \/ app.faults > 0
       ELSE IF ByHand THEN st[Sink].finished \/ app.faults > 0
       ELSE app.answers # <<>>)

-----------------------------------------------------------------------------
(* That pipeline answers once, for every chain and every hook.             *)

\* What is kept of the answers: there is one once pipeline has settled, and
\* none before; the end of the last stream settles it too.
AnswerInv ==
    /\ {"settled", "eosCalled", "answers"} \subseteq DOMAIN app
    /\ app.answers = <<>> \/ Len(app.answers) = 1
    /\ app.answers # <<>> => app.settled
    /\ app.eosCalled => app.settled

\* What tells of the answer is not touched.
Untold ==
    /\ DOMAIN app' = DOMAIN app /\ app'.answers = app.answers
    /\ app'.settled = app.settled /\ app'.eosCalled = app.eosCalled

\* A step that does not touch it keeps the invariant.
LEMMA UntoldKeeps == AnswerInv /\ Untold => AnswerInv'
  BY DEF AnswerInv, Untold

\* One answer after none.
LEMMA FirstAnswer ==
    ASSUME NEW x PROVE Len(Append(<<>>, x)) = 1
  OBVIOUS

\* Two functions call pipeline's callback: the one for errors and the one for the
\* end of the last stream.  Each does so only if neither has.
LEMMA Told ==
    ASSUME AnswerInv, OnError \/ EosDone
    PROVE  AnswerInv'
<1>1. CASE OnError
  BY <1>1, FirstAnswer DEF OnError, AnswerInv
<1>2. CASE EosDone
  BY <1>2, FirstAnswer DEF EosDone, AnswerInv
<1> QED
  BY <1>1, <1>2

\* No other function, of streams, hooks or the outside, has a part in it.
LEMMA StreamsQuiet ==
    ASSUME AnswerInv, [StreamsNext]_streamVars, ~ OnError, ~ EosDone
    PROVE  Untold
<1>1. CASE UNCHANGED streamVars
  BY <1>1 DEF streamVars, Untold
<1>2. CASE PushValue \/ PushEnd \/ IterError \/ IterNext
  BY <1>2 DEF PushValue, PushEnd, IterError, IterNext, Untold, AnswerInv
<1>3. CASE Unpipe \/ Pipe
  BY <1>3 DEF Unpipe, Pipe, Untold, AnswerInv
<1>4. CASE SourceRead \/ Pump \/ Pumped \/ SinkWrite \/ UserTransform
  BY <1>4 DEF SourceRead, Pump, Pumped, Quiet, SinkWrite, UserTransform, Untold, AnswerInv
<1>5. CASE SourceAnswers \/ SinkAnswers \/ Writer \/ TransformAnswers \/ Abandon
  BY <1>5 DEF SourceAnswers, SinkAnswers, Writer, TransformAnswers, Abandon, Untold, AnswerInv
<1>6. CASE Emit \/ Push \/ ReadMore \/ Rearm \/ OnEofChunk \/ Flow \/ EmitEnd \/ Read
           \/ ReadDone \/ OnData \/ Resume \/ ResumeLater \/ Resumed
  BY <1>6 DEF Emit, Push, ReadMore, Rearm, OnEofChunk, Flow, EmitEnd, Read,
              ReadDone, OnData, Resume, ResumeLater, Resumed, Quiet, Untold
<1>7. CASE Write \/ Written \/ DoWrite \/ DidWrite \/ ClearBuffer \/ OnWrite \/ Drained \/ End
           \/ FinishMaybe \/ Finish \/ Finished
  BY <1>7 DEF Write, Written, DoWrite, DidWrite, ClearBuffer, OnWrite, Drained, End,
              FinishMaybe, Finish, Finished, Quiet, Untold
<1>8. CASE ErrorOrDestroy \/ Destroy \/ OnClose \/ TransformWrite \/ TransformRead
           \/ AfterTransform \/ AfterCallback \/ JointOnData \/ JointWrote \/ JointOnDrain
           \/ (Drain /\ Quiet)
  BY <1>8 DEF ErrorOrDestroy, Destroy, OnClose, TransformWrite, TransformRead,
              AfterTransform, AfterCallback, JointOnData, JointWrote, JointOnDrain, Quiet, Untold
<1> QED
  BY <1>1, <1>2, <1>3, <1>4, <1>5, <1>6, <1>7, <1>8
  DEF StreamsNext, StreamsRun, StreamsCalled

\* Nothing has been answered.
LEMMA AnswerStarts ==
    ASSUME StreamsInit
    PROVE  AnswerInv
  BY DEF StreamsInit, Application, AnswerInv

\* pipeline()'s callback is called at most once, for every chain of streams,
\* whatever hooks fail, whoever destroys a stream and however errors and ends
\* of several streams follow each other.
THEOREM AnsweredOnce == StreamsSpec => []OneAnswer
<1>1. AnswerInv => OneAnswer
  <2>1. CASE app.answers = <<>>
    <3>1. Len(app.answers) = 0
      BY <2>1
    <3> QED
      BY <3>1 DEF OneAnswer
  <2>2. CASE Len(app.answers) = 1
    BY <2>2 DEF OneAnswer
  <2> QED
    BY <2>1, <2>2 DEF AnswerInv
<1>2. AnswerInv /\ [StreamsNext]_streamVars => AnswerInv'
  BY Told, StreamsQuiet, UntoldKeeps
<1> QED
  BY <1>1, <1>2, AnswerStarts, PTL DEF StreamsSpec
=============================================================================
