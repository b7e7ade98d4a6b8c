------------------------------ MODULE EventLoop ------------------------------
(***************************************************************************)
(* The event loop as the JavaScript builtins see it: one call runs to      *)
(* completion, calls it makes run before its caller goes on, then the       *)
(* nextTick queue and the promise reactions are drained, and only then      *)
(* does the outside world (I/O, timers) call in again.                      *)
(*                                                                         *)
(* A call is a tuple <<function, argument, ...>>.  `stack` holds the call   *)
(* that runs and what its callers have left to do: an event emitter's       *)
(* listeners are called in place, so most of what is hard in these modules  *)
(* is one handler running in the middle of another.                         *)
(***************************************************************************)
EXTENDS Naturals, Sequences

VARIABLES stack,   \* what is being called, innermost first
          ticks,   \* process.nextTick's queue
          jobs,    \* promise reactions
          phase    \* which of the two is being drained

loop == <<stack, ticks, jobs, phase>>

LoopInit(calls) == stack = calls /\ ticks = <<>> /\ jobs = <<>> /\ phase = "ticks"

Idle == stack = <<>> /\ ticks = <<>> /\ jobs = <<>>

Calling(f) == stack # <<>> /\ stack[1][1] = f
Arg(i)     == stack[1][i + 1]

\* The running call is over but for `calls`, which it makes now.
Then(calls) == stack' = calls \o Tail(stack)
Later(calls) == ticks' = ticks \o calls /\ UNCHANGED <<jobs, phase>>
React(calls) == jobs' = jobs \o calls /\ UNCHANGED <<ticks, phase>>
Now         == UNCHANGED <<ticks, jobs, phase>>

\* The loop calls in from outside: a timer, an answer of the system.
Enter(calls) == Idle /\ stack' = calls /\ Now

\* Each queue is drained until it is empty before the other has its turn.
RunTick ==
    /\ stack = <<>> /\ ticks # <<>> /\ (phase = "ticks" \/ jobs = <<>>)
    /\ stack' = <<Head(ticks)>> /\ ticks' = Tail(ticks) /\ phase' = "ticks"
    /\ UNCHANGED jobs

RunJob ==
    /\ stack = <<>> /\ jobs # <<>> /\ (phase = "jobs" \/ ticks = <<>>)
    /\ stack' = <<Head(jobs)>> /\ jobs' = Tail(jobs) /\ phase' = "jobs"
    /\ UNCHANGED ticks

Drain == RunTick \/ RunJob
=============================================================================
