------------------------------ MODULE MCOutbox ------------------------------
(* Small instances of the server's workers: Outbox, or beside it Scheduler.  *)
EXTENDS Outbox, TLC, TLAPS

VARIABLES part,   \* which of the two is at work
          lease, claimed, time, phase, life, loop, due, at, flight, tick, keeper,
          awaited, late, slow, missed, lapsed, erred, ran, blips

S == INSTANCE Scheduler WITH Replicas <- {1, 2}, Leavers <- {1}, NoOwner <- <<0, 0>>, Interval <- 3,
        HoldTtl <- 3, Beat <- 1, MaxTime <- 6, MaxRestarts <- 1, MaxBlips <- 1

schedulerVars == <<lease, claimed, time, phase, life, loop, due, at, flight, tick, keeper,
                   awaited, late, slow, missed, lapsed, erred, ran, blips>>
Symmetry == Permutations(Keys) \cup Permutations(Workers) \cup Permutations(Slots)

MCInit == Init /\ S!SchedulerInit /\ part \in {"outbox", "scheduler"}
MCNext ==
    \/ part = "outbox" /\ Next /\ UNCHANGED <<part, schedulerVars>>
    \/ part = "scheduler" /\ S!SchedulerNext /\ UNCHANGED <<part, vars>>
MCSpec == MCInit /\ [][MCNext]_<<part, vars, schedulerVars>>

MCFairSpec ==
    /\ MCInit /\ part = "outbox"
    /\ [][Next /\ UNCHANGED <<part, schedulerVars>>]_<<part, vars, schedulerVars>>
    /\ Fairness

\* A static task runs once a tick and beside no other run, as long as its hold
\* is renewed, and leaves no hold and no run behind (Scheduler._run_loop,
\* _run_tracked, stop).
TaskHeld == part = "scheduler" => S!TaskHeld

\* TaskHeld, from what Scheduler proves of every number of replicas, ttl and interval.
THEOREM TaskAlwaysHeld == MCSpec => []TaskHeld
<1>1. S!SchedulerAssumption
  BY DEF S!SchedulerAssumption
<1>2. S!SchedulerSpec => []S!TaskHeld
  BY <1>1, S!TasksHeld
<1>3. MCInit => part = "outbox" \/ (part = "scheduler" /\ S!SchedulerInit)
  BY DEF MCInit
<1>4. part = "outbox" /\ [MCNext]_<<part, vars, schedulerVars>> => (part = "outbox")'
  BY DEF MCNext
<1>5. part = "scheduler" /\ [MCNext]_<<part, vars, schedulerVars>>
      => (part = "scheduler")' /\ [S!SchedulerNext]_(S!schedulerVars)
  BY DEF MCNext, schedulerVars, S!schedulerVars, S!loopVars, S!flightVars, S!processVars,
     S!historyVars
<1>6. part = "outbox" \/ S!TaskHeld => TaskHeld
  BY DEF TaskHeld
<1>. QED
  BY <1>2, <1>3, <1>4, <1>5, <1>6, PTL DEF MCSpec, S!SchedulerSpec
=============================================================================
