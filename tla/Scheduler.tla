----------------------------- MODULE Scheduler -----------------------------
(***************************************************************************)
(* Static tasks (server/task_scheduler.jac, impl/task_scheduler.impl.jac):  *)
(* every replica runs the loop of one task over the same ticks, and before  *)
(* a run takes the task's hold and claims the tick, both rows of kv_state   *)
(* (data/impl/store.impl.jac). A run is a thread, and its keeper another.   *)
(*                                                                         *)
(* Time is relative where it can be: a hold has `left` what remains of its  *)
(* ttl, a keeper has waited since its last renewal.                         *)
(***************************************************************************)
EXTENDS Integers, TLAPS

CONSTANTS Replicas,      \* server processes
          NoOwner,
          Interval,      \* of the task; tick k is due at k * Interval
          HoldTtl,       \* hold_ttl
          Beat,          \* hold_ttl / 3
          MaxTime,       \* bound: when the clock stops
          Leavers,       \* bound: replicas whose process may end
          MaxRestarts,   \* bound: processes that take such a replica's place
          MaxBlips       \* bound: database errors, threads refused, crashes, clocks set back

SchedulerAssumption ==
    /\ Leavers \subseteq Replicas /\ NoOwner \notin Replicas \X Int
    /\ Interval \in Nat \ {0} /\ Beat \in Nat \ {0} /\ HoldTtl \in Nat /\ 3 * Beat <= HoldTtl
    /\ MaxTime \in Nat /\ MaxRestarts \in Nat /\ MaxBlips \in Nat

VARIABLES lease,    \* the row lease:sched-run:...
          claimed,  \* the row tick:sched:...
          time,
          phase,    \* of the process: "up", "draining", "stopping", "joined", "exited", "crashed"
          life,     \* how often it was restarted; part of _owner
          loop,     \* where _run_loop is
          due, at,  \* task.next_run as a tick, and `now` of the loop
          flight,   \* where the thread in _in_flight is
          tick,     \* the tick that thread runs for
          keeper,   \* how long _keep_hold has waited, -1 where there is none
          awaited,  \* stop() found the run alive
          late,     \* stop() ran out of its budget
          slow, missed, lapsed,   \* history: see Renewed
          erred,    \* history: a statement about the hold failed
          ran,      \* history: runs of each tick
          blips

loopVars      == <<loop, due, at>>
flightVars    == <<flight, tick, keeper, ran>>
processVars   == <<phase, life, awaited, late>>
historyVars   == <<slow, missed, lapsed>>
schedulerVars == <<lease, claimed, time, loopVars, flightVars, processVars, historyVars, erred, blips>>

Me(r)      == <<r, life[r]>>
Alive(r)   == phase[r] \notin {"exited", "crashed"}
Running(r) == phase[r] \in {"up", "draining"}
Blip       == blips < MaxBlips /\ blips' = blips + 1
Steady     == UNCHANGED blips

\* Beyond any claim in the horizon.
Ticks == 0 .. MaxTime + 1

-----------------------------------------------------------------------------
(* What the database answers.                                              *)

\* kv_acquire_lease. Mutant: an expired hold of another is not told from a live one.
FreeAlways(r) == TRUE
Free(r) == lease.owner \in {NoOwner, Me(r)} \/ lease.left = 0
\* Mutant: a hold is asked for until the next renewal only.
HeldBriefly(r) == lease' = [owner |-> Me(r), left |-> Beat]
Held(r) == lease' = [owner |-> Me(r), left |-> HoldTtl]
\* Mutant: whoever holds it, the row is deleted.
DropAny(r) == lease' = [lease EXCEPT !.owner = NoOwner]
\* kv_release_lease.
Dropped(r) == lease' = IF lease.owner = Me(r) THEN [lease EXCEPT !.owner = NoOwner] ELSE lease

\* kv_claim_tick. Mutant: the last tick claimed can be claimed again.
ClaimableAgain(t) == t >= claimed
Claimable(t) == t > claimed

-----------------------------------------------------------------------------
(* The loop.                                                               *)

NextRun(t) == t \div Interval + 1
Advance(r, now) ==
    /\ loop' = [loop EXCEPT ![r] = "wait"]
    /\ due' = [due EXCEPT ![r] = NextRun(now)]
    /\ at' = [at EXCEPT ![r] = 0]
Goto(r, place) == loop' = [loop EXCEPT ![r] = place] /\ UNCHANGED <<due, at>>

\* Mutant: a task may start beside its earlier run.
NeverRunning(r) == FALSE
StillRunning(r) == flight[r] # "none"

\* A tick is due: now is read once, and may have been set back before it.
PopAt(r, now) ==
    /\ IF phase[r] = "draining" \/ StillRunning(r) THEN Advance(r, now)
       ELSE /\ loop' = [loop EXCEPT ![r] = "hold"] /\ at' = [at EXCEPT ![r] = now] /\ UNCHANGED due
    /\ UNCHANGED <<lease, claimed, time, flightVars, processVars, historyVars, erred>>
Pop(r) ==
    /\ loop[r] = "wait" /\ Running(r) /\ time >= due[r] * Interval
    /\ \/ PopAt(r, time) /\ Steady
       \/ PopAt(r, due[r] * Interval - 1) /\ Blip

HoldFresh(r) ==
    /\ lapsed' = [lapsed EXCEPT ![r] = FALSE]
    /\ slow' = [slow EXCEPT ![r] = FALSE]
    /\ missed' = [missed EXCEPT ![r] = 0]

\* _hold_run: taken, refused, or an error before or after it was taken.
Hold(r) ==
    /\ loop[r] = "hold"
    /\ \/ Free(r) /\ Held(r) /\ Goto(r, "claim") /\ HoldFresh(r) /\ Steady /\ UNCHANGED erred
       \/ ~ Free(r) /\ Advance(r, at[r]) /\ Steady /\ UNCHANGED <<lease, erred, historyVars>>
       \/ Blip /\ Advance(r, at[r]) /\ UNCHANGED <<lease, erred, historyVars>>
       \/ Blip /\ Free(r) /\ Held(r) /\ Advance(r, at[r]) /\ HoldFresh(r) /\ erred' = [erred EXCEPT ![r] = TRUE]
    /\ UNCHANGED <<claimed, time, flightVars, processVars>>

\* _may_fire: an answer that is lost spends the tick.
Claim(r) ==
    /\ loop[r] = "claim"
    /\ \/ /\ Claimable(due[r]) /\ Steady
          /\ claimed' = due[r] /\ tick' = [tick EXCEPT ![r] = due[r]] /\ Goto(r, "launch")
       \/ ~ Claimable(due[r]) /\ Steady /\ Goto(r, "release") /\ UNCHANGED <<claimed, tick>>
       \/ Blip /\ Goto(r, "release") /\ UNCHANGED <<claimed, tick>>
       \/ Blip /\ Claimable(due[r]) /\ claimed' = due[r] /\ Goto(r, "release") /\ UNCHANGED tick
    /\ UNCHANGED <<lease, time, flight, keeper, ran, processVars, historyVars, erred>>

\* _launch: refused under _flight_lock when stopped, or the thread is started.
Launch(r) ==
    /\ loop[r] = "launch"
    /\ \/ Running(r) /\ Steady /\ flight' = [flight EXCEPT ![r] = "started"] /\ Advance(r, at[r])
       \/ ~ Running(r) /\ Steady /\ Goto(r, "release") /\ UNCHANGED flight
       \/ Running(r) /\ Blip /\ Goto(r, "release") /\ UNCHANGED flight
    /\ UNCHANGED <<lease, claimed, time, tick, keeper, ran, processVars, historyVars, erred>>

\* _release_run logs an error: the hold then runs out by itself.
Release(r) ==
    \/ Dropped(r) /\ Steady /\ UNCHANGED erred
    \/ Blip /\ erred' = [erred EXCEPT ![r] = TRUE] /\ UNCHANGED lease

GiveBack(r) ==
    /\ loop[r] = "release" /\ Release(r) /\ Advance(r, at[r])
    /\ HoldFresh(r)
    /\ UNCHANGED <<claimed, time, flightVars, processVars>>

LoopEnds(r) ==
    /\ loop[r] = "wait" /\ ~ Running(r) /\ Goto(r, "ended")
    /\ UNCHANGED <<lease, claimed, time, flightVars, processVars, historyVars, erred, blips>>

-----------------------------------------------------------------------------
(* The run and its keeper.                                                 *)

StartKeeper(r) ==
    /\ flight[r] = "started"
    /\ \/ /\ Steady /\ flight' = [flight EXCEPT ![r] = "executing"]
          /\ keeper' = [keeper EXCEPT ![r] = 0]
          /\ ran' = [ran EXCEPT ![tick[r]] = @ + 1]
       \/ Blip /\ flight' = [flight EXCEPT ![r] = "beat"] /\ UNCHANGED <<keeper, ran>>
    /\ UNCHANGED <<lease, claimed, time, loopVars, tick, processVars, historyVars, erred>>

\* _keep_hold, also while the run that has ended joins it.
Renew(r) ==
    /\ keeper[r] = Beat /\ keeper' = [keeper EXCEPT ![r] = 0]
    /\ \/ Free(r) /\ Held(r) /\ HoldFresh(r) /\ Steady
       \/ ~ Free(r) /\ Steady /\ UNCHANGED <<lease, historyVars>>
       \/ /\ Blip /\ missed' = [missed EXCEPT ![r] = IF @ = 2 THEN 2 ELSE @ + 1]
          /\ UNCHANGED <<lease, slow, lapsed>>
    /\ UNCHANGED <<claimed, time, loopVars, flight, tick, ran, processVars, erred>>

Finish(r) ==
    /\ flight[r] = "executing" /\ flight' = [flight EXCEPT ![r] = "beat"]
    /\ UNCHANGED <<lease, claimed, time, loopVars, tick, keeper, ran, processVars, historyVars, erred, blips>>

KeeperEnds(r) ==
    /\ flight[r] = "beat" /\ keeper[r] >= 0 /\ keeper' = [keeper EXCEPT ![r] = -1]
    /\ UNCHANGED <<lease, claimed, time, loopVars, flight, tick, ran, processVars, historyVars, erred, blips>>

\* Mutant: the keeper is told to end and not waited for.
JoinedNever(r) == TRUE
KeeperJoined(r) == keeper[r] = -1

RunReleases(r) ==
    /\ flight[r] = "beat" /\ KeeperJoined(r)
    /\ Release(r) /\ flight' = [flight EXCEPT ![r] = "released"]
    /\ UNCHANGED <<claimed, time, loopVars, tick, keeper, ran, processVars, historyVars>>

Landed(r) ==
    /\ flight[r] = "released" /\ flight' = [flight EXCEPT ![r] = "none"]
    /\ tick' = [tick EXCEPT ![r] = 0] /\ HoldFresh(r)
    /\ UNCHANGED <<lease, claimed, time, loopVars, keeper, ran, processVars, erred, blips>>

-----------------------------------------------------------------------------
(* The process.                                                            *)

\* DrainState.start.
Drain(r) ==
    /\ phase[r] = "up" /\ phase' = [phase EXCEPT ![r] = "draining"]
    /\ UNCHANGED <<lease, claimed, time, loopVars, flightVars, life, awaited, late, historyVars, erred, blips>>

Stop(r) ==
    /\ Running(r) /\ phase' = [phase EXCEPT ![r] = "stopping"]
    /\ UNCHANGED <<lease, claimed, time, loopVars, flightVars, life, awaited, late, historyVars, erred, blips>>

\* What stop() looks at when the loop has been joined, or its budget is spent.
InFlight(r) == flight[r] # "none"
\* Mutant: the loop is not joined before.
LoopGone(r) == TRUE
LoopJoined(r) == loop[r] = "ended"
JoinLoop(r) ==
    /\ phase[r] = "stopping"
    /\ \/ LoopJoined(r) /\ UNCHANGED late
       \/ late' = [late EXCEPT ![r] = TRUE]
    /\ phase' = [phase EXCEPT ![r] = "joined"]
    /\ awaited' = [awaited EXCEPT ![r] = InFlight(r)]
    /\ UNCHANGED <<lease, claimed, time, loopVars, flightVars, life, historyVars, erred, blips>>

\* The threads of a process end with it (they are daemons).
Ends(r) ==
    /\ loop' = [loop EXCEPT ![r] = "ended"] /\ keeper' = [keeper EXCEPT ![r] = -1]
    /\ due' = [due EXCEPT ![r] = 0] /\ at' = [at EXCEPT ![r] = 0] /\ tick' = [tick EXCEPT ![r] = 0]
    /\ awaited' = [awaited EXCEPT ![r] = FALSE]
    /\ HoldFresh(r)
    /\ UNCHANGED <<lease, claimed, time, life, ran>>

\* stop() has waited for the run, or names it.
Exit(r) ==
    /\ phase[r] = "joined" /\ phase' = [phase EXCEPT ![r] = "exited"]
    /\ \/ (awaited[r] => flight[r] = "none") /\ UNCHANGED late
       \/ late' = [late EXCEPT ![r] = TRUE]
    /\ Ends(r) /\ UNCHANGED <<flight, erred, blips>>

Crash(r) ==
    /\ Blip /\ phase' = [phase EXCEPT ![r] = "crashed"]
    /\ flight' = [flight EXCEPT ![r] = "none"] /\ late' = [late EXCEPT ![r] = FALSE]
    /\ Ends(r) /\ UNCHANGED erred

\* Another process: start() computes next_run afresh.
Restart(r) ==
    /\ phase[r] = "crashed" /\ life[r] < MaxRestarts
    /\ life' = [life EXCEPT ![r] = @ + 1] /\ phase' = [phase EXCEPT ![r] = "up"]
    /\ Advance(r, time)
    /\ flight' = [flight EXCEPT ![r] = "none"] /\ late' = [late EXCEPT ![r] = FALSE]
    /\ erred' = [erred EXCEPT ![r] = FALSE]
    /\ UNCHANGED <<lease, claimed, time, tick, keeper, awaited, historyVars, ran, blips>>

\* Time passes before a hold has its keeper, or a keeper that is due renews it.
Unkept(r) == Alive(r) /\ (loop[r] \in {"claim", "launch", "release"} \/ flight[r] \in {"started", "released"} \/ keeper[r] = Beat)
Pass ==
    /\ time < MaxTime /\ time' = time + 1
    /\ lease' = [lease EXCEPT !.left = IF @ = 0 THEN 0 ELSE @ - 1]
    /\ keeper' = [r \in Replicas |-> IF keeper[r] \in 0 .. Beat - 1 THEN keeper[r] + 1 ELSE keeper[r]]
    /\ slow' = [r \in Replicas |-> slow[r] \/ Unkept(r)]
    /\ lapsed' = [r \in Replicas |-> lapsed[r] \/ (lease.owner = Me(r) /\ lease.left <= 1)]
    /\ UNCHANGED <<claimed, loopVars, flight, tick, ran, processVars, missed, erred, blips>>

-----------------------------------------------------------------------------
SchedulerInit ==
    /\ lease = [owner |-> NoOwner, left |-> 0] /\ claimed = 0 /\ time = 0
    /\ phase = [r \in Replicas |-> "up"] /\ life = [r \in Replicas |-> 0]
    /\ loop = [r \in Replicas |-> "wait"] /\ due = [r \in Replicas |-> NextRun(0)] /\ at = [r \in Replicas |-> 0]
    /\ flight = [r \in Replicas |-> "none"] /\ tick = [r \in Replicas |-> 0] /\ keeper = [r \in Replicas |-> -1]
    /\ awaited = [r \in Replicas |-> FALSE] /\ late = [r \in Replicas |-> FALSE]
    /\ slow = [r \in Replicas |-> FALSE] /\ missed = [r \in Replicas |-> 0] /\ lapsed = [r \in Replicas |-> FALSE]
    /\ erred = [r \in Replicas |-> FALSE] /\ ran = [t \in Ticks |-> 0] /\ blips = 0

LoopStep(r) == Pop(r) \/ Hold(r) \/ Claim(r) \/ Launch(r) \/ GiveBack(r) \/ LoopEnds(r)
RunStep(r)  == StartKeeper(r) \/ Renew(r) \/ Finish(r) \/ KeeperEnds(r) \/ RunReleases(r) \/ Landed(r)
ProcessStep(r) == Drain(r) \/ Stop(r) \/ JoinLoop(r) \/ Exit(r) \/ Crash(r)

SchedulerNext ==
    \/ \E r \in Replicas : Alive(r) /\ (LoopStep(r) \/ RunStep(r))
    \/ \E r \in Leavers : (Alive(r) /\ ProcessStep(r)) \/ Restart(r)
    \/ Pass

SchedulerSpec == SchedulerInit /\ [][SchedulerNext]_schedulerVars

-----------------------------------------------------------------------------
\* No tick is run twice, by whatever replicas, restarts and clocks set back
\* (_may_fire, kv_claim_tick).
TickOnce == \A t \in Ticks : ran[t] <= 1

\* A run that is under way has its task's hold, or let it run out: nothing else
\* takes a hold off its run (_hold_run, _release_run, _run_tracked).
UnderWay(r) == Alive(r) /\ flight[r] \in {"started", "executing"}
HoldKept == \A r \in Replicas :
    UnderWay(r) => (lease.owner = Me(r) /\ lease.left > 0) \/ lapsed[r]

\* A run's hold runs out only when the process was late with a renewal, or two
\* renewals in a row failed: one failure is made up for (_keep_hold).
Renewed == \A r \in Replicas : UnderWay(r) /\ lapsed[r] => slow[r] \/ missed[r] = 2

\* A hold outlives its run only where a statement about it failed
\* (_run_tracked joins its keeper, _launch and _run_loop give back).
NoStrayHold == \A r \in Replicas :
    Alive(r) /\ lease.owner = Me(r) =>
        \/ loop[r] \in {"claim", "launch", "release"}
        \/ flight[r] \in {"started", "executing", "beat"}
        \/ erred[r]

\* Where stop() returns within its budget, no run is left, nor the hold of one
\* (Scheduler.stop, _launch).
StopWaits == \A r \in Replicas : phase[r] = "exited" /\ ~ late[r] =>
    /\ flight[r] = "none"
    /\ lease.owner = Me(r) => erred[r]

\* What a static task is promised.
TaskHeld == TickOnce /\ HoldKept /\ Renewed /\ NoStrayHold /\ StopWaits

-----------------------------------------------------------------------------
(* Proofs.                                                                 *)

Owners == {NoOwner} \cup (Replicas \X Int)
TypeInv ==
    /\ claimed \in Int /\ time \in Int /\ lease \in [owner : Owners, left : Nat]
    /\ loop \in [Replicas -> {"wait", "hold", "claim", "launch", "release", "ended"}]
    /\ flight \in [Replicas -> {"none", "started", "executing", "beat", "released"}]
    /\ phase \in [Replicas -> {"up", "draining", "stopping", "joined", "exited", "crashed"}]
    /\ life \in [Replicas -> Int] /\ due \in [Replicas -> Int] /\ at \in [Replicas -> Int]
    /\ tick \in [Replicas -> Int] /\ ran \in [Ticks -> Nat] /\ lapsed \in [Replicas -> BOOLEAN]

\* The loop of a process goes after a tick only while none of its runs is there.
Going(r)   == loop[r] \in {"hold", "claim", "launch", "release"}
OneAtATime == \A r \in Replicas : Alive(r) /\ Going(r) => flight[r] = "none"

\* r has claimed t and not begun to run it.
Pending(r, t) == Alive(r) /\ tick[r] = t /\ (loop[r] = "launch" \/ flight[r] = "started")
ClaimsOnce ==
    /\ \A t \in Ticks : ran[t] <= 1 /\ (ran[t] > 0 => t <= claimed)
    /\ \A r \in Replicas, t \in Ticks : Pending(r, t) => t <= claimed /\ ran[t] = 0
    /\ \A r, q \in Replicas, t \in Ticks : Pending(r, t) /\ Pending(q, t) => r = q

IInv == TypeInv /\ OneAtATime /\ ClaimsOnce

\* Between the hold and the end of the run nobody else has the hold.
Holding(r) == Alive(r) /\ (loop[r] \in {"claim", "launch"} \/ flight[r] \in {"started", "executing"})
HoldInv == \A r \in Replicas : Holding(r) => (lease.owner = Me(r) /\ lease.left > 0) \/ lapsed[r]

\* The rest of the types, and where a keeper is.
KeeperInv ==
    /\ keeper \in [Replicas -> -1 .. Beat] /\ missed \in [Replicas -> 0 .. 2]
    /\ slow \in [Replicas -> BOOLEAN] /\ erred \in [Replicas -> BOOLEAN]
    /\ awaited \in [Replicas -> BOOLEAN] /\ late \in [Replicas -> BOOLEAN]
    /\ \A r \in Replicas :
          /\ keeper[r] >= 0 => Alive(r) /\ flight[r] \in {"executing", "beat"}
          /\ Alive(r) /\ flight[r] = "executing" => keeper[r] >= 0

\* What the process has left: no hold it does not know of, under this or an earlier
\* life, and, once stop() looked, no run it does not wait for.
TidyInv ==
    /\ NoStrayHold /\ StopWaits
    /\ \A r \in Replicas, n \in Int : lease.owner = <<r, n>> => n <= life[r]
    /\ \A r \in Replicas : phase[r] = "joined" /\ ~ late[r] =>
          loop[r] = "ended" /\ (awaited[r] \/ flight[r] = "none")

\* While the process is in time and at most one renewal failed, the hold has what the
\* beats that were waited for leave of its ttl.
Waited(r) == IF keeper[r] = -1 THEN 0 ELSE keeper[r]
Kept(r)   ==
    /\ lease.owner = Me(r) /\ ~ lapsed[r]
    /\ lease.left + Waited(r) + (IF missed[r] = 0 THEN 0 ELSE Beat) >= HoldTtl
BeatInv == \A r \in Replicas : Holding(r) /\ ~ slow[r] /\ missed[r] < 2 => Kept(r)

LeaveInv == KeeperInv /\ TidyInv /\ BeatInv

\* The tick after a time is a number.
LEMMA NextRunInt == ASSUME SchedulerAssumption, NEW t \in Int PROVE NextRun(t) \in Int
  BY DEF SchedulerAssumption, NextRun

\* A process may be an owner.
LEMMA MeOwner == ASSUME TypeInv, NEW r \in Replicas PROVE Me(r) \in Owners
  BY DEF TypeInv, Me, Owners

\* Every step keeps the types.
LEMMA TypeStep ==
    ASSUME SchedulerAssumption, TypeInv, [SchedulerNext]_schedulerVars
    PROVE  TypeInv'
<1> USE DEF TypeInv, SchedulerAssumption, Alive, schedulerVars, loopVars, flightVars,
            processVars, historyVars, Blip, Steady
<1>. NoOwner \in Owners
  BY DEF Owners
<1>1. ASSUME NEW r \in Replicas, Pop(r) PROVE TypeInv'
  BY <1>1, NextRunInt, MeOwner DEF Pop, PopAt, Advance, StillRunning, Running
<1>2. ASSUME NEW r \in Replicas, Hold(r) PROVE TypeInv'
  <2>1. lease' \in [owner : Owners, left : Nat]
    BY <1>2, MeOwner DEF Hold, Free, Held, Goto, Advance, HoldFresh
  <2>2. (due \in [Replicas -> Int] /\ at \in [Replicas -> Int] /\ tick \in [Replicas -> Int])'
    BY <1>2, NextRunInt DEF Hold, Free, Held, Goto, Advance, HoldFresh
  <2>3. /\ (loop \in [Replicas -> {"wait", "hold", "claim", "launch", "release", "ended"}])'
        /\ (lapsed \in [Replicas -> BOOLEAN])'
    BY <1>2 DEF Hold, Free, Held, Goto, Advance, HoldFresh
  <2>. QED
    BY <1>2, <2>1, <2>2, <2>3 DEF Hold, Free, Held, Goto, Advance, HoldFresh
<1>3. ASSUME NEW r \in Replicas, Claim(r) PROVE TypeInv'
  BY <1>3, NextRunInt, MeOwner DEF Claim, Claimable, Goto
<1>4. ASSUME NEW r \in Replicas, Launch(r) PROVE TypeInv'
  BY <1>4, NextRunInt, MeOwner DEF Launch, Advance, Goto, Running
<1>5. ASSUME NEW r \in Replicas, GiveBack(r) PROVE TypeInv'
  BY <1>5, NextRunInt, MeOwner DEF GiveBack, Release, Dropped, Advance, HoldFresh
<1>6. ASSUME NEW r \in Replicas, LoopEnds(r) PROVE TypeInv'
  BY <1>6, NextRunInt, MeOwner DEF LoopEnds, Goto
<1>7. ASSUME NEW r \in Replicas, StartKeeper(r) PROVE TypeInv'
  BY <1>7, NextRunInt, MeOwner DEF StartKeeper
<1>8. ASSUME NEW r \in Replicas, Renew(r) PROVE TypeInv'
  <2>1. lease' \in [owner : Owners, left : Nat]
    BY <1>8, MeOwner DEF Renew, Free, Held, HoldFresh
  <2>2. (due \in [Replicas -> Int] /\ at \in [Replicas -> Int] /\ tick \in [Replicas -> Int])'
    BY <1>8, NextRunInt DEF Renew, Free, Held, HoldFresh
  <2>3. /\ (loop \in [Replicas -> {"wait", "hold", "claim", "launch", "release", "ended"}])'
        /\ (lapsed \in [Replicas -> BOOLEAN])'
    BY <1>8 DEF Renew, Free, Held, HoldFresh
  <2>. QED
    BY <1>8, <2>1, <2>2, <2>3 DEF Renew, Free, Held, HoldFresh
<1>9. ASSUME NEW r \in Replicas, Finish(r) PROVE TypeInv'
  BY <1>9, NextRunInt, MeOwner DEF Finish
<1>10. ASSUME NEW r \in Replicas, KeeperEnds(r) PROVE TypeInv'
  BY <1>10, NextRunInt, MeOwner DEF KeeperEnds
<1>11. ASSUME NEW r \in Replicas, RunReleases(r) PROVE TypeInv'
  BY <1>11, NextRunInt, MeOwner DEF RunReleases, Release, Dropped
<1>12. ASSUME NEW r \in Replicas, Landed(r) PROVE TypeInv'
  BY <1>12, NextRunInt, MeOwner DEF Landed, HoldFresh
<1>13. ASSUME NEW r \in Replicas, Drain(r) PROVE TypeInv'
  BY <1>13, NextRunInt, MeOwner DEF Drain
<1>14. ASSUME NEW r \in Replicas, Stop(r) PROVE TypeInv'
  BY <1>14, NextRunInt, MeOwner DEF Stop
<1>15. ASSUME NEW r \in Replicas, JoinLoop(r) PROVE TypeInv'
  BY <1>15, NextRunInt, MeOwner DEF JoinLoop
<1>16. ASSUME NEW r \in Replicas, Exit(r) PROVE TypeInv'
  BY <1>16, NextRunInt, MeOwner DEF Exit, Ends, HoldFresh
<1>17. ASSUME NEW r \in Replicas, Crash(r) PROVE TypeInv'
  BY <1>17, NextRunInt, MeOwner DEF Crash, Ends, HoldFresh
<1>18. ASSUME NEW r \in Replicas, Restart(r) PROVE TypeInv'
  BY <1>18, NextRunInt, MeOwner DEF Restart, Advance
<1>19. CASE Pass
  BY <1>19, NextRunInt, MeOwner DEF Pass
<1>20. CASE UNCHANGED schedulerVars
  BY <1>20
<1>. QED
  BY <1>1, <1>2, <1>3, <1>4, <1>5, <1>6, <1>7, <1>8, <1>9, <1>10, <1>11, <1>12, <1>13,
     <1>14, <1>15, <1>16, <1>17, <1>18, <1>19, <1>20 DEF SchedulerNext, LoopStep, RunStep,
     ProcessStep, SchedulerAssumption

\* A loop goes after a tick only beside no run (_still_running, _launch).
LEMMA LoopStepKeeps ==
    ASSUME SchedulerAssumption, TypeInv, OneAtATime, [SchedulerNext]_schedulerVars
    PROVE  OneAtATime'
<1> USE DEF TypeInv, OneAtATime, Going, Alive, schedulerVars, loopVars, flightVars,
            processVars, historyVars, Blip, Steady
<1>1. ASSUME NEW r \in Replicas, Alive(r), Pop(r) PROVE OneAtATime'
  BY <1>1 DEF Pop, PopAt, Advance, StillRunning, Running
<1>2. ASSUME NEW r \in Replicas, Alive(r), Hold(r) PROVE OneAtATime'
  BY <1>2 DEF Hold, Free, Held, Goto, Advance, HoldFresh
<1>3. ASSUME NEW r \in Replicas, Alive(r), Claim(r) PROVE OneAtATime'
  BY <1>3 DEF Claim, Claimable, Goto
<1>4. ASSUME NEW r \in Replicas, Alive(r), Launch(r) PROVE OneAtATime'
  BY <1>4 DEF Launch, Advance, Goto, Running
<1>5. ASSUME NEW r \in Replicas, Alive(r), GiveBack(r) PROVE OneAtATime'
  BY <1>5 DEF GiveBack, Release, Dropped, Advance, HoldFresh
<1>6. ASSUME NEW r \in Replicas, Alive(r), LoopEnds(r) PROVE OneAtATime'
  BY <1>6 DEF LoopEnds, Goto
<1>7. ASSUME NEW r \in Replicas, Alive(r), StartKeeper(r) PROVE OneAtATime'
  BY <1>7 DEF StartKeeper
<1>8. ASSUME NEW r \in Replicas, Alive(r), Renew(r) PROVE OneAtATime'
  BY <1>8 DEF Renew, Free, Held, HoldFresh
<1>9. ASSUME NEW r \in Replicas, Alive(r), Finish(r) PROVE OneAtATime'
  BY <1>9 DEF Finish
<1>10. ASSUME NEW r \in Replicas, Alive(r), KeeperEnds(r) PROVE OneAtATime'
  BY <1>10 DEF KeeperEnds
<1>11. ASSUME NEW r \in Replicas, Alive(r), RunReleases(r) PROVE OneAtATime'
  BY <1>11 DEF RunReleases, Release, Dropped
<1>12. ASSUME NEW r \in Replicas, Alive(r), Landed(r) PROVE OneAtATime'
  BY <1>12 DEF Landed, HoldFresh
<1>13. ASSUME NEW r \in Replicas, Alive(r), Drain(r) PROVE OneAtATime'
  BY <1>13 DEF Drain
<1>14. ASSUME NEW r \in Replicas, Alive(r), Stop(r) PROVE OneAtATime'
  BY <1>14 DEF Stop
<1>15. ASSUME NEW r \in Replicas, Alive(r), JoinLoop(r) PROVE OneAtATime'
  BY <1>15 DEF JoinLoop
<1>16. ASSUME NEW r \in Replicas, Alive(r), Exit(r) PROVE OneAtATime'
  BY <1>16 DEF Exit, Ends, HoldFresh
<1>17. ASSUME NEW r \in Replicas, Alive(r), Crash(r) PROVE OneAtATime'
  BY <1>17 DEF Crash, Ends, HoldFresh
<1>18. ASSUME NEW r \in Replicas, Restart(r) PROVE OneAtATime'
  BY <1>18 DEF Restart, Advance
<1>19. CASE Pass
  BY <1>19 DEF Pass
<1>20. CASE UNCHANGED schedulerVars
  BY <1>20
<1>. QED
  BY <1>1, <1>2, <1>3, <1>4, <1>5, <1>6, <1>7, <1>8, <1>9, <1>10, <1>11, <1>12, <1>13,
     <1>14, <1>15, <1>16, <1>17, <1>18, <1>19, <1>20 DEF SchedulerNext, LoopStep, RunStep,
     ProcessStep, SchedulerAssumption

\* Every step keeps claims and runs one for a tick (kv_claim_tick).
LEMMA ClaimStep ==
    ASSUME SchedulerAssumption, TypeInv, OneAtATime, ClaimsOnce, [SchedulerNext]_schedulerVars
    PROVE  ClaimsOnce'
<1> USE DEF TypeInv, OneAtATime, Going, Pending, Alive, schedulerVars, loopVars, flightVars,
            processVars, historyVars, Blip, Steady
<1> DEFINE NoneNew == /\ claimed' = claimed /\ ran' = ran
                    /\ \A q \in Replicas, t \in Ticks : Pending(q, t)' => Pending(q, t)
<1>1. ASSUME NEW r \in Replicas, Alive(r), Pop(r) PROVE NoneNew
  BY <1>1 DEF Pop, PopAt, Advance, StillRunning, Running
<1>2. ASSUME NEW r \in Replicas, Alive(r), Hold(r) PROVE NoneNew
  BY <1>2 DEF Hold, Free, Held, Goto, Advance, HoldFresh
<1>3. ASSUME NEW r \in Replicas, Alive(r), Claim(r) PROVE ClaimsOnce'
  <2>1. \A q \in Replicas, t \in Ticks : Pending(q, t)' /\ q # r => Pending(q, t)
    BY <1>3 DEF Claim, Goto
  <2>2. \A t \in Ticks : Pending(r, t)' => t = claimed' /\ claimed' > claimed
    BY <1>3 DEF Claim, Claimable, Goto
  <2>3. ran' = ran /\ claimed' >= claimed /\ claimed' \in Int
    BY <1>3 DEF Claim, Claimable, Goto
  <2>4. \A t \in Ticks : ran'[t] <= 1 /\ (ran'[t] > 0 => t <= claimed')
    BY <2>3 DEF ClaimsOnce, Ticks
  <2>5. \A q \in Replicas, t \in Ticks : Pending(q, t)' => t <= claimed' /\ ran'[t] = 0
    <3>1. ASSUME NEW t \in Ticks, Pending(r, t)' PROVE ran[t] = 0
      <4>1. t = claimed' /\ ~ (claimed' <= claimed) /\ ran[t] \in Nat
        BY <2>2, <2>3, <3>1
      <4>. QED
        BY <4>1 DEF ClaimsOnce
    <3>2. \A q \in Replicas, t \in Ticks : Pending(q, t)' /\ q # r => t <= claimed /\ ran[t] = 0
      BY <2>1 DEF ClaimsOnce
    <3>. QED
      BY <2>2, <2>3, <3>1, <3>2 DEF Ticks
  <2>6. \A q \in Replicas, t \in Ticks : Pending(q, t)' /\ Pending(r, t)' => q = r
    BY <2>1, <2>2 DEF ClaimsOnce, Ticks
  <2>. QED
    BY <2>1, <2>4, <2>5, <2>6 DEF ClaimsOnce
<1>4. ASSUME NEW r \in Replicas, Alive(r), Launch(r) PROVE NoneNew
  BY <1>4 DEF Launch, Advance, Goto, Running
<1>5. ASSUME NEW r \in Replicas, Alive(r), GiveBack(r) PROVE NoneNew
  BY <1>5 DEF GiveBack, Release, Dropped, Advance, HoldFresh
<1>6. ASSUME NEW r \in Replicas, Alive(r), LoopEnds(r) PROVE NoneNew
  BY <1>6 DEF LoopEnds, Goto
<1>7. ASSUME NEW r \in Replicas, Alive(r), StartKeeper(r) PROVE ClaimsOnce'
  <2>1. \A q \in Replicas, t \in Ticks : Pending(q, t)' => Pending(q, t) /\ q # r
    BY <1>7 DEF StartKeeper
  <2>2. claimed' = claimed /\ Pending(r, tick[r])
    BY <1>7 DEF StartKeeper
  <2>3. CASE ran' = ran
    BY <2>1, <2>2, <2>3 DEF ClaimsOnce
  <2>4. CASE ran' = [ran EXCEPT ![tick[r]] = @ + 1]
    <3>1. \A t \in Ticks : ran'[t] = IF t = tick[r] THEN 1 ELSE ran[t]
      BY <2>2, <2>4 DEF ClaimsOnce
    <3>. QED
      BY <2>1, <2>2, <3>1 DEF ClaimsOnce, Ticks
  <2>. QED
    BY <1>7, <2>3, <2>4 DEF StartKeeper
<1>8. ASSUME NEW r \in Replicas, Alive(r), Renew(r) PROVE NoneNew
  BY <1>8 DEF Renew, Free, Held, HoldFresh
<1>9. ASSUME NEW r \in Replicas, Alive(r), Finish(r) PROVE NoneNew
  BY <1>9 DEF Finish
<1>10. ASSUME NEW r \in Replicas, Alive(r), KeeperEnds(r) PROVE NoneNew
  BY <1>10 DEF KeeperEnds
<1>11. ASSUME NEW r \in Replicas, Alive(r), RunReleases(r) PROVE NoneNew
  BY <1>11 DEF RunReleases, Release, Dropped
<1>12. ASSUME NEW r \in Replicas, Alive(r), Landed(r) PROVE NoneNew
  BY <1>12 DEF Landed, HoldFresh
<1>13. ASSUME NEW r \in Replicas, Alive(r), Drain(r) PROVE NoneNew
  BY <1>13 DEF Drain
<1>14. ASSUME NEW r \in Replicas, Alive(r), Stop(r) PROVE NoneNew
  BY <1>14 DEF Stop
<1>15. ASSUME NEW r \in Replicas, Alive(r), JoinLoop(r) PROVE NoneNew
  BY <1>15 DEF JoinLoop
<1>16. ASSUME NEW r \in Replicas, Alive(r), Exit(r) PROVE NoneNew
  BY <1>16 DEF Exit, Ends, HoldFresh
<1>17. ASSUME NEW r \in Replicas, Alive(r), Crash(r) PROVE NoneNew
  BY <1>17 DEF Crash, Ends, HoldFresh
<1>18. ASSUME NEW r \in Replicas, Restart(r) PROVE NoneNew
  BY <1>18 DEF Restart, Advance
<1>19. Pass => NoneNew
  BY DEF Pass
<1>20. UNCHANGED schedulerVars => NoneNew
  OBVIOUS
<1>21. NoneNew => ClaimsOnce'
  BY DEF ClaimsOnce
<1>. QED
  BY <1>1, <1>2, <1>3, <1>4, <1>5, <1>6, <1>7, <1>8, <1>9, <1>10, <1>11, <1>12, <1>13,
     <1>14, <1>15, <1>16, <1>17, <1>18, <1>19, <1>20, <1>21 DEF SchedulerNext, LoopStep,
     RunStep, ProcessStep, SchedulerAssumption

\* No step takes the hold of a run but the passing of its ttl (kv_acquire_lease,
\* kv_release_lease).
LEMMA HoldStep ==
    ASSUME SchedulerAssumption, TypeInv, OneAtATime, HoldInv, [SchedulerNext]_schedulerVars
    PROVE  HoldInv'
<1> USE DEF TypeInv, OneAtATime, Going, HoldInv, Holding, Me, SchedulerAssumption, Alive,
            schedulerVars, loopVars, flightVars, processVars, historyVars, Blip, Steady
<1>1. ASSUME NEW r \in Replicas, Alive(r), Pop(r) PROVE HoldInv'
  BY <1>1 DEF Pop, PopAt, Advance, StillRunning, Running
<1>2. ASSUME NEW r \in Replicas, Alive(r), Hold(r) PROVE HoldInv'
  BY <1>2 DEF Hold, Free, Held, Goto, Advance, HoldFresh
<1>3. ASSUME NEW r \in Replicas, Alive(r), Claim(r) PROVE HoldInv'
  BY <1>3 DEF Claim, Claimable, Goto
<1>4. ASSUME NEW r \in Replicas, Alive(r), Launch(r) PROVE HoldInv'
  BY <1>4 DEF Launch, Advance, Goto, Running
<1>5. ASSUME NEW r \in Replicas, Alive(r), GiveBack(r) PROVE HoldInv'
  BY <1>5 DEF GiveBack, Release, Dropped, Advance, HoldFresh
<1>6. ASSUME NEW r \in Replicas, Alive(r), LoopEnds(r) PROVE HoldInv'
  BY <1>6 DEF LoopEnds, Goto
<1>7. ASSUME NEW r \in Replicas, Alive(r), StartKeeper(r) PROVE HoldInv'
  BY <1>7 DEF StartKeeper
<1>8. ASSUME NEW r \in Replicas, Alive(r), Renew(r) PROVE HoldInv'
  BY <1>8 DEF Renew, Free, Held, HoldFresh
<1>9. ASSUME NEW r \in Replicas, Alive(r), Finish(r) PROVE HoldInv'
  BY <1>9 DEF Finish
<1>10. ASSUME NEW r \in Replicas, Alive(r), KeeperEnds(r) PROVE HoldInv'
  BY <1>10 DEF KeeperEnds
<1>11. ASSUME NEW r \in Replicas, Alive(r), RunReleases(r) PROVE HoldInv'
  BY <1>11 DEF RunReleases, Release, Dropped
<1>12. ASSUME NEW r \in Replicas, Alive(r), Landed(r) PROVE HoldInv'
  BY <1>12 DEF Landed, HoldFresh
<1>13. ASSUME NEW r \in Replicas, Alive(r), Drain(r) PROVE HoldInv'
  BY <1>13 DEF Drain
<1>14. ASSUME NEW r \in Replicas, Alive(r), Stop(r) PROVE HoldInv'
  BY <1>14 DEF Stop
<1>15. ASSUME NEW r \in Replicas, Alive(r), JoinLoop(r) PROVE HoldInv'
  BY <1>15 DEF JoinLoop
<1>16. ASSUME NEW r \in Replicas, Alive(r), Exit(r) PROVE HoldInv'
  BY <1>16 DEF Exit, Ends, HoldFresh
<1>17. ASSUME NEW r \in Replicas, Alive(r), Crash(r) PROVE HoldInv'
  BY <1>17 DEF Crash, Ends, HoldFresh
<1>18. ASSUME NEW r \in Replicas, Restart(r) PROVE HoldInv'
  BY <1>18 DEF Restart, Advance
<1>19. CASE Pass
  <2>1. \A r \in Replicas : Holding(r)' => Holding(r) /\ Me(r)' = Me(r)
    BY <1>19 DEF Pass
  <2>2. lease'.owner = lease.owner /\ (lease.left > 1 => lease'.left > 0)
    BY <1>19 DEF Pass
  <2>3. \A r \in Replicas : lapsed[r] \/ (lease.owner = Me(r) /\ lease.left <= 1) => lapsed'[r]
    BY <1>19 DEF Pass
  <2>. QED
    BY <2>1, <2>2, <2>3
<1>20. CASE UNCHANGED schedulerVars
  BY <1>20
<1>. QED
  BY <1>1, <1>2, <1>3, <1>4, <1>5, <1>6, <1>7, <1>8, <1>9, <1>10, <1>11, <1>12, <1>13,
     <1>14, <1>15, <1>16, <1>17, <1>18, <1>19, <1>20 DEF SchedulerNext, LoopStep, RunStep,
     ProcessStep, SchedulerAssumption

\* What a release leaves of the hold (kv_release_lease).
LEMMA Released ==
    ASSUME SchedulerAssumption, TypeInv, KeeperInv, NEW r \in Replicas, Release(r)
    PROVE  /\ \A q \in Replicas, n \in Int : lease'.owner = <<q, n>> => lease.owner = <<q, n>>
           /\ lease'.owner = Me(r) => erred'[r]
           /\ \A q \in Replicas : q # r => erred'[q] = erred[q]
           /\ (erred \in [Replicas -> BOOLEAN])'
<1>. \A q \in Replicas, n \in Int : <<q, n>> # NoOwner
  BY DEF SchedulerAssumption
<1>. Me(r) # NoOwner
  BY DEF TypeInv, Me
<1>1. CASE Dropped(r) /\ Steady /\ UNCHANGED erred
  BY <1>1 DEF Dropped, TypeInv, KeeperInv
<1>2. CASE Blip /\ erred' = [erred EXCEPT ![r] = TRUE] /\ UNCHANGED lease
  BY <1>2 DEF TypeInv, KeeperInv
<1>. QED
  BY <1>1, <1>2 DEF Release

\* A keeper is there from the start of its run until the run joins it (_run_tracked).
LEMMA KeeperStep ==
    ASSUME SchedulerAssumption, TypeInv, OneAtATime, KeeperInv,
           [SchedulerNext]_schedulerVars
    PROVE  KeeperInv'
<1> USE DEF TypeInv, OneAtATime, Going, KeeperInv, SchedulerAssumption,
            Alive, schedulerVars, loopVars, flightVars,
            processVars, historyVars, Blip, Steady
<1>1. ASSUME NEW r \in Replicas, Alive(r), Pop(r) PROVE KeeperInv'
  BY <1>1 DEF Pop, PopAt, Advance, StillRunning, Running
<1>2. ASSUME NEW r \in Replicas, Alive(r), Hold(r) PROVE KeeperInv'
  <2>1. (keeper \in [Replicas -> -1 .. Beat] /\ missed \in [Replicas -> 0 .. 2])'
    BY <1>2 DEF Hold, Free, Held, Goto, Advance, HoldFresh
  <2>2. /\ (slow \in [Replicas -> BOOLEAN] /\ erred \in [Replicas -> BOOLEAN])'
        /\ (awaited \in [Replicas -> BOOLEAN] /\ late \in [Replicas -> BOOLEAN])'
    BY <1>2 DEF Hold, Free, Held, Goto, Advance, HoldFresh
  <2>3. UNCHANGED <<keeper, flight, phase>>
    BY <1>2 DEF Hold, Free, Held, Goto, Advance, HoldFresh
  <2>. QED
    BY <1>2, <2>1, <2>2, <2>3 DEF Hold, Free, Held, Goto, Advance, HoldFresh
<1>3. ASSUME NEW r \in Replicas, Alive(r), Claim(r) PROVE KeeperInv'
  BY <1>3 DEF Claim, Claimable, Goto
<1>4. ASSUME NEW r \in Replicas, Alive(r), Launch(r) PROVE KeeperInv'
  BY <1>4 DEF Launch, Advance, Goto, Running
<1>5. ASSUME NEW r \in Replicas, Alive(r), GiveBack(r) PROVE KeeperInv'
  <2>1. (keeper \in [Replicas -> -1 .. Beat] /\ missed \in [Replicas -> 0 .. 2])'
    BY <1>5 DEF GiveBack, Release, Dropped, Advance, HoldFresh
  <2>2. /\ (slow \in [Replicas -> BOOLEAN] /\ erred \in [Replicas -> BOOLEAN])'
        /\ (awaited \in [Replicas -> BOOLEAN] /\ late \in [Replicas -> BOOLEAN])'
    BY <1>5 DEF GiveBack, Release, Dropped, Advance, HoldFresh
  <2>3. UNCHANGED <<keeper, flight, phase>>
    BY <1>5 DEF GiveBack, Release, Dropped, Advance, HoldFresh
  <2>. QED
    BY <1>5, <2>1, <2>2, <2>3 DEF GiveBack, Release, Dropped, Advance, HoldFresh
<1>6. ASSUME NEW r \in Replicas, Alive(r), LoopEnds(r) PROVE KeeperInv'
  BY <1>6 DEF LoopEnds, Goto
<1>7. ASSUME NEW r \in Replicas, Alive(r), StartKeeper(r) PROVE KeeperInv'
  BY <1>7 DEF StartKeeper
<1>8. ASSUME NEW r \in Replicas, Alive(r), Renew(r) PROVE KeeperInv'
  <2>1. (keeper \in [Replicas -> -1 .. Beat] /\ missed \in [Replicas -> 0 .. 2])'
    BY <1>8 DEF Renew, Free, Held, HoldFresh
  <2>2. /\ (slow \in [Replicas -> BOOLEAN] /\ erred \in [Replicas -> BOOLEAN])'
        /\ (awaited \in [Replicas -> BOOLEAN] /\ late \in [Replicas -> BOOLEAN])'
    BY <1>8 DEF Renew, Free, Held, HoldFresh
  <2>. QED
    BY <1>8, <2>1, <2>2 DEF Renew, Free, Held, HoldFresh
<1>9. ASSUME NEW r \in Replicas, Alive(r), Finish(r) PROVE KeeperInv'
  BY <1>9 DEF Finish
<1>10. ASSUME NEW r \in Replicas, Alive(r), KeeperEnds(r) PROVE KeeperInv'
  BY <1>10 DEF KeeperEnds
<1>11. ASSUME NEW r \in Replicas, Alive(r), RunReleases(r) PROVE KeeperInv'
  <2>1. Release(r) /\ UNCHANGED <<keeper, missed, slow, phase, awaited, late>>
    BY <1>11 DEF RunReleases
  <2>2. (erred \in [Replicas -> BOOLEAN])'
    BY <2>1, Released
  <2>3. keeper[r] = -1 /\ flight' = [flight EXCEPT ![r] = "released"]
    BY <1>11 DEF RunReleases, KeeperJoined
  <2>. QED
    BY <2>1, <2>2, <2>3
<1>12. ASSUME NEW r \in Replicas, Alive(r), Landed(r) PROVE KeeperInv'
  BY <1>12 DEF Landed, HoldFresh
<1>13. ASSUME NEW r \in Replicas, Alive(r), Drain(r) PROVE KeeperInv'
  BY <1>13 DEF Drain
<1>14. ASSUME NEW r \in Replicas, Alive(r), Stop(r) PROVE KeeperInv'
  BY <1>14 DEF Stop, Running
<1>15. ASSUME NEW r \in Replicas, Alive(r), JoinLoop(r) PROVE KeeperInv'
  BY <1>15 DEF JoinLoop, LoopJoined, InFlight
<1>16. ASSUME NEW r \in Replicas, Alive(r), Exit(r) PROVE KeeperInv'
  <2>1. (keeper \in [Replicas -> -1 .. Beat] /\ missed \in [Replicas -> 0 .. 2])'
    BY <1>16 DEF Exit, Ends, HoldFresh
  <2>2. /\ (slow \in [Replicas -> BOOLEAN] /\ erred \in [Replicas -> BOOLEAN])'
        /\ (awaited \in [Replicas -> BOOLEAN] /\ late \in [Replicas -> BOOLEAN])'
    BY <1>16 DEF Exit, Ends, HoldFresh
  <2>. QED
    BY <1>16, <2>1, <2>2 DEF Exit, Ends, HoldFresh
<1>17. ASSUME NEW r \in Replicas, Alive(r), Crash(r) PROVE KeeperInv'
  BY <1>17 DEF Crash, Ends, HoldFresh
<1>18. ASSUME NEW r \in Replicas, Restart(r) PROVE KeeperInv'
  BY <1>18 DEF Restart, Advance
<1>19. CASE Pass
  BY <1>19 DEF Pass
<1>20. CASE UNCHANGED schedulerVars
  BY <1>20
<1>. QED
  BY <1>1, <1>2, <1>3, <1>4, <1>5, <1>6, <1>7, <1>8, <1>9, <1>10, <1>11, <1>12, <1>13,
     <1>14, <1>15, <1>16, <1>17, <1>18, <1>19, <1>20 DEF SchedulerNext, LoopStep, RunStep,
     ProcessStep, SchedulerAssumption

\* No step leaves a hold or a run behind (_release_run, stop).
LEMMA TidyStep ==
    ASSUME SchedulerAssumption, TypeInv, OneAtATime, KeeperInv, TidyInv,
           [SchedulerNext]_schedulerVars
    PROVE  TidyInv'
<1> USE DEF TypeInv, OneAtATime, Going, KeeperInv, TidyInv, NoStrayHold, StopWaits, Me,
            SchedulerAssumption, Alive, schedulerVars, loopVars, flightVars,
            processVars, historyVars, Blip, Steady
<1>1. ASSUME NEW r \in Replicas, Alive(r), Pop(r) PROVE TidyInv'
  <2>1. UNCHANGED <<lease, flight, phase, life, late, awaited, erred>>
    BY <1>1 DEF Pop, PopAt, Advance, StillRunning, Running
  <2>2. /\ loop[r] = "wait" /\ loop'[r] \in {"wait", "hold"}
        /\ \A q \in Replicas : q # r => loop'[q] = loop[q]
    BY <1>1 DEF Pop, PopAt, Advance, StillRunning, Running
  <2>. QED
    BY <2>1, <2>2
<1>2. ASSUME NEW r \in Replicas, Alive(r), Hold(r) PROVE TidyInv'
  <2>1. \A q \in Replicas, n \in Int : lease'.owner = <<q, n>> => lease.owner = <<q, n>>
                                       \/ <<q, n>> = Me(r)
    BY <1>2 DEF Hold, Free, Held, Goto, Advance, HoldFresh
  <2>2. UNCHANGED <<flight, phase, life, late, awaited>>
    BY <1>2 DEF Hold, Free, Held, Goto, Advance, HoldFresh
  <2>3. \A q \in Replicas : q # r => loop'[q] = loop[q] /\ erred'[q] = erred[q]
    BY <1>2 DEF Hold, Free, Held, Goto, Advance, HoldFresh
  <2>4. \/ loop'[r] = "claim"
        \/ loop'[r] = "wait" /\ (erred'[r] \/ (lease'.owner = Me(r) => lease.owner = Me(r)))
    BY <1>2 DEF Hold, Free, Held, Goto, Advance, HoldFresh
  <2>5. erred[r] => erred'[r]
    BY <1>2 DEF Hold, Free, Held, Goto, Advance, HoldFresh
  <2>. QED
    BY <1>2, <2>1, <2>2, <2>3, <2>4, <2>5 DEF Hold, Free, Held, Goto, Advance, HoldFresh
<1>3. ASSUME NEW r \in Replicas, Alive(r), Claim(r) PROVE TidyInv'
  BY <1>3 DEF Claim, Claimable, Goto
<1>4. ASSUME NEW r \in Replicas, Alive(r), Launch(r) PROVE TidyInv'
  BY <1>4 DEF Launch, Advance, Goto, Running
<1>5. ASSUME NEW r \in Replicas, Alive(r), GiveBack(r) PROVE TidyInv'
  <2>1. Release(r)
    BY <1>5 DEF GiveBack
  <2>2. /\ \A q \in Replicas, n \in Int : lease'.owner = <<q, n>> => lease.owner = <<q, n>>
        /\ lease'.owner = Me(r) => erred'[r]
        /\ \A q \in Replicas : q # r => erred'[q] = erred[q]
    BY <2>1, Released
  <2>3. UNCHANGED <<flight, phase, life, late, awaited>>
    BY <1>5 DEF GiveBack, Advance
  <2>4. loop'[r] = "wait" /\ \A q \in Replicas : q # r => loop'[q] = loop[q]
    BY <1>5 DEF GiveBack, Advance
  <2>5. NoStrayHold'
    <3>1. \A q \in Replicas : Me(q)' = Me(q) /\ (lease'.owner = Me(q) => lease.owner = Me(q))
      BY <2>2, <2>3
    <3>. QED
      BY <2>2, <2>3, <2>4, <3>1
  <2>6. StopWaits'
    <3>1. \A q \in Replicas : Me(q)' = Me(q) /\ (lease'.owner = Me(q) => lease.owner = Me(q))
      BY <2>2, <2>3
    <3>. QED
      BY <1>5, <2>2, <2>3, <2>4, <3>1
  <2>7. \A q \in Replicas, n \in Int : lease'.owner = <<q, n>> => n <= life'[q]
    BY <2>2, <2>3
  <2>8. \A q \in Replicas : phase'[q] = "joined" /\ ~ late'[q] =>
           loop'[q] = "ended" /\ (awaited'[q] \/ flight'[q] = "none")
    BY <1>5, <2>3, <2>4 DEF GiveBack, Advance
  <2>. QED
    BY <2>5, <2>6, <2>7, <2>8
<1>6. ASSUME NEW r \in Replicas, Alive(r), LoopEnds(r) PROVE TidyInv'
  BY <1>6 DEF LoopEnds, Goto
<1>7. ASSUME NEW r \in Replicas, Alive(r), StartKeeper(r) PROVE TidyInv'
  BY <1>7 DEF StartKeeper
<1>8. ASSUME NEW r \in Replicas, Alive(r), Renew(r) PROVE TidyInv'
  BY <1>8 DEF Renew, Free, Held, HoldFresh
<1>9. ASSUME NEW r \in Replicas, Alive(r), Finish(r) PROVE TidyInv'
  BY <1>9 DEF Finish
<1>10. ASSUME NEW r \in Replicas, Alive(r), KeeperEnds(r) PROVE TidyInv'
  BY <1>10 DEF KeeperEnds
<1>11. ASSUME NEW r \in Replicas, Alive(r), RunReleases(r) PROVE TidyInv'
  <2>1. Release(r)
    BY <1>11 DEF RunReleases
  <2>2. /\ \A q \in Replicas, n \in Int : lease'.owner = <<q, n>> => lease.owner = <<q, n>>
        /\ lease'.owner = Me(r) => erred'[r]
        /\ \A q \in Replicas : q # r => erred'[q] = erred[q]
    BY <2>1, Released
  <2>3. UNCHANGED <<loop, phase, life, late, awaited>>
    BY <1>11 DEF RunReleases
  <2>4. flight'[r] = "released" /\ \A q \in Replicas : q # r => flight'[q] = flight[q]
    BY <1>11 DEF RunReleases
  <2>5. NoStrayHold'
    <3>1. \A q \in Replicas : Me(q)' = Me(q) /\ (lease'.owner = Me(q) => lease.owner = Me(q))
      BY <2>2, <2>3
    <3>. QED
      BY <2>2, <2>3, <2>4, <3>1
  <2>6. StopWaits'
    <3>1. \A q \in Replicas : Me(q)' = Me(q) /\ (lease'.owner = Me(q) => lease.owner = Me(q))
      BY <2>2, <2>3
    <3>. QED
      BY <1>11, <2>2, <2>3, <2>4, <3>1
  <2>7. \A q \in Replicas, n \in Int : lease'.owner = <<q, n>> => n <= life'[q]
    BY <2>2, <2>3
  <2>8. \A q \in Replicas : phase'[q] = "joined" /\ ~ late'[q] =>
           loop'[q] = "ended" /\ (awaited'[q] \/ flight'[q] = "none")
    BY <1>11, <2>3, <2>4 DEF RunReleases
  <2>. QED
    BY <2>5, <2>6, <2>7, <2>8
<1>12. ASSUME NEW r \in Replicas, Alive(r), Landed(r) PROVE TidyInv'
  BY <1>12 DEF Landed, HoldFresh
<1>13. ASSUME NEW r \in Replicas, Alive(r), Drain(r) PROVE TidyInv'
  BY <1>13 DEF Drain
<1>14. ASSUME NEW r \in Replicas, Alive(r), Stop(r) PROVE TidyInv'
  BY <1>14 DEF Stop, Running
<1>15. ASSUME NEW r \in Replicas, Alive(r), JoinLoop(r) PROVE TidyInv'
  <2>1. UNCHANGED <<lease, loop, flight, life, erred>>
    BY <1>15 DEF JoinLoop, LoopJoined, InFlight
  <2>2. \A q \in Replicas : q # r => phase'[q] = phase[q] /\ late'[q] = late[q] /\ awaited'[q] = awaited[q]
    BY <1>15 DEF JoinLoop, LoopJoined, InFlight
  <2>3. /\ phase[r] = "stopping" /\ phase'[r] = "joined" /\ (awaited'[r] \/ flight[r] = "none")
        /\ late'[r] \/ loop[r] = "ended"
    BY <1>15 DEF JoinLoop, LoopJoined, InFlight
  <2>4. NoStrayHold'
    BY <2>1, <2>2, <2>3
  <2>5. StopWaits'
    BY <2>1, <2>2, <2>3
  <2>6. \A q \in Replicas, n \in Int : lease'.owner = <<q, n>> => n <= life'[q]
    BY <2>1
  <2>7. \A q \in Replicas : phase'[q] = "joined" /\ ~ late'[q] =>
           loop'[q] = "ended" /\ (awaited'[q] \/ flight'[q] = "none")
    BY <2>1, <2>2, <2>3
  <2>. QED
    BY <2>4, <2>5, <2>6, <2>7
<1>16. ASSUME NEW r \in Replicas, Alive(r), Exit(r) PROVE TidyInv'
  BY <1>16 DEF Exit, Ends, HoldFresh
<1>17. ASSUME NEW r \in Replicas, Alive(r), Crash(r) PROVE TidyInv'
  BY <1>17 DEF Crash, Ends, HoldFresh
<1>18. ASSUME NEW r \in Replicas, Restart(r) PROVE TidyInv'
  BY <1>18 DEF Restart, Advance
<1>19. CASE Pass
  BY <1>19 DEF Pass
<1>20. CASE UNCHANGED schedulerVars
  BY <1>20
<1>. QED
  BY <1>1, <1>2, <1>3, <1>4, <1>5, <1>6, <1>7, <1>8, <1>9, <1>10, <1>11, <1>12, <1>13,
     <1>14, <1>15, <1>16, <1>17, <1>18, <1>19, <1>20 DEF SchedulerNext, LoopStep, RunStep,
     ProcessStep, SchedulerAssumption

\* A hold that is renewed, or missed one renewal, has time left (_keep_hold).
LEMMA BeatStep ==
    ASSUME SchedulerAssumption, TypeInv, OneAtATime, KeeperInv, HoldInv, BeatInv,
           [SchedulerNext]_schedulerVars
    PROVE  BeatInv'
<1> USE DEF TypeInv, OneAtATime, Going, KeeperInv, HoldInv, BeatInv, Kept, Holding, Me, Waited,
            SchedulerAssumption, Alive, schedulerVars, loopVars, flightVars,
            processVars, historyVars, Blip, Steady
<1>1. ASSUME NEW r \in Replicas, Alive(r), Pop(r) PROVE BeatInv'
  BY <1>1 DEF Pop, PopAt, Advance, StillRunning, Running
<1>2. ASSUME NEW r \in Replicas, Alive(r), Hold(r) PROVE BeatInv'
  BY <1>2 DEF Hold, Free, Held, Goto, Advance, HoldFresh
<1>3. ASSUME NEW r \in Replicas, Alive(r), Claim(r) PROVE BeatInv'
  BY <1>3 DEF Claim, Claimable, Goto
<1>4. ASSUME NEW r \in Replicas, Alive(r), Launch(r) PROVE BeatInv'
  BY <1>4 DEF Launch, Advance, Goto, Running
<1>5. ASSUME NEW r \in Replicas, Alive(r), GiveBack(r) PROVE BeatInv'
  BY <1>5 DEF GiveBack, Release, Dropped, Advance, HoldFresh
<1>6. ASSUME NEW r \in Replicas, Alive(r), LoopEnds(r) PROVE BeatInv'
  BY <1>6 DEF LoopEnds, Goto
<1>7. ASSUME NEW r \in Replicas, Alive(r), StartKeeper(r) PROVE BeatInv'
  BY <1>7 DEF StartKeeper
<1>8. ASSUME NEW r \in Replicas, Alive(r), Renew(r) PROVE BeatInv'
  <2> SUFFICES ASSUME NEW q \in Replicas, Holding(q)', ~ slow[q]', (missed[q] < 2)' PROVE Kept(q)'
    OBVIOUS
  <2>1. UNCHANGED <<loop, flight, phase, life>> /\ Holding(q) /\ keeper[r] = Beat /\ keeper'[r] = 0
    BY <1>8 DEF Renew
  <2>2. CASE Free(r) /\ Held(r) /\ HoldFresh(r)
    <3>1. CASE q = r
      <4>1. lease'.owner = Me(q) /\ lease'.left = HoldTtl /\ Me(q)' = Me(q)
        BY <2>1, <2>2, <3>1 DEF Held
      <4>2. ~ lapsed'[q] /\ missed'[q] = 0 /\ keeper'[q] = 0
        BY <2>1, <2>2, <3>1 DEF HoldFresh
      <4>. QED
        BY <4>1, <4>2
    <3>2. CASE q # r
      <4>1. slow'[q] = slow[q] /\ missed'[q] = missed[q]
        BY <1>8, <2>2, <3>2 DEF Renew, HoldFresh
      <4>2. Kept(q)
        BY <2>1, <4>1
      <4>3. lease.left > 0 /\ lease.owner = Me(q)
        BY <4>2
      <4>4. Me(q) # Me(r) /\ Me(q) # NoOwner
        BY <3>2
      <4>. QED
        BY <2>2, <4>3, <4>4 DEF Free
    <3>. QED
      BY <3>1, <3>2
  <2>3. CASE ~ Free(r) /\ UNCHANGED <<lease, historyVars>>
    BY <1>8, <2>1, <2>3 DEF Free, Renew
  <2>4. CASE /\ missed' = [missed EXCEPT ![r] = IF @ = 2 THEN 2 ELSE @ + 1]
             /\ UNCHANGED <<lease, slow, lapsed>>
    BY <1>8, <2>1, <2>4 DEF Renew
  <2>. QED
    BY <1>8, <2>2, <2>3, <2>4 DEF Renew
<1>9. ASSUME NEW r \in Replicas, Alive(r), Finish(r) PROVE BeatInv'
  BY <1>9 DEF Finish
<1>10. ASSUME NEW r \in Replicas, Alive(r), KeeperEnds(r) PROVE BeatInv'
  BY <1>10 DEF KeeperEnds
<1>11. ASSUME NEW r \in Replicas, Alive(r), RunReleases(r) PROVE BeatInv'
  BY <1>11 DEF RunReleases, Release, Dropped, KeeperJoined
<1>12. ASSUME NEW r \in Replicas, Alive(r), Landed(r) PROVE BeatInv'
  BY <1>12 DEF Landed, HoldFresh
<1>13. ASSUME NEW r \in Replicas, Alive(r), Drain(r) PROVE BeatInv'
  BY <1>13 DEF Drain
<1>14. ASSUME NEW r \in Replicas, Alive(r), Stop(r) PROVE BeatInv'
  BY <1>14 DEF Stop, Running
<1>15. ASSUME NEW r \in Replicas, Alive(r), JoinLoop(r) PROVE BeatInv'
  BY <1>15 DEF JoinLoop, LoopJoined, InFlight
<1>16. ASSUME NEW r \in Replicas, Alive(r), Exit(r) PROVE BeatInv'
  BY <1>16 DEF Exit, Ends, HoldFresh
<1>17. ASSUME NEW r \in Replicas, Alive(r), Crash(r) PROVE BeatInv'
  BY <1>17 DEF Crash, Ends, HoldFresh
<1>18. ASSUME NEW r \in Replicas, Restart(r) PROVE BeatInv'
  BY <1>18 DEF Restart, Advance
<1>19. CASE Pass
  <2> SUFFICES ASSUME NEW r \in Replicas, Holding(r)', ~ slow[r]', (missed[r] < 2)' PROVE Kept(r)'
    OBVIOUS
  <2>1. Holding(r) /\ ~ slow[r] /\ missed[r] < 2 /\ ~ Unkept(r) /\ Me(r)' = Me(r)
        /\ missed'[r] = missed[r]
    BY <1>19 DEF Pass
  <2>2. keeper[r] \in 0 .. Beat - 1 /\ keeper'[r] = keeper[r] + 1
    BY <1>19, <2>1 DEF Pass, Unkept
  <2>3. lease.left > 1
    BY <2>1, <2>2
  <2>4. lease'.owner = lease.owner /\ lease'.left = lease.left - 1 /\ ~ lapsed'[r]
    BY <1>19, <2>1, <2>3 DEF Pass
  <2>. QED
    BY <2>1, <2>2, <2>4
<1>20. CASE UNCHANGED schedulerVars
  BY <1>20
<1>. QED
  BY <1>1, <1>2, <1>3, <1>4, <1>5, <1>6, <1>7, <1>8, <1>9, <1>10, <1>11, <1>12, <1>13,
     <1>14, <1>15, <1>16, <1>17, <1>18, <1>19, <1>20 DEF SchedulerNext, LoopStep, RunStep,
     ProcessStep, SchedulerAssumption

\* The invariant holds where the processes start.
LEMMA Initially ==
    ASSUME SchedulerAssumption, SchedulerInit
    PROVE  IInv /\ HoldInv /\ LeaveInv
<1>1. TypeInv
  BY NextRunInt DEF SchedulerAssumption, SchedulerInit, TypeInv, Owners, Ticks
<1>2. OneAtATime /\ ClaimsOnce /\ HoldInv
  BY DEF SchedulerAssumption, SchedulerInit, OneAtATime, Going, ClaimsOnce, Pending, Ticks,
     HoldInv, Holding
<1>3. KeeperInv /\ BeatInv
  BY DEF SchedulerAssumption, SchedulerInit, KeeperInv, BeatInv, Holding
<1>4. TidyInv
  BY DEF SchedulerAssumption, SchedulerInit, TidyInv, NoStrayHold, StopWaits, Me
<1>. QED
  BY <1>1, <1>2, <1>3, <1>4 DEF IInv, LeaveInv

\* The invariant, of every number of replicas and of any interval, ttl and beat.
THEOREM Inductive ==
    ASSUME SchedulerAssumption PROVE SchedulerSpec => [](IInv /\ HoldInv /\ LeaveInv)
<1>1. SchedulerInit => IInv /\ HoldInv /\ LeaveInv
  BY Initially
<1>2. IInv /\ HoldInv /\ LeaveInv /\ [SchedulerNext]_schedulerVars => (IInv /\ HoldInv /\ LeaveInv)'
  BY TypeStep, LoopStepKeeps, ClaimStep, HoldStep, KeeperStep, TidyStep, BeatStep DEF IInv, LeaveInv
<1>. QED
  BY <1>1, <1>2, PTL DEF SchedulerSpec

\* No tick is run twice, whatever the replicas (_may_fire, kv_claim_tick).
THEOREM TicksRunOnce == ASSUME SchedulerAssumption PROVE SchedulerSpec => []TickOnce
<1>1. IInv => TickOnce
  BY DEF IInv, ClaimsOnce, TickOnce
<1>. QED
  BY <1>1, Inductive, PTL

\* A run under way has the hold unless it let it run out (_hold_run, _release_run).
THEOREM HoldsKept == ASSUME SchedulerAssumption PROVE SchedulerSpec => []HoldKept
<1>1. HoldInv => HoldKept
  BY DEF HoldInv, Holding, HoldKept, UnderWay
<1>. QED
  BY <1>1, Inductive, PTL

\* Two replicas run the task at once only where the hold of one has run out.
OneRun == \A r, q \in Replicas : UnderWay(r) /\ UnderWay(q) /\ r # q => lapsed[r] \/ lapsed[q]

\* OneRun, of any number of replicas (Scheduler._run_tracked under its hold).
THEOREM RunsAlone == ASSUME SchedulerAssumption PROVE SchedulerSpec => []OneRun
<1>1. HoldInv => OneRun
  BY DEF HoldInv, Holding, OneRun, UnderWay, Me
<1>. QED
  BY <1>1, Inductive, PTL

\* A hold that is renewed does not run out (_keep_hold).
THEOREM RenewalsKeep == ASSUME SchedulerAssumption PROVE SchedulerSpec => []Renewed
<1>1. IInv /\ LeaveInv => Renewed
  BY DEF IInv, LeaveInv, TypeInv, KeeperInv, BeatInv, Kept, Holding, UnderWay, Renewed
<1>. QED
  BY <1>1, Inductive, PTL

\* No hold and, after a stop() in its budget, no run is left behind (_release_run, stop).
THEOREM NothingLeft ==
    ASSUME SchedulerAssumption PROVE SchedulerSpec => [](NoStrayHold /\ StopWaits)
<1>1. LeaveInv => NoStrayHold /\ StopWaits
  BY DEF LeaveInv, TidyInv
<1>. QED
  BY <1>1, Inductive, PTL

\* All that a static task is promised.
THEOREM TasksHeld == ASSUME SchedulerAssumption PROVE SchedulerSpec => []TaskHeld
  BY TicksRunOnce, HoldsKept, RenewalsKeep, NothingLeft, PTL DEF TaskHeld
=============================================================================
