------------------------------ MODULE Requests ------------------------------
(***************************************************************************)
(* Served requests over one store: the optimistic retry loop around each    *)
(* (_run_function_with_occ, jac/jaclang/server/impl/server.impl.jac), the    *)
(* body it runs, and the session under it, for a set of requests that        *)
(* interleave at every database statement.                                  *)
(***************************************************************************)
EXTENDS Session, FiniteSets

CONSTANTS
    Sessions,      \* one served request each, all of one walker
    Fresh,         \* the ids new anchors draw from; the other rows exist
    Seed,          \* their content
    Bodies,        \* walkers: what their body does besides reading and writing
    MaxOps,        \* calls of the body in one run of it
    MaxAttempts,   \* _occ_policy
    MaxRetries,    \* MAX_RETRIES of Session.commit
    MaxFaults,     \* database errors of their own accord, over the behaviour
    ReadTier,      \* JAC_DB_RO_UNITS, and the walker has a unit key
    LostAcks       \* a connection may die after COMMIT applied

OpKinds == {"mutate", "create", "delete", "join", "walkend", "swallow",
            "respond", "fail"}

MaxRuns == MaxAttempts + 2       \* at most two re-runs cost no attempt

ASSUME ConstantsAssumption ==
    /\ Fresh \subseteq Ids /\ Bodies \subseteq SUBSET OpKinds
    /\ MaxOps \in Nat /\ MaxAttempts \in Nat \ {0} /\ MaxRetries \in Nat
    /\ MaxFaults \in Nat /\ ReadTier \in BOOLEAN /\ LostAcks \in BOOLEAN
    /\ Seed \in Val
    /\ Sessions \X (0 .. MaxRuns) \X (1 .. MaxOps) \subseteq Val
    /\ Seed \notin Sessions \X (0 .. MaxRuns) \X (1 .. MaxOps)

VARIABLES
    rows,      \* the committed table
    landed,    \* every content and joined write that ever committed
    writers,   \* the walker is recorded in _unit_writers
    faults,    \* database errors so far
    req,       \* per request: where its coroutine is
    ses        \* per request: its session

vars == <<rows, landed, writers, faults, req, ses>>

Pc == {"idle", "body", "call", "raised", "commit", "committing", "exit",
       "handle", "turn", "pin", "reload", "closing", "done"}

Calls == {"none", "read", "scan", "respond", "walkend", "final", "exit"}

Request ==
    [body : SUBSET OpKinds, pc : Pc, call : Calls, arg : SUBSET Ids, tries : Nat,
     attempt : 0 .. MaxAttempts, roRetries : 0 .. MaxRuns, run : 0 .. MaxRuns,
     ops : 0 .. MaxOps,
     found : {"unknown", "none", "some"},     \* what the last scan saw
     want : [Ids -> Val \cup {Unwritten}],    \* the run's last write of each row
     joins : SUBSET Val,                      \* and its joined writes
     answer : {"none", "ok", "refused", "error"}]

NewRun == [ops |-> 0, found |-> "unknown",
           want |-> [id \in Ids |-> Unwritten], joins |-> {}]

Init ==
    /\ rows = [id \in Ids |-> IF id \in Fresh THEN NoRow
                              ELSE [version |-> 0, val |-> Seed]]
    /\ landed = {} /\ writers = FALSE /\ faults = 0
    /\ \E body \in Bodies :
         req = [s \in Sessions |->
                  [body |-> body, pc |-> "idle", call |-> "none", arg |-> {},
                   tries |-> 0, attempt |-> 0, roRetries |-> 0, run |-> 0, ops |-> 0,
                   found |-> "unknown", want |-> NewRun.want, joins |-> {},
                   answer |-> "none"]]
    /\ ses = [s \in Sessions |-> NewSession]

-----------------------------------------------------------------------------
(* What one request sees of the others.                                    *)

Busy(s)       == UNION {RowLocks(ses[t].txn) : t \in Sessions \ {s}}
OthersRead(s) == UNION {PredicateLocks(ses[t].txn) : t \in Sessions \ {s}}

\* Session s becomes se; an exception of the read tier records the walker.
Becomes(s, se) ==
    /\ ses' = [ses EXCEPT ![s] = se]
    /\ writers' = (writers \/ (se.roRaised /\ ~ ses[s].roRaised))

Goto(s, pc) == req' = [req EXCEPT ![s].pc = pc]

Faulting(fault) == IF fault THEN faults < MaxFaults /\ faults' = faults + 1
                            ELSE faults' = faults

InBody(s)  == req[s].pc = "body" /\ req[s].ops < MaxOps
Stamp(s)   == <<s, req[s].run, req[s].ops + 1>>

\* A call of the body that sends no statement.
Local(s, se, found, want) ==
    /\ Becomes(s, se)
    /\ req' = [req EXCEPT ![s] = [req[s] EXCEPT !.ops = @ + 1, !.found = found, !.want = want]]
    /\ UNCHANGED <<rows, landed, faults>>

-----------------------------------------------------------------------------
(* A request begins: its context resolves the root anchor, which opens the  *)
(* transaction before the unit is entered (the root row itself is constant). *)

RoUnit == ReadTier /\ ~ writers

Begin(s) ==
    /\ req[s].pc = "idle"
    /\ Becomes(s, UnitEnter(BeginTxn(ses[s], TxnIsolation(ses[s]), rows), RoUnit, rows))
    /\ req' = [req EXCEPT ![s] = [req[s] EXCEPT !.pc = "body", !.attempt = 1, !.run = 1]]
    /\ UNCHANGED <<rows, landed, faults>>

-----------------------------------------------------------------------------
(* The body reads.  batch_get tries twice a barrier that itself tries twice  *)
(* (tries 0 to 3) and one load; a query (`scan`) has only the barrier's two  *)
(* tries (2 and 3).                                                         *)

LastTry(loading) == IF loading THEN 2 ELSE 3

\* The request after a try that left `end`: the call starts again, or it is
\* over and the scan it was has found what it saw.
AfterTry(r, call, ids, tries, loads, again, end, found) ==
    LET waits == again /\ Ok(end)
    IN  [r EXCEPT
           !.ops   = IF r.pc = "call" THEN @ ELSE @ + 1,
           !.pc    = IF ~ Ok(end) THEN IF call = "respond" THEN "handle" ELSE "raised"
                     ELSE IF again THEN "call"
                     ELSE IF call = "respond" THEN "exit" ELSE "body",
           !.call  = IF waits THEN call ELSE "none",
           !.arg   = IF waits THEN ids ELSE {},
           !.tries = IF ~ waits THEN 0 ELSE IF loads THEN 2 ELSE tries + 1,
           !.found = IF call # "scan" \/ again \/ ~ Ok(end) THEN @ ELSE found]

Tried(s, call, ids, tries, fault, open) ==
    LET loads   == Ok(open)
        read    == IF ~ loads THEN open
                   ELSE IF fault = "load" THEN StatementFailed(open, "transient")
                   ELSE IF call = "scan" THEN [open EXCEPT !.txn = Reading(@, ids)]
                   ELSE Load(open, ids)
        again   == read.exc = "transient" /\ tries < LastTry(loads)
        end     == IF again THEN ReplayTxn(read, FALSE) ELSE read
        found   == IF \E id \in ids : Visible(open.txn, id) # NoRow THEN "some" ELSE "none"
    IN  /\ fault = "load" => loads
        /\ Faulting(fault # "none")
        /\ Becomes(s, end)
        /\ req' = [req EXCEPT ![s] =
                      AfterTry(@, call, ids, tries, loads, again, end, found)]
        /\ UNCHANGED <<rows, landed>>

Try(s, call, ids, tries) ==
    \E fault \in {"none", "flush", "load"} :
    \E open \in BarrierResults(ses[s], rows, Busy(s), fault = "flush") :
        Tried(s, call, ids, tries, fault, open)

Unread(s) == Ids \ (Cached(ses[s]) \cup ses[s].deleted)

Read(s) ==
    /\ InBody(s)
    /\ \E id \in Unread(s) : Try(s, "read", {id}, 0)

Scan(s) ==
    /\ InBody(s) /\ "create" \in req[s].body
    /\ Try(s, "scan", Fresh, 2)

\* Serializing the response after the commit may load an anchor.
Respond(s) ==
    /\ req[s].pc = "exit" /\ "respond" \in req[s].body /\ req[s].ops < MaxOps
    /\ \E id \in Unread(s) : Try(s, "respond", {id}, 0)

Retry(s) ==
    /\ req[s].pc = "call"
    /\ Try(s, req[s].call, req[s].arg, req[s].tries)

-----------------------------------------------------------------------------
(* The body writes.                                                        *)

NewContent(s, id) == [ses[s].mem[id] EXCEPT !.val = Stamp(s)]

WriteAnchor(s, id) ==
    /\ InBody(s) /\ id \in Cached(ses[s])
    /\ Local(s, MarkDirty([ses[s] EXCEPT !.mem[id] = NewContent(s, id)], id),
             req[s].found, [req[s].want EXCEPT ![id] = Stamp(s)])

\* A change inside a field, which only a full scan finds.
Mutate(s, id) ==
    /\ InBody(s) /\ "mutate" \in req[s].body /\ id \in Cached(ses[s])
    /\ Local(s, [ses[s] EXCEPT !.mem[id] = NewContent(s, id)],
             req[s].found, [req[s].want EXCEPT ![id] = Stamp(s)])

\* The create branch of find-or-create, with an id nobody has.
Create(s, id) ==
    /\ InBody(s) /\ "create" \in req[s].body /\ req[s].found = "none"
    /\ id \in Fresh /\ rows[id] = NoRow
    /\ \A t \in Sessions : id \notin Cached(ses[t]) \cup RowLocks(ses[t].txn)
    /\ Local(s, Put(ses[s], id, [val |-> Stamp(s), base |-> NoRow]),
             "some", [req[s].want EXCEPT ![id] = Stamp(s)])

DeleteAnchor(s, id) ==
    /\ InBody(s) /\ "delete" \in req[s].body /\ id \in Cached(ses[s])
    /\ Local(s, Delete(ses[s], id), req[s].found,
             [req[s].want EXCEPT ![id] = Unwritten])

\* A statement outside the graph rides in the transaction (an outbox row).
Join(s) ==
    /\ InBody(s) /\ "join" \in req[s].body
    /\ \E fault \in BOOLEAN :
        LET open == EnsureWritableTxn(ses[s], rows)
            sent == IF ~ Ok(open) THEN open
                    ELSE IF fault THEN StatementFailed(open, "transient")
                    ELSE [open EXCEPT !.txn.joins = @ \cup {Stamp(s)}]
        IN  /\ fault => Ok(open)
            /\ Faulting(fault)
            /\ Becomes(s, sent)
            /\ req' = [req EXCEPT ![s] =
                        [req[s] EXCEPT !.ops = @ + 1,
                                       !.pc    = IF Ok(sent) THEN "body" ELSE "raised",
                                       !.joins = IF Ok(sent) THEN @ \cup {Stamp(s)} ELSE @]]
            /\ UNCHANGED <<rows, landed>>

-----------------------------------------------------------------------------
(* The body ends a walk, fails, catches an exception or lets it go, returns. *)

StartCommit(s, call) ==
    req' = [req EXCEPT ![s] = [req[s] EXCEPT !.pc = "commit", !.call = call, !.tries = 0]]

\* _sv_on_complete commits at the end of every walk.
EndWalk(s) ==
    /\ InBody(s) /\ "walkend" \in req[s].body
    /\ req' = [req EXCEPT ![s] =
                [req[s] EXCEPT !.pc = "commit", !.call = "walkend",
                               !.tries = 0, !.ops = @ + 1]]
    /\ UNCHANGED <<rows, landed, writers, faults, ses>>

Fail(s) ==
    /\ req[s].pc = "body" /\ "fail" \in req[s].body
    /\ Becomes(s, Raise(ses[s], "other")) /\ Goto(s, "handle")
    /\ UNCHANGED <<rows, landed, faults>>

Swallow(s) ==
    /\ req[s].pc = "raised" /\ "swallow" \in req[s].body
    /\ Becomes(s, Raise(ses[s], "none")) /\ Goto(s, "body")
    /\ UNCHANGED <<rows, landed, faults>>

Propagate(s) ==
    /\ req[s].pc = "raised"
    /\ Goto(s, "handle")
    /\ UNCHANGED <<rows, landed, writers, faults, ses>>

\* _finalize_call_response commits before it answers.
Return(s) ==
    /\ req[s].pc = "body"
    /\ StartCommit(s, "final")
    /\ UNCHANGED <<rows, landed, writers, faults, ses>>

-----------------------------------------------------------------------------
(* Session.commit.  Every caller takes its outcome differently.             *)

\* The unit stack is popped last, whatever became of unit_exit's commit.
Popped(s, se) == IF req[s].call = "exit" THEN [se EXCEPT !.ro = FALSE] ELSE se

CommitReturns(s, peers, se) ==
    /\ ses' = [peers EXCEPT ![s] = Popped(s, LeaveQueue(CommitTxn(se)))]
    /\ req' = [req EXCEPT ![s] =
                [req[s] EXCEPT !.call = "none", !.tries = 0,
                               !.pc = IF req[s].call = "walkend" THEN "body"
                                       ELSE IF req[s].call = "final" THEN "exit" ELSE "closing",
                               !.answer = IF req[s].call = "exit" THEN "ok" ELSE @]]
    /\ UNCHANGED writers

\* The end of a walk swallows the exception; unit_exit aborts a lost session.
CommitRaises(s, se) ==
    LET end == CASE req[s].call = "walkend" -> Raise(se, "none")
                 [] req[s].call = "exit" /\ se.exc = "lost" -> Raise(Abort(se), "lost")
                 [] OTHER -> se
    IN  /\ Becomes(s, Popped(s, end))
        /\ req' = [req EXCEPT ![s] =
                    [req[s] EXCEPT !.call = "none", !.tries = 0,
                                   !.pc = IF req[s].call = "walkend" THEN "body" ELSE "handle"]]

\* A serialization conflict replays the write set in a new transaction.
CommitReplays(s, se) ==
    LET back == ReplayTxn(se, req[s].tries >= MaxRetries)
    IN  IF Ok(back)
        THEN /\ Becomes(s, back)
             /\ req' = [req EXCEPT ![s] = [req[s] EXCEPT !.pc = "commit", !.tries = @ + 1]]
        ELSE CommitRaises(s, back)

CommitLost(s) ==
    /\ req[s].pc = "commit" /\ ses[s].lost
    /\ CommitRaises(s, Raise(RollbackTxn(ses[s]), "lost"))
    /\ UNCHANGED <<rows, landed, faults>>

Flush(s) ==
    /\ req[s].pc = "commit" /\ ~ ses[s].lost
    /\ \E fault \in BOOLEAN :
       \E sent \in FlushResults(ses[s], TRUE, rows, Busy(s), fault) :
        /\ Faulting(fault)
        /\ IF Ok(sent) THEN Becomes(s, sent) /\ Goto(s, "committing")
           ELSE IF sent.exc = "transient" THEN CommitReplays(s, sent)
           ELSE CommitRaises(s, Raise(RollbackTxn(sent), sent.exc))
        /\ UNCHANGED <<rows, landed>>

CommitNothing(s) ==
    /\ req[s].pc = "committing" /\ ses[s].txn = NoTxn
    /\ CommitReturns(s, ses, ses[s])
    /\ UNCHANGED <<rows, landed, faults>>

\* COMMIT applied: its predicate locks outlive it in the transactions open now.
Apply(s) ==
    /\ rows' = Applied(ses[s].txn, rows)
    /\ landed' = landed \cup ses[s].txn.joins
                   \cup {ses[s].txn.own[id].val :
                            id \in {i \in Wrote(ses[s].txn) : ses[s].txn.own[i] # NoRow}}

Outlived(s) ==
    [t \in Sessions |->
        IF t = s \/ ses[t].txn = NoTxn THEN ses[t]
        ELSE [ses[t] EXCEPT !.txn.peers = @ \cup ses[s].txn.reads]]

CommitLands(s) ==
    /\ req[s].pc = "committing" /\ ses[s].txn # NoTxn
    /\ ~ Pivot(ses[s].txn, rows, OthersRead(s))
    /\ Apply(s)
    /\ CommitReturns(s, Outlived(s), ses[s])
    /\ UNCHANGED faults

CommitRefused(s) ==
    /\ req[s].pc = "committing" /\ ses[s].txn # NoTxn
    /\ \/ Pivot(ses[s].txn, rows, OthersRead(s)) /\ UNCHANGED faults
       \/ Faulting(TRUE)
    /\ CommitReplays(s, StatementFailed(ses[s], "transient"))
    /\ UNCHANGED <<rows, landed>>

\* COMMIT applied and the connection died before the answer: 08006.
CommitAckLost(s) ==
    /\ LostAcks /\ req[s].pc = "committing" /\ ses[s].txn # NoTxn
    /\ ~ Pivot(ses[s].txn, rows, OthersRead(s))
    /\ Apply(s) /\ Faulting(TRUE)
    /\ CommitReplays(s, StatementFailed(ses[s], "transient"))

-----------------------------------------------------------------------------
(* unit_exit, once the body's own commit is through.                        *)

UnitExit(s) ==
    LET se    == [ses[s] EXCEPT !.units = 0, !.roRaised = FALSE]
        out(e) == Raise([Abort(se) EXCEPT !.ro = FALSE], e)
    IN
    /\ req[s].pc = "exit"
    /\ \/ /\ ses[s].lost
          /\ Becomes(s, [out("lost") EXCEPT !.roRaised = ses[s].roRaised])
          /\ Goto(s, "handle")
       \/ /\ ~ ses[s].lost /\ ses[s].roRaised
          /\ Becomes(s, out("ro")) /\ Goto(s, "handle")
       \/ /\ ~ ses[s].lost /\ ~ ses[s].roRaised /\ ses[s].txn = NoTxn
          /\ Becomes(s, [se EXCEPT !.ro = FALSE])
          /\ req' = [req EXCEPT ![s] = [req[s] EXCEPT !.pc = "closing", !.answer = "ok"]]
       \/ /\ ~ ses[s].lost /\ ~ ses[s].roRaised /\ ses[s].txn # NoTxn
          /\ Becomes(s, se) /\ StartCommit(s, "exit")
    /\ UNCHANGED <<rows, landed, faults>>

-----------------------------------------------------------------------------
(* The retry loop's handlers.                                              *)

Reenter(se) == IF se.units = 0 THEN UnitEnter(se, RoUnit, rows) ELSE se

Settle(s, answer) ==
    req' = [req EXCEPT ![s] = [req[s] EXCEPT !.pc = "closing", !.answer = answer]]

\* Mutant: the loop counts past its policy.
NextAttemptAlways(s, pc) ==
    req' = [req EXCEPT ![s] = [req[s] EXCEPT !.pc = pc, !.attempt = @ + 1]]

\* The loop's next turn, or the end of it.
NextAttempt(s, pc) ==
    IF req[s].attempt < MaxAttempts
    THEN req' = [req EXCEPT ![s] = [req[s] EXCEPT !.pc = pc, !.attempt = @ + 1]]
    ELSE Settle(s, "refused")

\* Mutant: a re-run of the read tier never costs anything.
HandleRoRetryFree(s) ==
    /\ req[s].pc = "handle" /\ ses[s].exc = "ro"
    /\ Becomes(s, Abort(Reenter([ses[s] EXCEPT !.roRaised = FALSE])))
    /\ Goto(s, "reload")
    /\ UNCHANGED <<rows, landed, faults>>

HandleRoRetry(s) ==
    /\ req[s].pc = "handle" /\ ses[s].exc = "ro"
    /\ Becomes(s, Abort(Reenter([ses[s] EXCEPT !.roRaised = FALSE])))
    /\ IF req[s].roRetries < 2
       THEN req' = [req EXCEPT ![s] = [req[s] EXCEPT !.pc = "reload", !.roRetries = @ + 1]]
       ELSE NextAttempt(s, "reload")
    /\ UNCHANGED <<rows, landed, faults>>

HandleConflict(s) ==
    /\ req[s].pc = "handle" /\ ses[s].exc \in {"conflict", "lost"}
    /\ Becomes(s, Abort(Reenter(ses[s])))
    /\ NextAttempt(s, "turn")
    /\ UNCHANGED <<rows, landed, faults>>

HandleTransient(s) ==
    /\ req[s].pc = "handle" /\ ses[s].exc = "transient"
    /\ req[s].attempt < MaxAttempts
    /\ Becomes(s, Abort(Reenter(ses[s])))
    /\ NextAttempt(s, "reload")
    /\ UNCHANGED <<rows, landed, faults>>

HandleError(s) ==
    /\ req[s].pc = "handle"
    /\ \/ ses[s].exc = "other"
       \/ ses[s].exc = "transient" /\ req[s].attempt >= MaxAttempts
    /\ Becomes(s, Abort(ses[s]))
    /\ Settle(s, "error")
    /\ UNCHANGED <<rows, landed, faults>>

-----------------------------------------------------------------------------
(* wait_turn: advisory locks on the rows of the lost race, in one order;    *)
(* then a transaction that holds the rows themselves.  The queue may be      *)
(* refused (55P03), and pinning gives up after PIN_ATTEMPTS.                 *)

QueueFree(s, ids) == \A t \in Sessions \ {s} : ses[t].queued \cap ids = {}

WaitTurn(s) ==
    LET se == ses[s] IN
    /\ req[s].pc = "turn"
    /\ \/ /\ se.contended = {}
          /\ Goto(s, "reload") /\ UNCHANGED <<ses, writers>>
       \/ /\ se.contended # {} /\ QueueFree(s, se.contended)
          /\ Becomes(s, [se EXCEPT !.queued = se.contended]) /\ Goto(s, "pin")
       \/ /\ ~ QueueFree(s, se.contended)
          /\ Becomes(s, [se EXCEPT !.queued = {}, !.contended = {}])
          /\ Goto(s, "reload")
    /\ UNCHANGED <<rows, landed, faults>>

Pin(s) ==
    LET se  == ses[s]
        ids == {id \in se.queued : rows[id] # NoRow}
    IN
    /\ req[s].pc = "pin"
    /\ \/ /\ ids \cap Busy(s) = {}
          /\ Becomes(s, [BeginTxn(se, "serializable", rows) EXCEPT !.txn.pins = ids])
       \/ /\ ids \cap Busy(s) # {}
          /\ UNCHANGED <<ses, writers>>
    /\ Goto(s, "reload")
    /\ UNCHANGED <<rows, landed, faults>>

\* The root is resolved again; the body starts over.
Reload(s) ==
    /\ req[s].pc = "reload"
    /\ Becomes(s, EnsureTxn(ses[s], rows))
    /\ req' = [req EXCEPT ![s] =
                [req[s] EXCEPT !.pc = IF Ok(EnsureTxn(ses[s], rows)) THEN "body" ELSE "handle",
                               !.run = IF @ < MaxRuns THEN @ + 1 ELSE @,
                               !.ops = 0, !.found = "unknown",
                               !.want = NewRun.want, !.joins = {}]]
    /\ UNCHANGED <<rows, landed, faults>>

-----------------------------------------------------------------------------
(* The request's context closes; the walker's record expires.               *)

Close(s) ==
    /\ req[s].pc = "closing"
    /\ Becomes(s, NewSession)
    /\ Goto(s, "done")
    /\ UNCHANGED <<rows, landed, faults>>

Expire ==
    /\ writers /\ writers' = FALSE
    /\ UNCHANGED <<rows, landed, faults, req, ses>>

Step(s) ==
    \/ Begin(s) \/ Read(s) \/ Scan(s) \/ Respond(s) \/ Retry(s)
    \/ \E id \in Ids : WriteAnchor(s, id) \/ Mutate(s, id) \/ Create(s, id)
                         \/ DeleteAnchor(s, id)
    \/ Join(s) \/ EndWalk(s) \/ Fail(s) \/ Swallow(s) \/ Propagate(s) \/ Return(s)
    \/ CommitLost(s) \/ Flush(s) \/ CommitNothing(s) \/ CommitLands(s) \/ CommitRefused(s)
    \/ CommitAckLost(s) \/ UnitExit(s)
    \/ HandleRoRetry(s) \/ HandleConflict(s) \/ HandleTransient(s) \/ HandleError(s)
    \/ WaitTurn(s) \/ Pin(s) \/ Reload(s) \/ Close(s)

Answering == \A s \in Sessions : req[s].pc = "done"

Next == \/ \E s \in Sessions : Step(s)
        \/ Expire
        \/ Answering /\ UNCHANGED vars

Spec     == Init /\ [][Next]_vars
FairSpec == Spec /\ \A s \in Sessions : WF_vars(Step(s))

-----------------------------------------------------------------------------
(* What holds in every state.                                              *)

TypeOK ==
    /\ rows \in Rows /\ landed \subseteq Val
    /\ writers \in BOOLEAN /\ faults \in 0 .. MaxFaults
    /\ req \in [Sessions -> Request]
    /\ ses \in [Sessions -> SessionState]

\* What the ledger calls written, the open transaction has written: a dead
\* transaction's writes are back in the dirty set before another begins
\* (_reclaim_dead_txn), or commit would take them for stored.
NoOrphanWrites ==
    \A s \in Sessions : ses[s].txn # NoTxn =>
        \A id \in Ids : ses[s].ledger.upserted[id] # NoRow =>
            ses[s].txn.own[id] \notin {Unwritten, NoRow}

\* A request answered ok has had the last write of every row it wrote, and
\* every write that joined its transaction, committed, however many of its
\* transactions were rolled back, replayed or swallowed on the way.
AnsweredWritesLanded ==
    \A s \in Sessions : req[s].answer = "ok" =>
        /\ \A id \in Ids : req[s].want[id] \in landed \cup {Unwritten}
        /\ req[s].joins \subseteq landed

\* Nothing is left to write when the request's context closes: the commit in
\* Session.close has no work of its own (so Close needs no commit).
SettledClean ==
    \A s \in Sessions : req[s].pc = "closing" =>
        /\ ses[s].txn = NoTxn /\ ses[s].deleted = {} /\ ~ InFlight(ses[s].ledger)
        /\ Unflushed(ses[s], TRUE) = {}

\* The runs of the body that left something in the database.
LandedRuns(s) == {v[2] : v \in {w \in landed : w # Seed /\ w[1] = s}}

\* One run of the body counts: a run that was refused, aborted or re-run has
\* left nothing behind, and a request answered otherwise than ok nothing at all.
OneRunLands ==
    \A s \in Sessions :
        /\ LandedRuns(s) \subseteq {req[s].run}
        /\ req[s].answer \in {"refused", "error"} => LandedRuns(s) = {}

-----------------------------------------------------------------------------
(* What no step does.                                                      *)

Lands(s) == ses[s].txn # NoTxn /\ landed' # landed
              /\ \E v \in landed' \ landed : v[1] = s

\* A committed update of a row replaces the content it was computed from:
\* no other session's update is lost, in this transaction or in a replay.
NoLostUpdate ==
    [][\A s \in Sessions : \A id \in Ids :
        (Lands(s) /\ rows[id] # NoRow /\ rows'[id] # rows[id] /\ rows'[id] # NoRow)
            => ses[s].mem[id].base = rows[id].val]_vars

\* A write that joined the transaction commits with the rows of its run or
\* they do not commit either: after losing one, the session refuses to commit.
JoinedOrNothing ==
    [][\A s \in Sessions : Lands(s) => req[s].joins \subseteq landed']_vars

\* Whatever the read tier, swallowed failures and walk-end commits do to a
\* session, a transaction on a read-only snapshot commits no write and no
\* joined statement: writes are SERIALIZABLE.
WritesAreSerializable ==
    [][\A s \in Sessions : Lands(s) => ses[s].txn.iso = "serializable"]_vars

\* A request that has waited its turn and holds the contended rows does not
\* lose the race for them again.
TurnHolderWins ==
    [][\A s \in Sessions :
        (ses[s].txn # NoTxn /\ ses'[s].exc = "conflict")
            => ses'[s].lastConflict \cap ses[s].txn.pins = {}]_vars

-----------------------------------------------------------------------------
(* What must happen: retries, re-runs and the queue all end in an answer.   *)

Answered == \A s \in Sessions : <>(req[s].pc = "done")

-----------------------------------------------------------------------------
(* What the documentation says of the program, and the code does not do.    *)

\* persistence.md: two racing find-or-creates converge on one node.
Converge == Cardinality({id \in Fresh : rows[id] # NoRow}) <= 1

\* persistence.md: "The first time such a unit writes, the request is re-run
\* at SERIALIZABLE": no write lands over reads of a read-only snapshot.
SnapshotReadsNeverWrite ==
    [][\A s \in Sessions : Lands(s) => ses[s].snapshotReads = {}]_vars
=============================================================================
