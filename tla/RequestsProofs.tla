--------------------------- MODULE RequestsProofs ---------------------------
(***************************************************************************)
(* What holds of Requests for every set of sessions and rows, every body     *)
(* and every bound: no transaction is open over a ledger that calls written  *)
(* what the transaction has not; what a request answered is committed, with  *)
(* what it joined; its context closes over a session with nothing left to    *)
(* write; where a request commits in one place, one run of it lands; where a *)
(* version tells a row from every earlier one, no update is lost; a request  *)
(* that has waited its turn, and holds the rows, keeps them; and no write is  *)
(* committed by a transaction on a read-only snapshot.                      *)
(***************************************************************************)
EXTENDS Requests, SessionProofs

\* Between an abort and the next transaction the ledger is idle; Begin and
\* Pin open one without asking _reclaim_dead_txn.
Quiet == {"idle", "turn", "pin"}

QuietIsIdle == \A s \in Sessions : req[s].pc \in Quiet => Idle(ses[s])

IInv == TypeOK /\ NoOrphanWrites /\ QuietIsIdle

-----------------------------------------------------------------------------
(* One session moves, the rest stay.                                       *)

\* What the invariant says of one request.
LEMMA InvSound ==
    ASSUME IInv, NEW s \in Sessions
    PROVE  /\ Sound(ses[s]) /\ ses[s] \in SessionState /\ req[s] \in Request
           /\ req[s].pc \in Quiet => Idle(ses[s])
           /\ rows \in Rows
    BY DEF IInv, TypeOK, NoOrphanWrites, QuietIsIdle, Sound, Mirrored

\* A step that moves one session to a sound one, and leaves it idle where it
\* must be, keeps the invariant.
LEMMA Frame ==
    ASSUME IInv, NEW s \in Sessions, NEW se, Sound(se),
           ses' = [ses EXCEPT ![s] = se], writers' \in BOOLEAN,
           req' \in [Sessions -> Request],
           \A t \in Sessions \ {s} : req'[t] = req[t],
           req'[s].pc \in Quiet => Idle(se),
           rows' \in Rows, landed' \subseteq Val, faults' \in 0 .. MaxFaults
    PROVE  IInv'
  <1>1. ses'[s] = se /\ \A t \in Sessions \ {s} : ses'[t] = ses[t]
    BY DEF IInv, TypeOK
  <1>2. TypeOK'
    BY DEF IInv, TypeOK, Sound
  <1>3. NoOrphanWrites'
    BY <1>1 DEF IInv, NoOrphanWrites, Sound, Mirrored
  <1>4. QuietIsIdle'
    BY <1>1 DEF IInv, QuietIsIdle, Idle
  <1> QED BY <1>2, <1>3, <1>4 DEF IInv

\* The steps that touch no shared state but the count of faults.
LEMMA Moves ==
    ASSUME IInv, NEW s \in Sessions, NEW se, Sound(se), Becomes(s, se),
           req' \in [Sessions -> Request],
           \A t \in Sessions \ {s} : req'[t] = req[t],
           req'[s].pc \in Quiet => Idle(se),
           UNCHANGED <<rows, landed>>, faults' \in 0 .. MaxFaults
    PROVE  IInv'
  <1>1. writers' \in BOOLEAN
    BY DEF Becomes
  <1>2. rows' \in Rows /\ landed' \subseteq Val
    BY DEF IInv, TypeOK
  <1> QED BY <1>1, <1>2, Frame DEF Becomes

\* The steps at which a COMMIT may have been applied.
LEMMA MovesShared ==
    ASSUME IInv, NEW s \in Sessions, NEW se, Sound(se), Becomes(s, se),
           req' \in [Sessions -> Request],
           \A t \in Sessions \ {s} : req'[t] = req[t],
           req'[s].pc \in Quiet => Idle(se),
           rows' \in Rows, landed' \subseteq Val, faults' \in 0 .. MaxFaults
    PROVE  IInv'
  <1>1. writers' \in BOOLEAN
    BY DEF Becomes
  <1> QED BY <1>1, Frame DEF Becomes

\* The steps that move the coroutine and not the session.
LEMMA Stays ==
    ASSUME IInv, NEW s \in Sessions, UNCHANGED <<ses, writers>>,
           req' \in [Sessions -> Request],
           \A t \in Sessions \ {s} : req'[t] = req[t],
           req'[s].pc \in Quiet => Idle(ses[s]),
           UNCHANGED <<rows, landed, faults>>
    PROVE  IInv'
  <1>1. ses' = [ses EXCEPT ![s] = ses[s]]
    BY DEF IInv, TypeOK
  <1>2. /\ writers' \in BOOLEAN /\ rows' \in Rows /\ landed' \subseteq Val
        /\ faults' \in 0 .. MaxFaults
    BY DEF IInv, TypeOK
  <1> QED BY <1>1, <1>2, InvSound, Frame

\* A database error of its own accord stays within the bound.
LEMMA FaultsBounded ==
    ASSUME IInv, NEW fault, Faulting(fault)
    PROVE  faults' \in 0 .. MaxFaults
    BY ConstantsAssumption DEF IInv, TypeOK, Faulting

\* A step without one does too.
LEMMA FaultsKept ==
    ASSUME IInv, UNCHANGED faults
    PROVE  faults' \in 0 .. MaxFaults
    BY DEF IInv, TypeOK

\* One request is rewritten, or only the place its coroutine is at.
LEMMA Rewrites ==
    ASSUME IInv, NEW s \in Sessions, NEW r \in Request, req' = [req EXCEPT ![s] = r]
    PROVE  /\ req' \in [Sessions -> Request] /\ req'[s] = r
           /\ \A t \in Sessions \ {s} : req'[t] = req[t]
    BY DEF IInv, TypeOK

\* The others stay as they are, whatever it becomes.
LEMMA Rewritten ==
    ASSUME IInv, NEW s \in Sessions, NEW r, req' = [req EXCEPT ![s] = r]
    PROVE  req'[s] = r /\ \A t \in Sessions \ {s} : req'[t] = req[t]
    BY DEF IInv, TypeOK

\* Moving a coroutine to another place leaves the others where they are.
LEMMA Goes ==
    ASSUME IInv, NEW s \in Sessions, NEW pc \in Pc, Goto(s, pc)
    PROVE  /\ req' \in [Sessions -> Request] /\ req'[s].pc = pc
           /\ \A t \in Sessions \ {s} : req'[t] = req[t]
  <1> DEFINE r == [req[s] EXCEPT !.pc = pc]
  <1>1. r \in Request /\ r.pc = pc
    BY InvSound DEF Request
  <1>2. req' = [req EXCEPT ![s] = r]
    BY DEF Goto
  <1> HIDE DEF r
  <1> QED BY <1>1, <1>2, Rewrites

\* A request that goes on in the same run, with what that run has written.
SameRun(r, end) ==
    /\ end.run = r.run /\ end.want = r.want /\ end.joins = r.joins
    /\ end.answer = r.answer /\ end.body = r.body

\* Moving the coroutine does not end the run.
LEMMA GoesOn ==
    ASSUME IInv, NEW s \in Sessions, NEW pc, Goto(s, pc)
    PROVE  /\ SameRun(req[s], req'[s]) /\ req'[s].pc = pc /\ req'[s].call = req[s].call
           /\ \A t \in Sessions \ {s} : req'[t] = req[t]
  <1> DEFINE r == [req[s] EXCEPT !.pc = pc]
  <1>1. SameRun(req[s], r) /\ r.pc = pc /\ r.call = req[s].call
    BY InvSound DEF SameRun, Request
  <1>2. req' = [req EXCEPT ![s] = r]
    BY DEF Goto
  <1> HIDE DEF r
  <1> QED BY <1>1, <1>2, Rewritten

\* Nor does starting to commit it.
LEMMA CommitsOn ==
    ASSUME IInv, NEW s \in Sessions, NEW call, StartCommit(s, call)
    PROVE  /\ SameRun(req[s], req'[s]) /\ req'[s].pc = "commit" /\ req'[s].call = call
           /\ \A t \in Sessions \ {s} : req'[t] = req[t]
  <1> DEFINE r == [req[s] EXCEPT !.pc = "commit", !.call = call, !.tries = 0]
  <1>1. SameRun(req[s], r) /\ r.pc = "commit" /\ r.call = call
    BY InvSound DEF SameRun, Request
  <1>2. req' = [req EXCEPT ![s] = r]
    BY DEF StartCommit
  <1> HIDE DEF r
  <1> QED BY <1>1, <1>2, Rewritten

\* A call of the body has a content to write and room for its count.
LEMMA StampType ==
    ASSUME IInv, NEW s \in Sessions, InBody(s)
    PROVE  Stamp(s) \in Val /\ req[s].ops + 1 \in 0 .. MaxOps
  <1>1. req[s].run \in 0 .. MaxRuns /\ req[s].ops \in 0 .. MaxOps /\ MaxOps \in Nat
        /\ req[s].ops < MaxOps
    BY ConstantsAssumption DEF IInv, TypeOK, Request, InBody
  <1>2. req[s].ops + 1 \in 1 .. MaxOps /\ req[s].ops + 1 \in 0 .. MaxOps
    BY <1>1
  <1>3. Stamp(s) \in Sessions \X (0 .. MaxRuns) \X (1 .. MaxOps)
    BY <1>1, <1>2 DEF Stamp
  <1> QED BY <1>2, <1>3, ConstantsAssumption

-----------------------------------------------------------------------------
(* Beginning and reading.                                                  *)

\* The invariant holds before any request has begun.
LEMMA InitInv == Init => IInv
  <1> SUFFICES ASSUME Init PROVE IInv
    OBVIOUS
  <1>1. NewSession \in SessionState /\ NewSession.txn = NoTxn /\ Idle(NewSession)
    BY DEF NewSession, SessionState, NewLedger, Ledger, EmptyRows, Rows, MaybeRow,
           Exceptions, Idle
  <1>2. rows \in Rows
    BY ConstantsAssumption DEF Init, Rows, MaybeRow, RowState
  <1>3. MaxAttempts \in Nat /\ MaxRuns \in Nat /\ MaxOps \in Nat /\ MaxFaults \in Nat
    BY ConstantsAssumption DEF MaxRuns
  <1>4. req \in [Sessions -> Request]
    <2>1. PICK body \in Bodies :
            req = [s \in Sessions |->
                     [body |-> body, pc |-> "idle", call |-> "none", arg |-> {},
                      tries |-> 0, attempt |-> 0, roRetries |-> 0, run |-> 0,
                      ops |-> 0, found |-> "unknown", want |-> NewRun.want,
                      joins |-> {}, answer |-> "none"]]
      BY DEF Init
    <2>2. body \in SUBSET OpKinds
      BY ConstantsAssumption
    <2> QED BY <1>3, <2>1, <2>2 DEF Request, Pc, Calls, NewRun
  <1>5. TypeOK
    <2>1. ses \in [Sessions -> SessionState]
      BY <1>1 DEF Init
    <2>2. landed \subseteq Val /\ faults \in 0 .. MaxFaults
      BY <1>3 DEF Init
    <2>3. writers \in BOOLEAN
      BY DEF Init
    <2> QED BY <1>2, <1>4, <2>1, <2>2, <2>3 DEF TypeOK
  <1>6. NoOrphanWrites /\ QuietIsIdle
    BY <1>1 DEF Init, NoOrphanWrites, QuietIsIdle
  <1> QED BY <1>5, <1>6 DEF IInv

\* A request that begins opens its transaction over an idle ledger.
LEMMA BeginInv ==
    ASSUME IInv, NEW s \in Sessions, Begin(s)
    PROVE  IInv'
  <1> DEFINE open == BeginTxn(ses[s], TxnIsolation(ses[s]), rows)
  <1>1. Sound(ses[s]) /\ Idle(ses[s]) /\ rows \in Rows
    BY InvSound DEF Begin, Quiet
  <1>2. Sound(open)
    BY <1>1, BeginSound DEF TxnIsolation, Isolation
  <1>3. RoUnit \in BOOLEAN
    BY ConstantsAssumption DEF RoUnit, IInv, TypeOK
  <1> HIDE DEF open
  <1>4. Sound(UnitEnter(open, RoUnit, rows))
    BY <1>1, <1>2, <1>3, UnitEnterSound
  <1>5. req' \in [Sessions -> Request] /\ req'[s].pc = "body"
        /\ \A t \in Sessions \ {s} : req'[t] = req[t]
    <2> DEFINE r == [req[s] EXCEPT !.pc = "body", !.attempt = 1, !.run = 1]
    <2>1. 1 \in 0 .. MaxAttempts /\ 1 \in 0 .. MaxRuns
      BY ConstantsAssumption DEF MaxRuns
    <2>2. req[s] \in Request
      BY InvSound
    <2>3. r \in Request /\ r.pc = "body"
      BY <2>1, <2>2 DEF Request, Pc
    <2>4. req' = [req EXCEPT ![s] = r]
      BY DEF Begin
    <2> HIDE DEF r
    <2> QED BY <2>3, <2>4, Rewrites
  <1>6. Becomes(s, UnitEnter(open, RoUnit, rows)) /\ UNCHANGED <<rows, landed, faults>>
    BY DEF Begin, open
  <1> QED BY <1>4, <1>5, <1>6, FaultsKept, Moves DEF Quiet

\* A read, tried again or over, leaves a typed request outside the quiet places.
LEMMA AfterTryType ==
    ASSUME NEW r \in Request, NEW call \in Calls, NEW ids \in SUBSET Ids,
           NEW tries \in Nat, r.pc # "call" => r.ops < MaxOps,
           NEW loads, NEW again, NEW end, NEW found \in {"none", "some"}
    PROVE  /\ AfterTry(r, call, ids, tries, loads, again, end, found) \in Request
           /\ AfterTry(r, call, ids, tries, loads, again, end, found).pc \notin Quiet
  <1> DEFINE ops   == IF r.pc = "call" THEN r.ops ELSE r.ops + 1
             pc    == IF ~ Ok(end) THEN IF call = "respond" THEN "handle" ELSE "raised"
                      ELSE IF again THEN "call"
                      ELSE IF call = "respond" THEN "exit" ELSE "body"
             waits == again /\ Ok(end)
             next  == IF waits THEN call ELSE "none"
             arg   == IF waits THEN ids ELSE {}
             count == IF ~ waits THEN 0 ELSE IF loads THEN 2 ELSE tries + 1
             seen  == IF call # "scan" \/ again \/ ~ Ok(end) THEN r.found ELSE found
  <1>1. ops \in 0 .. MaxOps
    BY ConstantsAssumption DEF Request
  <1>2. pc \in Pc /\ pc \notin Quiet
    BY DEF Pc, Quiet
  <1>3. next \in Calls /\ arg \in SUBSET Ids /\ count \in Nat
    BY DEF Calls
  <1>4. seen \in {"unknown", "none", "some"}
    BY DEF Request
  <1>5. AfterTry(r, call, ids, tries, loads, again, end, found) =
          [r EXCEPT !.ops = ops, !.pc = pc, !.call = next, !.arg = arg,
                    !.tries = count, !.found = seen]
    BY Zenon DEF AfterTry
  <1> HIDE DEF ops, pc, next, arg, count, seen
  <1> DEFINE moved == [r EXCEPT !.ops = ops, !.pc = pc, !.call = next]
  <1>6. moved \in Request /\ moved.pc = pc
    BY <1>1, <1>2, <1>3 DEF Request
  <1>7. [r EXCEPT !.ops = ops, !.pc = pc, !.call = next, !.arg = arg,
                  !.tries = count, !.found = seen]
           = [moved EXCEPT !.arg = arg, !.tries = count, !.found = seen]
    BY DEF Request
  <1> HIDE DEF moved
  <1>8. /\ [moved EXCEPT !.arg = arg, !.tries = count, !.found = seen] \in Request
        /\ [moved EXCEPT !.arg = arg, !.tries = count, !.found = seen].pc = moved.pc
    BY <1>3, <1>4, <1>6 DEF Request
  <1> QED BY <1>2, <1>5, <1>6, <1>7, <1>8

\* A read, its flush, its replay and its failures keep the invariant.
LEMMA TryInv ==
    ASSUME IInv, NEW s \in Sessions, NEW call \in Calls, NEW ids \in SUBSET Ids,
           NEW tries \in Nat, Try(s, call, ids, tries),
           req[s].pc # "call" => req[s].ops < MaxOps
    PROVE  IInv'
  <1>1. PICK fault \in {"none", "flush", "load"} :
             \E open \in BarrierResults(ses[s], rows, Busy(s), fault = "flush") :
                 Tried(s, call, ids, tries, fault, open)
    BY DEF Try
  <1>1a. PICK open \in BarrierResults(ses[s], rows, Busy(s), fault = "flush") :
             Tried(s, call, ids, tries, fault, open)
    BY <1>1
  <1> DEFINE loads   == Ok(open)
             read    == IF ~ loads THEN open
                        ELSE IF fault = "load" THEN StatementFailed(open, "transient")
                        ELSE IF call = "scan" THEN [open EXCEPT !.txn = Reading(@, ids)]
                        ELSE Load(open, ids)
             again   == read.exc = "transient" /\ tries < LastTry(loads)
             end     == IF again THEN ReplayTxn(read, FALSE) ELSE read
             found   == IF \E id \in ids : Visible(open.txn, id) # NoRow
                        THEN "some" ELSE "none"
             r       == AfterTry(req[s], call, ids, tries, loads, again, end, found)
  <1>2. Sound(ses[s]) /\ rows \in Rows
    BY InvSound
  <1>3. Sound(open) /\ (Ok(open) => open.txn # NoTxn)
    BY <1>2, BarrierSound
  <1>4. Sound(read)
    <2>1. Sound(StatementFailed(open, "transient"))
      BY <1>3, StatementFailedSound DEF Sound, Exceptions
    <2>2. Ok(open) => Sound(Load(open, ids))
      BY <1>3, LoadSound
    <2>3. Ok(open) => Sound([open EXCEPT !.txn = Reading(@, ids)])
      <3>1. \A t \in Txn : Reading(t, ids) \in Txn /\ Reading(t, ids).own = t.own
        BY DEF Reading, Txn
      <3> QED BY <3>1, <1>3 DEF Sound, Mirrored, SessionState
    <2> QED BY <1>3, <2>1, <2>2, <2>3
  <1> HIDE DEF read, loads
  <1>5. Sound(end)
    BY <1>4, ReplaySound DEF Sound
  <1>6. /\ Faulting(fault # "none") /\ Becomes(s, end) /\ UNCHANGED <<rows, landed>>
        /\ req' = [req EXCEPT ![s] = r]
    BY <1>1a DEF Tried, read, loads
  <1>7. r \in Request /\ r.pc \notin Quiet
    <2>1. req[s] \in Request /\ found \in {"some", "none"}
      BY InvSound
    <2> HIDE DEF again, end, found
    <2> QED BY <2>1, AfterTryType
  <1> HIDE DEF again, end, found, r
  <1> QED BY <1>5, <1>6, <1>7, FaultsBounded, Rewrites, Moves

\* Read, Scan, Respond and Retry keep the invariant.
LEMMA ReadsInv ==
    ASSUME IInv, NEW s \in Sessions, Read(s) \/ Scan(s) \/ Respond(s) \/ Retry(s)
    PROVE  IInv'
  <1>1. CASE Read(s)
    BY <1>1, TryInv DEF Read, InBody, Calls, Unread
  <1>2. CASE Scan(s)
    BY <1>2, TryInv, ConstantsAssumption DEF Scan, InBody, Calls
  <1>3. CASE Respond(s)
    BY <1>3, TryInv DEF Respond, Calls, Unread
  <1>4. CASE Retry(s)
    BY <1>4, TryInv, InvSound DEF Retry, Request
  <1> QED BY <1>1, <1>2, <1>3, <1>4

-----------------------------------------------------------------------------
(* The body writes.                                                        *)

\* A call of the body that sends no statement keeps the invariant.
LEMMA LocalInv ==
    ASSUME IInv, NEW s \in Sessions, NEW se, Sound(se),
           NEW found \in {"unknown", "none", "some"},
           NEW want \in [Ids -> Val \cup {Unwritten}],
           InBody(s), Local(s, se, found, want)
    PROVE  IInv'
  <1> DEFINE r == [req[s] EXCEPT !.ops = @ + 1, !.found = found, !.want = want]
  <1>1. r \in Request /\ r.pc = "body"
    <2>1. req[s] \in Request /\ req[s].ops + 1 \in 0 .. MaxOps /\ req[s].pc = "body"
      BY StampType, InvSound DEF Request, InBody
    <2> QED BY <2>1 DEF Request
  <1>2. req' = [req EXCEPT ![s] = r]
    BY DEF Local
  <1> HIDE DEF r
  <1> QED BY <1>1, <1>2, FaultsKept, Rewrites, Moves DEF Local, Quiet

\* What the graph API does in memory leaves transaction and ledger alone.
LEMMA MemorySound ==
    ASSUME NEW se, Sound(se), NEW id \in Ids, NEW anchor \in Anchor
    PROVE  /\ Sound([se EXCEPT !.mem[id] = anchor])
           /\ Sound(MarkDirty(se, id)) /\ Sound(Put(se, id, anchor))
           /\ Sound(Delete(se, id))
  <1>1. Sound([se EXCEPT !.mem[id] = anchor])
    BY DEF Sound, Mirrored, SessionState
  <1>2. Sound(MarkDirty(se, id))
    BY DEF Sound, Mirrored, SessionState, MarkDirty
  <1>3. Sound(Put(se, id, anchor))
    BY DEF Sound, Mirrored, SessionState, Put
  <1>4. Sound(Delete(se, id))
    BY DEF Sound, Mirrored, SessionState, Delete
  <1> QED BY <1>1, <1>2, <1>3, <1>4

\* The body's writes keep the invariant: they change memory only.
LEMMA WritesInv ==
    ASSUME IInv, NEW s \in Sessions, NEW id \in Ids,
           WriteAnchor(s, id) \/ Mutate(s, id) \/ Create(s, id) \/ DeleteAnchor(s, id)
    PROVE  IInv'
  <1>1. InBody(s)
    BY DEF WriteAnchor, Mutate, Create, DeleteAnchor
  <1>2. Stamp(s) \in Val
    BY <1>1, StampType
  <1>3. Sound(ses[s]) /\ req[s] \in Request
    BY InvSound
  <1>4. /\ [req[s].want EXCEPT ![id] = Stamp(s)] \in [Ids -> Val \cup {Unwritten}]
        /\ [req[s].want EXCEPT ![id] = Unwritten] \in [Ids -> Val \cup {Unwritten}]
        /\ req[s].found \in {"unknown", "none", "some"}
    BY <1>2, <1>3 DEF Request
  <1>5. id \in Cached(ses[s]) => NewContent(s, id) \in Anchor
    BY <1>2, <1>3 DEF NewContent, Cached, Sound, SessionState, Anchor
  <1>6. CASE WriteAnchor(s, id)
    BY <1>1, <1>3, <1>4, <1>5, <1>6, MemorySound, LocalInv DEF WriteAnchor
  <1>7. CASE Mutate(s, id)
    BY <1>1, <1>3, <1>4, <1>5, <1>7, MemorySound, LocalInv DEF Mutate
  <1>8. CASE Create(s, id)
    <2>1. [val |-> Stamp(s), base |-> NoRow] \in Anchor
      BY <1>2 DEF Anchor
    <2> QED BY <1>1, <1>3, <1>4, <1>8, <2>1, MemorySound, LocalInv DEF Create
  <1>9. CASE DeleteAnchor(s, id)
    <2>1. Sound(Delete(ses[s], id))
      BY <1>3, <1>5, <1>9, MemorySound DEF DeleteAnchor
    <2> QED BY <1>1, <1>4, <1>9, <2>1, LocalInv DEF DeleteAnchor
  <1> QED BY <1>6, <1>7, <1>8, <1>9

\* A statement outside the graph, or its failure, keeps the invariant.
LEMMA JoinInv ==
    ASSUME IInv, NEW s \in Sessions, Join(s)
    PROVE  IInv'
  <1>1. PICK fault \in BOOLEAN :
          LET open == EnsureWritableTxn(ses[s], rows)
              sent == IF ~ Ok(open) THEN open
                      ELSE IF fault THEN StatementFailed(open, "transient")
                      ELSE [open EXCEPT !.txn.joins = @ \cup {Stamp(s)}]
          IN  /\ Faulting(fault)
              /\ Becomes(s, sent)
              /\ req' = [req EXCEPT ![s] =
                          [req[s] EXCEPT !.ops = @ + 1,
                                         !.pc    = IF Ok(sent) THEN "body" ELSE "raised",
                                         !.joins = IF Ok(sent) THEN @ \cup {Stamp(s)} ELSE @]]
              /\ UNCHANGED <<rows, landed>>
    BY DEF Join
  <1> DEFINE open == EnsureWritableTxn(ses[s], rows)
             sent == IF ~ Ok(open) THEN open
                     ELSE IF fault THEN StatementFailed(open, "transient")
                     ELSE [open EXCEPT !.txn.joins = @ \cup {Stamp(s)}]
             r    == [req[s] EXCEPT !.ops = @ + 1,
                        !.pc    = IF Ok(sent) THEN "body" ELSE "raised",
                        !.joins = IF Ok(sent) THEN @ \cup {Stamp(s)} ELSE @]
  <1>2. Stamp(s) \in Val /\ req[s].ops + 1 \in 0 .. MaxOps
    BY StampType DEF Join
  <1>3. Sound(open) /\ (Ok(open) => open.txn # NoTxn)
    BY InvSound, EnsureWritableSound
  <1> HIDE DEF open
  <1>4. Sound(StatementFailed(open, "transient"))
    BY <1>3, StatementFailedSound DEF Sound, Exceptions
  <1>5. Ok(open) => Sound([open EXCEPT !.txn.joins = @ \cup {Stamp(s)}])
    <2>1. \A t \in Txn : /\ [t EXCEPT !.joins = @ \cup {Stamp(s)}] \in Txn
                         /\ [t EXCEPT !.joins = @ \cup {Stamp(s)}].own = t.own
      BY <1>2 DEF Txn
    <2> QED BY <1>3, <2>1 DEF Sound, Mirrored, SessionState
  <1>6. Sound(sent)
    BY <1>3, <1>4, <1>5
  <1>7. Faulting(fault) /\ Becomes(s, sent) /\ UNCHANGED <<rows, landed>>
        /\ req' = [req EXCEPT ![s] = r]
    BY <1>1 DEF open
  <1> HIDE DEF sent
  <1>8. r \in Request /\ r.pc \notin Quiet
    <2>1. req[s] \in Request
      BY InvSound
    <2>2. CASE Ok(sent)
      BY <1>2, <2>1, <2>2 DEF Request, Pc, Quiet
    <2>3. CASE ~ Ok(sent)
      BY <1>2, <2>1, <2>3 DEF Request, Pc, Quiet
    <2> QED BY <2>2, <2>3
  <1> HIDE DEF r
  <1> QED BY <1>6, <1>7, <1>8, FaultsBounded, Rewrites, Moves

-----------------------------------------------------------------------------
(* The body ends.                                                          *)

\* Starting a commit moves the coroutine only.
LEMMA StartsCommit ==
    ASSUME IInv, NEW s \in Sessions, NEW call \in Calls, StartCommit(s, call)
    PROVE  /\ req' \in [Sessions -> Request] /\ req'[s].pc = "commit"
           /\ \A t \in Sessions \ {s} : req'[t] = req[t]
  <1> DEFINE r == [req[s] EXCEPT !.pc = "commit", !.call = call, !.tries = 0]
  <1>1. r \in Request /\ r.pc = "commit"
    <2>1. req[s] \in Request
      BY InvSound
    <2> QED BY <2>1 DEF Request, Pc
  <1>2. req' = [req EXCEPT ![s] = r]
    BY DEF StartCommit
  <1> HIDE DEF r
  <1> QED BY <1>1, <1>2, Rewrites

\* Whatever ends a walk or the body keeps the invariant.
LEMMA EndsInv ==
    ASSUME IInv, NEW s \in Sessions,
           EndWalk(s) \/ Fail(s) \/ Swallow(s) \/ Propagate(s) \/ Return(s)
    PROVE  IInv'
  <1>1. CASE EndWalk(s)
    <2> DEFINE r == [req[s] EXCEPT !.pc = "commit", !.call = "walkend",
                                   !.tries = 0, !.ops = @ + 1]
    <2>0. req[s] \in Request /\ req[s].ops + 1 \in 0 .. MaxOps
      BY <1>1, StampType, InvSound DEF EndWalk
    <2>1. r \in Request /\ r.pc = "commit"
      BY <2>0 DEF Request, Pc, Calls
    <2>2. req' = [req EXCEPT ![s] = r] /\ UNCHANGED <<rows, landed, writers, faults, ses>>
      BY <1>1 DEF EndWalk
    <2> HIDE DEF r
    <2> QED BY <2>1, <2>2, Rewrites, Stays DEF Quiet
  <1>2. CASE Fail(s)
    BY <1>2, Goes, InvSound, RaiseSound, FaultsKept, Moves DEF Fail, Pc, Quiet, Exceptions
  <1>3. CASE Swallow(s)
    BY <1>3, Goes, InvSound, RaiseSound, FaultsKept, Moves DEF Swallow, Pc, Quiet, Exceptions
  <1>4. CASE Propagate(s)
    BY <1>4, Goes, Stays DEF Propagate, Pc, Quiet
  <1>5. CASE Return(s)
    BY <1>5, StartsCommit, Stays DEF Return, Calls, Quiet
  <1> QED BY <1>1, <1>2, <1>3, <1>4, <1>5

-----------------------------------------------------------------------------
(* Session.commit.                                                         *)

\* Popping the unit stack keeps the session sound.
LEMMA PoppedSound ==
    ASSUME NEW s \in Sessions, NEW se, Sound(se)
    PROVE  Sound(Popped(s, se))
    BY DEF Popped, Sound, Mirrored, SessionState

\* A step without a COMMIT leaves table and history typed.
LEMMA SharedKept ==
    ASSUME IInv, UNCHANGED <<rows, landed>>
    PROVE  rows' \in Rows /\ landed' \subseteq Val
    BY DEF IInv, TypeOK

\* A commit that raises keeps the invariant, whoever had called it.
LEMMA CommitRaisesInv ==
    ASSUME IInv, NEW s \in Sessions, NEW se, Sound(se), CommitRaises(s, se),
           rows' \in Rows, landed' \subseteq Val, faults' \in 0 .. MaxFaults
    PROVE  IInv'
  <1> DEFINE end == CASE req[s].call = "walkend" -> Raise(se, "none")
                      [] req[s].call = "exit" /\ se.exc = "lost" -> Raise(Abort(se), "lost")
                      [] OTHER -> se
             r   == [req[s] EXCEPT !.call = "none", !.tries = 0,
                       !.pc = IF req[s].call = "walkend" THEN "body" ELSE "handle"]
  <1>1. Sound(Raise(se, "none"))
    BY RaiseSound DEF Exceptions
  <1>2. Sound(Raise(Abort(se), "lost"))
    BY AbortSound, RaiseSound DEF Sound, Exceptions
  <1>3. Sound(end)
    BY <1>1, <1>2
  <1>4. Becomes(s, Popped(s, end)) /\ req' = [req EXCEPT ![s] = r]
    BY DEF CommitRaises
  <1>5. r \in Request /\ r.pc \notin Quiet
    <2>1. req[s] \in Request
      BY InvSound
    <2>2. (IF req[s].call = "walkend" THEN "body" ELSE "handle") \in Pc \ Quiet
      BY DEF Pc, Quiet
    <2> QED BY <2>1, <2>2 DEF Request, Calls
  <1> HIDE DEF end, r
  <1> QED BY <1>3, <1>4, <1>5, PoppedSound, Rewrites, MovesShared

\* A commit that replays its write set, or gives up, keeps the invariant.
LEMMA CommitReplaysInv ==
    ASSUME IInv, NEW s \in Sessions, NEW se, Sound(se), CommitReplays(s, se),
           rows' \in Rows, landed' \subseteq Val, faults' \in 0 .. MaxFaults
    PROVE  IInv'
  <1> DEFINE back == ReplayTxn(se, req[s].tries >= MaxRetries)
             r    == [req[s] EXCEPT !.pc = "commit", !.tries = @ + 1]
  <1>1. Sound(back)
    <2> DEFINE exhausted == req[s].tries >= MaxRetries
    <2>1. exhausted \in BOOLEAN
      OBVIOUS
    <2> HIDE DEF exhausted
    <2>2. Sound(ReplayTxn(se, exhausted))
      BY <2>1, ReplaySound DEF Sound
    <2> QED BY <2>2 DEF exhausted
  <1>2. \/ Becomes(s, back) /\ req' = [req EXCEPT ![s] = r]
        \/ CommitRaises(s, back)
    BY DEF CommitReplays
  <1> HIDE DEF back
  <1>3. r \in Request /\ r.pc = "commit"
    <2>1. req[s] \in Request /\ req[s].tries + 1 \in Nat
      BY InvSound DEF Request
    <2> QED BY <2>1 DEF Request, Pc
  <1> HIDE DEF r
  <1>4. CASE Becomes(s, back) /\ req' = [req EXCEPT ![s] = r]
    BY <1>1, <1>3, <1>4, Rewrites, MovesShared DEF Quiet
  <1>5. CASE CommitRaises(s, back)
    BY <1>1, <1>5, CommitRaisesInv
  <1> QED BY <1>2, <1>4, <1>5

\* A commit of a lost transaction keeps the invariant.
LEMMA CommitLostInv ==
    ASSUME IInv, NEW s \in Sessions, CommitLost(s)
    PROVE  IInv'
  <1>1. Sound(Raise(RollbackTxn(ses[s]), "lost"))
    BY InvSound, RollbackIsSound, RaiseSound DEF Exceptions
  <1> QED BY <1>1, FaultsKept, SharedKept, CommitRaisesInv DEF CommitLost

\* The commit's flush keeps the invariant in every outcome.
LEMMA FlushInv ==
    ASSUME IInv, NEW s \in Sessions, Flush(s)
    PROVE  IInv'
  <1>1. PICK fault \in BOOLEAN :
          \E sent \in FlushResults(ses[s], TRUE, rows, Busy(s), fault) :
            /\ Faulting(fault)
            /\ IF Ok(sent) THEN Becomes(s, sent) /\ Goto(s, "committing")
               ELSE IF sent.exc = "transient" THEN CommitReplays(s, sent)
               ELSE CommitRaises(s, Raise(RollbackTxn(sent), sent.exc))
            /\ UNCHANGED <<rows, landed>>
    BY DEF Flush
  <1>2. PICK sent \in FlushResults(ses[s], TRUE, rows, Busy(s), fault) :
            /\ Faulting(fault)
            /\ IF Ok(sent) THEN Becomes(s, sent) /\ Goto(s, "committing")
               ELSE IF sent.exc = "transient" THEN CommitReplays(s, sent)
               ELSE CommitRaises(s, Raise(RollbackTxn(sent), sent.exc))
            /\ UNCHANGED <<rows, landed>>
    BY <1>1
  <1>3. Sound(sent)
    BY InvSound, FlushSound
  <1>4. faults' \in 0 .. MaxFaults /\ rows' \in Rows /\ landed' \subseteq Val
    BY <1>2, FaultsBounded, SharedKept
  <1>5. CASE Ok(sent)
    BY <1>2, <1>3, <1>4, <1>5, Goes, Moves DEF Pc, Quiet
  <1>6. CASE ~ Ok(sent) /\ sent.exc = "transient"
    BY <1>2, <1>3, <1>4, <1>6, CommitReplaysInv
  <1>7. CASE ~ Ok(sent) /\ sent.exc # "transient"
    <2>1. Sound(Raise(RollbackTxn(sent), sent.exc))
      BY <1>3, RollbackIsSound, RaiseSound DEF Sound, SessionState
    <2> QED BY <1>2, <1>4, <1>7, <2>1, CommitRaisesInv
  <1> QED BY <1>5, <1>6, <1>7

\* COMMIT: what the transaction wrote has the types of the table.
LEMMA ApplyTypes ==
    ASSUME IInv, NEW s \in Sessions, ses[s].txn # NoTxn, Apply(s)
    PROVE  rows' \in Rows /\ landed' \subseteq Val
  <1>1. ses[s].txn \in Txn
    BY InvSound DEF SessionState
  <1>2. rows' \in Rows
    BY <1>1, InvSound DEF Apply, Applied, Txn, Rows, MaybeRow
  <1>3. ses[s].txn.joins \subseteq Val
    BY <1>1 DEF Txn
  <1>4. \A i \in Wrote(ses[s].txn) : ses[s].txn.own[i] # NoRow => ses[s].txn.own[i].val \in Val
    BY <1>1 DEF Wrote, Txn, MaybeRow, RowState
  <1>5. landed \subseteq Val
    BY DEF IInv, TypeOK
  <1> QED BY <1>2, <1>3, <1>4, <1>5 DEF Apply

\* A commit that is through leaves a session with nothing in flight.
LEMMA CommitReturnsInv ==
    ASSUME IInv, NEW s \in Sessions, NEW peers \in [Sessions -> SessionState],
           \A t \in Sessions \ {s} : /\ Mirrored(peers[t])
                                     /\ peers[t].ledger = ses[t].ledger,
           CommitReturns(s, peers, ses[s]),
           rows' \in Rows, landed' \subseteq Val, faults' \in 0 .. MaxFaults
    PROVE  IInv'
  <1> DEFINE end == Popped(s, LeaveQueue(CommitTxn(ses[s])))
             r   == [req[s] EXCEPT !.call = "none", !.tries = 0,
                 !.pc = IF req[s].call = "walkend" THEN "body"
                        ELSE IF req[s].call = "final" THEN "exit" ELSE "closing",
                 !.answer = IF req[s].call = "exit" THEN "ok" ELSE @]
  <1>1. Sound(end)
    BY InvSound, CommitSound, LeaveQueueSound, PoppedSound
  <1>2. r \in Request /\ r.pc \notin Quiet
    <2>1. req[s] \in Request
      BY InvSound
    <2>2. (IF req[s].call = "walkend" THEN "body"
           ELSE IF req[s].call = "final" THEN "exit" ELSE "closing") \in Pc \ Quiet
      BY DEF Pc, Quiet
    <2>3. (IF req[s].call = "exit" THEN "ok" ELSE req[s].answer)
            \in {"none", "ok", "refused", "error"}
      BY <2>1 DEF Request
    <2> QED BY <2>1, <2>2, <2>3 DEF Request, Calls
  <1>3. ses' = [peers EXCEPT ![s] = end] /\ req' = [req EXCEPT ![s] = r]
        /\ UNCHANGED writers
    BY DEF CommitReturns
  <1> HIDE DEF end, r
  <1>4. ses'[s] = end /\ \A t \in Sessions \ {s} : ses'[t] = peers[t]
    BY <1>3
  <1>5. req' \in [Sessions -> Request] /\ req'[s] = r
        /\ \A t \in Sessions \ {s} : req'[t] = req[t]
    BY <1>2, <1>3, Rewrites
  <1>6. TypeOK'
    BY <1>1, <1>3, <1>5 DEF IInv, TypeOK, Sound
  <1>7. NoOrphanWrites'
    BY <1>1, <1>4 DEF NoOrphanWrites, Sound, Mirrored
  <1>8. QuietIsIdle'
    BY <1>2, <1>4, <1>5 DEF IInv, QuietIsIdle, Idle
  <1> QED BY <1>6, <1>7, <1>8 DEF IInv

\* A commit without a transaction keeps the invariant.
LEMMA CommitNothingInv ==
    ASSUME IInv, NEW s \in Sessions, CommitNothing(s)
    PROVE  IInv'
  <1>1. ses \in [Sessions -> SessionState]
    BY DEF IInv, TypeOK
  <1>2. \A t \in Sessions : Mirrored(ses[t])
    BY InvSound DEF Sound
  <1>3. CommitReturns(s, ses, ses[s])
    BY DEF CommitNothing
  <1>4. rows' \in Rows /\ landed' \subseteq Val /\ faults' \in 0 .. MaxFaults
    BY DEF CommitNothing, IInv, TypeOK
  <1> QED BY <1>1, <1>2, <1>3, <1>4, CommitReturnsInv

\* A COMMIT that applies keeps the invariant, in the sessions it outlives too.
LEMMA CommitLandsInv ==
    ASSUME IInv, NEW s \in Sessions, CommitLands(s)
    PROVE  IInv'
  <1> DEFINE peers == Outlived(s)
  <1>1. ses[s].txn \in Txn
    BY InvSound DEF CommitLands, SessionState
  <1>2. \A t \in Txn : /\ [t EXCEPT !.peers = @ \cup ses[s].txn.reads] \in Txn
                       /\ [t EXCEPT !.peers = @ \cup ses[s].txn.reads].own = t.own
    BY <1>1 DEF Txn
  <1>3. \A t \in Sessions : /\ peers[t] \in SessionState /\ Mirrored(peers[t])
                            /\ peers[t].ledger = ses[t].ledger
    <2> TAKE t \in Sessions
    <2>1. Sound(ses[t])
      BY InvSound
    <2>2. CASE t = s \/ ses[t].txn = NoTxn
      BY <2>1, <2>2 DEF Outlived, Sound
    <2>3. CASE ~ (t = s \/ ses[t].txn = NoTxn)
      <3>1. peers[t] = [ses[t] EXCEPT !.txn = [ses[t].txn EXCEPT
                                        !.peers = @ \cup ses[s].txn.reads]]
        BY <2>3 DEF Outlived
      <3>2. ses[t].txn \in Txn
        BY <2>1, <2>3 DEF Sound, SessionState
      <3>3. /\ [ses[t].txn EXCEPT !.peers = @ \cup ses[s].txn.reads] \in Txn
            /\ [ses[t].txn EXCEPT !.peers = @ \cup ses[s].txn.reads].own = ses[t].txn.own
        BY <3>2, <1>2
      <3> HIDE DEF peers
      <3> QED BY <2>1, <2>3, <3>1, <3>3 DEF Sound, Mirrored, SessionState
    <2> QED BY <2>2, <2>3
  <1>4. peers \in [Sessions -> SessionState]
    BY <1>3 DEF Outlived
  <1>5. rows' \in Rows /\ landed' \subseteq Val
    BY ApplyTypes DEF CommitLands
  <1>6. CommitReturns(s, peers, ses[s]) /\ faults' \in 0 .. MaxFaults
    BY FaultsKept DEF CommitLands
  <1> HIDE DEF peers
  <1> QED BY <1>3, <1>4, <1>5, <1>6, CommitReturnsInv

\* Refused, or its answer lost: the transaction is gone either way.
LEMMA CommitFailsInv ==
    ASSUME IInv, NEW s \in Sessions, CommitRefused(s) \/ CommitAckLost(s)
    PROVE  IInv'
  <1>1. Sound(StatementFailed(ses[s], "transient"))
    BY InvSound, StatementFailedSound DEF Exceptions
  <1>2. faults' \in 0 .. MaxFaults
    BY FaultsKept, FaultsBounded DEF CommitRefused, CommitAckLost
  <1>3. rows' \in Rows /\ landed' \subseteq Val
    BY ApplyTypes, SharedKept DEF CommitRefused, CommitAckLost
  <1>4. CommitReplays(s, StatementFailed(ses[s], "transient"))
    BY DEF CommitRefused, CommitAckLost
  <1> QED BY <1>1, <1>2, <1>3, <1>4, CommitReplaysInv

-----------------------------------------------------------------------------
(* unit_exit and the handlers.                                             *)

\* An answer leaves a typed request.
LEMMA SettleType ==
    ASSUME IInv, NEW s \in Sessions, NEW answer \in {"ok", "refused", "error"},
           Settle(s, answer)
    PROVE  /\ req' \in [Sessions -> Request] /\ req'[s].pc = "closing"
           /\ \A t \in Sessions \ {s} : req'[t] = req[t]
  <1> DEFINE r == [req[s] EXCEPT !.pc = "closing", !.answer = answer]
  <1>1. r \in Request /\ r.pc = "closing"
    <2>1. req[s] \in Request
      BY InvSound
    <2> QED BY <2>1 DEF Request, Pc
  <1>2. req' = [req EXCEPT ![s] = r]
    BY DEF Settle
  <1> HIDE DEF r
  <1> QED BY <1>1, <1>2, Rewrites

\* The loop's next turn, or its end, leaves a typed request.
LEMMA NextAttemptType ==
    ASSUME IInv, NEW s \in Sessions, NEW pc \in Pc, NextAttempt(s, pc)
    PROVE  /\ req' \in [Sessions -> Request] /\ req'[s].pc \in {pc, "closing"}
           /\ \A t \in Sessions \ {s} : req'[t] = req[t]
  <1>1. CASE req[s].attempt < MaxAttempts
    <2> DEFINE r == [req[s] EXCEPT !.pc = pc, !.attempt = @ + 1]
    <2>1. req[s] \in Request /\ req[s].attempt + 1 \in 0 .. MaxAttempts
      BY <1>1, InvSound, ConstantsAssumption DEF Request
    <2>2. r \in Request /\ r.pc = pc
      BY <2>1 DEF Request
    <2>3. req' = [req EXCEPT ![s] = r]
      BY <1>1 DEF NextAttempt
    <2> HIDE DEF r
    <2> QED BY <2>2, <2>3, Rewrites
  <1>2. CASE ~ (req[s].attempt < MaxAttempts)
    BY <1>2, SettleType DEF NextAttempt
  <1> QED BY <1>1, <1>2

\* The aborted session the next run of the body starts from.
LEMMA ReenterSound ==
    ASSUME NEW se, Sound(se), rows \in Rows, writers \in BOOLEAN
    PROVE  /\ Sound(Abort(Reenter(se))) /\ Idle(Abort(Reenter(se)))
           /\ Sound(Abort(se)) /\ Idle(Abort(se))
  <1>1. RoUnit \in BOOLEAN
    BY ConstantsAssumption DEF RoUnit
  <1>2. Sound(Reenter(se))
    BY <1>1, UnitEnterSound DEF Reenter
  <1> QED BY <1>2, AbortSound DEF Sound

\* unit_exit keeps the invariant on each of its branches.
LEMMA UnitExitInv ==
    ASSUME IInv, NEW s \in Sessions, UnitExit(s)
    PROVE  IInv'
  <1> DEFINE se == [ses[s] EXCEPT !.units = 0, !.roRaised = FALSE]
             out(e) == Raise([Abort(se) EXCEPT !.ro = FALSE], e)
  <1>1. Sound(se)
    <2>1. Sound(ses[s])
      BY InvSound
    <2>2. [ses[s] EXCEPT !.units = 0] \in SessionState
      BY <2>1 DEF Sound, SessionState
    <2>3. se \in SessionState
      BY <2>1, <2>2 DEF Sound, SessionState
    <2>4. se.txn = ses[s].txn /\ se.ledger = ses[s].ledger
      BY <2>1 DEF Sound, SessionState
    <2> QED BY <2>1, <2>3, <2>4 DEF Sound, Mirrored
  <1>2. Sound([Abort(se) EXCEPT !.ro = FALSE])
    <2>1. Sound(Abort(se))
      BY <1>1, AbortSound DEF Sound
    <2> HIDE DEF se
    <2> QED BY <2>1 DEF Sound, Mirrored, SessionState
  <1>3. Sound(out("lost")) /\ Sound(out("ro"))
    BY <1>2, RaiseSound DEF Exceptions
  <1>4. Sound([out("lost") EXCEPT !.roRaised = ses[s].roRaised])
    <2>1. ses[s].roRaised \in BOOLEAN
      BY InvSound DEF SessionState
    <2> HIDE DEF out
    <2> QED BY <1>3, <2>1 DEF Sound, Mirrored, SessionState
  <1>5. Sound([se EXCEPT !.ro = FALSE])
    BY <1>1 DEF Sound, Mirrored, SessionState
  <1>6. \/ /\ Becomes(s, [out("lost") EXCEPT !.roRaised = ses[s].roRaised])
           /\ Goto(s, "handle")
        \/ Becomes(s, out("ro")) /\ Goto(s, "handle")
        \/ /\ Becomes(s, [se EXCEPT !.ro = FALSE])
           /\ req' = [req EXCEPT ![s] = [req[s] EXCEPT !.pc = "closing", !.answer = "ok"]]
        \/ Becomes(s, se) /\ StartCommit(s, "exit")
    BY DEF UnitExit
  <1>7. UNCHANGED <<rows, landed>> /\ faults' \in 0 .. MaxFaults
    BY FaultsKept DEF UnitExit
  <1> HIDE DEF out, se
  <1>8. "handle" \in Pc /\ "exit" \in Calls
    BY DEF Pc, Calls
  <1>9. CASE Goto(s, "handle")
    BY <1>3, <1>4, <1>5, <1>1, <1>6, <1>7, <1>8, <1>9, Goes, Moves DEF Quiet
  <1>10. CASE /\ Becomes(s, [se EXCEPT !.ro = FALSE])
              /\ req' = [req EXCEPT ![s] = [req[s] EXCEPT !.pc = "closing", !.answer = "ok"]]
    BY <1>5, <1>7, <1>10, SettleType, Moves DEF Settle, Quiet
  <1>11. CASE Becomes(s, se) /\ StartCommit(s, "exit")
    BY <1>1, <1>7, <1>8, <1>11, StartsCommit, Moves DEF Quiet
  <1> QED BY <1>6, <1>9, <1>10, <1>11

\* The loop's except clauses keep the invariant: each aborts the session.
LEMMA HandlesInv ==
    ASSUME IInv, NEW s \in Sessions,
           HandleRoRetry(s) \/ HandleConflict(s) \/ HandleTransient(s) \/ HandleError(s)
    PROVE  IInv'
  <1>1. Sound(ses[s]) /\ rows \in Rows /\ writers \in BOOLEAN
    BY InvSound DEF IInv, TypeOK
  <1>2. "reload" \in Pc /\ "turn" \in Pc
    BY DEF Pc
  <1>3. UNCHANGED <<rows, landed>> /\ faults' \in 0 .. MaxFaults
    BY FaultsKept DEF HandleRoRetry, HandleConflict, HandleTransient, HandleError
  <1>4. Sound(Abort(Reenter(ses[s]))) /\ Idle(Abort(Reenter(ses[s])))
        /\ Sound(Abort(ses[s])) /\ Idle(Abort(ses[s]))
    BY <1>1, ReenterSound
  <1>5. CASE HandleRoRetry(s)
    <2> DEFINE se == [ses[s] EXCEPT !.roRaised = FALSE]
               r  == [req[s] EXCEPT !.pc = "reload", !.roRetries = @ + 1]
    <2>1. Sound(se)
      BY <1>1 DEF Sound, Mirrored, SessionState
    <2>2. Becomes(s, Abort(Reenter(se)))
          /\ IF req[s].roRetries < 2 THEN req' = [req EXCEPT ![s] = r]
             ELSE NextAttempt(s, "reload")
      BY <1>5 DEF HandleRoRetry
    <2> HIDE DEF se
    <2>3. Sound(Abort(Reenter(se))) /\ Idle(Abort(Reenter(se)))
      BY <1>1, <2>1, ReenterSound
    <2>4. req[s].roRetries < 2 => r \in Request
      <3>1. req[s] \in Request /\ MaxRuns \in Nat /\ MaxRuns >= 3
        BY InvSound, ConstantsAssumption DEF MaxRuns
      <3>2. req[s].roRetries < 2 => req[s].roRetries + 1 \in 0 .. MaxRuns
        BY <3>1 DEF Request
      <3> QED BY <3>1, <3>2 DEF Request, Pc
    <2> HIDE DEF r
    <2>5. /\ req' \in [Sessions -> Request]
          /\ \A t \in Sessions \ {s} : req'[t] = req[t]
      BY <1>2, <2>2, <2>4, Rewrites, NextAttemptType
    <2> QED BY <1>3, <2>2, <2>3, <2>5, Moves
  <1>6. CASE HandleConflict(s)
    BY <1>2, <1>3, <1>4, <1>6, NextAttemptType, Moves DEF HandleConflict
  <1>7. CASE HandleTransient(s)
    BY <1>2, <1>3, <1>4, <1>7, NextAttemptType, Moves DEF HandleTransient
  <1>8. CASE HandleError(s)
    BY <1>3, <1>4, <1>8, SettleType, Moves DEF HandleError
  <1> QED BY <1>5, <1>6, <1>7, <1>8

-----------------------------------------------------------------------------
(* The queue, and the end of the request.                                  *)

\* Queueing for the contended rows keeps the invariant.
LEMMA WaitTurnInv ==
    ASSUME IInv, NEW s \in Sessions, WaitTurn(s)
    PROVE  IInv'
  <1> DEFINE se == ses[s]
             in == [se EXCEPT !.queued = se.contended]
             no == [se EXCEPT !.queued = {}, !.contended = {}]
  <1>1. Sound(se) /\ Idle(se)
    BY InvSound DEF WaitTurn, Quiet
  <1> HIDE DEF se
  <1>2. Sound(in) /\ Idle(in)
    BY <1>1 DEF Sound, Mirrored, SessionState, Idle
  <1>3. Sound(no) /\ Idle(no)
    BY <1>1 DEF Sound, Mirrored, SessionState, Idle
  <1>4. \/ Goto(s, "reload") /\ UNCHANGED <<ses, writers>>
        \/ Becomes(s, in) /\ Goto(s, "pin")
        \/ Becomes(s, no) /\ Goto(s, "reload")
    BY DEF WaitTurn, se
  <1>5. UNCHANGED <<rows, landed, faults>> /\ faults' \in 0 .. MaxFaults
    BY FaultsKept DEF WaitTurn
  <1> HIDE DEF in, no
  <1>6. "reload" \in Pc /\ "pin" \in Pc
    BY DEF Pc
  <1>7. CASE Goto(s, "reload") /\ UNCHANGED <<ses, writers>>
    BY <1>5, <1>6, <1>7, Goes, Stays DEF Quiet
  <1>8. CASE Becomes(s, in) /\ Goto(s, "pin")
    BY <1>2, <1>5, <1>6, <1>8, Goes, Moves
  <1>9. CASE Becomes(s, no) /\ Goto(s, "reload")
    BY <1>3, <1>5, <1>6, <1>9, Goes, Moves
  <1> QED BY <1>4, <1>7, <1>8, <1>9

\* Pinning opens a transaction over the idle ledger the abort has left.
LEMMA PinInv ==
    ASSUME IInv, NEW s \in Sessions, Pin(s)
    PROVE  IInv'
  <1> DEFINE ids  == {id \in ses[s].queued : rows[id] # NoRow}
             open == BeginTxn(ses[s], "serializable", rows)
             held == [open EXCEPT !.txn.pins = ids]
  <1>1. Sound(ses[s]) /\ Idle(ses[s]) /\ rows \in Rows
    BY InvSound DEF Pin, Quiet
  <1>2. Sound(open) /\ open.txn \in Txn
    BY <1>1, BeginSound, NewTxnType DEF Isolation
  <1>3. ids \in SUBSET Ids
    BY <1>1 DEF Sound, SessionState
  <1> HIDE DEF open, ids
  <1>4. Sound(held)
    <2>1. [open.txn EXCEPT !.pins = ids] \in Txn
          /\ [open.txn EXCEPT !.pins = ids].own = open.txn.own
      BY <1>2, <1>3 DEF Txn
    <2>2. open.txn # NoTxn
      BY <1>2, NoTxnAssumption
    <2>3. held = [open EXCEPT !.txn = [open.txn EXCEPT !.pins = ids]]
      OBVIOUS
    <2> QED BY <1>2, <2>1, <2>2, <2>3 DEF Sound, Mirrored, SessionState
  <1>5. Becomes(s, held) \/ UNCHANGED <<ses, writers>>
    BY DEF Pin, open, ids
  <1>6. Goto(s, "reload") /\ "reload" \in Pc
    BY DEF Pin, Pc
  <1>7. UNCHANGED <<rows, landed, faults>> /\ faults' \in 0 .. MaxFaults
    BY FaultsKept DEF Pin
  <1> HIDE DEF held
  <1> QED BY <1>4, <1>5, <1>6, <1>7, Goes, Moves, Stays DEF Quiet

\* The next attempt resolves the root in a sound session.
LEMMA ReloadInv ==
    ASSUME IInv, NEW s \in Sessions, Reload(s)
    PROVE  IInv'
  <1> DEFINE se  == EnsureTxn(ses[s], rows)
             pc  == IF Ok(se) THEN "body" ELSE "handle"
             run == IF req[s].run < MaxRuns THEN req[s].run + 1 ELSE req[s].run
             r   == [req[s] EXCEPT !.pc = pc, !.run = run, !.ops = 0,
                       !.found = "unknown", !.want = NewRun.want, !.joins = {}]
  <1>1. Sound(se)
    BY InvSound, EnsureSound
  <1>2. req[s] \in Request /\ pc \in Pc /\ pc \notin Quiet
    BY InvSound DEF Pc, Quiet
  <1>3. run \in 0 .. MaxRuns /\ 0 \in 0 .. MaxOps
    BY <1>2, ConstantsAssumption DEF Request, MaxRuns
  <1>4. NewRun.want \in [Ids -> Val \cup {Unwritten}]
    BY DEF NewRun
  <1>5. Becomes(s, se) /\ UNCHANGED <<rows, landed>> /\ faults' \in 0 .. MaxFaults
    BY FaultsKept DEF Reload
  <1>6. req' = [req EXCEPT ![s] = r]
    BY DEF Reload
  <1> HIDE DEF se, pc, run
  <1>7. r \in Request /\ r.pc = pc
    BY <1>2, <1>3, <1>4 DEF Request
  <1> HIDE DEF r
  <1> QED BY <1>1, <1>2, <1>5, <1>6, <1>7, Rewrites, Moves

\* A closed session has nothing in flight.
LEMMA CloseInv ==
    ASSUME IInv, NEW s \in Sessions, Close(s)
    PROVE  IInv'
  <1>1. Sound(NewSession)
    BY DEF NewSession, SessionState, NewLedger, Ledger, EmptyRows, Rows, MaybeRow,
           Exceptions, Sound, Mirrored
  <1> QED BY <1>1, FaultsKept, Goes, Moves DEF Close, Pc, Quiet

-----------------------------------------------------------------------------
(* The inductive invariant.                                                *)

\* Every step of a request keeps the invariant.
LEMMA StepInv ==
    ASSUME IInv, NEW s \in Sessions, Step(s)
    PROVE  IInv'
  <1>1. CASE Begin(s)
    BY <1>1, BeginInv
  <1>2. CASE Read(s) \/ Scan(s) \/ Respond(s) \/ Retry(s)
    BY <1>2, ReadsInv
  <1>3. CASE \E id \in Ids : WriteAnchor(s, id) \/ Mutate(s, id) \/ Create(s, id)
                               \/ DeleteAnchor(s, id)
    BY <1>3, WritesInv
  <1>4. CASE Join(s)
    BY <1>4, JoinInv
  <1>5. CASE EndWalk(s) \/ Fail(s) \/ Swallow(s) \/ Propagate(s) \/ Return(s)
    BY <1>5, EndsInv
  <1>6. CASE CommitLost(s) \/ Flush(s) \/ CommitNothing(s) \/ CommitLands(s)
    BY <1>6, CommitLostInv, FlushInv, CommitNothingInv, CommitLandsInv
  <1>7. CASE CommitRefused(s) \/ CommitAckLost(s)
    BY <1>7, CommitFailsInv
  <1>8. CASE UnitExit(s)
    BY <1>8, UnitExitInv
  <1>9. CASE HandleRoRetry(s) \/ HandleConflict(s) \/ HandleTransient(s) \/ HandleError(s)
    BY <1>9, HandlesInv
  <1>10. CASE WaitTurn(s) \/ Pin(s) \/ Reload(s) \/ Close(s)
    BY <1>10, WaitTurnInv, PinInv, ReloadInv, CloseInv
  <1> QED BY <1>1, <1>2, <1>3, <1>4, <1>5, <1>6, <1>7, <1>8, <1>9, <1>10 DEF Step

\* The invariant is inductive.
LEMMA NextInv == IInv /\ [Next]_vars => IInv'
  <1> SUFFICES ASSUME IInv, [Next]_vars PROVE IInv'
    OBVIOUS
  <1>1. CASE \E s \in Sessions : Step(s)
    BY <1>1, StepInv
  <1>2. CASE Expire
    <2>1. writers' \in BOOLEAN
      BY <1>2 DEF Expire
    <2> QED BY <1>2, <2>1
         DEF Expire, IInv, TypeOK, NoOrphanWrites, QuietIsIdle
  <1>3. CASE UNCHANGED vars
    BY <1>3 DEF vars, IInv, TypeOK, NoOrphanWrites, QuietIsIdle
  <1> QED BY <1>1, <1>2, <1>3 DEF Next

\* Every reachable state is typed, orphan-free and idle where the loop's calls
\* assume it: what TypeCorrect and OrphanFree follow from.
THEOREM Invariance == Spec => []IInv
  BY InitInv, NextInv, PTL DEF Spec

\* Types: every call of every handler leaves a session, a request and a table
\* that are what the code says they are.
THEOREM TypeCorrect == Spec => []TypeOK
  <1>1. IInv => TypeOK
    BY DEF IInv
  <1> QED BY <1>1, Invariance, PTL

\* No session ever has a transaction open that lacks a write its ledger calls
\* done: commit can never promote what the database does not hold.
THEOREM OrphanFree == Spec => []NoOrphanWrites
  <1>1. IInv => NoOrphanWrites
    BY DEF IInv
  <1> QED BY <1>1, Invariance, PTL

-----------------------------------------------------------------------------
(* What a request has done, and where it is.                                *)

\* The contents run n of session s writes.
Mine(s, n) == {s} \X {n} \X (1 .. MaxOps)

\* The coroutine is inside its unit; its body, or a commit of it, is running;
\* the body's own commit is through.
Inside(r)  == \/ r.pc \in {"body", "call", "raised", "exit", "turn", "pin", "reload"}
              \/ r.pc \in {"commit", "committing"} /\ r.call # "exit"

Working(r) == r.pc \in {"body", "call", "raised", "commit", "committing"}

Late(r)    == \/ r.pc = "exit"
              \/ r.pc = "call" /\ r.call = "respond"
              \/ r.pc \in {"commit", "committing"} /\ r.call = "exit"

\* All the run wrote is committed.
Settled(r, done) ==
    /\ \A id \in Ids : r.want[id] \in done \cup {Unwritten}
    /\ r.joins \subseteq done

\* All the run wrote is committed, in memory, or in the transaction.
Carries(r, se, done) ==
    /\ \A id \in Ids : \/ r.want[id] \in done \cup {Unwritten}
                       \/ se.mem[id] # NoAnchor /\ se.mem[id].val = r.want[id]
    /\ \A j \in r.joins : j \in done \/ Rides(se, j)

\* The request r of session s, with the session se, when done has committed.
Served(s, r, se, done) ==
    /\ Faithful(se, done \cup {Seed}, Mine(s, r.run))
    /\ r.want \in [Ids -> Mine(s, r.run) \cup {Unwritten}] /\ r.joins \subseteq Mine(s, r.run)
    /\ r.pc = "idle" => se = NewSession /\ r.want = NewRun.want /\ r.joins = {}
    /\ r.pc \in {"turn", "pin"} => se.txn = NoTxn /\ ~ InFlight(se.ledger)
    /\ r.pc \in {"turn", "pin", "reload"} => Faithful(se, done \cup {Seed}, {})
    /\ Inside(r) => se.units = 1
    /\ r.pc = "handle" /\ se.units = 0 => se.txn = NoTxn
    /\ Working(r) => Carries(r, se, done)
    /\ Late(r) => Settled(r, done) /\ Clean(se)
    /\ r.pc = "committing" => Flushed(se)
    /\ r.answer = "ok" => Settled(r, done) /\ r.pc \in {"closing", "done"}
    /\ r.pc = "closing" => se.txn = NoTxn /\ Clean(se)

WInv == /\ Within(rows, landed \cup {Seed})
        /\ \A s \in Sessions : Served(s, req[s], ses[s], landed)

-----------------------------------------------------------------------------

\* A session writes its own contents: they are typed, and not the seed.
LEMMA MineType ==
    ASSUME NEW s \in Sessions, req[s] \in Request
    PROVE  Mine(s, req[s].run) \in SUBSET Val /\ Seed \notin Mine(s, req[s].run)
  <1>1. Mine(s, req[s].run) \subseteq Sessions \X (0 .. MaxRuns) \X (1 .. MaxOps)
    BY DEF Mine, Request
  <1> QED BY <1>1, ConstantsAssumption

\* They are of that session and of that run.
LEMMA MineApart ==
    ASSUME NEW s, NEW n, NEW v \in Mine(s, n)
    PROVE  v[1] = s /\ v[2] = n
  BY DEF Mine

\* What has been settled stays so, whatever else commits.
LEMMA DoneGrows ==
    ASSUME NEW s, NEW r, NEW se, NEW done, NEW now, done \subseteq now,
           Served(s, r, se, done)
    PROVE  Served(s, r, se, now)
  <1>1. Faithful(se, now \cup {Seed}, Mine(s, r.run))
    BY StoredGrows DEF Served
  <1>2. /\ Settled(r, done) => Settled(r, now)
        /\ Carries(r, se, done) => Carries(r, se, now)
    BY DEF Settled, Carries
  <1>3. r.pc \in {"turn", "pin", "reload"} => Faithful(se, now \cup {Seed}, {})
    BY StoredGrows DEF Served
  <1> QED BY <1>1, <1>2, <1>3 DEF Served

\* What is settled is carried, and what is carried follows the session.
LEMMA CarriesOn ==
    ASSUME NEW r, NEW se, NEW end, NEW done, Follows(se, end), r.joins \subseteq Val
    PROVE  /\ Settled(r, done) => Carries(r, end, done)
           /\ Carries(r, se, done) => Carries(r, end, done)
  BY DEF Settled, Carries, Follows

\* One session and its request move, others at most learn of predicate locks.
LEMMA Serves ==
    ASSUME IInv, IInv', WInv, NEW s \in Sessions, landed \subseteq landed',
           Within(rows', landed' \cup {Seed}),
           \A t \in Sessions \ {s} : req'[t] = req[t] /\ ses'[t] = ses[t],
           Served(s, req'[s], ses'[s], landed')
    PROVE  WInv'
  BY DoneGrows DEF WInv

\* The steps at which nothing commits.
LEMMA MovesServed ==
    ASSUME IInv, IInv', WInv, NEW s \in Sessions, NEW se, Becomes(s, se),
           UNCHANGED <<rows, landed>>,
           \A t \in Sessions \ {s} : req'[t] = req[t],
           Served(s, req'[s], se, landed)
    PROVE  WInv'
  <1>1. ses'[s] = se /\ \A t \in Sessions \ {s} : ses'[t] = ses[t]
    BY DEF Becomes, IInv, TypeOK
  <1> QED BY <1>1, Serves DEF WInv

\* The steps that leave the session as it is.
LEMMA StaysServed ==
    ASSUME IInv, IInv', WInv, NEW s \in Sessions,
           UNCHANGED <<rows, landed, ses>>,
           \A t \in Sessions \ {s} : req'[t] = req[t],
           Served(s, req'[s], ses[s], landed)
    PROVE  WInv'
  BY Serves DEF WInv

\* What the invariants say of one request.
LEMMA ServedNow ==
    ASSUME IInv, WInv, NEW s \in Sessions
    PROVE  /\ Served(s, req[s], ses[s], landed)
           /\ Faithful(ses[s], landed \cup {Seed}, Mine(s, req[s].run))
           /\ Kept(ses[s], landed \cup {Seed}, Mine(s, req[s].run))
           /\ ses[s] \in SessionState /\ req[s] \in Request
           /\ req[s].joins \subseteq Val /\ Mine(s, req[s].run) \in SUBSET Val
           /\ Within(rows, landed \cup {Seed}) /\ rows \in Rows
           /\ writers \in BOOLEAN
  BY InvSound, MineType DEF WInv, Served, Faithful, IInv, TypeOK

\* Nothing is owed before a request has begun.
LEMMA InitServed == Init => WInv
  <1> SUFFICES ASSUME Init PROVE WInv
    OBVIOUS
  <1>0. IInv
    BY InitInv
  <1>1. Within(rows, landed \cup {Seed})
    <2>1. \A id \in Ids : rows[id] # NoRow => rows[id].val = Seed
      BY DEF Init
    <2> QED BY <1>0, <2>1 DEF Within, IInv, TypeOK
  <1>2. ASSUME NEW s \in Sessions PROVE Served(s, req[s], ses[s], landed)
    <2>1. ses[s] = NewSession
      BY DEF Init
    <2>2. /\ req[s].pc = "idle" /\ req[s].answer = "none"
          /\ req[s].want = NewRun.want /\ req[s].joins = {}
      BY DEF Init
    <2>3. NewRun.want \in [Ids -> Mine(s, req[s].run) \cup {Unwritten}]
      BY DEF NewRun
    <2>4. Faithful(NewSession, landed \cup {Seed}, Mine(s, req[s].run))
      BY NewKeeps
    <2> HIDE DEF Init
    <2> QED BY <2>1, <2>2, <2>3, <2>4 DEF Served, Inside, Working, Late
  <1> QED BY <1>1, <1>2 DEF WInv

\* A request begins with nothing written.
LEMMA BeginServed ==
    ASSUME IInv, IInv', WInv, NEW s \in Sessions, Begin(s)
    PROVE  WInv'
  <1> DEFINE open == BeginTxn(ses[s], TxnIsolation(ses[s]), rows)
             end  == UnitEnter(open, RoUnit, rows)
             stored == landed \cup {Seed}
             r    == [req[s] EXCEPT !.pc = "body", !.attempt = 1, !.run = 1]
  <1>1. /\ Faithful(ses[s], stored, Mine(s, 1)) /\ ses[s] = NewSession
        /\ req[s].want = NewRun.want /\ req[s].joins = {} /\ req[s].answer # "ok"
        /\ Within(rows, stored) /\ req[s] \in Request
    BY ServedNow, NewKeeps DEF Served, Begin
  <1>2. TxnIsolation(ses[s]) = "serializable"
    BY <1>1, NewKeeps DEF TxnIsolation
  <1>3. ~ InFlight(ses[s].ledger) /\ ses[s].txn = NoTxn
    BY <1>1, NewKeeps DEF Clean
  <1>4. Faithful(open, stored, Mine(s, 1))
    BY <1>1, <1>2, <1>3, BeginKeeps DEF Isolation
  <1>5. ~ OnSnapshot(open)
    <2>1. open.txn = NewTxn("serializable", rows)
      BY <1>1, <1>2 DEF BeginTxn, Faithful, Kept, Sound, SessionState
    <2> QED BY <2>1 DEF OnSnapshot, NewTxn
  <1>6. RoUnit \in BOOLEAN
    BY ConstantsAssumption, ServedNow DEF RoUnit
  <1> HIDE DEF open
  <1>7. Faithful(end, stored, Mine(s, 1)) /\ end.units = 1
    BY <1>1, <1>4, <1>5, <1>6, UnitEnterKeeps
  <1>8. Becomes(s, end) /\ UNCHANGED <<rows, landed>>
    BY DEF Begin, open
  <1>9. /\ \A t \in Sessions \ {s} : req'[t] = req[t]
        /\ req'[s].pc = "body" /\ req'[s].want = NewRun.want
        /\ req'[s].joins = {} /\ req'[s].answer # "ok" /\ req'[s].run = 1
    <2>1. req' = [req EXCEPT ![s] = r]
      BY DEF Begin
    <2>2. /\ r.pc = "body" /\ r.want = NewRun.want /\ r.joins = {}
          /\ r.answer # "ok" /\ r.run = 1
      BY <1>1 DEF Request
    <2> HIDE DEF r
    <2> QED BY <2>1, <2>2, Rewritten
  <1> HIDE DEF end
  <1>10. /\ Carries(req'[s], end, landed)
         /\ NewRun.want \in [Ids -> Mine(s, 1) \cup {Unwritten}]
    BY <1>9 DEF Carries, NewRun
  <1>11. Served(s, req'[s], end, landed)
    BY <1>1, <1>7, <1>9, <1>10 DEF Served, Inside, Working, Late
  <1> QED BY <1>8, <1>9, <1>11, MovesServed

\* A read that is over, or starts again, has forgotten nothing; what the
\* response reads after the commit leaves nothing to write.
LEMMA TryServed ==
    ASSUME IInv, IInv', WInv, NEW s \in Sessions, NEW call \in Calls, NEW ids \in SUBSET Ids,
           NEW tries \in Nat, Try(s, call, ids, tries), Inside(req[s]),
           IF call = "respond" THEN Late(req[s]) ELSE Working(req[s])
    PROVE  WInv'
  <1>1. PICK fault \in {"none", "flush", "load"} :
             \E open \in BarrierResults(ses[s], rows, Busy(s), fault = "flush") :
                 Tried(s, call, ids, tries, fault, open)
    BY DEF Try
  <1>1a. PICK open : /\ open \in BarrierResults(ses[s], rows, Busy(s), fault = "flush")
                     /\ Tried(s, call, ids, tries, fault, open)
    BY <1>1
  <1> DEFINE stored  == landed \cup {Seed}
             loads   == Ok(open)
             read    == IF ~ loads THEN open
                        ELSE IF fault = "load" THEN StatementFailed(open, "transient")
                        ELSE IF call = "scan" THEN [open EXCEPT !.txn = Reading(@, ids)]
                        ELSE Load(open, ids)
             again   == read.exc = "transient" /\ tries < LastTry(loads)
             end     == IF again THEN ReplayTxn(read, FALSE) ELSE read
             found   == IF \E id \in ids : Visible(open.txn, id) # NoRow
                        THEN "some" ELSE "none"
             r       == AfterTry(req[s], call, ids, tries, loads, again, end, found)
             fine(a, b) == /\ Faithful(b, stored, Mine(s, req[s].run)) /\ Follows(a, b)
                           /\ (Clean(a) => Clean(b))
  <1>2. /\ Faithful(ses[s], stored, Mine(s, req[s].run)) /\ Served(s, req[s], ses[s], landed)
        /\ Within(rows, stored) /\ req[s] \in Request /\ Mine(s, req[s].run) \in SUBSET Val
        /\ req[s].joins \subseteq Val
    BY ServedNow
  <1>3. /\ fine(ses[s], open)
        /\ Ok(open) => open.dirty = {} /\ open.deleted = {} /\ open.txn # NoTxn
    <2> HIDE DEF loads, read, again, end, found, r
    <2> DEFINE hit  == fault = "flush"
               busy == Busy(s)
               own  == Mine(s, req[s].run)
               se   == ses[s]
    <2>1. open \in BarrierResults(se, rows, busy, hit)
      BY <1>1a
    <2>2. Faithful(se, stored, own) /\ own \in SUBSET Val /\ Within(rows, stored)
      BY <1>2
    <2> HIDE DEF hit, busy, stored, own, se
    <2>3. /\ Faithful(open, stored, own) /\ Follows(se, open) /\ (Clean(se) => Clean(open))
          /\ Ok(open) => open.dirty = {} /\ open.deleted = {} /\ open.txn # NoTxn
      BY <2>1, <2>2, BarrierKeeps
    <2> QED BY <2>3 DEF own, se
  <1>4. fine(open, read)
    <2>1. fine(open, StatementFailed(open, "transient"))
      BY <1>3, FailureKeeps DEF Exceptions, Faithful
    <2>2. Ok(open) => fine(open, Load(open, ids))
      BY <1>3, LoadKeeps
    <2>3. Ok(open) => fine(open, [open EXCEPT !.txn = Reading(@, ids)])
      BY <1>3, ReadingKeeps
    <2>4. fine(open, open)
      BY <1>3, FollowsSelf
    <2> QED BY <2>1, <2>2, <2>3, <2>4
  <1> HIDE DEF read, loads
  <1>5. fine(read, end)
    <2>1. fine(read, ReplayTxn(read, FALSE))
      BY <1>4, ReplayKeeps DEF Faithful
    <2>2. fine(read, read)
      BY <1>4, FollowsSelf
    <2> HIDE DEF fine
    <2> QED BY <2>1, <2>2
  <1> HIDE DEF end
  <1>6. Follows(ses[s], end)
    BY <1>3, <1>4, <1>5, FollowsOn
  <1>7. Clean(ses[s]) => Clean(end)
    BY <1>3, <1>4, <1>5
  <1>8. Becomes(s, end) /\ UNCHANGED <<rows, landed>> /\ req' = [req EXCEPT ![s] = r]
    BY <1>1a DEF Tried, read, loads, end
  <1>9. /\ r.want = req[s].want /\ r.joins = req[s].joins /\ r.answer = req[s].answer
        /\ r.run = req[s].run
        /\ r.pc \in IF call = "respond" THEN {"handle", "call", "exit"}
                    ELSE {"raised", "call", "body"}
        /\ r.pc = "call" => r.call = call
    BY <1>2 DEF AfterTry, Request
  <1> HIDE DEF again, found, r
  <1>10. req'[s] = r /\ \A t \in Sessions \ {s} : req'[t] = req[t]
    BY <1>8 DEF IInv, TypeOK
  <1>11. Carries(r, end, landed) /\ (Late(req[s]) => Settled(r, landed) /\ Clean(end))
    <2>1. Carries(req[s], end, landed)
      BY <1>2, <1>6, CarriesOn DEF Served
    <2>2. Late(req[s]) => Settled(req[s], landed) /\ Clean(end)
      BY <1>2, <1>7 DEF Served
    <2> QED BY <2>1, <2>2, <1>9 DEF Carries, Settled
  <1>12. end.units = 1
    BY <1>2, <1>6 DEF Served, Follows
  <1>13. req[s].answer # "ok"
    BY <1>2 DEF Served, Inside
  <1>14. Served(s, r, end, landed)
    <2>1. CASE call = "respond"
      BY <2>1, <1>2, <1>5, <1>9, <1>11, <1>12, <1>13 DEF Served, Inside, Working, Late
    <2>2. CASE call # "respond"
      BY <2>2, <1>2, <1>5, <1>9, <1>11, <1>12, <1>13 DEF Served, Inside, Working, Late
    <2> QED BY <2>1, <2>2
  <1> QED BY <1>8, <1>10, <1>14, MovesServed

\* Read, Scan, Respond and Retry do so.
LEMMA ReadsServed ==
    ASSUME IInv, IInv', WInv, NEW s \in Sessions, Read(s) \/ Scan(s) \/ Respond(s) \/ Retry(s)
    PROVE  WInv'
  <1>1. CASE Read(s)
    BY <1>1, TryServed DEF Read, InBody, Calls, Unread, Inside, Working
  <1>2. CASE Scan(s)
    BY <1>2, TryServed, ConstantsAssumption DEF Scan, InBody, Calls, Inside, Working
  <1>3. CASE Respond(s)
    BY <1>3, TryServed DEF Respond, Calls, Unread, Inside, Late
  <1>4. CASE Retry(s)
    BY <1>4, TryServed, ServedNow DEF Retry, Request, Inside, Working, Late
  <1> QED BY <1>1, <1>2, <1>3, <1>4

-----------------------------------------------------------------------------
(* The body writes.                                                        *)

\* A call of the body has a content of its own to write.
LEMMA StampMine ==
    ASSUME IInv, NEW s \in Sessions, InBody(s)
    PROVE  Stamp(s) \in Mine(s, req[s].run) /\ Stamp(s) \in Val
  <1>1. req[s].run \in 0 .. MaxRuns /\ req[s].ops \in 0 .. MaxOps /\ MaxOps \in Nat
        /\ req[s].ops < MaxOps
    BY ConstantsAssumption DEF IInv, TypeOK, Request, InBody
  <1>2. req[s].ops + 1 \in 1 .. MaxOps
    BY <1>1
  <1>3. Stamp(s) \in Mine(s, req[s].run)
    BY <1>2 DEF Stamp, Mine
  <1> QED BY <1>3, MineType, InvSound

\* A write in memory is carried from then on.
LEMMA LocalServed ==
    ASSUME IInv, IInv', WInv, NEW s \in Sessions, InBody(s), NEW id \in Ids,
           NEW end, Faithful(end, landed \cup {Seed}, Mine(s, req[s].run)), Edits(ses[s], end, id),
           NEW found, NEW val \in Mine(s, req[s].run) \cup {Unwritten},
           val # Unwritten => end.mem[id] # NoAnchor /\ end.mem[id].val = val,
           Local(s, end, found, [req[s].want EXCEPT ![id] = val])
    PROVE  WInv'
  <1> DEFINE want == [req[s].want EXCEPT ![id] = val]
  <1>1. /\ Served(s, req[s], ses[s], landed) /\ req[s] \in Request /\ req[s].joins \subseteq Val
        /\ req[s].want \in [Ids -> Mine(s, req[s].run) \cup {Unwritten}]
        /\ req[s].joins \subseteq Mine(s, req[s].run)
    BY ServedNow DEF Served
  <1>2. /\ req'[s].pc = "body" /\ req'[s].joins = req[s].joins
        /\ req'[s].want = want /\ req'[s].answer = req[s].answer /\ req'[s].run = req[s].run
        /\ \A t \in Sessions \ {s} : req'[t] = req[t]
    BY <1>1 DEF Local, InBody, IInv, TypeOK, Request
  <1>3. /\ want \in [Ids -> Mine(s, req[s].run) \cup {Unwritten}] /\ want[id] = val
        /\ \A i \in Ids \ {id} : want[i] = req[s].want[i]
    BY <1>1
  <1> HIDE DEF want
  <1>4. Carries(req'[s], end, landed)
    <2>1. Carries(req[s], ses[s], landed)
      BY <1>1 DEF Served, InBody, Working
    <2>2. \A i \in Ids : \/ want[i] \in landed \cup {Unwritten}
                         \/ end.mem[i] # NoAnchor /\ end.mem[i].val = want[i]
      BY <2>1, <1>3 DEF Carries, Edits
    <2>3. \A j \in req[s].joins : j \in landed \/ Rides(end, j)
      BY <2>1, <1>1 DEF Carries, Edits
    <2> QED BY <2>2, <2>3, <1>2 DEF Carries
  <1>5. end.units = 1 /\ req[s].answer # "ok"
    BY <1>1 DEF Served, Inside, InBody, Edits
  <1>6. Served(s, req'[s], end, landed)
    BY <1>1, <1>2, <1>3, <1>4, <1>5 DEF Served, Inside, Working, Late
  <1> QED BY <1>2, <1>6, MovesServed DEF Local

\* The graph API's writes do so.
LEMMA WritesServed ==
    ASSUME IInv, IInv', WInv, NEW s \in Sessions, NEW id \in Ids,
           WriteAnchor(s, id) \/ Mutate(s, id) \/ Create(s, id) \/ DeleteAnchor(s, id)
    PROVE  WInv'
  <1>1. InBody(s)
    BY DEF WriteAnchor, Mutate, Create, DeleteAnchor
  <1>2. Stamp(s) \in Mine(s, req[s].run) /\ Stamp(s) \in Val
    BY <1>1, StampMine
  <1>3. Faithful(ses[s], landed \cup {Seed}, Mine(s, req[s].run))
    BY ServedNow
  <1> DEFINE edit == NewContent(s, id)
             mut  == [ses[s] EXCEPT !.mem[id] = edit]
             new  == [val |-> Stamp(s), base |-> NoRow]
  <1>4. ASSUME WriteAnchor(s, id) \/ Mutate(s, id) PROVE WInv'
    <2>1. id \in Cached(ses[s])
      BY <1>4 DEF WriteAnchor, Mutate
    <2>2. edit \in Anchor /\ edit.val = Stamp(s) /\ edit # NoAnchor
      <3>1. ses[s].mem[id] \in Anchor
        BY <2>1, ServedNow DEF Cached, SessionState
      <3>2. edit \in Anchor /\ edit.val = Stamp(s)
        BY <1>2, <3>1 DEF Anchor, NewContent
      <3> QED BY <3>2, NoAnchorAssumption
    <2>3. \/ Local(s, mut, req[s].found, [req[s].want EXCEPT ![id] = Stamp(s)])
          \/ Local(s, MarkDirty(mut, id), req[s].found,
                   [req[s].want EXCEPT ![id] = Stamp(s)])
      BY <1>4 DEF WriteAnchor, Mutate
    <2> HIDE DEF edit
    <2>4. ASSUME NEW end, end = mut \/ end = MarkDirty(mut, id),
                 Local(s, end, req[s].found, [req[s].want EXCEPT ![id] = Stamp(s)])
          PROVE  WInv'
      <3>1. /\ Faithful(end, landed \cup {Seed}, Mine(s, req[s].run)) /\ Edits(ses[s], end, id)
            /\ end.mem[id] = edit
        BY <1>2, <1>3, <2>1, <2>2, <2>4, WriteKeeps
      <3> QED BY <1>1, <1>2, <2>2, <2>4, <3>1, LocalServed
    <2> QED BY <2>3, <2>4
  <1>5. CASE Create(s, id)
    <2>1. new \in Anchor /\ new.val = Stamp(s) /\ new # NoAnchor
      <3>1. new \in Anchor /\ new.val = Stamp(s)
        BY <1>2 DEF Anchor
      <3> QED BY <3>1, NoAnchorAssumption
    <2>2. Local(s, Put(ses[s], id, new), "some", [req[s].want EXCEPT ![id] = Stamp(s)])
      BY <1>5 DEF Create
    <2> HIDE DEF new
    <2>3. /\ Faithful(Put(ses[s], id, new), landed \cup {Seed}, Mine(s, req[s].run))
          /\ Edits(ses[s], Put(ses[s], id, new), id)
          /\ Put(ses[s], id, new).mem[id] = new
      BY <1>2, <1>3, <2>1, PutKeeps
    <2> QED BY <1>1, <1>2, <2>1, <2>2, <2>3, LocalServed
  <1>6. CASE DeleteAnchor(s, id)
    <2>1. Local(s, Delete(ses[s], id), req[s].found, [req[s].want EXCEPT ![id] = Unwritten])
      BY <1>6 DEF DeleteAnchor
    <2>2. /\ Faithful(Delete(ses[s], id), landed \cup {Seed}, Mine(s, req[s].run))
          /\ Edits(ses[s], Delete(ses[s], id), id)
      BY <1>3, DeleteKeeps
    <2> QED BY <1>1, <2>1, <2>2, LocalServed
  <1> QED BY <1>4, <1>5, <1>6

\* A statement outside the graph is carried once it has been answered.
LEMMA JoinServed ==
    ASSUME IInv, IInv', WInv, NEW s \in Sessions, Join(s)
    PROVE  WInv'
  <1> DEFINE stored == landed \cup {Seed}
             open == EnsureWritableTxn(ses[s], rows)
             rode == [open EXCEPT !.txn.joins = @ \cup {Stamp(s)}]
             sent(fault) == IF ~ Ok(open) THEN open
                            ELSE IF fault THEN StatementFailed(open, "transient")
                            ELSE rode
  <1>1. PICK fault \in BOOLEAN :
           /\ Becomes(s, sent(fault))
           /\ req' = [req EXCEPT ![s] =
                       [req[s] EXCEPT !.ops = @ + 1,
                                      !.pc    = IF Ok(sent(fault)) THEN "body" ELSE "raised",
                                      !.joins = IF Ok(sent(fault)) THEN @ \cup {Stamp(s)} ELSE @]]
           /\ UNCHANGED <<rows, landed>>
    BY DEF Join
  <1> DEFINE end == sent(fault)
  <1>2. /\ Served(s, req[s], ses[s], landed) /\ Faithful(ses[s], stored, Mine(s, req[s].run))
        /\ Within(rows, stored) /\ req[s] \in Request /\ req[s].joins \subseteq Val
        /\ req[s].joins \subseteq Mine(s, req[s].run)
    BY ServedNow DEF Served
  <1>3. Stamp(s) \in Mine(s, req[s].run) /\ Stamp(s) \in Val
    BY StampMine DEF Join
  <1>4. /\ Faithful(open, stored, Mine(s, req[s].run)) /\ Follows(ses[s], open)
        /\ Ok(open) => open.txn # NoTxn /\ open.ledger.joined /\ ~ open.roRaised
    BY <1>2, EnsureWritableKeeps
  <1>5. Ok(open) => /\ Faithful(rode, stored, Mine(s, req[s].run)) /\ Follows(open, rode)
                    /\ Rides(rode, Stamp(s))
    <2> HIDE DEF open
    <2> QED BY <1>3, <1>4, JoinKeeps
  <1>6. /\ Faithful(StatementFailed(open, "transient"), stored, Mine(s, req[s].run))
        /\ Follows(open, StatementFailed(open, "transient"))
        /\ ~ Ok(StatementFailed(open, "transient"))
    BY <1>4, FailureKeeps, StatementFailedSound DEF Exceptions, Faithful, Kept, Sound, Ok
  <1>7. /\ Faithful(end, stored, Mine(s, req[s].run)) /\ Follows(open, end)
        /\ Ok(end) => Rides(end, Stamp(s))
    BY <1>4, <1>5, <1>6, FollowsSelf
  <1>8. /\ Becomes(s, end) /\ UNCHANGED <<rows, landed>>
        /\ \A t \in Sessions \ {s} : req'[t] = req[t]
        /\ req'[s].pc = IF Ok(end) THEN "body" ELSE "raised"
        /\ req'[s].joins = IF Ok(end) THEN req[s].joins \cup {Stamp(s)} ELSE req[s].joins
        /\ req'[s].want = req[s].want /\ req'[s].answer = req[s].answer /\ req'[s].run = req[s].run
    <2> HIDE DEF sent
    <2> QED BY <1>1, <1>2 DEF IInv, TypeOK, Request
  <1> HIDE DEF end
  <1>9. Follows(ses[s], end)
    BY <1>4, <1>7, FollowsOn
  <1>10. Carries(req'[s], end, landed)
    <2>1. Carries(req[s], end, landed)
      BY <1>2, <1>9, CarriesOn DEF Served, Join, InBody, Working
    <2> QED BY <2>1, <1>7, <1>8 DEF Carries
  <1>11. end.units = 1 /\ req[s].answer # "ok"
    BY <1>2, <1>9 DEF Served, Join, InBody, Inside, Follows
  <1>12. Served(s, req'[s], end, landed)
    BY <1>2, <1>3, <1>7, <1>8, <1>10, <1>11 DEF Served, Inside, Working, Late
  <1> QED BY <1>8, <1>12, MovesServed

\* Ending a walk, failing, catching, letting go and returning write nothing.
LEMMA EndsServed ==
    ASSUME IInv, IInv', WInv, NEW s \in Sessions,
           EndWalk(s) \/ Fail(s) \/ Swallow(s) \/ Propagate(s) \/ Return(s)
    PROVE  WInv'
  <1> DEFINE stored == landed \cup {Seed}
  <1>1. /\ Served(s, req[s], ses[s], landed) /\ Faithful(ses[s], stored, Mine(s, req[s].run))
        /\ req[s] \in Request /\ req[s].joins \subseteq Val
        /\ req[s].pc \in {"body", "raised"} /\ Carries(req[s], ses[s], landed)
        /\ ses[s].units = 1 /\ req[s].answer # "ok"
    <2>1. req[s].pc \in {"body", "raised"}
      BY DEF EndWalk, Fail, Swallow, Propagate, Return, InBody
    <2> QED BY <2>1, ServedNow DEF Served, Working, Inside
  <1>2. CASE EndWalk(s) \/ Return(s)
    <2>1. /\ req'[s].pc = "commit" /\ req'[s].call # "exit" /\ SameRun(req[s], req'[s])
          /\ \A t \in Sessions \ {s} : req'[t] = req[t]
      <3>1. CASE Return(s)
        BY <3>1, CommitsOn DEF Return
      <3>2. CASE EndWalk(s)
        <4> DEFINE r == [req[s] EXCEPT !.pc = "commit", !.call = "walkend",
                                       !.tries = 0, !.ops = @ + 1]
        <4>1. r.pc = "commit" /\ r.call = "walkend" /\ SameRun(req[s], r)
          BY <1>1 DEF SameRun, Request
        <4>2. req' = [req EXCEPT ![s] = r]
          BY <3>2 DEF EndWalk
        <4> HIDE DEF r
        <4> QED BY <4>1, <4>2, Rewritten
      <3> QED BY <1>2, <3>1, <3>2
    <2>2. UNCHANGED <<rows, landed, ses>>
      BY <1>2 DEF EndWalk, Return
    <2>3. Carries(req'[s], ses[s], landed)
      BY <1>1, <2>1 DEF Carries, SameRun
    <2>4. Served(s, req'[s], ses[s], landed)
      BY <1>1, <2>1, <2>3 DEF Served, Inside, Working, Late, SameRun
    <2> QED BY <2>1, <2>2, <2>4, StaysServed
  <1>3. CASE Propagate(s)
    <2>1. /\ req'[s].pc = "handle" /\ UNCHANGED <<rows, landed, ses>>
          /\ SameRun(req[s], req'[s]) /\ \A t \in Sessions \ {s} : req'[t] = req[t]
      BY <1>3, GoesOn DEF Propagate
    <2>2. Served(s, req'[s], ses[s], landed)
      BY <1>1, <2>1 DEF Served, Inside, Working, Late, SameRun
    <2> QED BY <2>1, <2>2, StaysServed
  <1>4. ASSUME NEW e \in Exceptions
        PROVE  /\ Faithful(Raise(ses[s], e), stored, Mine(s, req[s].run))
               /\ Follows(ses[s], Raise(ses[s], e)) /\ Raise(ses[s], e).units = 1
    BY <1>1, RaiseKeeps DEF Faithful, Follows
  <1>5. CASE Fail(s)
    <2>1. /\ req'[s].pc = "handle" /\ UNCHANGED <<rows, landed>>
          /\ SameRun(req[s], req'[s]) /\ \A t \in Sessions \ {s} : req'[t] = req[t]
          /\ Becomes(s, Raise(ses[s], "other")) /\ "other" \in Exceptions
      BY <1>5, GoesOn DEF Fail, Exceptions
    <2>2. Served(s, req'[s], Raise(ses[s], "other"), landed)
      BY <1>1, <1>4, <2>1 DEF Served, Inside, Working, Late, SameRun
    <2> QED BY <2>1, <2>2, MovesServed
  <1>6. CASE Swallow(s)
    <2>1. /\ req'[s].pc = "body" /\ UNCHANGED <<rows, landed>>
          /\ SameRun(req[s], req'[s]) /\ \A t \in Sessions \ {s} : req'[t] = req[t]
          /\ Becomes(s, Raise(ses[s], "none")) /\ "none" \in Exceptions
      BY <1>6, GoesOn DEF Swallow, Exceptions
    <2>2. Carries(req'[s], Raise(ses[s], "none"), landed)
      <3>1. Carries(req[s], Raise(ses[s], "none"), landed)
        BY <1>1, <1>4, <2>1, CarriesOn
      <3> QED BY <3>1, <2>1 DEF Carries, SameRun
    <2>3. Served(s, req'[s], Raise(ses[s], "none"), landed)
      BY <1>1, <1>4, <2>1, <2>2 DEF Served, Inside, Working, Late, SameRun
    <2> QED BY <2>1, <2>3, MovesServed
  <1> QED BY <1>2, <1>3, <1>5, <1>6

-----------------------------------------------------------------------------
(* Session.commit.                                                         *)

\* Whatever becomes of a commit that raises, its transaction is gone and what
\* the run wrote still carried, or the run is over.
LEMMA CommitRaisesServed ==
    ASSUME IInv, IInv', WInv, NEW s \in Sessions, req[s].pc \in {"commit", "committing"},
           landed \subseteq landed', Within(rows', landed' \cup {Seed}),
           NEW se, Faithful(se, landed' \cup {Seed}, Mine(s, req[s].run)), Follows(ses[s], se),
           se.txn = NoTxn, CommitRaises(s, se)
    PROVE  WInv'
  <1> DEFINE stored == landed' \cup {Seed}
             end == CASE req[s].call = "walkend" -> Raise(se, "none")
                      [] req[s].call = "exit" /\ se.exc = "lost" -> Raise(Abort(se), "lost")
                      [] OTHER -> se
             out == Popped(s, end)
  <1>1. /\ Served(s, req[s], ses[s], landed) /\ req[s] \in Request
        /\ req[s].joins \subseteq Val /\ ses[s] \in SessionState
    BY ServedNow
  <1>2. /\ Faithful(Raise(se, "none"), stored, Mine(s, req[s].run))
        /\ Follows(se, Raise(se, "none"))
        /\ Raise(se, "none").txn = NoTxn
    BY RaiseKeeps, RaiseSound DEF Faithful, Kept, Exceptions
  <1>3. Faithful(Raise(Abort(se), "lost"), stored, Mine(s, req[s].run))
          /\ Raise(Abort(se), "lost").txn = NoTxn
    <2> DEFINE gone == Abort(se)
    <2>1. Faithful(gone, stored, Mine(s, req[s].run)) /\ gone.txn = NoTxn
      BY AbortKeeps DEF Faithful
    <2> HIDE DEF gone
    <2>2. Faithful(Raise(gone, "lost"), stored, Mine(s, req[s].run))
            /\ Raise(gone, "lost").txn = NoTxn
      BY <2>1, RaiseKeeps, RaiseSound DEF Faithful, Kept, Exceptions
    <2> QED BY <2>2 DEF gone
  <1>4. /\ Faithful(end, stored, Mine(s, req[s].run)) /\ end.txn = NoTxn
        /\ req[s].call = "walkend" => Follows(ses[s], end)
    <2>1. Follows(ses[s], Raise(se, "none"))
      BY <1>2, FollowsOn
    <2>2. end = IF req[s].call = "walkend" THEN Raise(se, "none")
                ELSE IF req[s].call = "exit" /\ se.exc = "lost" THEN Raise(Abort(se), "lost")
                ELSE se
      OBVIOUS
    <2> HIDE DEF end
    <2> QED BY <2>1, <2>2, <1>2, <1>3
  <1> HIDE DEF end
  <1>5. /\ Faithful(out, stored, Mine(s, req[s].run)) /\ out.txn = NoTxn
        /\ req[s].call = "walkend" => Follows(ses[s], out)
    <2>1. CASE req[s].call = "exit"
      <3> DEFINE pop == [end EXCEPT !.ro = FALSE]
      <3>1. out = pop /\ pop \in SessionState /\ Work(pop) = Work(end) /\ pop.txn = NoTxn
        BY <1>4, <2>1 DEF Popped, Work, Faithful, Kept, Sound, SessionState
      <3> HIDE DEF pop
      <3> QED BY <3>1, <2>1, <1>4, SameWork DEF Faithful, OnSnapshot
    <2>2. CASE req[s].call # "exit"
      BY <2>2, <1>4 DEF Popped
    <2> QED BY <2>1, <2>2
  <1>6. /\ Becomes(s, out)
        /\ \A t \in Sessions \ {s} : req'[t] = req[t]
        /\ req'[s].pc = IF req[s].call = "walkend" THEN "body" ELSE "handle"
        /\ req'[s].want = req[s].want /\ req'[s].joins = req[s].joins
        /\ req'[s].answer = req[s].answer /\ req'[s].run = req[s].run
    BY <1>1 DEF CommitRaises, end, IInv, TypeOK, Request
  <1> HIDE DEF out
  <1>7. ses'[s] = out /\ \A t \in Sessions \ {s} : ses'[t] = ses[t]
    BY <1>6 DEF Becomes, IInv, TypeOK
  <1>8. req[s].answer # "ok" /\ (req[s].call = "walkend" => ses[s].units = 1)
    BY <1>1 DEF Served, Inside
  <1>9. Served(s, req'[s], out, landed')
    <2>1. CASE req[s].call = "walkend"
      <3>1. Carries(req[s], ses[s], landed')
        BY <1>1 DEF Served, Working, Carries
      <3>2. Carries(req'[s], out, landed')
        <4>1. Carries(req[s], out, landed')
          BY <2>1, <3>1, <1>1, <1>5, CarriesOn
        <4> QED BY <4>1, <1>6 DEF Carries
      <3>3. out.units = 1
        BY <2>1, <1>5, <1>8 DEF Follows
      <3> QED BY <2>1, <3>2, <3>3, <1>1, <1>5, <1>6, <1>8 DEF Served, Inside, Working, Late
    <2>2. CASE req[s].call # "walkend"
      BY <2>2, <1>1, <1>5, <1>6, <1>8 DEF Served, Inside, Working, Late
    <2> QED BY <2>1, <2>2
  <1> QED BY <1>6, <1>7, <1>9, Serves

\* A conflict's replay carries the write set into the next transaction.
LEMMA CommitReplaysServed ==
    ASSUME IInv, IInv', WInv, NEW s \in Sessions, req[s].pc \in {"commit", "committing"},
           landed \subseteq landed', Within(rows', landed' \cup {Seed}),
           NEW se, Kept(se, landed' \cup {Seed}, Mine(s, req[s].run)), Follows(ses[s], se),
           Clean(ses[s]) => Clean(se), CommitReplays(s, se)
    PROVE  WInv'
  <1> DEFINE back == ReplayTxn(se, req[s].tries >= MaxRetries)
  <1>1. /\ Served(s, req[s], ses[s], landed) /\ req[s] \in Request
        /\ req[s].joins \subseteq Val
    BY ServedNow
  <1>2. (req[s].tries >= MaxRetries) \in BOOLEAN
    OBVIOUS
  <1>3. /\ Faithful(back, landed' \cup {Seed}, Mine(s, req[s].run)) /\ Follows(se, back)
        /\ back.txn = NoTxn /\ (Clean(se) => Clean(back))
    BY <1>2, ReplayKeeps
  <1>4. IF Ok(back)
        THEN /\ Becomes(s, back)
             /\ req' = [req EXCEPT ![s] = [req[s] EXCEPT !.pc = "commit", !.tries = @ + 1]]
        ELSE CommitRaises(s, back)
    BY DEF CommitReplays
  <1> HIDE DEF back
  <1>5. Follows(ses[s], back)
    BY <1>3, FollowsOn
  <1>6. CASE Ok(back)
    <2>1. /\ \A t \in Sessions \ {s} : req'[t] = req[t] /\ ses'[t] = ses[t]
          /\ ses'[s] = back /\ req'[s].pc = "commit" /\ req'[s].call = req[s].call
          /\ SameRun(req[s], req'[s])
      <3> DEFINE r == [req[s] EXCEPT !.pc = "commit", !.tries = @ + 1]
      <3>1. req' = [req EXCEPT ![s] = r] /\ Becomes(s, back)
        BY <1>4, <1>6
      <3>2. r.pc = "commit" /\ r.call = req[s].call /\ SameRun(req[s], r)
        BY <1>1 DEF SameRun, Request
      <3> HIDE DEF r
      <3>3. req'[s] = r /\ \A t \in Sessions \ {s} : req'[t] = req[t]
        BY <3>1, Rewritten
      <3>4. ses'[s] = back /\ \A t \in Sessions \ {s} : ses'[t] = ses[t]
        BY <3>1 DEF Becomes, IInv, TypeOK
      <3> QED BY <3>2, <3>3, <3>4
    <2>2. Carries(req'[s], back, landed')
      <3>1. Carries(req[s], ses[s], landed')
        BY <1>1 DEF Served, Working, Carries
      <3>2. Carries(req[s], back, landed')
        BY <3>1, <1>1, <1>5, CarriesOn
      <3> QED BY <3>2, <2>1 DEF Carries, SameRun
    <2>3. req[s].call = "exit" => Settled(req'[s], landed') /\ Clean(back)
      <3>1. req[s].call = "exit" => Settled(req[s], landed) /\ Clean(ses[s])
        BY <1>1 DEF Served, Late
      <3> QED BY <3>1, <2>1, <1>3 DEF Settled, SameRun
    <2>4. req[s].answer # "ok" /\ (req[s].call # "exit" => back.units = 1)
      BY <1>1, <1>5 DEF Served, Inside, Follows
    <2>5. Served(s, req'[s], back, landed')
      BY <1>1, <1>3, <2>1, <2>2, <2>3, <2>4 DEF Served, Inside, Working, Late, SameRun
    <2> QED BY <2>1, <2>5, Serves
  <1>7. CASE ~ Ok(back)
    BY <1>3, <1>4, <1>5, <1>7, CommitRaisesServed
  <1> QED BY <1>6, <1>7

\* A session already lost raises, and loses nothing by it.
LEMMA CommitLostServed ==
    ASSUME IInv, IInv', WInv, NEW s \in Sessions, CommitLost(s)
    PROVE  WInv'
  <1> DEFINE stored == landed \cup {Seed}
             back == RollbackTxn(ses[s])
  <1>1. Faithful(back, stored, Mine(s, req[s].run)) /\ Follows(ses[s], back) /\ back.txn = NoTxn
    BY ServedNow, RollbackKeeps
  <1>2. req[s].pc = "commit" /\ CommitRaises(s, Raise(back, "lost"))
        /\ UNCHANGED <<rows, landed>>
    BY DEF CommitLost
  <1> HIDE DEF back
  <1>3. /\ Faithful(Raise(back, "lost"), stored, Mine(s, req[s].run))
        /\ Raise(back, "lost").txn = NoTxn
        /\ Follows(back, Raise(back, "lost"))
    BY <1>1, RaiseKeeps, RaiseSound DEF Faithful, Kept, Exceptions
  <1>4. Follows(ses[s], Raise(back, "lost"))
    BY <1>1, <1>3, FollowsOn
  <1>5. Within(rows, stored)
    BY ServedNow
  <1> QED BY <1>2, <1>3, <1>4, <1>5, CommitRaisesServed

\* The flush of a commit has all of memory in the store, or keeps it for the
\* next transaction.
LEMMA FlushServed ==
    ASSUME IInv, IInv', WInv, NEW s \in Sessions, Flush(s)
    PROVE  WInv'
  <1> DEFINE stored == landed \cup {Seed}
             busy == Busy(s)
  <1>1. req[s].pc = "commit" /\ ~ ses[s].lost
    BY DEF Flush
  <1>2a. PICK fault \in BOOLEAN :
           \E sent \in FlushResults(ses[s], TRUE, rows, busy, fault) :
             /\ IF Ok(sent) THEN Becomes(s, sent) /\ Goto(s, "committing")
                ELSE IF sent.exc = "transient" THEN CommitReplays(s, sent)
                ELSE CommitRaises(s, Raise(RollbackTxn(sent), sent.exc))
             /\ UNCHANGED <<rows, landed>>
    BY DEF Flush
  <1>2. PICK sent \in FlushResults(ses[s], TRUE, rows, busy, fault) :
          /\ IF Ok(sent) THEN Becomes(s, sent) /\ Goto(s, "committing")
             ELSE IF sent.exc = "transient" THEN CommitReplays(s, sent)
             ELSE CommitRaises(s, Raise(RollbackTxn(sent), sent.exc))
          /\ UNCHANGED <<rows, landed>>
    BY <1>2a
  <1> HIDE DEF busy
  <1>3. /\ Served(s, req[s], ses[s], landed) /\ Faithful(ses[s], stored, Mine(s, req[s].run))
        /\ Within(rows, stored) /\ req[s] \in Request /\ req[s].joins \subseteq Val
        /\ Mine(s, req[s].run) \in SUBSET Val
    BY ServedNow
  <1> HIDE DEF stored
  <1>4. /\ Kept(sent, stored, Mine(s, req[s].run)) /\ Follows(ses[s], sent)
        /\ Clean(ses[s]) => Clean(sent)
        /\ Ok(sent) => /\ Exact(sent) /\ sent.deleted = {} /\ Unflushed(sent, TRUE) = {}
                       /\ sent.txn = NoTxn => ~ InFlight(sent.ledger)
                       /\ ~ sent.lost
    <2> DEFINE own == Mine(s, req[s].run)
               se  == ses[s]
    <2>1. /\ Faithful(se, stored, own) /\ own \in SUBSET Val /\ ~ se.lost
          /\ sent \in FlushResults(se, TRUE, rows, busy, fault)
      BY <1>1, <1>2, <1>3
    <2> HIDE DEF own, se
    <2>2. /\ Kept(sent, stored, own) /\ Follows(se, sent) /\ (Clean(se) => Clean(sent))
          /\ Ok(sent) => /\ Exact(sent) /\ sent.deleted = {} /\ Unflushed(sent, TRUE) = {}
                         /\ sent.txn = NoTxn => ~ InFlight(sent.ledger)
                         /\ ~ sent.lost
      BY <2>1, <1>3, FlushKeeps
    <2> QED BY <2>2 DEF own, se
  <1>5. CASE Ok(sent)
    <2>1. /\ Becomes(s, sent) /\ req'[s].pc = "committing" /\ UNCHANGED <<rows, landed>>
          /\ req'[s].call = req[s].call /\ req'[s].want = req[s].want
          /\ req'[s].joins = req[s].joins /\ req'[s].answer = req[s].answer
          /\ req'[s].run = req[s].run
          /\ \A t \in Sessions \ {s} : req'[t] = req[t]
      BY <1>2, <1>3, <1>5 DEF Goto, IInv, TypeOK, Request
    <2>2. Carries(req'[s], sent, landed)
      <3>1. Carries(req[s], sent, landed)
        BY <1>1, <1>3, <1>4, CarriesOn DEF Served, Working
      <3> QED BY <3>1, <2>1 DEF Carries
    <2>3. /\ req[s].call = "exit" => Settled(req'[s], landed) /\ Clean(sent)
          /\ req[s].answer # "ok" /\ (req[s].call # "exit" => sent.units = 1)
      BY <1>1, <1>3, <1>4, <2>1 DEF Served, Late, Settled, Inside, Follows
    <2>4. Flushed(sent) /\ Faithful(sent, stored, Mine(s, req[s].run))
      BY <1>4, <1>5 DEF Flushed, Faithful
    <2>5. Served(s, req'[s], sent, landed)
      BY <1>1, <1>3, <2>1, <2>2, <2>3, <2>4 DEF Served, Inside, Working, Late, stored
    <2> QED BY <2>1, <2>5, MovesServed
  <1>6. Within(rows', landed' \cup {Seed}) /\ landed \subseteq landed'
        /\ stored = landed' \cup {Seed}
    BY <1>2, <1>3 DEF stored
  <1>7. CASE ~ Ok(sent) /\ sent.exc = "transient"
    BY <1>1, <1>2, <1>4, <1>6, <1>7, CommitReplaysServed
  <1>8. CASE ~ Ok(sent) /\ sent.exc # "transient"
    <2> DEFINE back == RollbackTxn(sent)
               end  == Raise(back, sent.exc)
    <2>1. Faithful(back, stored, Mine(s, req[s].run)) /\ Follows(sent, back) /\ back.txn = NoTxn
      BY <1>4, RollbackKeeps
    <2>2. sent.exc \in Exceptions
      BY <1>4 DEF Kept, Sound, SessionState
    <2>3. CommitRaises(s, end)
      BY <1>2, <1>8
    <2> HIDE DEF back
    <2>4. Faithful(end, stored, Mine(s, req[s].run)) /\ Follows(back, end) /\ end.txn = NoTxn
      BY <2>1, <2>2, RaiseKeeps, RaiseSound DEF Faithful, Kept
    <2> HIDE DEF end
    <2>5. Follows(ses[s], end)
      BY <1>4, <2>1, <2>4, FollowsOn
    <2> QED BY <1>1, <1>6, <2>3, <2>4, <2>5, CommitRaisesServed
  <1> QED BY <1>5, <1>7, <1>8

\* What COMMIT applies is what the ledger calls written, all of it the
\* session's own, and every write that joined.
LEMMA ApplyLands ==
    ASSUME IInv, IInv', WInv, NEW s \in Sessions, req[s].pc = "committing",
           ses[s].txn # NoTxn, Apply(s)
    PROVE  /\ landed \subseteq landed' /\ landed' \ landed \subseteq Mine(s, req[s].run)
           /\ Within(rows', landed' \cup {Seed})
           /\ \A id \in Ids : ses[s].ledger.upserted[id] # NoRow
                                => ses[s].ledger.upserted[id].val \in landed'
           /\ req[s].joins \subseteq landed'
  <1> DEFINE t == ses[s].txn
             put == {t.own[id].val : id \in {i \in Wrote(t) : t.own[i] # NoRow}}
  <1>1. /\ Served(s, req[s], ses[s], landed)
        /\ Faithful(ses[s], landed \cup {Seed}, Mine(s, req[s].run))
        /\ Within(rows, landed \cup {Seed}) /\ ses[s] \in SessionState
        /\ Flushed(ses[s]) /\ Carries(req[s], ses[s], landed) /\ t \in Txn
    BY ServedNow DEF Served, Working, SessionState
  <1>2. landed' = landed \cup t.joins \cup put /\ rows' = Applied(t, rows)
    BY DEF Apply
  <1>3. \A id \in Ids : t.own[id] \notin {Unwritten, NoRow}
                          => t.own[id].val \in Mine(s, req[s].run) /\ t.own[id].val \in landed'
    BY <1>1, <1>2 DEF Faithful, Kept, Signed, Wrote
  <1>4. t.joins \subseteq Mine(s, req[s].run)
    BY <1>1 DEF Faithful, Kept, Signed
  <1>5. landed' \ landed \subseteq Mine(s, req[s].run)
    <2>1. put \subseteq Mine(s, req[s].run)
      BY <1>3 DEF Wrote
    <2> QED BY <1>2, <1>4, <2>1
  <1>6. Within(rows', landed' \cup {Seed})
    <2>1. \A id \in Ids : rows'[id] = IF t.own[id] # Unwritten THEN t.own[id] ELSE rows[id]
      BY <1>2 DEF Applied
    <2>2. rows' \in Rows
      BY DEF IInv, TypeOK
    <2>3. \A id \in Ids : rows[id] # NoRow => rows[id].val \in landed' \cup {Seed}
      BY <1>1, <1>2 DEF Within
    <2> HIDE DEF t
    <2> QED BY <2>1, <2>2, <2>3, <1>3 DEF Within
  <1>7. ASSUME NEW id \in Ids, ses[s].ledger.upserted[id] # NoRow
        PROVE  ses[s].ledger.upserted[id].val \in landed'
    <2>1. t.own[id] \notin {Unwritten, NoRow}
      BY <1>1, <1>7 DEF Faithful, Kept, Sound, Mirrored
    <2>2. id \notin ses[s].dirty \cup ses[s].deleted
      BY <1>1 DEF Flushed, Unflushed, Faithful, Kept, Tidy
    <2>3. t.own[id] = ses[s].ledger.upserted[id]
      BY <1>1, <1>7, <2>2 DEF Faithful, Exact, ExactOff
    <2> QED BY <1>3, <2>1, <2>3
  <1>8. req[s].joins \subseteq landed'
    BY <1>1, <1>2 DEF Carries, Rides, Flushed
  <1> QED BY <1>2, <1>5, <1>6, <1>7, <1>8

\* A COMMIT that is through has settled all the run wrote.
LEMMA CommitReturnsServed ==
    ASSUME IInv, IInv', WInv, NEW s \in Sessions, req[s].pc = "committing",
           landed \subseteq landed', Within(rows', landed' \cup {Seed}),
           \A id \in Ids : ses[s].ledger.upserted[id] # NoRow
                             => ses[s].ledger.upserted[id].val \in landed',
           req[s].joins \subseteq landed',
           NEW peers \in [Sessions -> SessionState],
           \A t \in Sessions \ {s} : Served(t, req[t], peers[t], landed'),
           CommitReturns(s, peers, ses[s])
    PROVE  WInv'
  <1> DEFINE now == landed' \cup {Seed}
             done == LeaveQueue(CommitTxn(ses[s]))
             end == Popped(s, done)
  <1>1. /\ Served(s, req[s], ses[s], landed) /\ req[s] \in Request
        /\ Faithful(ses[s], landed \cup {Seed}, Mine(s, req[s].run)) /\ Flushed(ses[s])
        /\ Carries(req[s], ses[s], landed) /\ Seed \notin Mine(s, req[s].run)
        /\ req[s].want \in [Ids -> Mine(s, req[s].run) \cup {Unwritten}]
    BY ServedNow, MineType DEF Served, Working
  <1>2. /\ Faithful(done, now, Mine(s, req[s].run)) /\ Clean(done) /\ done.txn = NoTxn
        /\ done.units = ses[s].units
        /\ \A id \in Cached(ses[s]) : ses[s].mem[id].val \in now
    <2> DEFINE stored == landed \cup {Seed}
    <2>1. /\ stored \subseteq now /\ Faithful(ses[s], stored, Mine(s, req[s].run))
          /\ \A id \in Ids : ses[s].ledger.upserted[id] # NoRow
                               => ses[s].ledger.upserted[id].val \in now
      BY <1>1
    <2> HIDE DEF stored, now
    <2> QED BY <2>1, <1>1, CommitKeeps
  <1>3. ses' = [peers EXCEPT ![s] = end]
    BY DEF CommitReturns
  <1>4. /\ \A t \in Sessions \ {s} : req'[t] = req[t]
        /\ req'[s].pc = IF req[s].call = "walkend" THEN "body"
                        ELSE IF req[s].call = "final" THEN "exit" ELSE "closing"
        /\ req'[s].call = "none" /\ req'[s].want = req[s].want
        /\ req'[s].joins = req[s].joins
        /\ req'[s].answer = IF req[s].call = "exit" THEN "ok" ELSE req[s].answer
        /\ req'[s].run = req[s].run
    BY <1>1 DEF CommitReturns, IInv, TypeOK, Request
  <1> HIDE DEF done
  <1>5. Faithful(end, now, Mine(s, req[s].run)) /\ Clean(end) /\ end.txn = NoTxn
        /\ end.units = ses[s].units
    <2>1. CASE req[s].call = "exit"
      <3> DEFINE pop == [done EXCEPT !.ro = FALSE]
      <3>1. /\ end = pop /\ pop \in SessionState /\ Work(pop) = Work(done)
            /\ pop.txn = NoTxn /\ pop.units = done.units
        BY <1>2, <2>1 DEF Popped, Work, Faithful, Kept, Sound, SessionState
      <3> HIDE DEF pop, end
      <3> QED BY <3>1, <1>2, SameWork DEF Faithful, OnSnapshot
    <2>2. CASE req[s].call # "exit"
      BY <2>2, <1>2 DEF Popped
    <2> QED BY <2>1, <2>2
  <1> HIDE DEF end
  <1>6. ses'[s] = end /\ \A t \in Sessions \ {s} : ses'[t] = peers[t]
    BY <1>3
  <1>7. Settled(req'[s], landed')
    <2>1. \A id \in Ids : req[s].want[id] \in landed' \cup {Unwritten}
      <3> TAKE id \in Ids
      <3>1. req[s].want[id] \in Mine(s, req[s].run) \cup {Unwritten}
        BY <1>1
      <3>2. CASE req[s].want[id] \in landed \cup {Unwritten}
        BY <3>2
      <3>3. CASE ses[s].mem[id] # NoAnchor /\ ses[s].mem[id].val = req[s].want[id]
        <4>1. req[s].want[id] \in now
          BY <3>3, <1>2 DEF Cached
        <4> QED BY <3>1, <4>1, <1>1
      <3> QED BY <3>2, <3>3, <1>1 DEF Carries
    <2> QED BY <2>1, <1>4 DEF Settled
  <1>8. Carries(req'[s], end, landed')
    BY <1>7 DEF Settled, Carries
  <1>9. req[s].answer # "ok" /\ (req[s].call # "exit" => end.units = 1)
    BY <1>1, <1>5 DEF Served, Inside
  <1>10. Served(s, req'[s], end, landed')
    BY <1>1, <1>4, <1>5, <1>7, <1>8, <1>9 DEF Served, Inside, Working, Late
  <1>11. \A t \in Sessions : Served(t, req'[t], ses'[t], landed')
    BY <1>4, <1>6, <1>10
  <1> QED BY <1>11 DEF WInv

\* Without a transaction nothing was to be written.
LEMMA CommitNothingServed ==
    ASSUME IInv, IInv', WInv, NEW s \in Sessions, CommitNothing(s)
    PROVE  WInv'
  <1>1. /\ req[s].pc = "committing" /\ ses[s].txn = NoTxn
        /\ CommitReturns(s, ses, ses[s]) /\ UNCHANGED <<rows, landed>>
    BY DEF CommitNothing
  <1>2. /\ Served(s, req[s], ses[s], landed) /\ Within(rows, landed \cup {Seed})
        /\ Carries(req[s], ses[s], landed) /\ ~ InFlight(ses[s].ledger) /\ ~ ses[s].lost
    BY <1>1, ServedNow DEF Served, Working, Flushed
  <1>3. \A id \in Ids : ses[s].ledger.upserted[id] = NoRow
    BY <1>2 DEF InFlight
  <1>4. req[s].joins \subseteq landed
    BY <1>2 DEF Carries, Rides, InFlight
  <1>5. ses \in [Sessions -> SessionState]
        /\ \A t \in Sessions \ {s} : Served(t, req[t], ses[t], landed)
    BY DEF IInv, TypeOK, WInv
  <1> QED BY <1>1, <1>2, <1>3, <1>4, <1>5, CommitReturnsServed

\* COMMIT applied settles one request; the others learn of its reads only.
LEMMA CommitLandsServed ==
    ASSUME IInv, IInv', WInv, NEW s \in Sessions, CommitLands(s)
    PROVE  WInv'
  <1> DEFINE peers == Outlived(s)
  <1>1. /\ req[s].pc = "committing" /\ ses[s].txn # NoTxn /\ Apply(s)
        /\ CommitReturns(s, peers, ses[s])
    BY DEF CommitLands
  <1>2. /\ landed \subseteq landed'
        /\ Within(rows', landed' \cup {Seed})
        /\ \A id \in Ids : ses[s].ledger.upserted[id] # NoRow
                             => ses[s].ledger.upserted[id].val \in landed'
        /\ req[s].joins \subseteq landed'
    BY <1>1, ApplyLands
  <1>3. ses[s].txn \in Txn
    BY <1>1, ServedNow DEF SessionState
  <1>4. ASSUME NEW t \in Sessions \ {s}
        PROVE  peers[t] \in SessionState /\ Served(t, req[t], peers[t], landed')
    <2>1. /\ Served(t, req[t], ses[t], landed) /\ ses[t] \in SessionState
          /\ Kept(ses[t], landed \cup {Seed}, Mine(t, req[t].run)) /\ req[t].joins \subseteq Val
          /\ req[t] \in Request
      BY ServedNow
    <2>2. Served(t, req[t], ses[t], landed')
      BY <1>2, <2>1, DoneGrows
    <2>3. CASE ses[t].txn = NoTxn
      BY <2>1, <2>2, <2>3 DEF Outlived
    <2>4. CASE ses[t].txn # NoTxn
      <3> DEFINE x   == [ses[t].txn EXCEPT !.peers = @ \cup ses[s].txn.reads]
                 end == [ses[t] EXCEPT !.txn = x]
      <3>1. ses[t].txn \in Txn
        BY <2>1, <2>4 DEF SessionState
      <3>2. /\ x \in Txn /\ x.iso = ses[t].txn.iso /\ x.snap = ses[t].txn.snap
            /\ x.own = ses[t].txn.own /\ x.joins = ses[t].txn.joins
        BY <1>3, <3>1 DEF Txn
      <3>3. peers[t] = end
        BY <2>4 DEF Outlived
      <3> HIDE DEF x, peers
      <3>4. /\ Faithful(ses[t], landed' \cup {Seed}, Mine(t, req[t].run))
            /\ Kept(ses[t], landed' \cup {Seed}, Mine(t, req[t].run))
        BY <2>2 DEF Served, Faithful
      <3>5. /\ Faithful(end, landed' \cup {Seed}, Mine(t, req[t].run)) /\ Follows(ses[t], end)
            /\ (Clean(ses[t]) => Clean(end)) /\ (Flushed(ses[t]) => Flushed(end))
        <4> DEFINE stored == landed' \cup {Seed}
                   own    == Mine(t, req[t].run)
        <4>1. Kept(ses[t], stored, own) /\ Exact(ses[t])
          BY <3>4 DEF Faithful
        <4> HIDE DEF stored, own
        <4>2. /\ Kept(end, stored, own) /\ Exact(end) /\ Follows(ses[t], end)
              /\ (Clean(ses[t]) => Clean(end)) /\ (Flushed(ses[t]) => Flushed(end))
          BY <4>1, <2>4, <3>2, MarksKeep
        <4> QED BY <4>2 DEF Faithful, stored, own
      <3>9. Faithful(ses[t], landed' \cup {Seed}, {}) => Faithful(end, landed' \cup {Seed}, {})
        <4> DEFINE stored == landed' \cup {Seed}
        <4> HIDE DEF stored
        <4>1. Faithful(ses[t], stored, {}) => Kept(end, stored, {}) /\ Exact(end)
          BY <2>4, <3>2, MarksKeep DEF Faithful
        <4> QED BY <4>1 DEF Faithful, stored
      <3>6. end \in SessionState /\ end.units = ses[t].units
        BY <3>5 DEF Faithful, Kept, Sound, Follows
      <3> HIDE DEF end
      <3>7. Carries(req[t], ses[t], landed') => Carries(req[t], end, landed')
        BY <2>1, <3>5, CarriesOn
      <3>8. /\ req[t].pc \notin {"idle", "turn", "pin", "closing"}
            /\ req[t].pc = "handle" => ses[t].units # 0
        BY <2>1, <2>2, <2>4, NewKeeps DEF Served
      <3> QED BY <2>2, <3>3, <3>5, <3>6, <3>7, <3>8, <3>9 DEF Served
    <2> QED BY <2>3, <2>4
  <1>5. peers \in [Sessions -> SessionState]
    <2>1. peers[s] \in SessionState
      BY ServedNow DEF Outlived
    <2> QED BY <1>4, <2>1 DEF Outlived
  <1> HIDE DEF peers
  <1> QED BY <1>1, <1>2, <1>4, <1>5, CommitReturnsServed

\* Refused, or its answer lost: the write set is replayed either way.
LEMMA CommitFailsServed ==
    ASSUME IInv, IInv', WInv, NEW s \in Sessions, CommitRefused(s) \/ CommitAckLost(s)
    PROVE  WInv'
  <1> DEFINE se == StatementFailed(ses[s], "transient")
  <1>1. req[s].pc = "committing" /\ CommitReplays(s, se)
    BY DEF CommitRefused, CommitAckLost
  <1>2. landed \subseteq landed' /\ Within(rows', landed' \cup {Seed})
    <2>1. CASE CommitRefused(s)
      BY <2>1, ServedNow DEF CommitRefused
    <2>2. CASE CommitAckLost(s)
      BY <2>2, ApplyLands DEF CommitAckLost
    <2> QED BY <2>1, <2>2
  <1>3. Kept(ses[s], landed' \cup {Seed}, Mine(s, req[s].run))
    <2>1. Kept(ses[s], landed \cup {Seed}, Mine(s, req[s].run))
      BY ServedNow
    <2> QED BY <1>2, <2>1, StoredGrows
  <1>4. /\ Kept(se, landed' \cup {Seed}, Mine(s, req[s].run)) /\ Follows(ses[s], se)
        /\ Clean(ses[s]) => Clean(se)
    <2> DEFINE stored == landed' \cup {Seed}
    <2> HIDE DEF stored
    <2>1. Kept(ses[s], stored, Mine(s, req[s].run))
      BY <1>3 DEF stored
    <2>2. Faithful(se, stored, Mine(s, req[s].run)) /\ Follows(ses[s], se)
            /\ (Clean(ses[s]) => Clean(se))
      BY <2>1, FailureKeeps DEF Exceptions
    <2> QED BY <2>2 DEF Faithful, stored
  <1> HIDE DEF se
  <1> QED BY <1>1, <1>2, <1>4, CommitReplaysServed

\* Leaving the unit: the body's own commit is through, or the run is dropped.
LEMMA UnitExitServed ==
    ASSUME IInv, IInv', WInv, NEW s \in Sessions, UnitExit(s)
    PROVE  WInv'
  <1> DEFINE stored == landed \cup {Seed}
             se     == [ses[s] EXCEPT !.units = 0, !.roRaised = FALSE]
             gone   == Abort(se)
             out(e) == Raise([gone EXCEPT !.ro = FALSE], e)
             lost   == [out("lost") EXCEPT !.roRaised = ses[s].roRaised]
             left   == [se EXCEPT !.ro = FALSE]
  <1>1. /\ req[s].pc = "exit" /\ UNCHANGED <<rows, landed>>
        /\ \/ Becomes(s, lost) /\ Goto(s, "handle")
           \/ Becomes(s, out("ro")) /\ Goto(s, "handle")
           \/ /\ ses[s].txn = NoTxn /\ Becomes(s, left)
              /\ req' = [req EXCEPT ![s] = [req[s] EXCEPT !.pc = "closing", !.answer = "ok"]]
           \/ Becomes(s, se) /\ StartCommit(s, "exit")
    BY DEF UnitExit
  <1>2. /\ Served(s, req[s], ses[s], landed) /\ Faithful(ses[s], stored, Mine(s, req[s].run))
        /\ ses[s] \in SessionState /\ req[s] \in Request
        /\ Settled(req[s], landed) /\ Clean(ses[s]) /\ req[s].answer # "ok"
    BY <1>1, ServedNow DEF Served, Late, Inside
  <1>3. /\ \A t \in Sessions \ {s} : req'[t] = req[t]
        /\ req'[s].want = req[s].want /\ req'[s].joins = req[s].joins
        /\ req'[s].run = req[s].run
        /\ \/ req'[s].pc = "handle" /\ req'[s].answer = req[s].answer
           \/ req'[s].pc = "closing" /\ req'[s].answer = "ok"
           \/ req'[s].pc = "commit" /\ req'[s].call = "exit" /\ req'[s].answer = req[s].answer
    <2> DEFINE r == [req[s] EXCEPT !.pc = "closing", !.answer = "ok"]
    <2>1. r.pc = "closing" /\ r.answer = "ok" /\ r.want = req[s].want
          /\ r.joins = req[s].joins /\ r.run = req[s].run
      BY <1>2 DEF Request
    <2>2. Goto(s, "handle") \/ req' = [req EXCEPT ![s] = r] \/ StartCommit(s, "exit")
      BY <1>1
    <2> HIDE DEF r
    <2> QED BY <2>1, <2>2, GoesOn, CommitsOn, Rewritten DEF SameRun
  <1>4. Faithful(se, stored, Mine(s, req[s].run)) /\ Clean(se) /\ se.txn = ses[s].txn
    <2>1. /\ se \in SessionState /\ Work(se) = Work(ses[s]) /\ se.txn = ses[s].txn
          /\ se.ro = ses[s].ro /\ ~ se.roRaised
      BY <1>2 DEF Work, SessionState
    <2>2. OnSnapshot(se) => se.ro
      BY <1>2, <2>1 DEF Faithful, Kept, Tidy, OnSnapshot
    <2> HIDE DEF se
    <2> QED BY <1>2, <2>1, <2>2, SameWork DEF Faithful
  <1> HIDE DEF se
  <1>5. ASSUME ses[s].txn = NoTxn
        PROVE  Faithful(left, stored, Mine(s, req[s].run)) /\ Clean(left) /\ left.txn = NoTxn
    <2>1. left \in SessionState /\ Work(left) = Work(se) /\ left.txn = NoTxn
      BY <1>4, <1>5 DEF Work, Faithful, Kept, Sound, SessionState
    <2> HIDE DEF left
    <2> QED BY <2>1, <1>4, SameWork DEF Faithful, OnSnapshot
  <1>6. Faithful(gone, stored, Mine(s, req[s].run)) /\ gone.txn = NoTxn
    BY <1>4, AbortKeeps DEF Faithful
  <1> HIDE DEF gone
  <1>7. ASSUME NEW e \in Exceptions, NEW b \in BOOLEAN
        PROVE  LET end == [out(e) EXCEPT !.roRaised = b]
               IN  Faithful(end, stored, Mine(s, req[s].run)) /\ end.txn = NoTxn
    <2> DEFINE end == [out(e) EXCEPT !.roRaised = b]
    <2>1. end \in SessionState /\ Work(end) = Work(gone) /\ end.txn = NoTxn
      BY <1>6 DEF Raise, Work, Faithful, Kept, Sound, SessionState
    <2> HIDE DEF end
    <2>2. Faithful(end, stored, Mine(s, req[s].run)) /\ end.txn = NoTxn
      BY <2>1, <1>6, SameWork DEF Faithful, OnSnapshot
    <2> QED BY <2>2 DEF end
  <1>8. Faithful(lost, stored, Mine(s, req[s].run)) /\ lost.txn = NoTxn
    BY <1>7, <1>2 DEF Exceptions, SessionState
  <1>9. Faithful(out("ro"), stored, Mine(s, req[s].run)) /\ out("ro").txn = NoTxn
    <2>1. out("ro") \in SessionState /\ Work(out("ro")) = Work(gone) /\ out("ro").txn = NoTxn
      BY <1>6 DEF Raise, Work, Faithful, Kept, Sound, SessionState, Exceptions
    <2> HIDE DEF out
    <2> QED BY <2>1, <1>6, SameWork DEF Faithful, OnSnapshot
  <1>10. Settled(req'[s], landed) /\ (\A end : Carries(req'[s], end, landed))
    BY <1>2, <1>3 DEF Settled, Carries
  <1>11. /\ req'[s].want \in [Ids -> Mine(s, req[s].run) \cup {Unwritten}]
         /\ req'[s].joins \subseteq Mine(s, req[s].run)
    BY <1>2, <1>3 DEF Served
  <1> HIDE DEF lost, out, left
  <1>12. CASE Becomes(s, lost) /\ Goto(s, "handle")
    <2>1. req'[s].pc = "handle"
      BY <1>2, <1>12 DEF Goto, IInv, TypeOK, Request
    <2>2. Served(s, req'[s], lost, landed)
      BY <2>1, <1>2, <1>3, <1>8, <1>11 DEF Served, Inside, Working, Late
    <2> QED BY <2>2, <1>1, <1>3, <1>12, MovesServed
  <1>13. CASE Becomes(s, out("ro")) /\ Goto(s, "handle")
    <2>1. req'[s].pc = "handle"
      BY <1>2, <1>13 DEF Goto, IInv, TypeOK, Request
    <2>2. Served(s, req'[s], out("ro"), landed)
      BY <2>1, <1>2, <1>3, <1>9, <1>11 DEF Served, Inside, Working, Late
    <2> QED BY <2>2, <1>1, <1>3, <1>13, MovesServed
  <1>14. CASE /\ ses[s].txn = NoTxn /\ Becomes(s, left)
              /\ req' = [req EXCEPT ![s] = [req[s] EXCEPT !.pc = "closing", !.answer = "ok"]]
    <2>1. req'[s].pc = "closing"
      BY <1>2, <1>14 DEF IInv, TypeOK, Request
    <2>2. Served(s, req'[s], left, landed)
      BY <2>1, <1>2, <1>3, <1>5, <1>10, <1>11, <1>14 DEF Served, Inside, Working, Late
    <2> QED BY <2>2, <1>1, <1>3, <1>14, MovesServed
  <1>15. CASE Becomes(s, se) /\ StartCommit(s, "exit")
    <2>1. req'[s].pc = "commit" /\ req'[s].call = "exit"
      BY <1>2, <1>15 DEF StartCommit, IInv, TypeOK, Request
    <2>2. Served(s, req'[s], se, landed)
      BY <2>1, <1>2, <1>3, <1>4, <1>10, <1>11 DEF Served, Inside, Working, Late
    <2> QED BY <2>2, <1>1, <1>3, <1>15, MovesServed
  <1> QED BY <1>1, <1>12, <1>13, <1>14, <1>15

\* A handler leaves the session clean, inside a unit unless the request ends.
LEMMA HandlesServed ==
    ASSUME IInv, IInv', WInv, NEW s \in Sessions,
           HandleRoRetry(s) \/ HandleConflict(s) \/ HandleTransient(s) \/ HandleError(s)
    PROVE  WInv'
  <1> DEFINE stored == landed \cup {Seed}
             calm == [ses[s] EXCEPT !.roRaised = FALSE]
  <1>1. /\ Served(s, req[s], ses[s], landed) /\ Faithful(ses[s], stored, Mine(s, req[s].run))
        /\ ses[s] \in SessionState /\ req[s] \in Request /\ Within(rows, stored)
        /\ req[s].pc = "handle" /\ req[s].answer # "ok"
    <2>1. req[s].pc = "handle"
      BY DEF HandleRoRetry, HandleConflict, HandleTransient, HandleError
    <2> QED BY <2>1, ServedNow DEF Served
  <1>2. /\ Faithful(calm, stored, Mine(s, req[s].run)) /\ calm.units = ses[s].units
        /\ calm.txn = ses[s].txn
    <2>1. /\ calm \in SessionState /\ Work(calm) = Work(ses[s]) /\ calm.units = ses[s].units
          /\ calm.ro = ses[s].ro /\ calm.txn = ses[s].txn /\ ~ calm.roRaised
      BY <1>1 DEF Work, SessionState
    <2>2. OnSnapshot(calm) => calm.ro
      BY <1>1, <2>1 DEF Faithful, Kept, Tidy, OnSnapshot
    <2> HIDE DEF calm
    <2> QED BY <1>1, <2>1, <2>2, SameWork DEF Faithful
  <1> HIDE DEF calm
  <1>3. ASSUME NEW se, se = calm \/ se = ses[s]
        PROVE  Faithful(Reenter(se), stored, Mine(s, req[s].run)) /\ Reenter(se).units = 1
    <2>1. Faithful(se, stored, Mine(s, req[s].run)) /\ (se.units = 0 => se.txn = NoTxn)
      BY <1>1, <1>2, <1>3 DEF Served
    <2>2. se.units \in {0, 1}
      BY <2>1 DEF Faithful, Kept, Sound, SessionState
    <2>3. CASE se.units = 0
      <3>1. ~ OnSnapshot(se) /\ RoUnit \in BOOLEAN
        BY <2>1, <2>3, ConstantsAssumption, ServedNow DEF OnSnapshot, RoUnit
      <3>2. Faithful(UnitEnter(se, RoUnit, rows), stored, Mine(s, req[s].run))
            /\ UnitEnter(se, RoUnit, rows).units = 1
        BY <1>1, <2>1, <3>1, UnitEnterKeeps
      <3> QED BY <2>3, <3>2 DEF Reenter
    <2>4. CASE se.units = 1
      BY <2>1, <2>4 DEF Reenter
    <2> QED BY <2>2, <2>3, <2>4
  <1>4. ASSUME NEW se, Faithful(se, stored, Mine(s, req[s].run))
        PROVE  /\ Faithful(Abort(se), stored, {}) /\ Clean(Abort(se))
               /\ Abort(se).txn = NoTxn /\ Abort(se).units = se.units
    BY <1>4, AbortKeeps DEF Faithful
  <1>5. ASSUME NEW se, Faithful(se, stored, Mine(s, req[s].run)), Becomes(s, Abort(se)),
               UNCHANGED <<rows, landed>>, \A t \in Sessions \ {s} : req'[t] = req[t],
               req'[s].want = req[s].want, req'[s].joins = req[s].joins,
               req'[s].answer # "ok" /\ req'[s].run = req[s].run,
               \/ req'[s].pc \in {"reload", "turn"} /\ se.units = 1
               \/ req'[s].pc = "closing"
        PROVE  WInv'
    <2> DEFINE end == Abort(se)
    <2>1. /\ Faithful(end, stored, {}) /\ Faithful(end, stored, Mine(s, req[s].run))
          /\ Clean(end) /\ end.txn = NoTxn
          /\ end.units = se.units /\ ~ InFlight(end.ledger)
      BY <1>4, <1>5, OwnGrows DEF Clean
    <2> HIDE DEF end
    <2>2. Served(s, req'[s], end, landed)
      BY <2>1, <1>1, <1>5 DEF Served, Inside, Working, Late
    <2> QED BY <2>2, <1>5, MovesServed DEF end
  <1>6. ASSUME NEW pc \in {"reload", "turn"}, NextAttempt(s, pc)
        PROVE  /\ \A t \in Sessions \ {s} : req'[t] = req[t]
               /\ req'[s].want = req[s].want /\ req'[s].joins = req[s].joins
               /\ req'[s].answer # "ok" /\ req'[s].run = req[s].run
               /\ req'[s].pc \in {pc, "closing"}
    <2> DEFINE next == [req[s] EXCEPT !.pc = pc, !.attempt = @ + 1]
               last == [req[s] EXCEPT !.pc = "closing", !.answer = "refused"]
    <2>1. req' = [req EXCEPT ![s] = next] \/ req' = [req EXCEPT ![s] = last]
      BY <1>6 DEF NextAttempt, Settle
    <2>2. ASSUME NEW r \in {next, last}
          PROVE  /\ r.want = req[s].want /\ r.joins = req[s].joins /\ r.run = req[s].run
                 /\ r.answer # "ok" /\ r.pc \in {pc, "closing"}
      BY <1>1 DEF Request
    <2> HIDE DEF next, last
    <2> QED BY <2>1, <2>2, Rewritten
  <1>7. CASE HandleRoRetry(s)
    <2>1. /\ Becomes(s, Abort(Reenter(calm))) /\ UNCHANGED <<rows, landed>>
          /\ \/ req' = [req EXCEPT ![s] = [req[s] EXCEPT !.pc = "reload", !.roRetries = @ + 1]]
             \/ NextAttempt(s, "reload")
      BY <1>7 DEF HandleRoRetry, calm
    <2>2. /\ \A t \in Sessions \ {s} : req'[t] = req[t]
          /\ req'[s].want = req[s].want /\ req'[s].joins = req[s].joins
          /\ req'[s].answer # "ok" /\ req'[s].run = req[s].run
          /\ req'[s].pc \in {"reload", "closing"}
      <3>1. CASE req' = [req EXCEPT ![s] = [req[s] EXCEPT !.pc = "reload", !.roRetries = @ + 1]]
        <4> DEFINE r == [req[s] EXCEPT !.pc = "reload", !.roRetries = @ + 1]
        <4>1. /\ r.want = req[s].want /\ r.joins = req[s].joins /\ r.run = req[s].run
              /\ r.answer # "ok" /\ r.pc = "reload"
          BY <1>1 DEF Request
        <4>2. req' = [req EXCEPT ![s] = r]
          BY <3>1
        <4> HIDE DEF r
        <4> QED BY <4>1, <4>2, Rewritten
      <3>2. CASE NextAttempt(s, "reload")
        BY <3>2, <1>6
      <3> QED BY <2>1, <3>1, <3>2
    <2> QED BY <1>3, <1>5, <2>1, <2>2
  <1>8. CASE HandleConflict(s)
    <2>1. /\ Becomes(s, Abort(Reenter(ses[s]))) /\ UNCHANGED <<rows, landed>>
          /\ NextAttempt(s, "turn")
      BY <1>8 DEF HandleConflict
    <2> QED BY <1>3, <1>5, <1>6, <2>1
  <1>9. CASE HandleTransient(s)
    <2>1. /\ Becomes(s, Abort(Reenter(ses[s]))) /\ UNCHANGED <<rows, landed>>
          /\ NextAttempt(s, "reload")
      BY <1>9 DEF HandleTransient
    <2> QED BY <1>3, <1>5, <1>6, <2>1
  <1>10. CASE HandleError(s)
    <2>1. /\ Becomes(s, Abort(ses[s])) /\ UNCHANGED <<rows, landed>>
          /\ Settle(s, "error")
      BY <1>10 DEF HandleError
    <2>2. /\ \A t \in Sessions \ {s} : req'[t] = req[t]
          /\ req'[s].want = req[s].want /\ req'[s].joins = req[s].joins
          /\ req'[s].answer # "ok" /\ req'[s].run = req[s].run /\ req'[s].pc = "closing"
      <3> DEFINE r == [req[s] EXCEPT !.pc = "closing", !.answer = "error"]
      <3>1. /\ r.want = req[s].want /\ r.joins = req[s].joins /\ r.run = req[s].run
            /\ r.answer # "ok" /\ r.pc = "closing"
        BY <1>1 DEF Request
      <3>2. req' = [req EXCEPT ![s] = r]
        BY <2>1 DEF Settle
      <3> HIDE DEF r
      <3> QED BY <3>1, <3>2, Rewritten
    <2> QED BY <1>1, <1>5, <2>1, <2>2
  <1> QED BY <1>7, <1>8, <1>9, <1>10

\* Waiting for its turn, a session with nothing open has nothing to write.
LEMMA WaitTurnServed ==
    ASSUME IInv, IInv', WInv, NEW s \in Sessions, WaitTurn(s)
    PROVE  WInv'
  <1> DEFINE stored == landed \cup {Seed}
             took   == [ses[s] EXCEPT !.queued = ses[s].contended]
             gave   == [ses[s] EXCEPT !.queued = {}, !.contended = {}]
  <1>1. /\ Served(s, req[s], ses[s], landed) /\ Faithful(ses[s], stored, {})
        /\ ses[s] \in SessionState /\ req[s] \in Request
        /\ req[s].pc = "turn" /\ req[s].answer # "ok" /\ ses[s].units = 1
        /\ ses[s].txn = NoTxn /\ ~ InFlight(ses[s].ledger)
    <2>1. req[s].pc = "turn"
      BY DEF WaitTurn
    <2> QED BY <2>1, ServedNow DEF Served, Inside
  <1>2. \E pc \in {"reload", "pin"} :
           /\ Goto(s, pc) /\ UNCHANGED <<rows, landed>>
           /\ UNCHANGED ses \/ Becomes(s, took) \/ Becomes(s, gave)
    BY DEF WaitTurn
  <1>3. /\ \A t \in Sessions \ {s} : req'[t] = req[t]
        /\ req'[s].want = req[s].want /\ req'[s].joins = req[s].joins
        /\ req'[s].answer = req[s].answer /\ req'[s].run = req[s].run
        /\ req'[s].pc \in {"reload", "pin"}
    BY <1>2, GoesOn DEF SameRun
  <1>4. ASSUME NEW end, end \in {ses[s], took, gave}
        PROVE  Served(s, req'[s], end, landed)
    <2>1. /\ end \in SessionState /\ Work(end) = Work(ses[s]) /\ end.units = 1
          /\ end.txn = NoTxn /\ end.ledger = ses[s].ledger
      <3>1. /\ \A q \in SUBSET Ids : [ses[s] EXCEPT !.queued = q] \in SessionState
            /\ \A q \in SUBSET Ids : Work([ses[s] EXCEPT !.queued = q]) = Work(ses[s])
            /\ \A q \in SUBSET Ids : [ses[s] EXCEPT !.queued = q].units = ses[s].units
        BY <1>1 DEF Work, SessionState
      <3>2. took \in SessionState /\ Work(took) = Work(ses[s]) /\ took.units = ses[s].units
        <4>1. ses[s].contended \in SUBSET Ids
          BY <1>1 DEF SessionState
        <4> QED BY <3>1, <4>1
      <3>3. gave \in SessionState /\ Work(gave) = Work(ses[s]) /\ gave.units = ses[s].units
        BY <1>1 DEF Work, SessionState
      <3> HIDE DEF took, gave
      <3>4. /\ end \in SessionState /\ Work(end) = Work(ses[s]) /\ end.units = ses[s].units
        BY <1>1, <1>4, <3>2, <3>3
      <3> QED BY <1>1, <3>4 DEF Work
    <2> HIDE DEF took, gave
    <2>2. Faithful(end, stored, {})
      BY <1>1, <2>1, SameWork DEF Faithful, OnSnapshot
    <2>3. Faithful(end, stored, Mine(s, req[s].run))
      BY <2>2, OwnGrows
    <2> QED BY <2>3, <1>1, <1>3, <2>1, <2>2 DEF Served, Inside, Working, Late
  <1> HIDE DEF took, gave
  <1>5. CASE UNCHANGED ses
    BY <1>2, <1>3, <1>4, <1>5, StaysServed
  <1>6. CASE Becomes(s, took) \/ Becomes(s, gave)
    BY <1>2, <1>3, <1>4, <1>6, MovesServed
  <1> QED BY <1>2, <1>5, <1>6

\* Pinning opens a transaction over nothing written.
LEMMA PinServed ==
    ASSUME IInv, IInv', WInv, NEW s \in Sessions, Pin(s)
    PROVE  WInv'
  <1> DEFINE stored == landed \cup {Seed}
             ids  == {id \in ses[s].queued : rows[id] # NoRow}
             open == BeginTxn(ses[s], "serializable", rows)
             t    == [open.txn EXCEPT !.pins = ids]
             end  == [open EXCEPT !.txn = t]
  <1>1. /\ Served(s, req[s], ses[s], landed) /\ Faithful(ses[s], stored, {})
        /\ ses[s] \in SessionState /\ req[s] \in Request /\ Within(rows, stored)
        /\ req[s].pc = "pin" /\ req[s].answer # "ok" /\ ses[s].units = 1
        /\ ses[s].txn = NoTxn /\ ~ InFlight(ses[s].ledger)
    <2>1. req[s].pc = "pin"
      BY DEF Pin
    <2> QED BY <2>1, ServedNow DEF Served, Inside
  <1>2. /\ Goto(s, "reload") /\ UNCHANGED <<rows, landed>>
        /\ UNCHANGED ses \/ Becomes(s, end)
    BY DEF Pin
  <1>3. /\ \A u \in Sessions \ {s} : req'[u] = req[u]
        /\ req'[s].want = req[s].want /\ req'[s].joins = req[s].joins
        /\ req'[s].answer = req[s].answer /\ req'[s].run = req[s].run /\ req'[s].pc = "reload"
    BY <1>2, GoesOn DEF SameRun
  <1>4. /\ Faithful(open, stored, {}) /\ Follows(ses[s], open) /\ open.txn # NoTxn
    BY <1>1, BeginKeeps DEF Isolation
  <1>5. ids \subseteq Ids
    BY <1>1 DEF SessionState
  <1> HIDE DEF open, ids
  <1>6. /\ t \in Txn /\ t.iso = open.txn.iso /\ t.snap = open.txn.snap
        /\ t.own = open.txn.own /\ t.joins = open.txn.joins
    <2>1. open.txn \in Txn
      BY <1>4 DEF Faithful, Kept, Sound, SessionState
    <2> QED BY <1>5, <2>1 DEF Txn
  <1> HIDE DEF t
  <1>7. Faithful(end, stored, {}) /\ Follows(open, end)
    <2> HIDE DEF stored
    <2> QED BY <1>4, <1>6, MarksKeep DEF Faithful
  <1>8. end.units = 1
    BY <1>1, <1>4, <1>7 DEF Follows
  <1> HIDE DEF end
  <1>9. CASE UNCHANGED ses
    <2>1. Served(s, req'[s], ses[s], landed)
      BY <1>1, <1>3, OwnGrows DEF Served, Inside, Working, Late
    <2> QED BY <2>1, <1>2, <1>3, <1>9, StaysServed
  <1>10. CASE Becomes(s, end)
    <2>1. Served(s, req'[s], end, landed)
      BY <1>1, <1>3, <1>7, <1>8, OwnGrows DEF Served, Inside, Working, Late
    <2> QED BY <2>1, <1>2, <1>3, <1>10, MovesServed
  <1> QED BY <1>2, <1>9, <1>10

\* The body starts over: the new run has written nothing.
LEMMA ReloadServed ==
    ASSUME IInv, IInv', WInv, NEW s \in Sessions, Reload(s)
    PROVE  WInv'
  <1> DEFINE stored == landed \cup {Seed}
             end == EnsureTxn(ses[s], rows)
  <1>1. /\ Served(s, req[s], ses[s], landed) /\ Faithful(ses[s], stored, {})
        /\ req[s] \in Request /\ Within(rows, stored)
        /\ req[s].pc = "reload" /\ req[s].answer # "ok" /\ ses[s].units = 1
    <2>1. req[s].pc = "reload"
      BY DEF Reload
    <2> QED BY <2>1, ServedNow DEF Served, Inside
  <1>2. Faithful(end, stored, {}) /\ Follows(ses[s], end)
    BY <1>1, EnsureKeeps
  <1>3. end.units = 1
    BY <1>1, <1>2 DEF Follows
  <1>4. Becomes(s, end) /\ UNCHANGED <<rows, landed>>
    BY DEF Reload
  <1> HIDE DEF end
  <1>5. /\ \A t \in Sessions \ {s} : req'[t] = req[t]
        /\ req'[s].want = NewRun.want /\ req'[s].joins = {}
        /\ req'[s].answer = req[s].answer
        /\ req'[s].pc \in {"body", "handle"}
    <2> DEFINE pc == IF Ok(EnsureTxn(ses[s], rows)) THEN "body" ELSE "handle"
               r  == [req[s] EXCEPT !.pc = pc, !.run = IF @ < MaxRuns THEN @ + 1 ELSE @,
                        !.ops = 0, !.found = "unknown",
                        !.want = NewRun.want, !.joins = {}]
    <2>1. req' = [req EXCEPT ![s] = r]
      BY DEF Reload
    <2>2. /\ r.want = NewRun.want /\ r.joins = {} /\ r.answer = req[s].answer
          /\ r.pc \in {"body", "handle"}
      BY <1>1 DEF Request
    <2> HIDE DEF r
    <2>3. req'[s] = r /\ \A t \in Sessions \ {s} : req'[t] = req[t]
      BY <2>1 DEF IInv, TypeOK
    <2> QED BY <2>2, <2>3
  <1>6. /\ NewRun.want \in [Ids -> Mine(s, req'[s].run) \cup {Unwritten}]
        /\ Carries(req'[s], end, landed)
    BY <1>5 DEF NewRun, Carries
  <1>7. Served(s, req'[s], end, landed)
    BY <1>1, <1>2, <1>3, <1>5, <1>6, OwnGrows DEF Served, Inside, Working, Late
  <1> QED BY <1>4, <1>5, <1>7, MovesServed

\* Closing a request forgets its session, not what it has settled.
LEMMA CloseServed ==
    ASSUME IInv, IInv', WInv, NEW s \in Sessions, Close(s)
    PROVE  WInv'
  <1>1. /\ Served(s, req[s], ses[s], landed) /\ req[s] \in Request
        /\ req[s].pc = "closing"
    BY ServedNow DEF Close
  <1>2. Becomes(s, NewSession) /\ UNCHANGED <<rows, landed>>
    BY DEF Close
  <1>3. /\ \A t \in Sessions \ {s} : req'[t] = req[t]
        /\ req'[s].want = req[s].want /\ req'[s].joins = req[s].joins
        /\ req'[s].answer = req[s].answer /\ req'[s].run = req[s].run /\ req'[s].pc = "done"
    BY <1>1 DEF Close, Goto, IInv, TypeOK, Request
  <1>4. Faithful(NewSession, landed \cup {Seed}, Mine(s, req[s].run))
    BY NewKeeps
  <1>5. Settled(req[s], landed) => Settled(req'[s], landed)
    BY <1>3 DEF Settled
  <1>6. Served(s, req'[s], NewSession, landed)
    BY <1>1, <1>3, <1>4, <1>5 DEF Served, Inside, Working, Late
  <1> QED BY <1>2, <1>3, <1>6, MovesServed

-----------------------------------------------------------------------------

\* Every step of a request keeps what it and the others are owed.
LEMMA StepServed ==
    ASSUME IInv, IInv', WInv, NEW s \in Sessions, Step(s)
    PROVE  WInv'
  <1>1. ASSUME Begin(s) PROVE WInv'
    BY <1>1, BeginServed
  <1>2. ASSUME Read(s) \/ Scan(s) \/ Respond(s) \/ Retry(s) PROVE WInv'
    BY <1>2, ReadsServed
  <1>3. ASSUME NEW id \in Ids,
               WriteAnchor(s, id) \/ Mutate(s, id) \/ Create(s, id) \/ DeleteAnchor(s, id)
        PROVE  WInv'
    BY <1>3, WritesServed
  <1>4. ASSUME Join(s) PROVE WInv'
    BY <1>4, JoinServed
  <1>5. ASSUME EndWalk(s) \/ Fail(s) \/ Swallow(s) \/ Propagate(s) \/ Return(s) PROVE WInv'
    BY <1>5, EndsServed
  <1>6. ASSUME CommitLost(s) PROVE WInv'
    BY <1>6, CommitLostServed
  <1>7. ASSUME Flush(s) PROVE WInv'
    BY <1>7, FlushServed
  <1>8. ASSUME CommitNothing(s) PROVE WInv'
    BY <1>8, CommitNothingServed
  <1>9. ASSUME CommitLands(s) PROVE WInv'
    BY <1>9, CommitLandsServed
  <1>10. ASSUME CommitRefused(s) \/ CommitAckLost(s) PROVE WInv'
    BY <1>10, CommitFailsServed
  <1>11. ASSUME UnitExit(s) PROVE WInv'
    BY <1>11, UnitExitServed
  <1>12. ASSUME HandleRoRetry(s) \/ HandleConflict(s) \/ HandleTransient(s) \/ HandleError(s)
         PROVE  WInv'
    BY <1>12, HandlesServed
  <1>13. ASSUME WaitTurn(s) PROVE WInv'
    BY <1>13, WaitTurnServed
  <1>14. ASSUME Pin(s) PROVE WInv'
    BY <1>14, PinServed
  <1>15. ASSUME Reload(s) PROVE WInv'
    BY <1>15, ReloadServed
  <1>16. ASSUME Close(s) PROVE WInv'
    BY <1>16, CloseServed
  <1> QED BY <1>1, <1>2, <1>3, <1>4, <1>5, <1>6, <1>7, <1>8, <1>9, <1>10, <1>11, <1>12,
             <1>13, <1>14, <1>15, <1>16 DEF Step

\* So does the expiry of the walker's record, and a step that changes nothing.
LEMMA NextServed == IInv /\ IInv' /\ WInv /\ [Next]_vars => WInv'
  <1> SUFFICES ASSUME IInv, IInv', WInv, [Next]_vars PROVE WInv'
    OBVIOUS
  <1>1. ASSUME NEW s \in Sessions, Step(s) PROVE WInv'
    BY <1>1, StepServed
  <1>2. ASSUME UNCHANGED <<rows, landed, req, ses>> PROVE WInv'
    BY <1>2 DEF WInv
  <1> QED BY <1>1, <1>2 DEF Next, Expire, vars

\* At every moment, for every request: what its run has written is committed,
\* in memory or in its transaction, and only its own transaction writes it.
THEOREM WorkKept == Spec => []WInv
  <1>1. Init => WInv
    BY InitServed
  <1>2. IInv /\ IInv' /\ WInv /\ [Next]_vars => WInv'
    BY NextServed
  <1> QED BY <1>1, <1>2, Invariance, PTL DEF Spec

\* A request answered ok has had its last write of every row, and every write
\* that joined its transaction, committed.
THEOREM NoAnswerUnlanded == Spec => []AnsweredWritesLanded
  <1>1. WInv => AnsweredWritesLanded
    BY DEF WInv, Served, Settled, AnsweredWritesLanded
  <1> QED BY <1>1, WorkKept, PTL

\* A request's context closes over a session that has nothing left to write.
THEOREM ClosesClean == Spec => []SettledClean
  <1>1. WInv => SettledClean
    BY DEF WInv, Served, Clean, SettledClean
  <1> QED BY <1>1, WorkKept, PTL

-----------------------------------------------------------------------------
(* What a COMMIT may land.                                                 *)

\* Contents commit where a transaction's COMMIT is applied, nowhere else.
LEMMA OnlyCommitsLand ==
    ASSUME NEW s \in Sessions, Step(s), landed' # landed
    PROVE  req[s].pc = "committing" /\ ses[s].txn # NoTxn /\ Apply(s)
  <1>1. ASSUME Begin(s) \/ Read(s) \/ Scan(s) \/ Respond(s) \/ Retry(s) PROVE FALSE
    <2>1. ASSUME NEW call, NEW ids, NEW tries, Try(s, call, ids, tries) PROVE FALSE
      <3>1. ASSUME NEW fault, NEW open, Tried(s, call, ids, tries, fault, open) PROVE FALSE
        BY <3>1 DEF Tried
      <3> QED BY <2>1, <3>1 DEF Try
    <2> QED BY <1>1, <2>1 DEF Begin, Read, Scan, Respond, Retry
  <1>2. ASSUME NEW id \in Ids,
               WriteAnchor(s, id) \/ Mutate(s, id) \/ Create(s, id) \/ DeleteAnchor(s, id)
        PROVE  FALSE
    BY <1>2 DEF WriteAnchor, Mutate, Create, DeleteAnchor, Local
  <1>3. ASSUME Join(s) \/ EndWalk(s) \/ Fail(s) \/ Swallow(s) \/ Propagate(s) \/ Return(s)
        PROVE  FALSE
    BY <1>3 DEF Join, EndWalk, Fail, Swallow, Propagate, Return
  <1>4. ASSUME CommitLost(s) \/ Flush(s) \/ CommitNothing(s) \/ CommitRefused(s)
        PROVE  FALSE
    BY <1>4 DEF CommitLost, Flush, CommitNothing, CommitRefused
  <1>5. ASSUME \/ UnitExit(s) \/ HandleRoRetry(s) \/ HandleConflict(s)
               \/ HandleTransient(s) \/ HandleError(s)
               \/ WaitTurn(s) \/ Pin(s) \/ Reload(s) \/ Close(s)
        PROVE  FALSE
    BY <1>5 DEF UnitExit, HandleRoRetry, HandleConflict, HandleTransient, HandleError,
                WaitTurn, Pin, Reload, Close
  <1>6. ASSUME CommitLands(s) \/ CommitAckLost(s)
        PROVE  req[s].pc = "committing" /\ ses[s].txn # NoTxn /\ Apply(s)
    BY <1>6 DEF CommitLands, CommitAckLost
  <1> QED BY <1>1, <1>2, <1>3, <1>4, <1>5, <1>6 DEF Step

\* What one COMMIT lands is one session's, and then all its run has written.
LEMMA LandsWhole ==
    ASSUME IInv, IInv', WInv, [Next]_vars, NEW s \in Sessions, Lands(s)
    PROVE  Settled(req[s], landed')
  <1>1. PICK v \in landed' \ landed : v[1] = s
    BY DEF Lands
  <1>2. PICK t \in Sessions : Step(t)
    BY <1>1 DEF Next, Expire, vars
  <1>3. req[t].pc = "committing" /\ ses[t].txn # NoTxn /\ Apply(t)
    BY <1>1, <1>2, OnlyCommitsLand
  <1>4. /\ landed \subseteq landed' /\ landed' \ landed \subseteq Mine(t, req[t].run)
        /\ \A id \in Ids : ses[t].ledger.upserted[id] # NoRow
                             => ses[t].ledger.upserted[id].val \in landed'
        /\ req[t].joins \subseteq landed'
    BY <1>3, ApplyLands
  <1>5. t = s
    BY <1>1, <1>4, MineApart
  <1> DEFINE stored == landed \cup {Seed}
             now == landed' \cup {Seed}
  <1>6. /\ Faithful(ses[s], stored, Mine(s, req[s].run)) /\ Flushed(ses[s])
        /\ Carries(req[s], ses[s], landed) /\ Seed \notin Mine(s, req[s].run)
        /\ req[s].want \in [Ids -> Mine(s, req[s].run) \cup {Unwritten}]
    BY <1>3, <1>5, ServedNow, MineType DEF Served, Working
  <1>7. /\ stored \subseteq now
        /\ \A id \in Ids : ses[s].ledger.upserted[id] # NoRow
                             => ses[s].ledger.upserted[id].val \in now
    BY <1>4, <1>5
  <1> HIDE DEF stored, now
  <1>8. \A id \in Cached(ses[s]) : ses[s].mem[id].val \in now
    BY <1>6, <1>7, CommitKeeps
  <1>9. \A id \in Ids : req[s].want[id] \in landed' \cup {Unwritten}
    <2> TAKE id \in Ids
    <2>1. req[s].want[id] \in Mine(s, req[s].run) \cup {Unwritten}
      BY <1>6
    <2>2. CASE req[s].want[id] \in landed \cup {Unwritten}
      BY <2>2, <1>4
    <2>3. CASE ses[s].mem[id] # NoAnchor /\ ses[s].mem[id].val = req[s].want[id]
      <3>1. req[s].want[id] \in now
        BY <2>3, <1>8 DEF Cached
      <3> QED BY <2>1, <3>1, <1>6 DEF now
    <2> QED BY <2>2, <2>3, <1>6 DEF Carries
  <1> QED BY <1>4, <1>5, <1>9 DEF Settled

\* No COMMIT leaves part of a run behind: one that lands anything of a request
\* lands all that its run has written so far.
THEOREM NoHalfRun ==
    Spec => [][\A s \in Sessions : Lands(s) => Settled(req[s], landed')]_vars
  <1>1. IInv /\ IInv' /\ WInv /\ [Next]_vars
           => [\A s \in Sessions : Lands(s) => Settled(req[s], landed')]_vars
    BY LandsWhole
  <1> QED BY <1>1, Invariance, WorkKept, PTL DEF Spec

\* A write that joined the transaction commits with the rows of its run, or
\* they do not commit either.
THEOREM JoinsLandTogether == Spec => JoinedOrNothing
  <1>1. IInv /\ IInv' /\ WInv /\ [Next]_vars
           => [\A s \in Sessions : Lands(s) => req[s].joins \subseteq landed']_vars
    BY LandsWhole DEF Settled
  <1> QED BY <1>1, Invariance, WorkKept, PTL DEF Spec, JoinedOrNothing

-----------------------------------------------------------------------------
(* One run of a request lands.                                             *)

\* The code commits a request in one place: no walk of its body ends in a
\* commit of its own, its response loads nothing after the commit, and no
\* COMMIT that was applied is taken for refused.
OneCommit ==
    /\ ~ LostAcks
    /\ \A body \in Bodies : body \cap {"walkend", "respond"} = {}

\* The request commits at its end, and is answered there.
Straight(r) ==
    /\ r.body \in Bodies
    /\ r.pc \in {"commit", "committing"} => r.call = "final"
    /\ r.pc = "call" => r.call # "respond"
    /\ r.answer # "none" => r.pc \in {"closing", "done"}

\* Once a run has landed anything, the request only leaves.
Alone(s) ==
    /\ Straight(req[s])
    /\ req[s].pc = "exit" => ses[s].txn = NoTxn /\ ~ ses[s].lost
    /\ LandedRuns(s) # {} =>
          /\ LandedRuns(s) \subseteq {req[s].run}
          /\ req[s].pc \in {"exit", "closing", "done"}
          /\ req[s].pc = "exit" => ~ ses[s].roRaised
          /\ req[s].answer \in {"none", "ok"}

OInv == \A s \in Sessions : Alone(s)

-----------------------------------------------------------------------------

\* What has landed of a request is a matter of what has landed.
LEMMA SameLanded ==
    ASSUME NEW s, landed' = landed PROVE LandedRuns(s)' = LandedRuns(s)
  BY DEF LandedRuns

\* The steps of a request of which nothing has landed, or that leaves.
LEMMA StillAlone ==
    ASSUME OInv, NEW s \in Sessions, landed' = landed,
           LandedRuns(s) # {} => /\ req'[s].pc \in {"closing", "done"}
                                 /\ req'[s].run = req[s].run
                                 /\ req'[s].answer \in {"none", "ok"},
           \A t \in Sessions \ {s} : req'[t] = req[t] /\ ses'[t] = ses[t],
           Straight(req'[s]), req'[s].pc = "exit" => ses'[s].txn = NoTxn /\ ~ ses'[s].lost
    PROVE  OInv'
  <1>1. \A t \in Sessions : LandedRuns(t)' = LandedRuns(t)
    BY SameLanded
  <1> SUFFICES ASSUME NEW t \in Sessions PROVE Alone(t)'
    BY DEF OInv
  <1>2. Alone(t)
    BY DEF OInv
  <1>3. CASE t = s
    BY <1>1, <1>2, <1>3 DEF Alone
  <1>4. CASE t # s
    <2>1. req'[t] = req[t] /\ ses'[t] = ses[t] /\ LandedRuns(t)' = LandedRuns(t)
      BY <1>1, <1>4
    <2> QED BY <1>2, <2>1 DEF Alone
  <1> QED BY <1>3, <1>4

\* Before its COMMIT nothing of a request has landed.
LEMMA BareYet ==
    ASSUME OInv, NEW s \in Sessions, req[s].pc \notin {"exit", "closing", "done"}
    PROVE  LandedRuns(s) = {}
  BY DEF OInv, Alone

\* One session moves, the others do not.
LEMMA OneMoves ==
    ASSUME IInv, NEW s \in Sessions, NEW se, Becomes(s, se)
    PROVE  ses'[s] = se /\ \A t \in Sessions \ {s} : ses'[t] = ses[t]
  BY DEF Becomes, IInv, TypeOK

\* So it is when its session moves, and not to the end of its unit.
LEMMA MovesAlone ==
    ASSUME IInv, OInv, NEW s \in Sessions, NEW se, Becomes(s, se), landed' = landed,
           req[s].pc \notin {"exit", "closing", "done"},
           \A t \in Sessions \ {s} : req'[t] = req[t],
           Straight(req'[s]), req'[s].pc # "exit"
    PROVE  OInv'
  BY OneMoves, BareYet, StillAlone

\* Or stays, and the coroutine goes on.
LEMMA StaysAlone ==
    ASSUME IInv, OInv, NEW s \in Sessions, UNCHANGED <<ses, landed>>,
           req[s].pc \notin {"exit", "closing", "done"},
           \A t \in Sessions \ {s} : req'[t] = req[t],
           Straight(req'[s]), req'[s].pc # "exit"
    PROVE  OInv'
  BY BareYet, StillAlone

\* Where the coroutine goes on in the same run.
LEMMA StraightOn ==
    ASSUME NEW r, NEW end, Straight(r), SameRun(r, end),
           r.pc \notin {"closing", "done"} /\ end.pc \notin {"call", "commit", "committing"}
    PROVE  Straight(end)
  BY DEF Straight, SameRun

-----------------------------------------------------------------------------

\* A request that begins has nothing of its own in the database.
LEMMA BeginAlone ==
    ASSUME IInv, OInv, NEW s \in Sessions, Begin(s)
    PROVE  OInv'
  <1> DEFINE r == [req[s] EXCEPT !.pc = "body", !.attempt = 1, !.run = 1]
  <1>1. req[s] \in Request /\ req[s].pc = "idle" /\ Straight(req[s])
    BY InvSound DEF Begin, OInv, Alone
  <1>2. Straight(r) /\ r.pc = "body"
    BY <1>1 DEF Straight, Request
  <1>3. req' = [req EXCEPT ![s] = r] /\ landed' = landed
    BY DEF Begin
  <1> HIDE DEF r
  <1>4. req'[s] = r /\ \A t \in Sessions \ {s} : req'[t] = req[t]
    BY <1>3, Rewritten
  <1> DEFINE se == UnitEnter(BeginTxn(ses[s], TxnIsolation(ses[s]), rows), RoUnit, rows)
  <1>5. Becomes(s, se)
    BY DEF Begin
  <1> HIDE DEF se
  <1> QED BY <1>1, <1>2, <1>3, <1>4, <1>5, MovesAlone

\* A read of the body ends in the body, or is tried again.
LEMMA AfterTryStraight ==
    ASSUME NEW r \in Request, Straight(r), r.pc \notin {"closing", "done"},
           NEW call, call # "respond", NEW ids,
           NEW tries, NEW loads, NEW again, NEW end, NEW found
    PROVE  /\ Straight(AfterTry(r, call, ids, tries, loads, again, end, found))
           /\ AfterTry(r, call, ids, tries, loads, again, end, found).pc # "exit"
  <1> DEFINE pc    == IF ~ Ok(end) THEN IF call = "respond" THEN "handle" ELSE "raised"
                      ELSE IF again THEN "call"
                      ELSE IF call = "respond" THEN "exit" ELSE "body"
             waits == again /\ Ok(end)
             next  == IF waits THEN call ELSE "none"
             ops   == IF r.pc = "call" THEN r.ops ELSE r.ops + 1
             arg   == IF waits THEN ids ELSE {}
             count == IF ~ waits THEN 0 ELSE IF loads THEN 2 ELSE tries + 1
             seen  == IF call # "scan" \/ again \/ ~ Ok(end) THEN r.found ELSE found
             x     == [r EXCEPT !.ops = ops, !.pc = pc, !.call = next, !.arg = arg,
                                !.tries = count, !.found = seen]
  <1>1. AfterTry(r, call, ids, tries, loads, again, end, found) = x
    BY Zenon DEF AfterTry
  <1>2. pc \in {"raised", "call", "body"} /\ (pc = "call" => next = call)
    OBVIOUS
  <1> HIDE DEF pc, next, ops, arg, count, seen
  <1>3. x.pc = pc /\ x.call = next /\ x.body = r.body /\ x.answer = r.answer
    BY DEF Request
  <1> HIDE DEF x
  <1> QED BY <1>1, <1>2, <1>3 DEF Straight

\* What a try of a read leaves behind.
LEMMA TryAlone ==
    ASSUME IInv, OInv, NEW s \in Sessions, NEW call, call # "respond", NEW ids, NEW tries,
           Try(s, call, ids, tries), req[s].pc \notin {"exit", "closing", "done"}
    PROVE  OInv'
  <1>1. PICK fault, open : Tried(s, call, ids, tries, fault, open)
    BY DEF Try
  <1>2. PICK loads, again, end, found :
            /\ Becomes(s, end) /\ landed' = landed
            /\ req' = [req EXCEPT ![s] =
                          AfterTry(req[s], call, ids, tries, loads, again, end, found)]
    BY <1>1 DEF Tried
  <1>3. req[s] \in Request /\ Straight(req[s])
    BY InvSound DEF OInv, Alone
  <1> DEFINE r == AfterTry(req[s], call, ids, tries, loads, again, end, found)
  <1>4. Straight(r) /\ r.pc # "exit"
    BY <1>3, AfterTryStraight
  <1> HIDE DEF r
  <1>5. req'[s] = r /\ \A t \in Sessions \ {s} : req'[t] = req[t]
    BY <1>2, Rewritten DEF r
  <1> QED BY <1>2, <1>4, <1>5, MovesAlone

\* Reads of the body: under OneCommit the response reads nothing.
LEMMA ReadsAlone ==
    ASSUME OneCommit, IInv, OInv, NEW s \in Sessions,
           Read(s) \/ Scan(s) \/ Respond(s) \/ Retry(s)
    PROVE  OInv'
  <1>1. ~ Respond(s)
    BY DEF OneCommit, Respond, OInv, Alone, Straight
  <1>2. CASE Read(s)
    BY <1>2, TryAlone DEF Read, InBody
  <1>3. CASE Scan(s)
    BY <1>3, TryAlone DEF Scan, InBody
  <1>4. CASE Retry(s)
    BY <1>4, TryAlone DEF Retry, OInv, Alone, Straight
  <1> QED BY <1>1, <1>2, <1>3, <1>4

\* A call of the body without a statement, and one that joins the transaction.
LEMMA BodyAlone ==
    ASSUME IInv, OInv, NEW s \in Sessions, req[s].pc = "body", NEW se, Becomes(s, se),
           landed' = landed, NEW r, req' = [req EXCEPT ![s] = r],
           r.body = req[s].body, r.answer = req[s].answer, r.pc \in {"body", "raised"}
    PROVE  OInv'
  <1>1. req'[s] = r /\ \A t \in Sessions \ {s} : req'[t] = req[t]
    BY Rewritten
  <1>2. Straight(r)
    BY DEF OInv, Alone, Straight
  <1> QED BY <1>1, <1>2, MovesAlone

\* Writes of the body stay in memory: nothing lands.
LEMMA WritesAlone ==
    ASSUME IInv, OInv, NEW s \in Sessions, NEW id \in Ids,
           WriteAnchor(s, id) \/ Mutate(s, id) \/ Create(s, id) \/ DeleteAnchor(s, id)
    PROVE  OInv'
  <1>1. ASSUME NEW se, NEW found, NEW want, req[s].pc = "body", Local(s, se, found, want)
        PROVE  OInv'
    <2> DEFINE r == [req[s] EXCEPT !.ops = @ + 1, !.found = found, !.want = want]
    <2>1. r.body = req[s].body /\ r.answer = req[s].answer /\ r.pc = "body"
      BY <1>1, InvSound DEF Request
    <2>2. req' = [req EXCEPT ![s] = r] /\ Becomes(s, se) /\ landed' = landed
      BY <1>1 DEF Local
    <2> HIDE DEF r
    <2> QED BY <1>1, <2>1, <2>2, BodyAlone
  <1> QED BY <1>1 DEF WriteAnchor, Mutate, Create, DeleteAnchor, InBody

\* Work that joins the transaction lands with its commit, not before.
LEMMA JoinAlone ==
    ASSUME IInv, OInv, NEW s \in Sessions, Join(s)
    PROVE  OInv'
  <1>1. PICK sent :
            /\ Becomes(s, sent) /\ landed' = landed
            /\ req' = [req EXCEPT ![s] =
                        [req[s] EXCEPT !.ops = @ + 1,
                                       !.pc    = IF Ok(sent) THEN "body" ELSE "raised",
                                       !.joins = IF Ok(sent) THEN @ \cup {Stamp(s)} ELSE @]]
    BY DEF Join
  <1> DEFINE r == [req[s] EXCEPT !.ops = @ + 1,
                                 !.pc    = IF Ok(sent) THEN "body" ELSE "raised",
                                 !.joins = IF Ok(sent) THEN @ \cup {Stamp(s)} ELSE @]
  <1>2. r.body = req[s].body /\ r.answer = req[s].answer /\ r.pc \in {"body", "raised"}
    BY InvSound DEF Request
  <1>3. req' = [req EXCEPT ![s] = r] /\ req[s].pc = "body"
    BY <1>1 DEF Join, InBody
  <1> HIDE DEF r
  <1> QED BY <1>1, <1>2, <1>3, BodyAlone

\* The body ends, one way or the other.
LEMMA EndsAlone ==
    ASSUME OneCommit, IInv, OInv, NEW s \in Sessions,
           EndWalk(s) \/ Fail(s) \/ Swallow(s) \/ Propagate(s) \/ Return(s)
    PROVE  OInv'
  <1>0. Straight(req[s])
    BY DEF OInv, Alone
  <1>1. ~ EndWalk(s)
    BY <1>0 DEF OneCommit, EndWalk, Straight
  <1>2. ASSUME NEW se, Becomes(s, se), landed' = landed, NEW pc \in {"handle", "body"},
               Goto(s, pc), req[s].pc \in {"body", "raised"}
        PROVE  OInv'
    BY <1>0, <1>2, GoesOn, StraightOn, MovesAlone
  <1>3. CASE Fail(s)
    BY <1>2, <1>3 DEF Fail
  <1>4. CASE Swallow(s)
    BY <1>2, <1>4 DEF Swallow
  <1>5. CASE Propagate(s)
    <2>1. Straight(req'[s]) /\ req'[s].pc # "exit" /\ \A t \in Sessions \ {s} : req'[t] = req[t]
      BY <1>0, <1>5, GoesOn, StraightOn DEF Propagate
    <2> QED BY <1>5, <2>1, StaysAlone DEF Propagate
  <1>6. CASE Return(s)
    <2>1. Straight(req'[s]) /\ req'[s].pc # "exit" /\ \A t \in Sessions \ {s} : req'[t] = req[t]
      BY <1>0, <1>6, CommitsOn DEF Return, Straight, SameRun
    <2> QED BY <1>6, <2>1, StaysAlone DEF Return
  <1> QED BY <1>1, <1>3, <1>4, <1>5, <1>6

-----------------------------------------------------------------------------

\* A commit that raises leaves the body; nothing of the run has landed.
LEMMA RaisesAlone ==
    ASSUME IInv, OInv, NEW s \in Sessions, req[s].pc \in {"commit", "committing"},
           landed' = landed, NEW se, CommitRaises(s, se)
    PROVE  OInv'
  <1>0. Straight(req[s]) /\ req[s] \in Request
    BY InvSound DEF OInv, Alone
  <1>1. PICK end : Becomes(s, end)
    BY DEF CommitRaises
  <1> DEFINE r == [req[s] EXCEPT !.call = "none", !.tries = 0,
                                 !.pc = IF req[s].call = "walkend" THEN "body" ELSE "handle"]
  <1>2. Straight(r) /\ r.pc # "exit"
    BY <1>0 DEF Straight, Request
  <1>3. req' = [req EXCEPT ![s] = r]
    BY DEF CommitRaises
  <1> HIDE DEF r
  <1>4. req'[s] = r /\ \A t \in Sessions \ {s} : req'[t] = req[t]
    BY <1>3, Rewritten
  <1> QED BY <1>1, <1>2, <1>4, MovesAlone

\* One that replays its write set stays the same commit.
LEMMA ReplaysAlone ==
    ASSUME IInv, OInv, NEW s \in Sessions, req[s].pc \in {"commit", "committing"},
           landed' = landed, NEW se, CommitReplays(s, se)
    PROVE  OInv'
  <1> DEFINE back == ReplayTxn(se, req[s].tries >= MaxRetries)
             r    == [req[s] EXCEPT !.pc = "commit", !.tries = @ + 1]
  <1>0. Straight(req[s]) /\ req[s] \in Request
    BY InvSound DEF OInv, Alone
  <1>1. Straight(r) /\ r.pc # "exit"
    BY <1>0 DEF Straight, Request
  <1>2. CASE Ok(back)
    <2>1. Becomes(s, back) /\ req' = [req EXCEPT ![s] = r]
      BY <1>2 DEF CommitReplays
    <2> HIDE DEF r, back
    <2>2. req'[s] = r /\ \A t \in Sessions \ {s} : req'[t] = req[t]
      BY <2>1, Rewritten
    <2> QED BY <1>1, <2>1, <2>2, MovesAlone
  <1>3. CASE ~ Ok(back)
    BY <1>3, RaisesAlone DEF CommitReplays
  <1> QED BY <1>2, <1>3

\* Before COMMIT is applied.
LEMMA CommitsAlone ==
    ASSUME OneCommit, IInv, OInv, NEW s \in Sessions,
           CommitLost(s) \/ Flush(s) \/ CommitRefused(s) \/ CommitAckLost(s)
    PROVE  OInv'
  <1>1. CASE CommitLost(s)
    BY <1>1, RaisesAlone DEF CommitLost
  <1>2. CASE Flush(s)
    <2>1. PICK sent : IF Ok(sent) THEN Becomes(s, sent) /\ Goto(s, "committing")
                      ELSE IF sent.exc = "transient" THEN CommitReplays(s, sent)
                      ELSE CommitRaises(s, Raise(RollbackTxn(sent), sent.exc))
      BY <1>2 DEF Flush
    <2>2. req[s].pc = "commit" /\ landed' = landed /\ Straight(req[s])
      BY <1>2 DEF Flush, OInv, Alone
    <2>3. CASE Becomes(s, sent) /\ Goto(s, "committing")
      <3>1. Straight(req'[s]) /\ req'[s].pc # "exit" /\ \A t \in Sessions \ {s} : req'[t] = req[t]
        BY <2>2, <2>3, GoesOn DEF Straight, SameRun
      <3> QED BY <2>2, <2>3, <3>1, MovesAlone
    <2> QED BY <2>1, <2>2, <2>3, ReplaysAlone, RaisesAlone
  <1>3. CASE CommitRefused(s)
    BY <1>3, ReplaysAlone DEF CommitRefused
  <1> QED BY <1>1, <1>2, <1>3 DEF OneCommit, CommitAckLost

\* A COMMIT that returns leaves the body's session without a transaction, and
\* its request at the end of its unit.
LEMMA ReturnsStraight ==
    ASSUME IInv, OInv, WInv, NEW s \in Sessions, req[s].pc = "committing",
           NEW peers \in [Sessions -> SessionState], CommitReturns(s, peers, ses[s])
    PROVE  /\ Straight(req'[s]) /\ req'[s].pc = "exit" /\ req'[s].run = req[s].run
           /\ req'[s].answer = "none"
           /\ ses'[s].txn = NoTxn /\ ~ ses'[s].lost /\ ses'[s].roRaised = ses[s].roRaised
           /\ \A t \in Sessions \ {s} : req'[t] = req[t] /\ ses'[t] = peers[t]
  <1>0. /\ Straight(req[s]) /\ req[s] \in Request /\ req[s].call = "final"
        /\ req[s].answer = "none"
    BY InvSound DEF OInv, Alone, Straight
  <1>1. ~ ses[s].lost /\ ses[s] \in SessionState
    BY ServedNow DEF Served, Flushed
  <1> DEFINE r == [req[s] EXCEPT !.call = "none", !.tries = 0,
                               !.pc = IF req[s].call = "walkend" THEN "body"
                                       ELSE IF req[s].call = "final" THEN "exit" ELSE "closing",
                               !.answer = IF req[s].call = "exit" THEN "ok" ELSE @]
             end == LeaveQueue(CommitTxn(ses[s]))
  <1>2. Straight(r) /\ r.pc = "exit" /\ r.run = req[s].run /\ r.answer = "none"
    BY <1>0 DEF Straight, Request
  <1>3. end.txn = NoTxn /\ ~ end.lost /\ end.roRaised = ses[s].roRaised
    BY <1>1 DEF LeaveQueue, CommitTxn, SessionState
  <1>4. req' = [req EXCEPT ![s] = r] /\ ses' = [peers EXCEPT ![s] = end]
    BY <1>0 DEF CommitReturns, Popped
  <1> HIDE DEF r, end
  <1>5. req'[s] = r /\ \A t \in Sessions \ {s} : req'[t] = req[t]
    BY <1>4, Rewritten
  <1>6. ses'[s] = end /\ \A t \in Sessions \ {s} : ses'[t] = peers[t]
    BY <1>4
  <1> QED BY <1>2, <1>3, <1>5, <1>6

\* A commit that finds nothing to do lands nothing.
LEMMA CommitNothingAlone ==
    ASSUME IInv, OInv, WInv, NEW s \in Sessions, CommitNothing(s)
    PROVE  OInv'
  <1>1. req[s].pc = "committing" /\ CommitReturns(s, ses, ses[s]) /\ landed' = landed
        /\ ses \in [Sessions -> SessionState]
    BY DEF CommitNothing, IInv, TypeOK
  <1> QED BY <1>1, ReturnsStraight, BareYet, StillAlone

\* A transaction of a unit whose read tier has raised lands nothing.
LEMMA WaryLandsNothing ==
    ASSUME IInv, WInv, NEW s \in Sessions, ses[s].txn # NoTxn, ses[s].roRaised, Apply(s)
    PROVE  landed' = landed
  <1>1. Wary(ses[s])
    BY ServedNow DEF Kept
  <1>2. ses[s].txn.joins = {} /\ \A id \in Ids : ses[s].txn.own[id] \in {Unwritten, NoRow}
    BY <1>1 DEF Wary
  <1> QED BY <1>2 DEF Apply, Wrote

\* The one COMMIT lands one run's contents, and lets the request leave.
LEMMA CommitLandsAlone ==
    ASSUME IInv, IInv', OInv, WInv, NEW s \in Sessions, CommitLands(s)
    PROVE  OInv'
  <1> DEFINE peers == Outlived(s)
  <1>1. /\ req[s].pc = "committing" /\ ses[s].txn # NoTxn /\ Apply(s)
        /\ CommitReturns(s, peers, ses[s])
    BY DEF CommitLands
  <1>2. \A t \in Sessions : /\ peers[t] \in SessionState
                            /\ peers[t].lost = ses[t].lost
                            /\ peers[t].roRaised = ses[t].roRaised
                            /\ ses[t].txn = NoTxn => peers[t].txn = NoTxn
    <2> TAKE t \in Sessions
    <2>1. ses[t] \in SessionState /\ ses[s] \in SessionState
      BY InvSound
    <2>2. CASE t = s \/ ses[t].txn = NoTxn
      BY <2>1, <2>2 DEF Outlived
    <2>3. CASE t # s /\ ses[t].txn # NoTxn
      <3> DEFINE x == [ses[t].txn EXCEPT !.peers = @ \cup ses[s].txn.reads]
      <3>1. ses[t].txn \in Txn /\ ses[s].txn \in Txn
        BY <1>1, <2>1, <2>3 DEF SessionState
      <3>2. x \in Txn
        BY <3>1 DEF Txn
      <3>3. peers[t] = [ses[t] EXCEPT !.txn = x]
        BY <2>3 DEF Outlived
      <3> HIDE DEF x, peers
      <3> QED BY <2>1, <2>3, <3>2, <3>3 DEF SessionState
    <2> QED BY <2>2, <2>3
  <1>3. peers \in [Sessions -> SessionState]
    BY <1>2 DEF Outlived
  <1> HIDE DEF peers
  <1>4. /\ Straight(req'[s]) /\ req'[s].pc = "exit" /\ req'[s].run = req[s].run
        /\ req'[s].answer = "none"
        /\ ses'[s].txn = NoTxn /\ ~ ses'[s].lost /\ ses'[s].roRaised = ses[s].roRaised
        /\ \A t \in Sessions \ {s} : req'[t] = req[t] /\ ses'[t] = peers[t]
    BY <1>1, <1>3, ReturnsStraight
  <1>5. landed \subseteq landed' /\ landed' \ landed \subseteq Mine(s, req[s].run)
    BY <1>1, ApplyLands
  <1>6. LandedRuns(s) = {}
    BY <1>1 DEF OInv, Alone
  <1>7. LandedRuns(s)' \subseteq {req[s].run}
    <2> SUFFICES ASSUME NEW v \in landed', v # Seed, v[1] = s PROVE v[2] = req[s].run
      BY DEF LandedRuns
    <2>1. v \notin landed
      BY <1>6 DEF LandedRuns
    <2> QED BY <1>5, <2>1, MineApart
  <1>8. LandedRuns(s)' # {} => ~ ses[s].roRaised
    <2>1. ses[s].roRaised => landed' = landed
      BY <1>1, WaryLandsNothing
    <2> QED BY <1>6, <2>1, SameLanded
  <1>9. ASSUME NEW t \in Sessions \ {s} PROVE LandedRuns(t)' = LandedRuns(t)
    <2>1. \A v \in landed' \ landed : v[1] = s
      BY <1>5, MineApart
    <2> QED BY <1>5, <2>1 DEF LandedRuns
  <1> SUFFICES ASSUME NEW t \in Sessions PROVE Alone(t)'
    BY DEF OInv
  <1>10. CASE t = s
    BY <1>4, <1>7, <1>8, <1>10 DEF Alone
  <1>11. CASE t # s
    <2>1. Alone(t) /\ req'[t] = req[t] /\ ses'[t] = peers[t] /\ LandedRuns(t)' = LandedRuns(t)
      BY <1>4, <1>9, <1>11 DEF OInv
    <2> QED BY <1>2, <2>1 DEF Alone
  <1> QED BY <1>10, <1>11

\* Leaving the unit: nothing is open, and nothing has landed if the run is to
\* be done again.
LEMMA UnitExitAlone ==
    ASSUME IInv, OInv, NEW s \in Sessions, UnitExit(s)
    PROVE  OInv'
  <1>1. /\ req[s].pc = "exit" /\ ses[s].txn = NoTxn /\ ~ ses[s].lost
        /\ LandedRuns(s) # {} => ~ ses[s].roRaised
        /\ Straight(req[s]) /\ req[s] \in Request /\ landed' = landed
    BY InvSound DEF UnitExit, OInv, Alone
  <1> DEFINE se == [ses[s] EXCEPT !.units = 0, !.roRaised = FALSE]
  <1>2. \/ /\ ses[s].roRaised
           /\ Becomes(s, Raise([Abort(se) EXCEPT !.ro = FALSE], "ro")) /\ Goto(s, "handle")
        \/ /\ Becomes(s, [se EXCEPT !.ro = FALSE])
           /\ req' = [req EXCEPT ![s] = [req[s] EXCEPT !.pc = "closing", !.answer = "ok"]]
    BY <1>1 DEF UnitExit
  <1> HIDE DEF se
  <1>3. ASSUME NEW end, ses[s].roRaised, Becomes(s, end), Goto(s, "handle") PROVE OInv'
    <2>1. Straight(req'[s]) /\ req'[s].pc = "handle" /\ \A t \in Sessions \ {s} : req'[t] = req[t]
      BY <1>1, <1>3, GoesOn, StraightOn
    <2> QED BY <1>1, <1>3, <2>1, OneMoves, StillAlone
  <1>4. ASSUME NEW end, Becomes(s, end),
               req' = [req EXCEPT ![s] = [req[s] EXCEPT !.pc = "closing", !.answer = "ok"]]
        PROVE  OInv'
    <2> DEFINE r == [req[s] EXCEPT !.pc = "closing", !.answer = "ok"]
    <2>1. Straight(r) /\ r.pc = "closing" /\ r.run = req[s].run /\ r.answer = "ok"
      BY <1>1 DEF Straight, Request
    <2> HIDE DEF r
    <2>2. req'[s] = r /\ \A t \in Sessions \ {s} : req'[t] = req[t]
      BY <1>4, Rewritten DEF r
    <2> QED BY <1>1, <1>4, <2>1, <2>2, OneMoves, StillAlone
  <1> QED BY <1>2, <1>3, <1>4

\* A failed run is done again, or its request answered without it.
LEMMA HandlesAlone ==
    ASSUME IInv, OInv, NEW s \in Sessions,
           HandleRoRetry(s) \/ HandleConflict(s) \/ HandleTransient(s) \/ HandleError(s)
    PROVE  OInv'
  <1>1. /\ req[s].pc = "handle" /\ landed' = landed /\ Straight(req[s]) /\ req[s] \in Request
    BY InvSound DEF HandleRoRetry, HandleConflict, HandleTransient, HandleError, OInv, Alone
  <1>2. PICK se : Becomes(s, se)
    BY DEF HandleRoRetry, HandleConflict, HandleTransient, HandleError
  <1>3. ASSUME NEW r, req' = [req EXCEPT ![s] = r], Straight(r), r.pc # "exit" PROVE OInv'
    <2>1. req'[s] = r /\ \A t \in Sessions \ {s} : req'[t] = req[t]
      BY <1>3, Rewritten
    <2> QED BY <1>1, <1>2, <1>3, <2>1, MovesAlone
  <1>4. ASSUME NEW answer, Settle(s, answer) PROVE OInv'
    <2> DEFINE r == [req[s] EXCEPT !.pc = "closing", !.answer = answer]
    <2>1. Straight(r) /\ r.pc # "exit"
      BY <1>1 DEF Straight, Request
    <2>2. req' = [req EXCEPT ![s] = r]
      BY <1>4 DEF Settle
    <2> HIDE DEF r
    <2> QED BY <1>3, <2>1, <2>2
  <1>5. ASSUME NEW pc \in {"reload", "turn"}, NextAttempt(s, pc) PROVE OInv'
    <2> DEFINE r == [req[s] EXCEPT !.pc = pc, !.attempt = @ + 1]
    <2>1. Straight(r) /\ r.pc # "exit"
      BY <1>1 DEF Straight, Request
    <2>2. req' = [req EXCEPT ![s] = r] \/ Settle(s, "refused")
      BY <1>5 DEF NextAttempt
    <2> HIDE DEF r
    <2> QED BY <1>3, <1>4, <2>1, <2>2
  <1>6. CASE req' = [req EXCEPT ![s] = [req[s] EXCEPT !.pc = "reload", !.roRetries = @ + 1]]
    <2> DEFINE r == [req[s] EXCEPT !.pc = "reload", !.roRetries = @ + 1]
    <2>1. Straight(r) /\ r.pc # "exit"
      BY <1>1 DEF Straight, Request
    <2>2. req' = [req EXCEPT ![s] = r]
      BY <1>6
    <2> HIDE DEF r
    <2> QED BY <1>3, <2>1, <2>2
  <1> QED BY <1>4, <1>5, <1>6 DEF HandleRoRetry, HandleConflict, HandleTransient, HandleError

\* Waiting, pinning and starting over come before any COMMIT of the new run.
LEMMA AgainAlone ==
    ASSUME IInv, OInv, NEW s \in Sessions, WaitTurn(s) \/ Pin(s) \/ Reload(s)
    PROVE  OInv'
  <1>1. /\ req[s].pc \in {"turn", "pin", "reload"} /\ landed' = landed
        /\ Straight(req[s]) /\ req[s] \in Request
    BY InvSound DEF WaitTurn, Pin, Reload, OInv, Alone
  <1>2. \A t \in Sessions \ {s} : ses'[t] = ses[t]
    BY OneMoves DEF WaitTurn, Pin, Reload
  <1>3. ASSUME NEW pc \in {"pin", "reload"}, Goto(s, pc) PROVE OInv'
    <2>1. Straight(req'[s]) /\ req'[s].pc # "exit" /\ \A t \in Sessions \ {s} : req'[t] = req[t]
      BY <1>1, <1>3, GoesOn, StraightOn
    <2> QED BY <1>1, <1>2, <2>1, BareYet, StillAlone
  <1>4. CASE Reload(s)
    <2> DEFINE r == [req[s] EXCEPT !.pc = IF Ok(EnsureTxn(ses[s], rows)) THEN "body" ELSE "handle",
                               !.run = IF @ < MaxRuns THEN @ + 1 ELSE @,
                               !.ops = 0, !.found = "unknown",
                               !.want = NewRun.want, !.joins = {}]
    <2>1. Straight(r) /\ r.pc # "exit"
      BY <1>1 DEF Straight, Request
    <2>2. req' = [req EXCEPT ![s] = r]
      BY <1>4 DEF Reload
    <2> HIDE DEF r
    <2>3. req'[s] = r /\ \A t \in Sessions \ {s} : req'[t] = req[t]
      BY <2>2, Rewritten
    <2> QED BY <1>1, <1>2, <2>1, <2>3, BareYet, StillAlone
  <1> QED BY <1>3, <1>4 DEF WaitTurn, Pin

\* Closing changes neither what has landed nor the answer.
LEMMA CloseAlone ==
    ASSUME IInv, OInv, NEW s \in Sessions, Close(s)
    PROVE  OInv'
  <1>1. /\ req[s].pc = "closing" /\ landed' = landed /\ Straight(req[s]) /\ Alone(s)
        /\ Becomes(s, NewSession) /\ Goto(s, "done")
    BY DEF Close, OInv, Alone
  <1>2. /\ SameRun(req[s], req'[s]) /\ req'[s].pc = "done"
        /\ \A t \in Sessions \ {s} : req'[t] = req[t] /\ ses'[t] = ses[t]
    BY <1>1, GoesOn, OneMoves
  <1>3. Straight(req'[s])
    BY <1>1, <1>2 DEF Straight, SameRun
  <1> QED BY <1>1, <1>2, <1>3, StillAlone DEF Alone, SameRun

\* Every step of a request leaves at most one run of it in the database.
LEMMA StepAlone ==
    ASSUME OneCommit, IInv, IInv', WInv, OInv, NEW s \in Sessions, Step(s)
    PROVE  OInv'
  <1>1. ASSUME NEW id \in Ids,
               WriteAnchor(s, id) \/ Mutate(s, id) \/ Create(s, id) \/ DeleteAnchor(s, id)
        PROVE  OInv'
    BY <1>1, WritesAlone
  <1>2. ASSUME Begin(s) \/ Read(s) \/ Scan(s) \/ Respond(s) \/ Retry(s) \/ Join(s) PROVE OInv'
    BY <1>2, BeginAlone, ReadsAlone, JoinAlone
  <1>3. ASSUME EndWalk(s) \/ Fail(s) \/ Swallow(s) \/ Propagate(s) \/ Return(s) PROVE OInv'
    BY <1>3, EndsAlone
  <1>4. ASSUME \/ CommitLost(s) \/ Flush(s) \/ CommitNothing(s) \/ CommitLands(s)
               \/ CommitRefused(s) \/ CommitAckLost(s)
        PROVE  OInv'
    BY <1>4, CommitsAlone, CommitNothingAlone, CommitLandsAlone
  <1>5. ASSUME HandleRoRetry(s) \/ HandleConflict(s) \/ HandleTransient(s) \/ HandleError(s)
        PROVE  OInv'
    BY <1>5, HandlesAlone
  <1>6. ASSUME UnitExit(s) \/ WaitTurn(s) \/ Pin(s) \/ Reload(s) \/ Close(s) PROVE OInv'
    BY <1>6, UnitExitAlone, AgainAlone, CloseAlone
  <1> QED BY <1>1, <1>2, <1>3, <1>4, <1>5, <1>6 DEF Step

\* Nothing has landed of a request before it begins.
LEMMA InitAlone == Init => OInv
  <1> SUFFICES ASSUME Init, NEW s \in Sessions PROVE Alone(s)
    BY DEF OInv
  <1>1. /\ req[s].body \in Bodies /\ req[s].pc = "idle" /\ req[s].answer = "none"
    BY DEF Init
  <1>2. LandedRuns(s) = {}
    BY DEF Init, LandedRuns
  <1> QED BY <1>1, <1>2 DEF Alone, Straight

\* One run of a request counts: a run refused, aborted or done again has left
\* nothing in the database, and a request answered otherwise than ok nothing
\* at all (Session.abort, the retry loop of the endpoint).
THEOREM OneRunCounts == OneCommit => (Spec => []OneRunLands)
  <1> SUFFICES ASSUME OneCommit PROVE Spec => []OneRunLands
    OBVIOUS
  <1>1. Init => OInv
    BY InitAlone
  <1>2. IInv /\ IInv' /\ WInv /\ OInv /\ [Next]_vars => OInv'
    <2> SUFFICES ASSUME IInv, IInv', WInv, OInv, [Next]_vars PROVE OInv'
      OBVIOUS
    <2>1. ASSUME NEW s \in Sessions, Step(s) PROVE OInv'
      BY <2>1, StepAlone
    <2>2. ASSUME UNCHANGED <<landed, req, ses>> PROVE OInv'
      BY <2>2, SameLanded DEF OInv, Alone
    <2> QED BY <2>1, <2>2 DEF Next, Expire, vars
  <1>3. OInv => OneRunLands
    BY DEF OInv, Alone, OneRunLands
  <1> QED BY <1>1, <1>2, <1>3, Invariance, WorkKept, PTL DEF Spec

-----------------------------------------------------------------------------
(* No update is lost.                                                      *)

\* A version tells a row from every earlier one: no body deletes a row, after
\* which an upsert puts it back under a version of before; and a request that
\* makes anchors is told of its COMMIT.
VersionsTell ==
    /\ \A body \in Bodies : "delete" \notin body
    /\ LostAcks => Fresh = {}

\* The body of a request is the one it began with.
Chosen == \A s \in Sessions : req[s].body \in Bodies

\* Two sessions write different rows, and make different ones.
Apart(s, t) ==
    /\ Held(ses[s]) \cap Held(ses[t]) = {}
    /\ \A id \in Ids : rows[id] = NoRow => id \notin Cached(ses[s]) \cap Cached(ses[t])

BInv == \A s \in Sessions : /\ Based(ses[s], rows, Fresh)
                            /\ \A t \in Sessions \ {s} : Apart(s, t)

-----------------------------------------------------------------------------

\* A request that is rewritten keeps its body.
LEMMA BodyKept ==
    ASSUME IInv, Chosen, NEW s \in Sessions, NEW r, req' = [req EXCEPT ![s] = r],
           r.body = req[s].body
    PROVE  Chosen'
  BY Rewritten DEF Chosen

\* So does one whose coroutine goes to another place, or to its commit.
LEMMA GoesKept ==
    ASSUME IInv, Chosen, NEW s \in Sessions,
           (\E pc : Goto(s, pc)) \/ (\E call : StartCommit(s, call))
    PROVE  Chosen'
  BY GoesOn, CommitsOn DEF Chosen, SameRun

\* A try of a read, and a call of the body, leave the request its body.
LEMMA TryKept ==
    ASSUME IInv, Chosen, NEW s \in Sessions, NEW call, NEW ids, NEW tries,
           Try(s, call, ids, tries)
    PROVE  Chosen'
  <1>1. PICK fault, open : Tried(s, call, ids, tries, fault, open)
    BY DEF Try
  <1>2. PICK loads, again, end, found :
            req' = [req EXCEPT ![s] =
                       AfterTry(req[s], call, ids, tries, loads, again, end, found)]
    BY <1>1 DEF Tried
  <1> DEFINE pc    == IF ~ Ok(end) THEN IF call = "respond" THEN "handle" ELSE "raised"
                      ELSE IF again THEN "call"
                      ELSE IF call = "respond" THEN "exit" ELSE "body"
             waits == again /\ Ok(end)
             next  == IF waits THEN call ELSE "none"
             ops   == IF req[s].pc = "call" THEN req[s].ops ELSE req[s].ops + 1
             arg   == IF waits THEN ids ELSE {}
             count == IF ~ waits THEN 0 ELSE IF loads THEN 2 ELSE tries + 1
             seen  == IF call # "scan" \/ again \/ ~ Ok(end) THEN req[s].found ELSE found
             x     == [req[s] EXCEPT !.ops = ops, !.pc = pc, !.call = next, !.arg = arg,
                                     !.tries = count, !.found = seen]
  <1>3. AfterTry(req[s], call, ids, tries, loads, again, end, found) = x
    BY Zenon DEF AfterTry
  <1> HIDE DEF pc, next, ops, arg, count, seen
  <1>4. x.body = req[s].body
    BY InvSound DEF Request
  <1> HIDE DEF x
  <1> QED BY <1>2, <1>3, <1>4, BodyKept

\* A call of the body without a statement does too.
LEMMA LocalKept ==
    ASSUME IInv, Chosen, NEW s \in Sessions, NEW se, NEW found, NEW want,
           Local(s, se, found, want)
    PROVE  Chosen'
  <1> DEFINE r == [req[s] EXCEPT !.ops = @ + 1, !.found = found, !.want = want]
  <1>1. r.body = req[s].body
    BY InvSound DEF Request
  <1>2. req' = [req EXCEPT ![s] = r]
    BY DEF Local
  <1> HIDE DEF r
  <1> QED BY <1>1, <1>2, BodyKept

\* And every end of a commit.
LEMMA CommitKept ==
    ASSUME IInv, Chosen, NEW s \in Sessions,
           \/ \E se : CommitRaises(s, se) \/ CommitReplays(s, se)
           \/ \E peers, se : CommitReturns(s, peers, se)
    PROVE  Chosen'
  <1>0. req[s] \in Request
    BY InvSound
  <1>1. ASSUME NEW se, CommitRaises(s, se) PROVE Chosen'
    <2> DEFINE r == [req[s] EXCEPT !.call = "none", !.tries = 0,
                                   !.pc = IF req[s].call = "walkend" THEN "body" ELSE "handle"]
    <2>1. r.body = req[s].body
      BY <1>0 DEF Request
    <2>2. req' = [req EXCEPT ![s] = r]
      BY <1>1 DEF CommitRaises
    <2> HIDE DEF r
    <2> QED BY <2>1, <2>2, BodyKept
  <1>2. ASSUME NEW se, CommitReplays(s, se) PROVE Chosen'
    <2> DEFINE r == [req[s] EXCEPT !.pc = "commit", !.tries = @ + 1]
    <2>1. r.body = req[s].body
      BY <1>0 DEF Request
    <2>2. req' = [req EXCEPT ![s] = r] \/ \E back : CommitRaises(s, back)
      BY <1>2 DEF CommitReplays
    <2> HIDE DEF r
    <2> QED BY <1>1, <2>1, <2>2, BodyKept
  <1>3. ASSUME NEW peers, NEW se, CommitReturns(s, peers, se) PROVE Chosen'
    <2> DEFINE r == [req[s] EXCEPT !.call = "none", !.tries = 0,
                               !.pc = IF req[s].call = "walkend" THEN "body"
                                       ELSE IF req[s].call = "final" THEN "exit" ELSE "closing",
                               !.answer = IF req[s].call = "exit" THEN "ok" ELSE @]
    <2>1. r.body = req[s].body
      BY <1>0 DEF Request
    <2>2. req' = [req EXCEPT ![s] = r]
      BY <1>3 DEF CommitReturns
    <2> HIDE DEF r
    <2> QED BY <2>1, <2>2, BodyKept
  <1> QED BY <1>1, <1>2, <1>3

\* And the next attempt, and the answer.
LEMMA AttemptKept ==
    ASSUME IInv, Chosen, NEW s \in Sessions,
           \/ \E answer : Settle(s, answer)
           \/ \E pc : NextAttempt(s, pc)
           \/ req' = [req EXCEPT ![s] = [req[s] EXCEPT !.pc = "reload", !.roRetries = @ + 1]]
           \/ req' = [req EXCEPT ![s] = [req[s] EXCEPT !.pc = "closing", !.answer = "ok"]]
    PROVE  Chosen'
  <1>0. req[s] \in Request
    BY InvSound
  <1>1. ASSUME NEW answer, Settle(s, answer) PROVE Chosen'
    <2> DEFINE r == [req[s] EXCEPT !.pc = "closing", !.answer = answer]
    <2>1. r.body = req[s].body /\ req' = [req EXCEPT ![s] = r]
      BY <1>0, <1>1 DEF Request, Settle
    <2> HIDE DEF r
    <2> QED BY <2>1, BodyKept
  <1>2. ASSUME NEW pc, NextAttempt(s, pc) PROVE Chosen'
    <2> DEFINE r == [req[s] EXCEPT !.pc = pc, !.attempt = @ + 1]
    <2>1. r.body = req[s].body /\ (req' = [req EXCEPT ![s] = r] \/ Settle(s, "refused"))
      BY <1>0, <1>2 DEF Request, NextAttempt
    <2> HIDE DEF r
    <2> QED BY <1>1, <2>1, BodyKept
  <1>3. CASE req' = [req EXCEPT ![s] = [req[s] EXCEPT !.pc = "reload", !.roRetries = @ + 1]]
    <2> DEFINE r == [req[s] EXCEPT !.pc = "reload", !.roRetries = @ + 1]
    <2>1. r.body = req[s].body /\ req' = [req EXCEPT ![s] = r]
      BY <1>0, <1>3 DEF Request
    <2> HIDE DEF r
    <2> QED BY <2>1, BodyKept
  <1>4. CASE req' = [req EXCEPT ![s] = [req[s] EXCEPT !.pc = "closing", !.answer = "ok"]]
    <2> DEFINE r == [req[s] EXCEPT !.pc = "closing", !.answer = "ok"]
    <2>1. r.body = req[s].body /\ req' = [req EXCEPT ![s] = r]
      BY <1>0, <1>4 DEF Request
    <2> HIDE DEF r
    <2> QED BY <2>1, BodyKept
  <1> QED BY <1>1, <1>2, <1>3, <1>4

\* Every step of a request leaves it its body.
LEMMA StepKept ==
    ASSUME IInv, Chosen, NEW s \in Sessions, Step(s)
    PROVE  Chosen'
  <1>0. req[s] \in Request
    BY InvSound
  <1>1. CASE Begin(s)
    <2> DEFINE r == [req[s] EXCEPT !.pc = "body", !.attempt = 1, !.run = 1]
    <2>1. r.body = req[s].body /\ req' = [req EXCEPT ![s] = r]
      BY <1>0, <1>1 DEF Request, Begin
    <2> HIDE DEF r
    <2> QED BY <2>1, BodyKept
  <1>2. CASE Read(s) \/ Scan(s) \/ Respond(s) \/ Retry(s)
    BY <1>2, TryKept DEF Read, Scan, Respond, Retry
  <1>3. ASSUME NEW id \in Ids,
               WriteAnchor(s, id) \/ Mutate(s, id) \/ Create(s, id) \/ DeleteAnchor(s, id)
        PROVE  Chosen'
    BY <1>3, LocalKept DEF WriteAnchor, Mutate, Create, DeleteAnchor
  <1>4. CASE Join(s)
    <2>1. PICK sent :
            req' = [req EXCEPT ![s] =
                     [req[s] EXCEPT !.ops = @ + 1,
                                    !.pc    = IF Ok(sent) THEN "body" ELSE "raised",
                                    !.joins = IF Ok(sent) THEN @ \cup {Stamp(s)} ELSE @]]
      BY <1>4 DEF Join
    <2> DEFINE r == [req[s] EXCEPT !.ops = @ + 1,
                                   !.pc    = IF Ok(sent) THEN "body" ELSE "raised",
                                   !.joins = IF Ok(sent) THEN @ \cup {Stamp(s)} ELSE @]
    <2>2. r.body = req[s].body /\ req' = [req EXCEPT ![s] = r]
      BY <1>0, <2>1 DEF Request
    <2> HIDE DEF r
    <2> QED BY <2>2, BodyKept
  <1>5. CASE EndWalk(s)
    <2> DEFINE r == [req[s] EXCEPT !.pc = "commit", !.call = "walkend",
                                   !.tries = 0, !.ops = @ + 1]
    <2>1. r.body = req[s].body /\ req' = [req EXCEPT ![s] = r]
      BY <1>0, <1>5 DEF Request, EndWalk
    <2> HIDE DEF r
    <2> QED BY <2>1, BodyKept
  <1>6. CASE \/ Fail(s) \/ Swallow(s) \/ Propagate(s) \/ Return(s)
             \/ WaitTurn(s) \/ Pin(s) \/ Close(s)
    BY <1>6, GoesKept DEF Fail, Swallow, Propagate, Return, WaitTurn, Pin, Close
  <1>7. CASE \/ CommitLost(s) \/ Flush(s) \/ CommitNothing(s) \/ CommitLands(s)
             \/ CommitRefused(s) \/ CommitAckLost(s)
    <2>1. \/ \E se : CommitRaises(s, se) \/ CommitReplays(s, se)
          \/ \E peers, se : CommitReturns(s, peers, se)
          \/ \E pc : Goto(s, pc)
      BY <1>7 DEF CommitLost, Flush, CommitNothing, CommitLands, CommitRefused, CommitAckLost
    <2> QED BY <2>1, CommitKept, GoesKept
  <1>8. CASE \/ UnitExit(s) \/ HandleRoRetry(s) \/ HandleConflict(s)
             \/ HandleTransient(s) \/ HandleError(s)
    <2>1. \/ \E pc : Goto(s, pc)
          \/ \E call : StartCommit(s, call)
          \/ \E answer : Settle(s, answer)
          \/ \E pc : NextAttempt(s, pc)
          \/ req' = [req EXCEPT ![s] = [req[s] EXCEPT !.pc = "reload", !.roRetries = @ + 1]]
          \/ req' = [req EXCEPT ![s] = [req[s] EXCEPT !.pc = "closing", !.answer = "ok"]]
      BY <1>8 DEF UnitExit, HandleRoRetry, HandleConflict, HandleTransient, HandleError
    <2> QED BY <2>1, GoesKept, AttemptKept
  <1>9. CASE Reload(s)
    <2> DEFINE pc  == IF Ok(EnsureTxn(ses[s], rows)) THEN "body" ELSE "handle"
               run == IF req[s].run < MaxRuns THEN req[s].run + 1 ELSE req[s].run
               r   == [req[s] EXCEPT !.pc = pc, !.run = run, !.ops = 0, !.found = "unknown",
                                     !.want = NewRun.want, !.joins = {}]
    <2>1. req' = [req EXCEPT ![s] = r]
      BY <1>9 DEF Reload
    <2> HIDE DEF pc, run
    <2>2. r.body = req[s].body
      BY <1>0 DEF Request
    <2> HIDE DEF r
    <2> QED BY <2>1, <2>2, BodyKept
  <1> QED BY <1>1, <1>2, <1>3, <1>4, <1>5, <1>6, <1>7, <1>8, <1>9 DEF Step

-----------------------------------------------------------------------------
(* One session moves: where its contents come from stays known.            *)

\* A row another session has written is busy.
LEMMA BusyHolds ==
    ASSUME NEW s \in Sessions, NEW t \in Sessions \ {s}
    PROVE  Held(ses[t]) \subseteq Busy(s)
  <1>1. CASE ses[t].txn = NoTxn
    BY <1>1 DEF Held
  <1>2. CASE ses[t].txn # NoTxn
    <2>1. Held(ses[t]) \subseteq RowLocks(ses[t].txn)
      BY <1>2 DEF Held, RowLocks
    <2> QED BY <2>1 DEF Busy
  <1> QED BY <1>1, <1>2

\* A session that writes only rows nobody else has, and caches only rows the
\* table has, stays apart from every other.
LEMMA BuildsBased ==
    ASSUME IInv, BInv, NEW s \in Sessions, NEW se, ses' = [ses EXCEPT ![s] = se],
           rows' = rows, Builds(ses[s], se, rows, Fresh, Busy(s))
    PROVE  BInv'
  <1>1. ses'[s] = se /\ \A t \in Sessions \ {s} : ses'[t] = ses[t]
    BY DEF IInv, TypeOK
  <1>2. Based(se, rows, Fresh) /\ Claims(ses[s], se, rows, Busy(s))
    BY DEF BInv, Builds
  <1>3. ASSUME NEW t \in Sessions \ {s}
        PROVE  /\ Held(se) \cap Held(ses[t]) = {}
               /\ \A id \in Ids : rows[id] = NoRow => id \notin Cached(se) \cap Cached(ses[t])
    <2>1. Apart(s, t) /\ Held(ses[t]) \subseteq Busy(s)
      BY BusyHolds DEF BInv
    <2> QED BY <1>2, <2>1 DEF Apart, Claims
  <1>4. ASSUME NEW u \in Sessions PROVE Based(ses'[u], rows', Fresh)
    BY <1>1, <1>2 DEF BInv
  <1>5. ASSUME NEW u \in Sessions, NEW t \in Sessions \ {u}
        PROVE  /\ Held(ses'[u]) \cap Held(ses'[t]) = {}
               /\ \A id \in Ids : rows'[id] = NoRow
                                    => id \notin Cached(ses'[u]) \cap Cached(ses'[t])
    <2>1. Apart(u, t)
      BY DEF BInv
    <2>2. CASE u = s
      BY <2>2, <1>1, <1>3
    <2>3. CASE t = s
      BY <2>3, <1>1, <1>3
    <2>4. CASE u # s /\ t # s
      BY <2>4, <2>1, <1>1 DEF Apart
    <2> QED BY <2>2, <2>3, <2>4
  <1> QED BY <1>4, <1>5 DEF BInv, Apart

\* The steps that record a walker of the read tier among them.
LEMMA MovesBased ==
    ASSUME IInv, BInv, NEW s \in Sessions, NEW se, Becomes(s, se), rows' = rows,
           Builds(ses[s], se, rows, Fresh, Busy(s))
    PROVE  BInv'
  BY BuildsBased DEF Becomes

\* What moves no session, and no row, does too.
LEMMA StaysBased ==
    ASSUME BInv, UNCHANGED <<rows, ses>> PROVE BInv'
  <1>1. \A u, t \in Sessions : Apart(u, t) => Apart(u, t)'
    BY DEF Apart
  <1> QED BY <1>1 DEF BInv

\* A request begins with nothing but a transaction.
LEMMA BeginBased ==
    ASSUME IInv, WInv, BInv, NEW s \in Sessions, Begin(s)
    PROVE  BInv'
  <1> DEFINE open == BeginTxn(ses[s], TxnIsolation(ses[s]), rows)
             end  == UnitEnter(open, RoUnit, rows)
             stored == landed \cup {Seed}
  <1>1. /\ Faithful(ses[s], stored, Mine(s, 1)) /\ ses[s] = NewSession
        /\ Within(rows, stored) /\ ses[s] \in SessionState
    BY ServedNow, NewKeeps DEF Served, Begin
  <1>2. TxnIsolation(ses[s]) = "serializable"
    BY <1>1, NewKeeps DEF TxnIsolation
  <1>3. ~ InFlight(ses[s].ledger) /\ ses[s].txn = NoTxn
    BY <1>1, NewKeeps DEF Clean
  <1>4. Faithful(open, stored, Mine(s, 1))
    BY <1>1, <1>2, <1>3, BeginKeeps DEF Isolation
  <1>5. ~ OnSnapshot(open)
    <2>1. open.txn = NewTxn("serializable", rows)
      BY <1>1, <1>2 DEF BeginTxn, Faithful, Kept, Sound, SessionState
    <2> QED BY <2>1 DEF OnSnapshot, NewTxn
  <1>6. RoUnit \in BOOLEAN
    BY ConstantsAssumption, ServedNow DEF RoUnit
  <1>7. Builds(ses[s], open, rows, Fresh, Busy(s))
    BY <1>1, BeginBuilds
  <1> HIDE DEF open
  <1>8. Builds(open, end, rows, Fresh, Busy(s))
    BY <1>1, <1>4, <1>5, <1>6, UnitEnterBuilds
  <1>9. Becomes(s, end) /\ rows' = rows
    BY DEF Begin, open
  <1> HIDE DEF end
  <1> QED BY <1>7, <1>8, <1>9, BuildsOn, MovesBased

\* A try of a read caches what the table has, and writes what nobody else has.
LEMMA TryBased ==
    ASSUME IInv, WInv, BInv, NEW s \in Sessions, NEW call, NEW ids \in SUBSET Ids,
           NEW tries, Try(s, call, ids, tries)
    PROVE  BInv'
  <1>1. PICK fault \in {"none", "flush", "load"} :
             \E open \in BarrierResults(ses[s], rows, Busy(s), fault = "flush") :
                 Tried(s, call, ids, tries, fault, open)
    BY DEF Try
  <1>1a. PICK open : /\ open \in BarrierResults(ses[s], rows, Busy(s), fault = "flush")
                     /\ Tried(s, call, ids, tries, fault, open)
    BY <1>1
  <1> DEFINE busy    == Busy(s)
             loads   == Ok(open)
             read    == IF ~ loads THEN open
                        ELSE IF fault = "load" THEN StatementFailed(open, "transient")
                        ELSE IF call = "scan" THEN [open EXCEPT !.txn = Reading(@, ids)]
                        ELSE Load(open, ids)
             again   == read.exc = "transient" /\ tries < LastTry(loads)
             end     == IF again THEN ReplayTxn(read, FALSE) ELSE read
             fine(a, b) == Builds(a, b, rows, Fresh, busy) /\ b \in SessionState
  <1>2. fine(ses[s], open) /\ (Ok(open) => open.txn # NoTxn)
    <2> HIDE DEF loads, read, again, end
    <2> DEFINE hit    == fault = "flush"
               own    == Mine(s, req[s].run)
               se     == ses[s]
               stored == landed \cup {Seed}
    <2>1. /\ open \in BarrierResults(se, rows, busy, hit)
          /\ Faithful(se, stored, own) /\ own \in SUBSET Val /\ Within(rows, stored)
      BY <1>1a, ServedNow
    <2> HIDE DEF hit, busy, stored, own, se
    <2>2. /\ Builds(se, open, rows, Fresh, busy) /\ Faithful(open, stored, own)
          /\ Ok(open) => open.txn # NoTxn
      BY <2>1, BarrierBuilds, BarrierKeeps
    <2>3. open \in SessionState
      BY <2>2 DEF Faithful, Kept, Sound
    <2> QED BY <2>2, <2>3 DEF se
  <1>3. fine(open, read)
    <2>1. fine(open, StatementFailed(open, "transient"))
      <3>1. StatementFailed(open, "transient") \in SessionState
        BY <1>2 DEF StatementFailed, SessionState, Exceptions
      <3> QED BY <1>2, <3>1, RaiseEases, EasesBuilds
    <2>2. Ok(open) => Builds(open, Load(open, ids), rows, Fresh, busy)
      BY <1>2, LoadBuilds
    <2>3. Ok(open) => fine(open, [open EXCEPT !.txn = Reading(@, ids)])
      <3>1. ASSUME Ok(open) PROVE Reading(open.txn, ids) \in Txn
        BY <1>2, <3>1 DEF Reading, Txn, SessionState
      <3>2. Ok(open) => [open EXCEPT !.txn = Reading(@, ids)] \in SessionState
        BY <1>2, <3>1 DEF SessionState
      <3> QED BY <1>2, <3>2, ReadingEases, EasesBuilds
    <2>4. fine(open, open)
      BY <1>2, BuildsSelf
    <2>5. Ok(open) => Load(open, ids) \in SessionState
      <3>1. Sound(open)
        <4> DEFINE hit == fault = "flush"
        <4>1. Sound(ses[s]) /\ rows \in Rows /\ open \in BarrierResults(ses[s], rows, busy, hit)
          BY <1>1a, InvSound
        <4> HIDE DEF hit, busy
        <4> QED BY <4>1, BarrierSound
      <3> QED BY <3>1, <1>2, LoadSound DEF Sound
    <2> QED BY <2>1, <2>2, <2>3, <2>4, <2>5
  <1> HIDE DEF read, loads
  <1>4. Builds(read, end, rows, Fresh, busy)
    BY <1>3, ReplayEases, EasesBuilds, BuildsSelf
  <1>5. Becomes(s, end) /\ UNCHANGED rows
    BY <1>1a DEF Tried, read, loads, end
  <1> HIDE DEF end
  <1>6. Builds(ses[s], end, rows, Fresh, Busy(s))
    BY <1>2, <1>3, <1>4, BuildsOn
  <1> QED BY <1>5, <1>6, MovesBased

\* Read, Scan, Respond and Retry are tries.
LEMMA ReadsBased ==
    ASSUME IInv, WInv, BInv, NEW s \in Sessions, Read(s) \/ Scan(s) \/ Respond(s) \/ Retry(s)
    PROVE  BInv'
  <1>1. CASE Read(s) \/ Respond(s)
    BY <1>1, TryBased DEF Read, Respond, Unread
  <1>2. CASE Scan(s)
    BY <1>2, TryBased, ConstantsAssumption DEF Scan
  <1>3. CASE Retry(s)
    BY <1>3, TryBased, ServedNow DEF Retry, Request
  <1> QED BY <1>1, <1>2, <1>3

\* The body rewrites what it has, and makes what nobody has.
LEMMA WritesBased ==
    ASSUME VersionsTell, Chosen, IInv, WInv, BInv, NEW s \in Sessions, NEW id \in Ids,
           WriteAnchor(s, id) \/ Mutate(s, id) \/ Create(s, id) \/ DeleteAnchor(s, id)
    PROVE  BInv'
  <1>1. InBody(s) /\ rows' = rows
    BY DEF WriteAnchor, Mutate, Create, DeleteAnchor, Local
  <1>2. Stamp(s) \in Val /\ ses[s] \in SessionState
    BY <1>1, StampMine, ServedNow
  <1>3. ASSUME WriteAnchor(s, id) \/ Mutate(s, id) PROVE BInv'
    <2> DEFINE edit == NewContent(s, id)
               mut  == [ses[s] EXCEPT !.mem[id] = edit]
    <2>1. id \in Cached(ses[s])
      BY <1>3 DEF WriteAnchor, Mutate
    <2>2. edit \in Anchor /\ edit.base = ses[s].mem[id].base
      <3>1. ses[s].mem[id] \in Anchor
        BY <2>1, <1>2 DEF Cached, SessionState
      <3> QED BY <1>2, <3>1 DEF Anchor, NewContent
    <2>3. Becomes(s, mut) \/ Becomes(s, MarkDirty(mut, id))
      BY <1>3 DEF WriteAnchor, Mutate, Local
    <2> HIDE DEF edit
    <2>4. /\ Builds(ses[s], mut, rows, Fresh, Busy(s))
          /\ Builds(ses[s], MarkDirty(mut, id), rows, Fresh, Busy(s))
      BY <1>2, <2>1, <2>2, WriteBuilds
    <2> HIDE DEF mut
    <2> QED BY <1>1, <2>3, <2>4, MovesBased
  <1>4. CASE Create(s, id)
    <2> DEFINE new == [val |-> Stamp(s), base |-> NoRow]
               end == Put(ses[s], id, new)
    <2>1. new \in Anchor /\ new.base = NoRow
      BY <1>2 DEF Anchor
    <2>2. /\ id \in Fresh /\ rows[id] = NoRow
          /\ \A t \in Sessions : id \notin Cached(ses[t])
          /\ Becomes(s, end)
      BY <1>4 DEF Create, Local
    <2> HIDE DEF new
    <2>3. /\ Based(end, rows, Fresh) /\ Held(end) = Held(ses[s])
          /\ \A i \in Ids \ {id} : end.mem[i] = ses[s].mem[i]
      BY <1>2, <2>1, <2>2, PutBased DEF BInv
    <2>4. ses'[s] = end /\ \A t \in Sessions \ {s} : ses'[t] = ses[t]
      BY <2>2, OneMoves
    <2> HIDE DEF end
    <2>5. Cached(end) \subseteq Cached(ses[s]) \cup {id}
      BY <2>3 DEF Cached
    <2>6. ASSUME NEW u \in Sessions PROVE Based(ses'[u], rows', Fresh)
      BY <1>1, <2>3, <2>4 DEF BInv
    <2>7. ASSUME NEW u \in Sessions, NEW t \in Sessions \ {u}
          PROVE  /\ Held(ses'[u]) \cap Held(ses'[t]) = {}
                 /\ \A i \in Ids : rows'[i] = NoRow
                                     => i \notin Cached(ses'[u]) \cap Cached(ses'[t])
      <3>1. Apart(u, t) /\ id \notin Cached(ses[u]) /\ id \notin Cached(ses[t])
        BY <2>2 DEF BInv
      <3>2. /\ Held(ses'[u]) = Held(ses[u]) /\ Held(ses'[t]) = Held(ses[t])
            /\ Cached(ses'[u]) \subseteq Cached(ses[u]) \cup (IF u = s THEN {id} ELSE {})
            /\ Cached(ses'[t]) \subseteq Cached(ses[t]) \cup (IF t = s THEN {id} ELSE {})
        BY <2>3, <2>4, <2>5
      <3> QED BY <1>1, <3>1, <3>2 DEF Apart
    <2> QED BY <2>6, <2>7 DEF BInv, Apart
  <1>5. ~ DeleteAnchor(s, id)
    BY DEF DeleteAnchor, VersionsTell, Chosen
  <1> QED BY <1>3, <1>4, <1>5

\* A statement outside the graph writes no row.
LEMMA JoinBased ==
    ASSUME IInv, WInv, BInv, NEW s \in Sessions, Join(s)
    PROVE  BInv'
  <1> DEFINE stored == landed \cup {Seed}
             open == EnsureWritableTxn(ses[s], rows)
             rode == [open EXCEPT !.txn.joins = @ \cup {Stamp(s)}]
             sent(fault) == IF ~ Ok(open) THEN open
                            ELSE IF fault THEN StatementFailed(open, "transient")
                            ELSE rode
  <1>1. PICK fault \in BOOLEAN : Becomes(s, sent(fault)) /\ rows' = rows
    BY DEF Join
  <1> DEFINE end == sent(fault)
  <1>2. /\ Builds(ses[s], open, rows, Fresh, Busy(s)) /\ open \in SessionState
        /\ Ok(open) => open.txn # NoTxn
    BY ServedNow, EnsureWritableBuilds, EnsureWritableKeeps
  <1> HIDE DEF open
  <1>3. /\ Ok(open) => Builds(open, rode, rows, Fresh, Busy(s))
        /\ Builds(open, StatementFailed(open, "transient"), rows, Fresh, Busy(s))
        /\ Builds(open, open, rows, Fresh, Busy(s))
    BY <1>2, JoinEases, RaiseEases, EasesBuilds, BuildsSelf
  <1>4. Builds(open, end, rows, Fresh, Busy(s))
    BY <1>3
  <1> HIDE DEF end
  <1> QED BY <1>1, <1>2, <1>4, BuildsOn, MovesBased DEF end

\* Ending a walk, failing, catching, letting go and returning change nothing.
LEMMA EndsBased ==
    ASSUME IInv, BInv, NEW s \in Sessions,
           EndWalk(s) \/ Fail(s) \/ Swallow(s) \/ Propagate(s) \/ Return(s)
    PROVE  BInv'
  <1>1. CASE EndWalk(s) \/ Propagate(s) \/ Return(s)
    BY <1>1, StaysBased DEF EndWalk, Propagate, Return
  <1>2. CASE Fail(s) \/ Swallow(s)
    <2>1. PICK e : Becomes(s, Raise(ses[s], e)) /\ rows' = rows
      BY <1>2 DEF Fail, Swallow
    <2>2. Builds(ses[s], Raise(ses[s], e), rows, Fresh, Busy(s))
      BY InvSound, RaiseEases, EasesBuilds
    <2> QED BY <2>1, <2>2, MovesBased
  <1> QED BY <1>1, <1>2

-----------------------------------------------------------------------------
(* Session.commit.                                                         *)

\* Whatever is made of a commit that raises builds on what it left.
LEMMA RaisesBuild ==
    ASSUME NEW s \in Sessions, NEW se \in SessionState, CommitRaises(s, se),
           NEW table, NEW busy
    PROVE  \E out : Becomes(s, out) /\ Builds(se, out, table, Fresh, busy)
  <1> DEFINE gone == Abort(se)
             end  == CASE req[s].call = "walkend" -> Raise(se, "none")
                       [] req[s].call = "exit" /\ se.exc = "lost" -> Raise(gone, "lost")
                       [] OTHER -> se
             out  == Popped(s, end)
  <1>1. Becomes(s, out)
    BY DEF CommitRaises
  <1>2. gone \in SessionState /\ Builds(se, gone, table, Fresh, busy)
    BY AbortBuilds, AbortSound DEF Sound
  <1> HIDE DEF gone
  <1>3. /\ Raise(se, "none") \in SessionState /\ Raise(gone, "lost") \in SessionState
        /\ Eases(se, Raise(se, "none")) /\ Eases(gone, Raise(gone, "lost"))
    BY <1>2, RaiseEases DEF Raise, SessionState, Exceptions
  <1>4. end \in SessionState /\ Builds(se, end, table, Fresh, busy)
    <2>1. end \in {Raise(se, "none"), Raise(gone, "lost"), se}
      OBVIOUS
    <2>2. /\ Builds(se, Raise(se, "none"), table, Fresh, busy)
          /\ Builds(gone, Raise(gone, "lost"), table, Fresh, busy)
          /\ Builds(se, se, table, Fresh, busy)
      BY <1>3, EasesBuilds, BuildsSelf
    <2> HIDE DEF end
    <2> QED BY <1>2, <1>3, <2>1, <2>2, BuildsOn
  <1> HIDE DEF end
  <1>5. Builds(end, out, table, Fresh, busy)
    <2>1. Eases(end, end) /\ Eases(end, [end EXCEPT !.ro = FALSE])
      BY <1>4 DEF Eases, SessionState
    <2> QED BY <2>1, EasesBuilds DEF Popped
  <1> HIDE DEF out
  <1> QED BY <1>1, <1>4, <1>5, BuildsOn

\* So does whatever is made of one that replays.
LEMMA ReplaysBuild ==
    ASSUME NEW s \in Sessions, NEW se \in SessionState, CommitReplays(s, se),
           NEW table, NEW busy
    PROVE  \E out : Becomes(s, out) /\ Builds(se, out, table, Fresh, busy)
  <1> DEFINE full == req[s].tries >= MaxRetries
             back == ReplayTxn(se, full)
  <1>1. Becomes(s, back) \/ CommitRaises(s, back)
    BY DEF CommitReplays
  <1>2. Builds(se, back, table, Fresh, busy)
    <2> HIDE DEF full
    <2> QED BY ReplayEases, EasesBuilds
  <1>3. back \in SessionState
    <2>1. full \in BOOLEAN
      OBVIOUS
    <2> HIDE DEF full
    <2> QED BY <2>1, ReplaySound DEF Sound
  <1> HIDE DEF back
  <1>4. CASE Becomes(s, back)
    BY <1>2, <1>4
  <1>5. CASE CommitRaises(s, back)
    <2>1. PICK out : Becomes(s, out) /\ Builds(back, out, table, Fresh, busy)
      BY <1>3, <1>5, RaisesBuild
    <2> QED BY <1>2, <2>1, BuildsOn
  <1> QED BY <1>1, <1>4, <1>5

\* A commit that raises or replays where nothing was applied.
LEMMA CommitKeepsBased ==
    ASSUME IInv, BInv, NEW s \in Sessions, rows' = rows, NEW se \in SessionState,
           Builds(ses[s], se, rows, Fresh, Busy(s)), CommitRaises(s, se) \/ CommitReplays(s, se)
    PROVE  BInv'
  <1>1. PICK out : Becomes(s, out) /\ Builds(se, out, rows, Fresh, Busy(s))
    BY RaisesBuild, ReplaysBuild
  <1> QED BY <1>1, BuildsOn, MovesBased

\* A session already lost raises.
LEMMA CommitLostBased ==
    ASSUME IInv, BInv, NEW s \in Sessions, CommitLost(s)
    PROVE  BInv'
  <1> DEFINE back == RollbackTxn(ses[s])
             end  == Raise(back, "lost")
  <1>1. CommitRaises(s, end) /\ rows' = rows
    BY DEF CommitLost
  <1>2. back \in SessionState /\ Builds(ses[s], back, rows, Fresh, Busy(s))
    BY InvSound, RollbackSound, RollbackEases, EasesBuilds
  <1> HIDE DEF back
  <1>3. end \in SessionState /\ Builds(back, end, rows, Fresh, Busy(s))
    <2>1. end \in SessionState
      BY <1>2 DEF Raise, SessionState, Exceptions
    <2> QED BY <1>2, <2>1, RaiseEases, EasesBuilds
  <1> HIDE DEF end
  <1> QED BY <1>1, <1>2, <1>3, BuildsOn, CommitKeepsBased

\* The flush of a commit replaces what the session's contents come from.
LEMMA FlushBased ==
    ASSUME IInv, WInv, BInv, NEW s \in Sessions, Flush(s)
    PROVE  BInv'
  <1> DEFINE stored == landed \cup {Seed}
             busy == Busy(s)
  <1>1a. PICK fault \in BOOLEAN :
           \E sent \in FlushResults(ses[s], TRUE, rows, busy, fault) :
             /\ IF Ok(sent) THEN Becomes(s, sent) /\ Goto(s, "committing")
                ELSE IF sent.exc = "transient" THEN CommitReplays(s, sent)
                ELSE CommitRaises(s, Raise(RollbackTxn(sent), sent.exc))
             /\ UNCHANGED <<rows, landed>>
    BY DEF Flush
  <1>1. PICK sent \in FlushResults(ses[s], TRUE, rows, busy, fault) :
          /\ \/ Becomes(s, sent)
             \/ CommitReplays(s, sent)
             \/ CommitRaises(s, Raise(RollbackTxn(sent), sent.exc))
          /\ rows' = rows
    BY <1>1a
  <1>2. sent \in SessionState /\ Builds(ses[s], sent, rows, Fresh, busy)
    <2> DEFINE own == Mine(s, req[s].run)
               se  == ses[s]
    <2>1. Faithful(se, stored, own) /\ own \in SUBSET Val /\ Within(rows, stored)
          /\ sent \in FlushResults(se, TRUE, rows, busy, fault)
      BY <1>1, ServedNow
    <2> HIDE DEF own, se, stored, busy
    <2>2. Kept(sent, stored, own) /\ Builds(se, sent, rows, Fresh, busy)
      BY <2>1, FlushKeeps, FlushBuilds
    <2> QED BY <2>2 DEF Kept, Sound, se
  <1>3. CASE Becomes(s, sent)
    BY <1>1, <1>2, <1>3, MovesBased
  <1>4. CASE CommitReplays(s, sent)
    BY <1>1, <1>2, <1>4, CommitKeepsBased
  <1>5. CASE CommitRaises(s, Raise(RollbackTxn(sent), sent.exc))
    <2> DEFINE back == RollbackTxn(sent)
               end  == Raise(back, sent.exc)
    <2>1. back \in SessionState /\ Builds(sent, back, rows, Fresh, busy)
          /\ sent.exc \in Exceptions
      BY <1>2, RollbackSound, RollbackEases, EasesBuilds DEF SessionState
    <2>2. CommitRaises(s, end)
      BY <1>5
    <2> HIDE DEF back
    <2>3. end \in SessionState /\ Builds(back, end, rows, Fresh, busy)
      <3>1. end \in SessionState
        BY <2>1 DEF Raise, SessionState
      <3> QED BY <2>1, <3>1, RaiseEases, EasesBuilds
    <2> HIDE DEF end
    <2> QED BY <1>1, <1>2, <2>1, <2>2, <2>3, BuildsOn, CommitKeepsBased
  <1> QED BY <1>1, <1>3, <1>4, <1>5

\* A COMMIT that is refused is replayed or raises.
LEMMA CommitRefusedBased ==
    ASSUME IInv, BInv, NEW s \in Sessions, CommitRefused(s)
    PROVE  BInv'
  <1> DEFINE se == StatementFailed(ses[s], "transient")
  <1>1. CommitReplays(s, se) /\ rows' = rows
    BY DEF CommitRefused
  <1>2. se \in SessionState /\ Builds(ses[s], se, rows, Fresh, Busy(s))
    <2>1. se \in SessionState
      BY InvSound, StatementFailedSound DEF Exceptions, Sound
    <2>2. Eases(ses[s], se)
      BY InvSound, RaiseEases
    <2> HIDE DEF se
    <2> QED BY <2>1, <2>2, EasesBuilds
  <1> HIDE DEF se
  <1> QED BY <1>1, <1>2, CommitKeepsBased

\* One with nothing to commit changes nothing.
LEMMA CommitNothingBased ==
    ASSUME IInv, WInv, BInv, NEW s \in Sessions, CommitNothing(s)
    PROVE  BInv'
  <1> DEFINE done == LeaveQueue(CommitTxn(ses[s]))
             end  == Popped(s, done)
  <1>1. /\ req[s].pc = "committing" /\ ses[s].txn = NoTxn /\ ses' = [ses EXCEPT ![s] = end]
        /\ rows' = rows
    BY DEF CommitNothing, CommitReturns
  <1>2. ~ InFlight(ses[s].ledger) /\ ses[s] \in SessionState
    BY <1>1, ServedNow DEF Served, Flushed
  <1>3. Eases(ses[s], done)
    BY <1>1, <1>2, CommitNothingEases
  <1>4. done \in SessionState
    <2> DEFINE told == CommitTxn(ses[s])
    <2>1. told \in SessionState
      BY <1>2, CommitSound DEF Sound
    <2> HIDE DEF told
    <2> QED BY <2>1 DEF LeaveQueue, SessionState, told
  <1> HIDE DEF done
  <1>5. Eases(done, done) /\ Eases(done, [done EXCEPT !.ro = FALSE])
    BY <1>4 DEF Eases, SessionState
  <1>6. Eases(ses[s], end)
    BY <1>3, <1>5, EasesOn DEF Popped
  <1> HIDE DEF end
  <1>7. Builds(ses[s], end, rows, Fresh, Busy(s))
    BY <1>6, EasesBuilds
  <1> QED BY <1>1, <1>7, BuildsBased

\* A COMMIT that is applied leaves the others apart from what it wrote.
LEMMA AppliesBased ==
    ASSUME IInv, BInv, NEW s \in Sessions, ses[s].txn # NoTxn,
           rows' = Applied(ses[s].txn, rows),
           \A t \in Sessions \ {s} : Eases(ses[t], ses'[t]),
           Based(ses'[s], rows', Fresh), Held(ses'[s]) = {},
           \A id \in Cached(ses'[s]) : id \in Cached(ses[s]) \/ rows'[id] # NoRow
    PROVE  BInv'
  <1>1. /\ rows \in Rows /\ ses[s] \in SessionState /\ Based(ses[s], rows, Fresh)
        /\ \A id \in Ids : rows'[id] = NoRow => rows[id] = NoRow
    BY InvSound, AppliedBehind DEF BInv
  <1>2. ASSUME NEW t \in Sessions \ {s}
        PROVE  /\ Based(ses'[t], rows', Fresh)
               /\ Held(ses'[t]) \subseteq Held(ses[t]) /\ Cached(ses'[t]) = Cached(ses[t])
    <2>1. /\ ses[t] \in SessionState /\ Based(ses[t], rows, Fresh) /\ Apart(s, t)
          /\ Eases(ses[t], ses'[t])
      BY InvSound DEF BInv
    <2>2. Based(ses[t], rows', Fresh)
      BY <1>1, <2>1, OthersBased DEF Apart
    <2>3. Based(ses'[t], rows', Fresh)
      BY <2>1, <2>2, EasesBuilds DEF Builds
    <2> QED BY <2>1, <2>3 DEF Eases, Held, Wrote, Cached
  <1>3. ASSUME NEW u \in Sessions PROVE Based(ses'[u], rows', Fresh)
    BY <1>2
  <1>4. ASSUME NEW u \in Sessions
        PROVE  /\ Held(ses'[u]) \subseteq Held(ses[u])
               /\ \A id \in Cached(ses'[u]) : id \in Cached(ses[u]) \/ rows'[id] # NoRow
    BY <1>2
  <1>5. ASSUME NEW u \in Sessions, NEW t \in Sessions \ {u}
        PROVE  /\ Held(ses'[u]) \cap Held(ses'[t]) = {}
               /\ \A id \in Ids : rows'[id] = NoRow
                                    => id \notin Cached(ses'[u]) \cap Cached(ses'[t])
    <2>1. Apart(u, t)
      BY DEF BInv
    <2> QED BY <1>1, <1>4, <2>1 DEF Apart
  <1> QED BY <1>3, <1>5 DEF BInv, Apart

\* A session told of its COMMIT goes on from what is in the table.
LEMMA CommitLandsBased ==
    ASSUME IInv, WInv, BInv, NEW s \in Sessions, CommitLands(s)
    PROVE  BInv'
  <1> DEFINE done  == LeaveQueue(CommitTxn(ses[s]))
             end   == Popped(s, done)
             peers == Outlived(s)
             now   == Applied(ses[s].txn, rows)
  <1>1. /\ req[s].pc = "committing" /\ ses[s].txn # NoTxn /\ rows' = now
        /\ ses' = [peers EXCEPT ![s] = end]
    BY DEF CommitLands, CommitReturns, Apply
  <1>2. /\ Faithful(ses[s], landed \cup {Seed}, Mine(s, req[s].run)) /\ Flushed(ses[s])
        /\ rows \in Rows /\ ses[s] \in SessionState /\ Based(ses[s], rows, Fresh)
    BY <1>1, ServedNow DEF Served, BInv
  <1>3. Based(done, now, Fresh) /\ Held(done) = {} /\ Cached(done) = Cached(ses[s])
    BY <1>1, <1>2, CommitBased
  <1>4. done \in SessionState
    <2> DEFINE told == CommitTxn(ses[s])
    <2>1. told \in SessionState
      BY <1>2, CommitSound DEF Sound
    <2> HIDE DEF told
    <2> QED BY <2>1 DEF LeaveQueue, SessionState, told
  <1> HIDE DEF done, now
  <1>5. Eases(done, done) /\ Eases(done, [done EXCEPT !.ro = FALSE])
    BY <1>4 DEF Eases, SessionState
  <1>6. Based(end, now, Fresh) /\ Held(end) = {} /\ Cached(end) = Cached(ses[s])
    <2>1. Eases(done, end)
      BY <1>5 DEF Popped
    <2> HIDE DEF end
    <2>2. Builds(done, end, now, Fresh, Ids)
      BY <2>1, EasesBuilds
    <2> QED BY <1>3, <2>1, <2>2 DEF Builds, Claims, Eases, Cached
  <1> HIDE DEF end
  <1>7. ASSUME NEW t \in Sessions \ {s} PROVE Eases(ses[t], peers[t])
    <2>1. ses[t] \in SessionState
      BY InvSound
    <2>2. CASE ses[t].txn = NoTxn
      BY <2>2 DEF Outlived, Eases
    <2>3. CASE ses[t].txn # NoTxn
      <3> DEFINE x   == [ses[t].txn EXCEPT !.peers = @ \cup ses[s].txn.reads]
                 out == [ses[t] EXCEPT !.txn = x]
      <3>1. ses[t].txn \in Txn
        BY <2>1, <2>3 DEF SessionState
      <3>2. x.snap = ses[t].txn.snap /\ x.own = ses[t].txn.own
        BY <3>1 DEF Txn
      <3>3. peers[t] = out
        BY <2>3 DEF Outlived
      <3> HIDE DEF x, peers
      <3> QED BY <2>1, <2>3, <3>2, <3>3 DEF Eases, SessionState
    <2> QED BY <2>2, <2>3
  <1>8. DOMAIN peers = Sessions
    BY DEF Outlived
  <1> HIDE DEF peers
  <1>9. ses'[s] = end /\ \A t \in Sessions \ {s} : Eases(ses[t], ses'[t])
    BY <1>1, <1>7, <1>8
  <1> QED BY <1>1, <1>6, <1>9, AppliesBased DEF now

\* One not told, that makes no anchors, goes on with contents that are now
\* computed from an earlier version, or from what it has committed itself.
LEMMA CommitAckLostBased ==
    ASSUME VersionsTell, IInv, BInv, NEW s \in Sessions, CommitAckLost(s)
    PROVE  BInv'
  <1> DEFINE se == StatementFailed(ses[s], "transient")
  <1>1. /\ Fresh = {} /\ ses[s].txn # NoTxn /\ rows' = Applied(ses[s].txn, rows)
        /\ CommitReplays(s, se)
    BY DEF CommitAckLost, VersionsTell, Apply
  <1>2. ses[s] \in SessionState /\ rows \in Rows /\ Based(ses[s], rows, {})
    BY <1>1, InvSound DEF BInv
  <1>3. /\ se \in SessionState /\ se.txn = NoTxn /\ se.mem = ses[s].mem
        /\ Based(se, rows', {})
    <2>1. Based(se, rows', {})
      BY <1>1, <1>2, UnansweredBased
    <2> QED BY <1>2, <2>1 DEF StatementFailed, SessionState, Exceptions
  <1> HIDE DEF se
  <1>4. PICK out : Becomes(s, out) /\ Builds(se, out, rows', Fresh, Ids)
    BY <1>1, <1>3, ReplaysBuild
  <1>5. ses'[s] = out /\ \A t \in Sessions \ {s} : ses'[t] = ses[t]
    BY <1>4, OneMoves
  <1>6. /\ Based(out, rows', Fresh) /\ Held(out) = {}
        /\ \A id \in Cached(out) : id \in Cached(ses[s]) \/ rows'[id] # NoRow
    BY <1>1, <1>3, <1>4 DEF Builds, Claims, Held, Cached
  <1>7. \A t \in Sessions \ {s} : Eases(ses[t], ses'[t])
    BY <1>5 DEF Eases
  <1> QED BY <1>1, <1>5, <1>6, <1>7, AppliesBased

-----------------------------------------------------------------------------
(* Outside the body.                                                       *)

\* Leaving the unit keeps the session, or forgets what it had.
LEMMA UnitExitBased ==
    ASSUME IInv, BInv, NEW s \in Sessions, UnitExit(s)
    PROVE  BInv'
  <1> DEFINE se     == [ses[s] EXCEPT !.units = 0, !.roRaised = FALSE]
             gone   == Abort(se)
             out(e) == Raise([gone EXCEPT !.ro = FALSE], e)
             lost   == [out("lost") EXCEPT !.roRaised = ses[s].roRaised]
             left   == [se EXCEPT !.ro = FALSE]
  <1>1. /\ rows' = rows
        /\ \/ Becomes(s, lost) \/ Becomes(s, out("ro"))
           \/ Becomes(s, left) \/ Becomes(s, se)
    BY DEF UnitExit
  <1>2. ses[s] \in SessionState
    BY InvSound
  <1>3. se \in SessionState /\ Eases(ses[s], se)
    BY <1>2 DEF SessionState, Eases
  <1> HIDE DEF se
  <1>4. gone \in SessionState /\ Builds(se, gone, rows, Fresh, Busy(s))
    BY <1>3, AbortSound, AbortBuilds DEF Sound
  <1> HIDE DEF gone
  <1>5. Eases(gone, lost) /\ Eases(gone, out("ro"))
    <2> DEFINE calm == [gone EXCEPT !.ro = FALSE]
    <2>1. calm \in SessionState /\ Eases(gone, calm)
      BY <1>4 DEF SessionState, Eases
    <2> HIDE DEF calm
    <2>2. /\ Eases(calm, Raise(calm, "ro"))
          /\ Eases(calm, [Raise(calm, "lost") EXCEPT !.roRaised = ses[s].roRaised])
      BY <2>1 DEF SessionState, Eases, Raise
    <2>3. /\ Eases(gone, Raise(calm, "ro"))
          /\ Eases(gone, [Raise(calm, "lost") EXCEPT !.roRaised = ses[s].roRaised])
      BY <2>1, <2>2, EasesOn
    <2> QED BY <2>3 DEF calm
  <1>6. Eases(se, left)
    BY <1>3 DEF SessionState, Eases
  <1>7. ASSUME NEW end \in {lost, out("ro"), left, se}
        PROVE  Builds(ses[s], end, rows, Fresh, Busy(s))
    <2> HIDE DEF lost, left, out
    <2>1. /\ Builds(ses[s], se, rows, Fresh, Busy(s))
          /\ Builds(gone, lost, rows, Fresh, Busy(s))
          /\ Builds(gone, out("ro"), rows, Fresh, Busy(s))
          /\ Builds(se, left, rows, Fresh, Busy(s))
      BY <1>3, <1>5, <1>6, EasesBuilds
    <2> QED BY <1>4, <2>1, BuildsOn
  <1> HIDE DEF lost, left, out
  <1> QED BY <1>1, <1>7, MovesBased

\* The loop's handlers enter the unit again, and forget what the run had.
LEMMA HandlesBased ==
    ASSUME IInv, WInv, BInv, NEW s \in Sessions,
           HandleRoRetry(s) \/ HandleConflict(s) \/ HandleTransient(s) \/ HandleError(s)
    PROVE  BInv'
  <1> DEFINE stored == landed \cup {Seed}
             calm == [ses[s] EXCEPT !.roRaised = FALSE]
             fine(se) == /\ Builds(ses[s], se, rows, Fresh, Busy(s)) /\ se \in SessionState
  <1>1. /\ Served(s, req[s], ses[s], landed) /\ Faithful(ses[s], stored, Mine(s, req[s].run))
        /\ ses[s] \in SessionState /\ Within(rows, stored) /\ req[s].pc = "handle"
    <2>1. req[s].pc = "handle"
      BY DEF HandleRoRetry, HandleConflict, HandleTransient, HandleError
    <2> QED BY <2>1, ServedNow DEF Served
  <1>2. /\ rows' = rows
        /\ \/ Becomes(s, Abort(Reenter(calm))) \/ Becomes(s, Abort(Reenter(ses[s])))
           \/ Becomes(s, Abort(ses[s]))
    BY DEF HandleRoRetry, HandleConflict, HandleTransient, HandleError
  <1>3. /\ Faithful(calm, stored, Mine(s, req[s].run)) /\ calm.units = ses[s].units
        /\ calm.txn = ses[s].txn /\ calm \in SessionState /\ Eases(ses[s], calm)
    <2>1. /\ calm \in SessionState /\ Work(calm) = Work(ses[s]) /\ calm.units = ses[s].units
          /\ calm.ro = ses[s].ro /\ calm.txn = ses[s].txn /\ ~ calm.roRaised
          /\ Eases(ses[s], calm)
      BY <1>1 DEF Work, SessionState, Eases
    <2>2. OnSnapshot(calm) => calm.ro
      BY <1>1, <2>1 DEF Faithful, Kept, Tidy, OnSnapshot
    <2> HIDE DEF calm
    <2> QED BY <1>1, <2>1, <2>2, SameWork DEF Faithful
  <1> HIDE DEF calm
  <1>4. fine(calm) /\ fine(ses[s])
    BY <1>1, <1>3, EasesBuilds, BuildsSelf
  <1>5. ASSUME NEW se, se = calm \/ se = ses[s] PROVE fine(Reenter(se))
    <2>1. Faithful(se, stored, Mine(s, req[s].run)) /\ (se.units = 0 => se.txn = NoTxn)
      BY <1>1, <1>3, <1>5 DEF Served
    <2>2. CASE se.units = 0
      <3> DEFINE in == UnitEnter(se, RoUnit, rows)
      <3>1. ~ OnSnapshot(se) /\ RoUnit \in BOOLEAN
        BY <2>1, <2>2, ConstantsAssumption, ServedNow DEF OnSnapshot, RoUnit
      <3>2. Builds(se, in, rows, Fresh, Busy(s)) /\ Faithful(in, stored, Mine(s, req[s].run))
        BY <1>1, <2>1, <3>1, UnitEnterBuilds, UnitEnterKeeps
      <3>3. Reenter(se) = in /\ in \in SessionState
        BY <2>2, <3>2 DEF Reenter, Faithful, Kept, Sound
      <3> HIDE DEF in
      <3> QED BY <1>4, <1>5, <3>2, <3>3, BuildsOn
    <2>3. CASE se.units # 0
      BY <1>4, <1>5, <2>3 DEF Reenter
    <2> QED BY <2>2, <2>3
  <1>6. ASSUME NEW se, fine(se) PROVE Builds(ses[s], Abort(se), rows, Fresh, Busy(s))
    BY <1>6, AbortBuilds, BuildsOn
  <1> QED BY <1>2, <1>4, <1>5, <1>6, MovesBased

\* Waiting for its turn, a request keeps its session but for the queue; a
\* transaction that pins rows has written none.
LEMMA TurnsBased ==
    ASSUME IInv, BInv, NEW s \in Sessions, WaitTurn(s) \/ Pin(s)
    PROVE  BInv'
  <1> DEFINE ids  == {id \in ses[s].queued : rows[id] # NoRow}
             took == [ses[s] EXCEPT !.queued = ses[s].contended]
             gave == [ses[s] EXCEPT !.queued = {}, !.contended = {}]
             open == BeginTxn(ses[s], "serializable", rows)
             pins == [open EXCEPT !.txn.pins = ids]
  <1>0. ses[s] \in SessionState /\ Sound(ses[s]) /\ rows \in Rows
        /\ (Pin(s) => Idle(ses[s]))
    BY InvSound DEF Pin, Quiet
  <1>1. /\ rows' = rows
        /\ \/ UNCHANGED ses \/ Becomes(s, took) \/ Becomes(s, gave)
           \/ Pin(s) /\ Becomes(s, pins)
    BY DEF WaitTurn, Pin
  <1>2. Builds(ses[s], took, rows, Fresh, Busy(s)) /\ Builds(ses[s], gave, rows, Fresh, Busy(s))
    <2>1. Eases(ses[s], took) /\ Eases(ses[s], gave)
      BY <1>0 DEF SessionState, Eases
    <2> QED BY <2>1, EasesBuilds
  <1>3. Pin(s) => Builds(ses[s], pins, rows, Fresh, Busy(s))
    <2> SUFFICES ASSUME Pin(s) PROVE Builds(ses[s], pins, rows, Fresh, Busy(s))
      OBVIOUS
    <2>1. Builds(ses[s], open, rows, Fresh, Busy(s))
      BY <1>0, BeginBuilds
    <2>2. open \in SessionState /\ open.txn # NoTxn
      <3>1. Sound(open)
        BY <1>0, BeginSound DEF Isolation
      <3>2. open.txn = NewTxn("serializable", rows)
        BY <1>0 DEF BeginTxn, SessionState
      <3>3. NewTxn("serializable", rows) # NoTxn
        BY <1>0, NewTxnType, NoTxnAssumption DEF Isolation
      <3> QED BY <3>1, <3>2, <3>3 DEF Sound
    <2> HIDE DEF open, ids
    <2>3. Eases(open, pins)
      <3> DEFINE x == [open.txn EXCEPT !.pins = ids]
      <3>1. x.own = open.txn.own /\ x.snap = open.txn.snap
        BY <2>2 DEF SessionState, Txn
      <3>2. pins = [open EXCEPT !.txn = x]
        BY <2>2 DEF SessionState
      <3> HIDE DEF x
      <3> QED BY <2>2, <3>1, <3>2 DEF SessionState, Eases
    <2> HIDE DEF pins
    <2> QED BY <2>1, <2>3, EasesBuilds, BuildsOn
  <1> HIDE DEF took, gave, pins
  <1> QED BY <1>1, <1>2, <1>3, StaysBased, MovesBased

\* The root is resolved again in a transaction that has written nothing.
LEMMA ReloadBased ==
    ASSUME IInv, WInv, BInv, NEW s \in Sessions, Reload(s)
    PROVE  BInv'
  <1>1. Becomes(s, EnsureTxn(ses[s], rows)) /\ rows' = rows
    BY DEF Reload
  <1>2. Builds(ses[s], EnsureTxn(ses[s], rows), rows, Fresh, Busy(s))
    BY ServedNow, EnsureBuilds
  <1> QED BY <1>1, <1>2, MovesBased

\* A session that is closed has nothing.
LEMMA CloseBased ==
    ASSUME IInv, BInv, NEW s \in Sessions, Close(s)
    PROVE  BInv'
  <1>1. Becomes(s, NewSession) /\ rows' = rows
    BY DEF Close
  <1>2. Builds(ses[s], NewSession, rows, Fresh, Busy(s))
    BY NewBased DEF Builds, Claims
  <1> QED BY <1>1, <1>2, MovesBased

-----------------------------------------------------------------------------

\* Before any request has begun nothing is computed from anything.
LEMMA InitBased == Init => BInv /\ Chosen
  <1> SUFFICES ASSUME Init PROVE BInv /\ Chosen
    OBVIOUS
  <1>1. \A s \in Sessions : ses[s] = NewSession /\ req[s].body \in Bodies
    BY DEF Init
  <1> HIDE DEF Init
  <1>2. BInv
    BY <1>1, NewBased DEF BInv, Apart
  <1> QED BY <1>1, <1>2 DEF Chosen

\* Every step of a request keeps what contents are computed from.
LEMMA StepBased ==
    ASSUME VersionsTell, Chosen, IInv, WInv, BInv, NEW s \in Sessions, Step(s)
    PROVE  BInv'
  <1>1. CASE Begin(s) \/ Read(s) \/ Scan(s) \/ Respond(s) \/ Retry(s)
    BY <1>1, BeginBased, ReadsBased
  <1>2. ASSUME NEW id \in Ids,
               WriteAnchor(s, id) \/ Mutate(s, id) \/ Create(s, id) \/ DeleteAnchor(s, id)
        PROVE  BInv'
    BY <1>2, WritesBased
  <1>3. CASE Join(s) \/ EndWalk(s) \/ Fail(s) \/ Swallow(s) \/ Propagate(s) \/ Return(s)
    BY <1>3, JoinBased, EndsBased
  <1>4. CASE \/ CommitLost(s) \/ Flush(s) \/ CommitNothing(s) \/ CommitLands(s)
             \/ CommitRefused(s) \/ CommitAckLost(s)
    BY <1>4, CommitLostBased, FlushBased, CommitNothingBased, CommitLandsBased,
       CommitRefusedBased, CommitAckLostBased
  <1>5. CASE UnitExit(s) \/ WaitTurn(s) \/ Pin(s) \/ Reload(s) \/ Close(s)
    BY <1>5, UnitExitBased, TurnsBased, ReloadBased, CloseBased
  <1>6. CASE HandleRoRetry(s) \/ HandleConflict(s) \/ HandleTransient(s) \/ HandleError(s)
    BY <1>6, HandlesBased
  <1> QED BY <1>1, <1>2, <1>3, <1>4, <1>5, <1>6 DEF Step

\* A COMMIT replaces only rows its session's contents were computed from.
LEMMA LandsAhead ==
    ASSUME IInv, IInv', WInv, BInv, [Next]_vars, NEW s \in Sessions, Lands(s),
           NEW id \in Ids, rows[id] # NoRow, rows'[id] # rows[id]
    PROVE  ses[s].mem[id].base = rows[id].val
  <1>1. PICK v \in landed' \ landed : v[1] = s
    BY DEF Lands
  <1>2. PICK t \in Sessions : Step(t)
    BY <1>1 DEF Next, Expire, vars
  <1>3. req[t].pc = "committing" /\ ses[t].txn # NoTxn /\ Apply(t)
    BY <1>1, <1>2, OnlyCommitsLand
  <1>4. t = s
    BY <1>1, <1>3, ApplyLands, MineApart
  <1>5. /\ ses[s].txn # NoTxn /\ rows' = Applied(ses[s].txn, rows)
        /\ rows \in Rows /\ ses[s] \in SessionState /\ Based(ses[s], rows, Fresh)
    BY <1>3, <1>4, InvSound DEF Apply, BInv
  <1>6. Ahead(ses[s], rows, id)
    BY <1>5, AppliedBehind
  <1> QED BY <1>5, <1>6 DEF Ahead, Based, Rooted

\* Where a version tells a row from every earlier one, a committed update
\* replaces the content it was computed from.
THEOREM NoUpdateLost == VersionsTell => (Spec => NoLostUpdate)
  <1> SUFFICES ASSUME VersionsTell PROVE Spec => NoLostUpdate
    OBVIOUS
  <1>1. Init => BInv /\ Chosen
    BY InitBased
  <1>2. IInv /\ WInv /\ BInv /\ Chosen /\ [Next]_vars => BInv' /\ Chosen'
    <2> SUFFICES ASSUME IInv, WInv, BInv, Chosen, [Next]_vars PROVE BInv' /\ Chosen'
      OBVIOUS
    <2>1. ASSUME NEW s \in Sessions, Step(s) PROVE BInv' /\ Chosen'
      BY <2>1, StepBased, StepKept
    <2>2. ASSUME UNCHANGED <<rows, req, ses>> PROVE BInv' /\ Chosen'
      BY <2>2, StaysBased DEF Chosen
    <2> QED BY <2>1, <2>2 DEF Next, Expire, vars
  <1>3. IInv /\ IInv' /\ WInv /\ BInv /\ [Next]_vars
           => [\A s \in Sessions : \A id \in Ids :
                 (Lands(s) /\ rows[id] # NoRow /\ rows'[id] # rows[id] /\ rows'[id] # NoRow)
                    => ses[s].mem[id].base = rows[id].val]_vars
    BY LandsAhead
  <1> QED BY <1>1, <1>2, <1>3, Invariance, WorkKept, PTL DEF Spec, NoLostUpdate
-----------------------------------------------------------------------------
(* A request that holds the contended rows does not lose the race for them. *)

\* Waiting for its turn the session has nothing in memory, and no exception.
Blank(se) ==
    /\ se.txn = NoTxn /\ se.exc = "none" /\ se.ledger.removed = {}
    /\ \A id \in Ids : se.mem[id] = NoAnchor

\* What its body creates, where its scan saw none, the holder's transaction
\* does not see either.
Looked(r, se) ==
    r.found = "none" /\ r.pc # "reload" /\ Holding(se) =>
        \A id \in Fresh : se.txn.own[id] = Unwritten => se.txn.snap[id] = NoRow

\* What the request r is sure of, with the session se.
Sure(r, se) ==
    /\ Firm(se) /\ Looked(r, se)
    /\ r.pc = "call" => ~ Holding(se)
    /\ r.pc \in {"turn", "pin"} => Blank(se)

HInv == \A s \in Sessions : Sure(req[s], ses[s])

\* The step, for a session that holds rows.
HoldersWin == \A s \in Sessions : Holding(ses[s]) => ses'[s].exc # "conflict"

\* The request goes on where it was, or to an exception, a commit, an end.
Forward(r, end) ==
    /\ r.pc # "reload" /\ end.pc \notin {"call", "turn", "pin"}
    /\ end.found = "none" => r.found = "none"

-----------------------------------------------------------------------------

\* One request moves; the others stay, or learn of predicate locks.
LEMMA SureMoves ==
    ASSUME HInv, NEW s \in Sessions,
           \A t \in Sessions \ {s} :
              /\ req'[t] = req[t]
              /\ ses'[t] = ses[t] \/ (Calm(ses[t], ses'[t]) /\ ses[t].txn # NoTxn),
           Sure(req'[s], ses'[s]), Holding(ses[s]) => ses'[s].exc # "conflict"
    PROVE  HInv' /\ HoldersWin
  <1>1. ASSUME NEW t \in Sessions \ {s}
        PROVE  Sure(req'[t], ses'[t]) /\ (Holding(ses[t]) => ses'[t].exc # "conflict")
    <2>1. Sure(req[t], ses[t])
      BY DEF HInv
    <2>2. CASE ses'[t] = ses[t]
      BY <2>1, <2>2 DEF Sure, Firm
    <2>3. CASE Calm(ses[t], ses'[t]) /\ ses[t].txn # NoTxn
      <3>1. SamePins(ses[t], ses'[t]) /\ Firm(ses'[t])
            /\ (Holding(ses[t]) => ses'[t].exc # "conflict")
        BY <2>1, <2>3 DEF Sure, Calm, Firm
      <3>2. Looked(req'[t], ses'[t])
        BY <2>1, <3>1, ConstantsAssumption DEF Sure, Looked, SamePins
      <3> QED BY <2>1, <2>3, <3>1, <3>2 DEF Sure, Blank, SamePins
    <2> QED BY <2>2, <2>3
  <1> QED BY <1>1 DEF HInv, HoldersWin

\* Forward, with a session that does not lose what it holds.
LEMMA WinsForward ==
    ASSUME IInv, HInv, NEW s \in Sessions, NEW se, Becomes(s, se), Wins(ses[s], se),
           \A t \in Sessions \ {s} : req'[t] = req[t], Forward(req[s], req'[s])
    PROVE  HInv' /\ HoldersWin
  <1>1. ses'[s] = se /\ \A t \in Sessions \ {s} : ses'[t] = ses[t]
    BY OneMoves
  <1>2. Sure(req[s], ses[s])
    BY DEF HInv
  <1>3. Looked(req'[s], se)
    BY <1>2, ConstantsAssumption DEF Sure, Looked, Forward, Wins, SamePins
  <1>4. Sure(req'[s], se) /\ (Holding(ses[s]) => se.exc # "conflict")
    BY <1>2, <1>3 DEF Sure, Forward, Wins
  <1> QED BY <1>1, <1>4, SureMoves

\* So it is where nothing is sent.
LEMMA CalmForward ==
    ASSUME IInv, HInv, NEW s \in Sessions, NEW se, Becomes(s, se), Calm(ses[s], se),
           \A t \in Sessions \ {s} : req'[t] = req[t], Forward(req[s], req'[s])
    PROVE  HInv' /\ HoldersWin
  BY CalmOn, WinsForward

\* And where only the coroutine moves.
LEMMA StaysForward ==
    ASSUME IInv, HInv, NEW s \in Sessions, UNCHANGED <<ses, writers>>,
           \A t \in Sessions \ {s} : req'[t] = req[t], Forward(req[s], req'[s])
    PROVE  HInv' /\ HoldersWin
  <1>1. /\ Sure(req[s], ses[s]) /\ ses'[s] = ses[s]
        /\ \A t \in Sessions \ {s} : ses'[t] = ses[t]
    BY DEF HInv
  <1>2. Sure(req'[s], ses'[s]) /\ (Holding(ses[s]) => ses'[s].exc # "conflict")
    BY <1>1 DEF Sure, Looked, Forward, Firm
  <1> QED BY <1>1, <1>2, SureMoves

\* A session that lets go of its rows without losing a race for them.
LEMMA LetsGoSure ==
    ASSUME IInv, HInv, NEW s \in Sessions, NEW se, Becomes(s, se), ~ Holding(se),
           Holding(ses[s]) => se.exc # "conflict",
           \A t \in Sessions \ {s} : req'[t] = req[t],
           req'[s].pc \in {"turn", "pin"} => Blank(se)
    PROVE  HInv' /\ HoldersWin
  <1>1. ses'[s] = se /\ \A t \in Sessions \ {s} : ses'[t] = ses[t]
    BY OneMoves
  <1>2. Sure(req'[s], se)
    BY DEF Sure, Firm, Looked
  <1> QED BY <1>1, <1>2, SureMoves

\* A request rewritten goes forward if what it becomes is forward of it.
LEMMA RewritesForward ==
    ASSUME IInv, NEW s \in Sessions, NEW r, req' = [req EXCEPT ![s] = r],
           req[s].pc # "reload", r.pc \notin {"call", "turn", "pin"},
           r.found = "none" => req[s].found = "none"
    PROVE  Forward(req[s], req'[s]) /\ \A t \in Sessions \ {s} : req'[t] = req[t]
  BY Rewritten DEF Forward

\* So it is when only its coroutine goes on.
LEMMA GoesForward ==
    ASSUME IInv, NEW s \in Sessions, req[s].pc # "reload", NEW pc, Goto(s, pc),
           pc \notin {"call", "turn", "pin"}
    PROVE  Forward(req[s], req'[s]) /\ \A t \in Sessions \ {s} : req'[t] = req[t]
  <1> DEFINE r == [req[s] EXCEPT !.pc = pc]
  <1>1. r.pc = pc /\ r.found = req[s].found /\ req' = [req EXCEPT ![s] = r]
    BY InvSound DEF Request, Goto
  <1> HIDE DEF r
  <1> QED BY <1>1, RewritesForward

\* And when it begins to commit.
LEMMA CommitsForward ==
    ASSUME IInv, NEW s \in Sessions, req[s].pc # "reload", NEW call, StartCommit(s, call)
    PROVE  Forward(req[s], req'[s]) /\ \A t \in Sessions \ {s} : req'[t] = req[t]
  <1> DEFINE r == [req[s] EXCEPT !.pc = "commit", !.call = call, !.tries = 0]
  <1>1. r.pc = "commit" /\ r.found = req[s].found /\ req' = [req EXCEPT ![s] = r]
    BY InvSound DEF Request, StartCommit
  <1> HIDE DEF r
  <1> QED BY <1>1, RewritesForward

-----------------------------------------------------------------------------
(* Beginning, reading and writing.                                         *)

\* A request begins with a transaction that holds nothing.
LEMMA BeginSure ==
    ASSUME IInv, HInv, NEW s \in Sessions, Begin(s)
    PROVE  HInv' /\ HoldersWin
  <1> DEFINE open == BeginTxn(ses[s], TxnIsolation(ses[s]), rows)
             end  == UnitEnter(open, RoUnit, rows)
             r    == [req[s] EXCEPT !.pc = "body", !.attempt = 1, !.run = 1]
  <1>1. /\ Sound(ses[s]) /\ Idle(ses[s]) /\ ses[s] \in SessionState /\ rows \in Rows
        /\ TxnIsolation(ses[s]) \in Isolation /\ RoUnit \in BOOLEAN
    <2>1. Sound(ses[s]) /\ Idle(ses[s]) /\ ses[s] \in SessionState /\ rows \in Rows
      BY InvSound DEF Begin, Quiet
    <2>2. writers \in BOOLEAN
      BY DEF IInv, TypeOK
    <2> QED BY <2>1, <2>2, ConstantsAssumption DEF TxnIsolation, Isolation, RoUnit
  <1>2. Sound(open) /\ Calm(ses[s], open)
    BY <1>1, BeginSound, BeginCalm
  <1>3. r.pc = "body" /\ r.found = req[s].found /\ req' = [req EXCEPT ![s] = r]
        /\ req[s].pc # "reload" /\ Becomes(s, end)
    BY InvSound DEF Request, Begin
  <1> HIDE DEF open, r
  <1>4. Calm(open, end)
    BY <1>1, <1>2, EntersCalm
  <1> HIDE DEF end
  <1>5. Calm(ses[s], end)
    BY <1>2, <1>4, CalmOn
  <1>6. Forward(req[s], req'[s]) /\ \A t \in Sessions \ {s} : req'[t] = req[t]
    BY <1>3, RewritesForward
  <1> QED BY <1>3, <1>5, <1>6, CalmForward

\* Where a try leaves the coroutine, and what its scan found.
LEMMA AfterTrySeen ==
    ASSUME NEW r \in Request, NEW call, NEW ids, NEW tries, NEW loads, NEW again,
           NEW end, NEW found
    PROVE  LET after == AfterTry(r, call, ids, tries, loads, again, end, found)
           IN  /\ after.pc \notin {"turn", "pin", "reload"}
               /\ after.pc = "call" => again
               /\ \/ after.found = r.found
                  \/ after.found = found /\ call = "scan" /\ ~ again /\ Ok(end)
  <1> DEFINE ops   == IF r.pc = "call" THEN r.ops ELSE r.ops + 1
             pc    == IF ~ Ok(end) THEN IF call = "respond" THEN "handle" ELSE "raised"
                      ELSE IF again THEN "call"
                      ELSE IF call = "respond" THEN "exit" ELSE "body"
             waits == again /\ Ok(end)
             next  == IF waits THEN call ELSE "none"
             arg   == IF waits THEN ids ELSE {}
             count == IF ~ waits THEN 0 ELSE IF loads THEN 2 ELSE tries + 1
             seen  == IF call # "scan" \/ again \/ ~ Ok(end) THEN r.found ELSE found
             after == AfterTry(r, call, ids, tries, loads, again, end, found)
  <1>1. after = [r EXCEPT !.ops = ops, !.pc = pc, !.call = next, !.arg = arg,
                          !.tries = count, !.found = seen]
    BY Zenon DEF AfterTry
  <1>2. /\ pc \notin {"turn", "pin", "reload"} /\ (pc = "call" => again)
        /\ seen = r.found \/ (seen = found /\ call = "scan" /\ ~ again /\ Ok(end))
    OBVIOUS
  <1> HIDE DEF ops, pc, next, arg, count, seen
  <1>3. after.pc = pc /\ after.found = seen
    BY <1>1 DEF Request
  <1> QED BY <1>2, <1>3

\* A try loses no race for rows the session holds; where it is tried again it
\* holds none; and a scan that found none has seen what the transaction sees.
LEMMA TrySure ==
    ASSUME IInv, WInv, HInv, NEW s \in Sessions, NEW call, NEW ids \in SUBSET Ids,
           NEW tries, Try(s, call, ids, tries), req[s].pc # "reload",
           call = "scan" => ids = Fresh \/ ~ Holding(ses[s])
    PROVE  HInv' /\ HoldersWin
  <1>1. PICK fault \in {"none", "flush", "load"} :
             \E open \in BarrierResults(ses[s], rows, Busy(s), fault = "flush") :
                 Tried(s, call, ids, tries, fault, open)
    BY DEF Try
  <1>1a. PICK open : /\ open \in BarrierResults(ses[s], rows, Busy(s), fault = "flush")
                     /\ Tried(s, call, ids, tries, fault, open)
    BY <1>1
  <1> DEFINE loads   == Ok(open)
             seek    == [open EXCEPT !.txn = Reading(@, ids)]
             read    == IF ~ loads THEN open
                        ELSE IF fault = "load" THEN StatementFailed(open, "transient")
                        ELSE IF call = "scan" THEN seek
                        ELSE Load(open, ids)
             again   == read.exc = "transient" /\ tries < LastTry(loads)
             end     == IF again THEN ReplayTxn(read, FALSE) ELSE read
             found   == IF \E id \in ids : Visible(open.txn, id) # NoRow
                        THEN "some" ELSE "none"
             r       == AfterTry(req[s], call, ids, tries, loads, again, end, found)
  <1>2. Sound(ses[s]) /\ rows \in Rows /\ req[s] \in Request /\ Sure(req[s], ses[s])
    BY InvSound DEF HInv
  <1>3. Wins(ses[s], open) /\ Sound(open) /\ (Ok(open) => open.txn # NoTxn)
        /\ open \in SessionState
    <2> DEFINE hit    == fault = "flush"
               own    == Mine(s, req[s].run)
               se     == ses[s]
               stored == landed \cup {Seed}
               busy   == Busy(s)
    <2> HIDE DEF loads, seek, read, again, end, found, r
    <2>1. /\ open \in BarrierResults(se, rows, busy, hit)
          /\ Faithful(se, stored, own) /\ Within(rows, stored) /\ Sound(se)
      BY <1>1a, <1>2, ServedNow
    <2> HIDE DEF hit, own, se, stored, busy
    <2>2. Wins(se, open)
      BY <2>1, BarrierWins
    <2>3. Sound(open) /\ (Ok(open) => open.txn # NoTxn)
      BY <1>2, <2>1, BarrierSound
    <2> QED BY <2>2, <2>3 DEF Sound, se
  <1>4. Calm(open, read) /\ read \in SessionState
    <2>1. Calm(open, StatementFailed(open, "transient"))
          /\ StatementFailed(open, "transient") \in SessionState
      BY <1>3, EndsCalm, StatementFailedSound DEF Sound, Exceptions
    <2>2. Ok(open) => Calm(open, Load(open, ids)) /\ Load(open, ids) \in SessionState
      BY <1>3, LoadCalm, LoadSound DEF Sound
    <2>3. Ok(open) => Calm(open, seek) /\ seek \in SessionState
      <3>1. Ok(open) => Calm(open, seek)
        BY <1>3, RidesCalm
      <3>2. ASSUME Ok(open) PROVE Reading(open.txn, ids) \in Txn
        BY <1>3, <3>2 DEF Reading, Txn, SessionState
      <3>3. Ok(open) => seek \in SessionState
        BY <1>3, <3>2 DEF SessionState
      <3> QED BY <3>1, <3>3
    <2> HIDE DEF seek
    <2> QED BY <1>3, <2>1, <2>2, <2>3, CalmSelf
  <1>5. Becomes(s, end) /\ req' = [req EXCEPT ![s] = r]
    BY <1>1a DEF Tried, read, loads
  <1>6. call = "scan" /\ ~ again /\ Ok(end) => end = seek /\ Ok(open)
    <2>1. ~ Ok(StatementFailed(open, "transient"))
      BY <1>3 DEF StatementFailed, Ok, SessionState
    <2> QED BY <2>1
  <1>7. Ok(open) => seek.txn.own = open.txn.own /\ seek.txn.snap = open.txn.snap
    <2>1. ASSUME Ok(open)
          PROVE  /\ Reading(open.txn, ids).own = open.txn.own
                 /\ Reading(open.txn, ids).snap = open.txn.snap
      BY <1>3, <2>1 DEF Reading, Txn, SessionState
    <2> QED BY <1>3, <2>1 DEF SessionState
  <1>8. again => ~ Holding(end)
    <2>1. ReplayTxn(read, FALSE).txn = NoTxn
      <3> HIDE DEF read
      <3>1. RollbackTxn(read) \in SessionState /\ RollbackTxn(read).txn = NoTxn
        BY <1>4, RollbackSound
      <3> QED BY <3>1 DEF ReplayTxn, SessionState
    <2> QED BY <2>1 DEF Holding, Pins
  <1>9. Calm(read, end)
    <2> HIDE DEF read
    <2> QED BY <1>4, EndsCalm, CalmSelf
  <1>10. /\ r.pc \notin {"turn", "pin", "reload"} /\ (r.pc = "call" => again)
         /\ \/ r.found = req[s].found
            \/ r.found = found /\ call = "scan" /\ ~ again /\ Ok(end)
    <2> HIDE DEF loads, again, end, found
    <2> QED BY <1>2, AfterTrySeen
  <1> HIDE DEF r
  <1>11. Wins(ses[s], end)
    <2> HIDE DEF end, read
    <2> QED BY <1>3, <1>4, <1>9, CalmOn
  <1>12. Looked(r, end)
    <2> SUFFICES ASSUME r.found = "none", Holding(end), NEW id \in Fresh,
                        end.txn.own[id] = Unwritten
                 PROVE  end.txn.snap[id] = NoRow
      BY DEF Looked
    <2>1. Holding(ses[s]) /\ end.txn.snap = ses[s].txn.snap
          /\ (\A i \in Ids : ses[s].txn.own[i] # Unwritten => end.txn.own[i] # Unwritten)
      BY <1>11 DEF Wins, SamePins
    <2>2. CASE r.found = req[s].found
      <3>1. id \in Ids /\ ses[s].txn.own[id] = Unwritten
        BY <2>1, ConstantsAssumption
      <3> QED BY <1>2, <2>1, <2>2, <3>1 DEF Sure, Looked
    <2>3. CASE r.found = found /\ call = "scan" /\ ~ again /\ Ok(end)
      <3>1. Visible(open.txn, id) = NoRow
        BY <2>1, <2>3
      <3>2. end.txn.own = open.txn.own /\ end.txn.snap = open.txn.snap
        BY <1>6, <1>7, <2>3
      <3>3. end.txn.own[id] = Unwritten
        OBVIOUS
      <3> HIDE DEF end, found
      <3> QED BY <3>1, <3>2, <3>3 DEF Visible
    <2> QED BY <1>10, <2>2, <2>3
  <1> HIDE DEF end, read, seek, again, found, loads
  <1>13. Sure(r, end) /\ (Holding(ses[s]) => end.exc # "conflict")
    BY <1>2, <1>8, <1>10, <1>11, <1>12 DEF Sure, Wins
  <1>14. /\ ses'[s] = end /\ req'[s] = r
         /\ \A t \in Sessions \ {s} : ses'[t] = ses[t] /\ req'[t] = req[t]
    BY <1>5, OneMoves, Rewritten
  <1> QED BY <1>13, <1>14, SureMoves

\* Read, Scan, Respond and Retry are tries.
LEMMA ReadsSure ==
    ASSUME IInv, WInv, HInv, NEW s \in Sessions,
           Read(s) \/ Scan(s) \/ Respond(s) \/ Retry(s)
    PROVE  HInv' /\ HoldersWin
  <1>1. CASE Read(s)
    <2>1. PICK id \in Unread(s) : Try(s, "read", {id}, 0) /\ req[s].pc = "body"
      BY <1>1 DEF Read, InBody
    <2> QED BY <2>1, TrySure DEF Unread
  <1>2. CASE Scan(s)
    BY <1>2, TrySure, ConstantsAssumption DEF Scan, InBody
  <1>3. CASE Respond(s)
    <2>1. PICK id \in Unread(s) : Try(s, "respond", {id}, 0) /\ req[s].pc = "exit"
      BY <1>3 DEF Respond
    <2> QED BY <2>1, TrySure DEF Unread
  <1>4. CASE Retry(s)
    <2>1. ~ Holding(ses[s]) /\ req[s].pc = "call" /\ req[s].arg \in SUBSET Ids
      BY <1>4, InvSound DEF HInv, Sure, Retry, Request
    <2> QED BY <1>4, <2>1, TrySure DEF Retry
  <1> QED BY <1>1, <1>2, <1>3, <1>4

\* What the body writes in memory costs a holder nothing: what it makes has no
\* row that its transaction sees, since its scan saw none.
LEMMA WritesSure ==
    ASSUME IInv, HInv, NEW s \in Sessions, NEW id \in Ids,
           WriteAnchor(s, id) \/ Mutate(s, id) \/ Create(s, id) \/ DeleteAnchor(s, id)
    PROVE  HInv' /\ HoldersWin
  <1>1. /\ req[s].pc = "body" /\ ses[s] \in SessionState /\ req[s] \in Request
        /\ Sure(req[s], ses[s])
    BY InvSound DEF HInv, WriteAnchor, Mutate, Create, DeleteAnchor, InBody
  <1>2. ASSUME NEW end, NEW found, NEW want, Local(s, end, found, want), Calm(ses[s], end),
               found = "none" => req[s].found = "none"
        PROVE  HInv' /\ HoldersWin
    <2> DEFINE r == [req[s] EXCEPT !.ops = @ + 1, !.found = found, !.want = want]
    <2>1. r.pc = "body" /\ r.found = found /\ req' = [req EXCEPT ![s] = r] /\ Becomes(s, end)
      BY <1>1, <1>2 DEF Request, Local
    <2> HIDE DEF r
    <2> QED BY <1>1, <1>2, <2>1, RewritesForward, CalmForward
  <1>3. ASSUME NEW a, NEW end, end.mem = [ses[s].mem EXCEPT ![id] = a],
               end.txn = ses[s].txn, end.ledger = ses[s].ledger,
               end.queued = ses[s].queued, end.exc = ses[s].exc,
               \/ a = NoAnchor \/ ses[s].mem[id] # NoAnchor
               \/ Holding(ses[s]) /\ ses[s].txn.own[id] = Unwritten
                    => ses[s].txn.snap[id] = NoRow
        PROVE  Calm(ses[s], end)
    <2>1. \A i \in Ids : end.mem[i] = IF i = id THEN a ELSE ses[s].mem[i]
      BY <1>1, <1>3 DEF SessionState
    <2>2. \A i \in Ids : end.mem[i] # NoAnchor =>
             \/ ses[s].mem[i] # NoAnchor
             \/ Holding(ses[s]) /\ ses[s].txn.own[i] = Unwritten
                  => ses[s].txn.snap[i] = NoRow
      BY <1>3, <2>1
    <2>3. /\ end.txn = ses[s].txn /\ end.ledger = ses[s].ledger
          /\ end.queued = ses[s].queued /\ end.exc = ses[s].exc
      BY <1>3
    <2> QED BY <2>2, <2>3, MemoryCalm
  <1>4. CASE WriteAnchor(s, id) \/ Mutate(s, id)
    <2> DEFINE a   == NewContent(s, id)
               mut == [ses[s] EXCEPT !.mem[id] = a]
    <2>1. ses[s].mem[id] # NoAnchor
      BY <1>4 DEF WriteAnchor, Mutate, Cached
    <2>2. \E want : \/ Local(s, mut, req[s].found, want)
                    \/ Local(s, MarkDirty(mut, id), req[s].found, want)
      BY <1>4 DEF WriteAnchor, Mutate
    <2> HIDE DEF a
    <2>3. /\ mut.mem = [ses[s].mem EXCEPT ![id] = a] /\ mut.txn = ses[s].txn
          /\ mut.ledger = ses[s].ledger /\ mut.queued = ses[s].queued
          /\ mut.exc = ses[s].exc /\ DOMAIN mut = DOMAIN ses[s]
      BY <1>1 DEF SessionState
    <2>3a. LET end == MarkDirty(mut, id)
           IN  /\ end.mem = [ses[s].mem EXCEPT ![id] = a] /\ end.txn = ses[s].txn
               /\ end.ledger = ses[s].ledger /\ end.queued = ses[s].queued
               /\ end.exc = ses[s].exc
      <3>1. "mem" \in DOMAIN mut /\ "txn" \in DOMAIN mut /\ "ledger" \in DOMAIN mut
            /\ "queued" \in DOMAIN mut /\ "exc" \in DOMAIN mut
        BY <1>1 DEF SessionState
      <3> HIDE DEF mut
      <3>2. LET end == [mut EXCEPT !.dirty = @ \cup {id}]
            IN  /\ end.mem = mut.mem /\ end.txn = mut.txn /\ end.ledger = mut.ledger
                /\ end.queued = mut.queued /\ end.exc = mut.exc
        BY <3>1
      <3> QED BY <2>3, <3>2 DEF MarkDirty
    <2> HIDE DEF mut
    <2>4. Calm(ses[s], mut) /\ Calm(ses[s], MarkDirty(mut, id))
      BY <1>3, <2>1, <2>3, <2>3a
    <2> QED BY <1>2, <2>2, <2>4
  <1>5. CASE Create(s, id)
    <2> DEFINE a   == [val |-> Stamp(s), base |-> NoRow]
               end == Put(ses[s], id, a)
    <2>1. /\ req[s].found = "none" /\ id \in Fresh
          /\ \E want : Local(s, end, "some", want)
      BY <1>5 DEF Create
    <2> HIDE DEF a
    <2>2. /\ end.mem = [ses[s].mem EXCEPT ![id] = a] /\ end.txn = ses[s].txn
          /\ end.ledger = ses[s].ledger /\ end.queued = ses[s].queued
          /\ end.exc = ses[s].exc
      BY <1>1 DEF Put, SessionState
    <2> HIDE DEF end
    <2>3. Holding(ses[s]) /\ ses[s].txn.own[id] = Unwritten => ses[s].txn.snap[id] = NoRow
      BY <1>1, <2>1 DEF Sure, Looked
    <2>4. Calm(ses[s], end)
      BY <1>3, <2>2, <2>3
    <2> QED BY <1>2, <2>1, <2>4
  <1>6. CASE DeleteAnchor(s, id)
    <2> DEFINE end == Delete(ses[s], id)
    <2>1. \E want : Local(s, end, req[s].found, want)
      BY <1>6 DEF DeleteAnchor
    <2>2. /\ end.mem = [ses[s].mem EXCEPT ![id] = NoAnchor] /\ end.txn = ses[s].txn
          /\ end.ledger = ses[s].ledger /\ end.queued = ses[s].queued
          /\ end.exc = ses[s].exc
      BY <1>1 DEF Delete, SessionState
    <2> HIDE DEF end
    <2>3. Calm(ses[s], end)
      BY <1>3, <2>2
    <2> QED BY <1>2, <2>1, <2>3
  <1> QED BY <1>4, <1>5, <1>6

\* A statement outside the graph meets no row.
LEMMA JoinSure ==
    ASSUME IInv, HInv, NEW s \in Sessions, Join(s)
    PROVE  HInv' /\ HoldersWin
  <1> DEFINE open == EnsureWritableTxn(ses[s], rows)
             rode == [open EXCEPT !.txn.joins = @ \cup {Stamp(s)}]
             sent(fault) == IF ~ Ok(open) THEN open
                            ELSE IF fault THEN StatementFailed(open, "transient")
                            ELSE rode
  <1>1. PICK fault \in BOOLEAN :
           /\ Becomes(s, sent(fault))
           /\ req' = [req EXCEPT ![s] =
                        [req[s] EXCEPT !.ops = @ + 1,
                                       !.pc = IF Ok(sent(fault)) THEN "body" ELSE "raised",
                                       !.joins = IF Ok(sent(fault)) THEN @ \cup {Stamp(s)}
                                                 ELSE @]]
    BY DEF Join
  <1> DEFINE end == sent(fault)
             r   == [req[s] EXCEPT !.ops = @ + 1,
                                   !.pc = IF Ok(end) THEN "body" ELSE "raised",
                                   !.joins = IF Ok(end) THEN @ \cup {Stamp(s)} ELSE @]
  <1>2. /\ Sound(ses[s]) /\ rows \in Rows /\ req[s] \in Request /\ req[s].pc = "body"
    BY InvSound DEF Join, InBody
  <1>3. Sound(open) /\ Calm(ses[s], open) /\ (Ok(open) => open.txn # NoTxn)
    <2>1. TRUE \in BOOLEAN
      OBVIOUS
    <2> HIDE DEF open
    <2> QED BY <1>2, <2>1, EnsureWritableSound, EntersCalm DEF open
  <1> HIDE DEF open
  <1>4. /\ Ok(open) => Calm(open, rode)
        /\ Calm(open, StatementFailed(open, "transient"))
    BY <1>3, RidesCalm, EndsCalm DEF Sound
  <1>5. Calm(ses[s], end)
    <2> HIDE DEF rode
    <2> QED BY <1>3, <1>4, CalmOn
  <1> HIDE DEF end
  <1>6. r.pc \in {"body", "raised"} /\ r.found = req[s].found /\ Becomes(s, end)
        /\ req' = [req EXCEPT ![s] = r]
    BY <1>1, <1>2 DEF Request, end
  <1> HIDE DEF r
  <1> QED BY <1>2, <1>5, <1>6, RewritesForward, CalmForward

\* Ending a walk, failing, catching, letting go and returning lose nothing.
LEMMA EndsSure ==
    ASSUME IInv, HInv, NEW s \in Sessions,
           EndWalk(s) \/ Fail(s) \/ Swallow(s) \/ Propagate(s) \/ Return(s)
    PROVE  HInv' /\ HoldersWin
  <1>1. /\ ses[s] \in SessionState /\ req[s] \in Request /\ req[s].pc # "reload"
    BY InvSound DEF EndWalk, Fail, Swallow, Propagate, Return, InBody
  <1>2. CASE EndWalk(s)
    <2> DEFINE r == [req[s] EXCEPT !.pc = "commit", !.call = "walkend",
                                   !.tries = 0, !.ops = @ + 1]
    <2>1. /\ r.pc = "commit" /\ r.found = req[s].found /\ req' = [req EXCEPT ![s] = r]
          /\ UNCHANGED <<ses, writers>>
      BY <1>1, <1>2 DEF Request, EndWalk
    <2> HIDE DEF r
    <2> QED BY <1>1, <2>1, RewritesForward, StaysForward
  <1>3. CASE Propagate(s)
    BY <1>1, <1>3, GoesForward, StaysForward DEF Propagate
  <1>4. CASE Return(s)
    BY <1>1, <1>4, CommitsForward, StaysForward DEF Return
  <1>5. CASE Fail(s) \/ Swallow(s)
    <2>1. PICK e \in {"other", "none"}, pc \in {"handle", "body"} :
             Becomes(s, Raise(ses[s], e)) /\ Goto(s, pc)
      BY <1>5 DEF Fail, Swallow
    <2>2. Calm(ses[s], Raise(ses[s], e))
      BY <1>1, EndsCalm
    <2> QED BY <1>1, <2>1, <2>2, GoesForward, CalmForward
  <1> QED BY <1>2, <1>3, <1>4, <1>5

-----------------------------------------------------------------------------
(* Session.commit.                                                         *)

\* Whatever is made of a commit that raises sends nothing more.
LEMMA RaisesCalm ==
    ASSUME IInv, NEW s \in Sessions, req[s].pc # "reload", NEW se \in SessionState,
           CommitRaises(s, se)
    PROVE  /\ \E out : Becomes(s, out) /\ Calm(se, out)
           /\ Forward(req[s], req'[s]) /\ \A t \in Sessions \ {s} : req'[t] = req[t]
  <1> DEFINE gone == Abort(se)
             end  == CASE req[s].call = "walkend" -> Raise(se, "none")
                       [] req[s].call = "exit" /\ se.exc = "lost" -> Raise(gone, "lost")
                       [] OTHER -> se
             out  == Popped(s, end)
             pc   == IF req[s].call = "walkend" THEN "body" ELSE "handle"
             r    == [req[s] EXCEPT !.call = "none", !.tries = 0, !.pc = pc]
  <1>1. Becomes(s, out) /\ req' = [req EXCEPT ![s] = r]
    BY DEF CommitRaises
  <1>2. gone \in SessionState /\ Calm(se, gone)
    BY AbortCalm, AbortSound DEF Sound
  <1> HIDE DEF gone
  <1>3. end \in SessionState /\ Calm(se, end)
    <2>1. /\ Raise(se, "none") \in SessionState /\ Raise(gone, "lost") \in SessionState
          /\ Calm(se, Raise(se, "none")) /\ Calm(gone, Raise(gone, "lost"))
      BY <1>2, EndsCalm DEF Raise, SessionState, Exceptions
    <2>2. end \in {Raise(se, "none"), Raise(gone, "lost"), se}
      OBVIOUS
    <2> HIDE DEF end
    <2> QED BY <1>2, <2>1, <2>2, CalmSelf, CalmOn
  <1> HIDE DEF end
  <1>4. Calm(end, out)
    <2> DEFINE popped == [end EXCEPT !.ro = FALSE]
    <2>1. popped.txn = end.txn /\ Hold(popped) = Hold(end) /\ popped.exc = end.exc
      BY <1>3 DEF SessionState, Hold
    <2>2. out \in {end, popped}
      BY DEF Popped
    <2> HIDE DEF popped, out
    <2>3. Calm(end, popped)
      BY <2>1, SameHold
    <2> QED BY <2>2, <2>3, CalmSelf
  <1> HIDE DEF out
  <1>5. r.pc \in {"body", "handle"} /\ r.found = req[s].found
    BY InvSound DEF Request
  <1> HIDE DEF r
  <1>6. Forward(req[s], req'[s]) /\ \A t \in Sessions \ {s} : req'[t] = req[t]
    BY <1>1, <1>5, RewritesForward
  <1> QED BY <1>1, <1>3, <1>4, <1>6, CalmOn

\* Nor does whatever is made of one that replays.
LEMMA ReplaysCalm ==
    ASSUME IInv, NEW s \in Sessions, req[s].pc # "reload", NEW se \in SessionState,
           CommitReplays(s, se)
    PROVE  /\ \E out : Becomes(s, out) /\ Calm(se, out)
           /\ Forward(req[s], req'[s]) /\ \A t \in Sessions \ {s} : req'[t] = req[t]
  <1> DEFINE full == req[s].tries >= MaxRetries
             back == ReplayTxn(se, full)
             r    == [req[s] EXCEPT !.pc = "commit", !.tries = @ + 1]
  <1>1. \/ Becomes(s, back) /\ req' = [req EXCEPT ![s] = r]
        \/ CommitRaises(s, back)
    BY DEF CommitReplays
  <1>2. Calm(se, back) /\ back \in SessionState
    <2>1. full \in BOOLEAN
      OBVIOUS
    <2> HIDE DEF full
    <2> QED BY <2>1, EndsCalm, ReplaySound DEF Sound
  <1> HIDE DEF back
  <1>3. CASE Becomes(s, back) /\ req' = [req EXCEPT ![s] = r]
    <2>1. r.pc = "commit" /\ r.found = req[s].found
      BY InvSound DEF Request
    <2> HIDE DEF r
    <2> QED BY <1>2, <1>3, <2>1, RewritesForward
  <1>4. CASE CommitRaises(s, back)
    <2>1. PICK out : Becomes(s, out) /\ Calm(back, out)
      BY <1>2, <1>4, RaisesCalm
    <2> QED BY <1>2, <1>4, <2>1, RaisesCalm, CalmOn
  <1> QED BY <1>1, <1>3, <1>4

\* A commit that raises or replays loses the race only if its flush did.
LEMMA CommitKeepsSure ==
    ASSUME IInv, HInv, NEW s \in Sessions, req[s].pc # "reload",
           NEW se \in SessionState, Wins(ses[s], se),
           CommitRaises(s, se) \/ CommitReplays(s, se)
    PROVE  HInv' /\ HoldersWin
  <1>1. PICK out : Becomes(s, out) /\ Calm(se, out)
    BY RaisesCalm, ReplaysCalm
  <1>2. Wins(ses[s], out)
    BY <1>1, CalmOn
  <1>3. Forward(req[s], req'[s]) /\ \A t \in Sessions \ {s} : req'[t] = req[t]
    BY RaisesCalm, ReplaysCalm
  <1> QED BY <1>1, <1>2, <1>3, WinsForward

\* A session already lost raises; a COMMIT refused, or not heard of, replays.
LEMMA CommitFailsSure ==
    ASSUME IInv, HInv, NEW s \in Sessions,
           CommitLost(s) \/ CommitRefused(s) \/ CommitAckLost(s)
    PROVE  HInv' /\ HoldersWin
  <1>1. ses[s] \in SessionState /\ req[s].pc # "reload"
    BY InvSound DEF CommitLost, CommitRefused, CommitAckLost
  <1>2. CASE CommitLost(s)
    <2> DEFINE back == RollbackTxn(ses[s])
               end  == Raise(back, "lost")
    <2>1. CommitRaises(s, end)
      BY <1>2 DEF CommitLost
    <2>2. back \in SessionState /\ Calm(ses[s], back)
      BY <1>1, RollbackSound, EndsCalm
    <2> HIDE DEF back
    <2>3. end \in SessionState /\ Calm(back, end)
      BY <2>2, EndsCalm DEF Raise, SessionState, Exceptions
    <2> HIDE DEF end
    <2> QED BY <1>1, <2>1, <2>2, <2>3, CalmOn, CommitKeepsSure
  <1>3. CASE CommitRefused(s) \/ CommitAckLost(s)
    <2> DEFINE end == StatementFailed(ses[s], "transient")
    <2>1. CommitReplays(s, end)
      BY <1>3 DEF CommitRefused, CommitAckLost
    <2>2. end \in SessionState /\ Wins(ses[s], end)
      BY <1>1, StatementFailedSound, EndsCalm, CalmOn DEF Sound, Exceptions
    <2> HIDE DEF end
    <2> QED BY <1>1, <2>1, <2>2, CommitKeepsSure
  <1> QED BY <1>2, <1>3

\* The flush of a commit loses no race for rows its session holds.
LEMMA FlushSure ==
    ASSUME IInv, WInv, HInv, NEW s \in Sessions, Flush(s)
    PROVE  HInv' /\ HoldersWin
  <1> DEFINE stored == landed \cup {Seed}
             busy == Busy(s)
             own  == Mine(s, req[s].run)
             se   == ses[s]
  <1>1a. PICK fault \in BOOLEAN :
           \E sent \in FlushResults(ses[s], TRUE, rows, busy, fault) :
             IF Ok(sent) THEN Becomes(s, sent) /\ Goto(s, "committing")
             ELSE IF sent.exc = "transient" THEN CommitReplays(s, sent)
             ELSE CommitRaises(s, Raise(RollbackTxn(sent), sent.exc))
    BY DEF Flush
  <1>1. PICK sent \in FlushResults(ses[s], TRUE, rows, busy, fault) :
          \/ Becomes(s, sent) /\ Goto(s, "committing")
          \/ CommitReplays(s, sent)
          \/ CommitRaises(s, Raise(RollbackTxn(sent), sent.exc))
    BY <1>1a
  <1>2. req[s].pc # "reload" /\ ses[s] \in SessionState
    BY InvSound DEF Flush
  <1>3. sent \in SessionState /\ Wins(ses[s], sent)
    <2>1. /\ Faithful(se, stored, own) /\ own \in SUBSET Val /\ Within(rows, stored)
          /\ sent \in FlushResults(se, TRUE, rows, busy, fault)
      BY <1>1, ServedNow
    <2> HIDE DEF own, se, stored, busy
    <2>2. Kept(sent, stored, own) /\ Wins(se, sent)
      BY <2>1, FlushKeeps, FlushWins
    <2> QED BY <2>2 DEF Kept, Sound, se
  <1> HIDE DEF own, se, stored, busy
  <1>4. CASE Becomes(s, sent) /\ Goto(s, "committing")
    BY <1>2, <1>3, <1>4, GoesForward, WinsForward
  <1>5. CASE CommitReplays(s, sent)
    BY <1>2, <1>3, <1>5, CommitKeepsSure
  <1>6. CASE CommitRaises(s, Raise(RollbackTxn(sent), sent.exc))
    <2> DEFINE back == RollbackTxn(sent)
               end  == Raise(back, sent.exc)
    <2>1. back \in SessionState /\ back.txn = NoTxn /\ sent.exc \in Exceptions
      BY <1>3, RollbackSound DEF SessionState
    <2>2. CommitRaises(s, end)
      BY <1>6
    <2> HIDE DEF back
    <2>3. end \in SessionState /\ end.txn = NoTxn /\ end.exc = sent.exc
      BY <2>1 DEF Raise, SessionState
    <2> HIDE DEF end
    <2>4. Wins(ses[s], end)
      BY <1>3, <2>3, LetsGo DEF Wins, Holding, Pins
    <2> QED BY <1>2, <2>2, <2>3, <2>4, CommitKeepsSure
  <1> QED BY <1>1, <1>4, <1>5, <1>6

\* A session told of its COMMIT has let go of its rows.
LEMMA CommitTold ==
    ASSUME NEW s \in Sessions, NEW se \in SessionState
    PROVE  LET end == Popped(s, LeaveQueue(CommitTxn(se)))
           IN  end.txn = NoTxn /\ end.exc = se.exc
  <1> DEFINE told == CommitTxn(se)
             done == LeaveQueue(told)
  <1>1. told \in SessionState /\ told.txn = NoTxn /\ told.exc = se.exc
    BY CommitSound DEF Sound, CommitTxn, SessionState
  <1> HIDE DEF told
  <1>2. done \in SessionState /\ done.txn = NoTxn /\ done.exc = se.exc
    BY <1>1 DEF LeaveQueue, SessionState
  <1> HIDE DEF done
  <1>3. Popped(s, done).txn = NoTxn /\ Popped(s, done).exc = se.exc
    BY <1>2 DEF Popped, SessionState
  <1> QED BY <1>3 DEF done, told

\* Its request answers, or goes on with its body.
LEMMA ReturnsForward ==
    ASSUME IInv, NEW s \in Sessions, NEW peers, NEW se, CommitReturns(s, peers, se)
    PROVE  /\ req'[s].pc \in {"body", "exit", "closing"}
           /\ \A t \in Sessions \ {s} : req'[t] = req[t]
  <1> DEFINE pc  == IF req[s].call = "walkend" THEN "body"
                    ELSE IF req[s].call = "final" THEN "exit" ELSE "closing"
             ans == IF req[s].call = "exit" THEN "ok" ELSE req[s].answer
             r   == [req[s] EXCEPT !.call = "none", !.tries = 0, !.pc = pc, !.answer = ans]
  <1>1. req' = [req EXCEPT ![s] = r]
    BY InvSound DEF CommitReturns, Request
  <1>2. r.pc \in {"body", "exit", "closing"}
    BY InvSound DEF Request
  <1> HIDE DEF r
  <1> QED BY <1>1, <1>2, Rewritten

\* A commit that returns lets go; the others may learn of predicate locks.
LEMMA CommitReturnsSure ==
    ASSUME IInv, HInv, NEW s \in Sessions, CommitNothing(s) \/ CommitLands(s)
    PROVE  HInv' /\ HoldersWin
  <1> DEFINE end   == Popped(s, LeaveQueue(CommitTxn(ses[s])))
             peers == Outlived(s)
  <1>1. PICK on \in {ses, peers} : CommitReturns(s, on, ses[s])
    BY DEF CommitNothing, CommitLands
  <1>2. Sure(req[s], ses[s]) /\ ses[s] \in SessionState
    BY InvSound DEF HInv
  <1>3. end.txn = NoTxn /\ end.exc = ses[s].exc
    BY <1>2, CommitTold
  <1>4. /\ req'[s].pc \in {"body", "exit", "closing"}
        /\ \A t \in Sessions \ {s} : req'[t] = req[t]
    BY <1>1, ReturnsForward
  <1>5. ASSUME NEW t \in Sessions \ {s}
        PROVE  peers[t] = ses[t] \/ (Calm(ses[t], peers[t]) /\ ses[t].txn # NoTxn)
    <2>1. CASE ses[t].txn = NoTxn
      BY <2>1 DEF Outlived
    <2>2. CASE ses[t].txn # NoTxn
      <3> DEFINE x   == [ses[t].txn EXCEPT !.peers = @ \cup ses[s].txn.reads]
                 out == [ses[t] EXCEPT !.txn = x]
      <3>1. ses[t].txn \in Txn /\ ses[t] \in SessionState
        BY <2>2, InvSound DEF SessionState
      <3>2. /\ x.snap = ses[t].txn.snap /\ x.own = ses[t].txn.own
            /\ x.iso = ses[t].txn.iso /\ x.pins = ses[t].txn.pins
        BY <3>1 DEF Txn
      <3>3. peers[t] = out
        BY <2>2 DEF Outlived
      <3> HIDE DEF x, peers
      <3>4. Hold(out) = Hold(ses[t]) /\ out.exc = ses[t].exc
        BY <3>1, <3>2 DEF Hold, SessionState
      <3> HIDE DEF out
      <3> QED BY <2>2, <3>3, <3>4, SameHold
    <2> QED BY <2>1, <2>2
  <1>6. DOMAIN ses = Sessions /\ DOMAIN peers = Sessions
    BY DEF IInv, TypeOK, Outlived
  <1> HIDE DEF peers, end
  <1>7. /\ ses'[s] = end
        /\ \A t \in Sessions \ {s} :
              ses'[t] = ses[t] \/ (Calm(ses[t], ses'[t]) /\ ses[t].txn # NoTxn)
    BY <1>1, <1>5, <1>6 DEF CommitReturns, end
  <1>8. Sure(req'[s], end) /\ (Holding(ses[s]) => end.exc # "conflict")
    BY <1>2, <1>3, <1>4 DEF Sure, Firm, Looked, Holding, Pins
  <1> QED BY <1>4, <1>7, <1>8, SureMoves

-----------------------------------------------------------------------------
(* Outside the body.                                                       *)

\* Leaving the unit keeps the rows for the commit, or lets go of them.
LEMMA UnitExitSure ==
    ASSUME IInv, HInv, NEW s \in Sessions, UnitExit(s)
    PROVE  HInv' /\ HoldersWin
  <1> DEFINE se     == [ses[s] EXCEPT !.units = 0, !.roRaised = FALSE]
             gone   == Abort(se)
             out(e) == Raise([gone EXCEPT !.ro = FALSE], e)
             lost   == [out("lost") EXCEPT !.roRaised = ses[s].roRaised]
             left   == [se EXCEPT !.ro = FALSE]
             done   == [req[s] EXCEPT !.pc = "closing", !.answer = "ok"]
  <1>1. /\ req[s].pc = "exit"
        /\ \/ /\ Becomes(s, lost) \/ Becomes(s, out("ro"))
              /\ Goto(s, "handle")
           \/ /\ ses[s].txn = NoTxn /\ Becomes(s, left)
              /\ req' = [req EXCEPT ![s] = done]
           \/ Becomes(s, se) /\ StartCommit(s, "exit")
    BY DEF UnitExit
  <1>2. ses[s] \in SessionState /\ req[s] \in Request
    BY InvSound
  <1>3. /\ se \in SessionState /\ se.txn = ses[s].txn /\ se.exc = ses[s].exc
        /\ Hold(se) = Hold(ses[s])
    BY <1>2 DEF SessionState, Hold
  <1>4. left.txn = ses[s].txn
    BY <1>2 DEF SessionState
  <1> HIDE DEF se, left
  <1>5. gone \in SessionState /\ gone.txn = NoTxn
    BY <1>3, AbortSound DEF Sound
  <1> HIDE DEF gone
  <1>6. /\ lost.txn = NoTxn /\ lost.exc = "lost"
        /\ out("ro").txn = NoTxn /\ out("ro").exc = "ro"
    BY <1>5 DEF Raise, SessionState
  <1> HIDE DEF lost, out
  <1>7. CASE /\ Becomes(s, lost) \/ Becomes(s, out("ro"))
             /\ Goto(s, "handle")
    <2>1. Forward(req[s], req'[s]) /\ \A t \in Sessions \ {s} : req'[t] = req[t]
      BY <1>1, <1>7, GoesForward
    <2> QED BY <1>6, <1>7, <2>1, LetsGoSure DEF Forward, Holding, Pins
  <1>8. CASE /\ ses[s].txn = NoTxn /\ Becomes(s, left)
             /\ req' = [req EXCEPT ![s] = done]
    <2>1. done.pc = "closing"
      BY <1>2 DEF Request
    <2> HIDE DEF done
    <2>2. req'[s] = done /\ \A t \in Sessions \ {s} : req'[t] = req[t]
      BY <1>8, Rewritten
    <2> QED BY <1>4, <1>8, <2>1, <2>2, LetsGoSure DEF Holding, Pins
  <1>9. CASE Becomes(s, se) /\ StartCommit(s, "exit")
    <2>1. Calm(ses[s], se)
      BY <1>3, SameHold
    <2> QED BY <1>1, <1>9, <2>1, CommitsForward, CalmForward
  <1> QED BY <1>1, <1>7, <1>8, <1>9

\* The loop's handlers abort: the next run starts with nothing in memory.
LEMMA HandlesSure ==
    ASSUME IInv, HInv, NEW s \in Sessions,
           HandleRoRetry(s) \/ HandleConflict(s) \/ HandleTransient(s) \/ HandleError(s)
    PROVE  HInv' /\ HoldersWin
  <1> DEFINE calm == [ses[s] EXCEPT !.roRaised = FALSE]
  <1>1. Sound(ses[s]) /\ rows \in Rows /\ RoUnit \in BOOLEAN
    BY InvSound, ConstantsAssumption DEF IInv, TypeOK, RoUnit
  <1>2. /\ \/ Becomes(s, Abort(Reenter(calm))) \/ Becomes(s, Abort(Reenter(ses[s])))
           \/ Becomes(s, Abort(ses[s]))
        /\ \E r : req' = [req EXCEPT ![s] = r]
    BY DEF HandleRoRetry, HandleConflict, HandleTransient, HandleError, NextAttempt, Settle
  <1>3. Sound(calm)
    BY <1>1 DEF Sound, Mirrored, SessionState
  <1> HIDE DEF calm
  <1>4. ASSUME NEW se, Sound(se) PROVE Reenter(se) \in SessionState
    BY <1>1, <1>4, UnitEnterSound DEF Reenter, Sound
  <1>5. PICK x \in SessionState : Becomes(s, Abort(x))
    BY <1>1, <1>2, <1>3, <1>4 DEF Sound
  <1> DEFINE end == Abort(x)
  <1>6. Blank(end) /\ ~ Holding(end)
    BY AbortCalm DEF Blank, Holding, Pins
  <1>7. Becomes(s, end)
    BY <1>5
  <1> HIDE DEF end
  <1>8. \A t \in Sessions \ {s} : req'[t] = req[t]
    BY <1>2, Rewritten
  <1> QED BY <1>6, <1>7, <1>8, LetsGoSure DEF Blank

\* Waiting for its turn a request has nothing in memory; pinning, it holds the
\* rows in a transaction that begins there.
LEMMA TurnsSure ==
    ASSUME IInv, HInv, NEW s \in Sessions, WaitTurn(s) \/ Pin(s)
    PROVE  HInv' /\ HoldersWin
  <1> DEFINE se   == ses[s]
             ids  == {id \in se.queued : rows[id] # NoRow}
             took == [se EXCEPT !.queued = se.contended]
             gave == [se EXCEPT !.queued = {}, !.contended = {}]
             pins == [BeginTxn(se, "serializable", rows) EXCEPT !.txn.pins = ids]
  <1>1. /\ req[s].pc \in {"turn", "pin"} /\ Sound(se) /\ se \in SessionState
        /\ rows \in Rows /\ Idle(se) /\ Blank(se) /\ ~ Holding(se)
    <2>1. req[s].pc \in {"turn", "pin"}
      BY DEF WaitTurn, Pin
    <2> QED BY <2>1, InvSound DEF HInv, Sure, Quiet, Blank, Holding, Pins
  <1>2. \/ UNCHANGED <<ses, writers>> /\ Goto(s, "reload")
        \/ Becomes(s, took) /\ Goto(s, "pin")
        \/ Becomes(s, gave) /\ Goto(s, "reload")
        \/ Becomes(s, pins) /\ Goto(s, "reload")
    BY DEF WaitTurn, Pin
  <1>3. /\ \A t \in Sessions \ {s} : req'[t] = req[t]
        /\ req'[s].pc \in {"reload", "pin"}
        /\ Goto(s, "reload") => req'[s].pc = "reload"
    BY <1>2, Goes DEF Pc
  <1>4. CASE UNCHANGED <<ses, writers>> /\ Goto(s, "reload")
    BY <1>1, <1>4, GoesForward, StaysForward
  <1>5. CASE Becomes(s, took) \/ Becomes(s, gave)
    <2>1. \A end \in {took, gave} : Blank(end) /\ ~ Holding(end) /\ end.exc # "conflict"
      BY <1>1 DEF Blank, SessionState, Holding, Pins
    <2> HIDE DEF took, gave
    <2> QED BY <1>3, <1>5, <2>1, LetsGoSure
  <1>6. CASE Becomes(s, pins) /\ Goto(s, "reload")
    <2>1. Firm(pins)
      <3>1. ids \in SUBSET se.queued
        OBVIOUS
      <3> HIDE DEF ids, se
      <3> QED BY <1>1, <3>1, PinFirm DEF Blank
    <2> HIDE DEF pins
    <2>2. ses'[s] = pins /\ \A t \in Sessions \ {s} : ses'[t] = ses[t]
      BY <1>6, OneMoves
    <2>3. Sure(req'[s], pins)
      BY <1>3, <1>6, <2>1 DEF Sure, Looked
    <2> QED BY <1>1, <1>3, <2>2, <2>3, SureMoves
  <1> QED BY <1>2, <1>4, <1>5, <1>6

\* The next run goes on with the transaction that holds the rows.
LEMMA ReloadSure ==
    ASSUME IInv, HInv, NEW s \in Sessions, Reload(s)
    PROVE  HInv' /\ HoldersWin
  <1> DEFINE end == EnsureTxn(ses[s], rows)
             pc  == IF Ok(end) THEN "body" ELSE "handle"
             run == IF req[s].run < MaxRuns THEN req[s].run + 1 ELSE req[s].run
             r   == [req[s] EXCEPT !.pc = pc, !.run = run, !.ops = 0,
                                   !.found = "unknown", !.want = NewRun.want, !.joins = {}]
  <1>1. Becomes(s, end) /\ req' = [req EXCEPT ![s] = r]
    BY InvSound DEF Reload, Request
  <1>2. Calm(ses[s], end)
    BY InvSound, OpensCalm
  <1> HIDE DEF end
  <1>3. r.pc \in {"body", "handle"} /\ r.found = "unknown"
    BY InvSound DEF Request
  <1> HIDE DEF r
  <1>4. /\ ses'[s] = end /\ req'[s] = r
        /\ \A t \in Sessions \ {s} : ses'[t] = ses[t] /\ req'[t] = req[t]
    BY <1>1, OneMoves, Rewritten
  <1>5. Firm(ses[s])
    BY DEF HInv, Sure
  <1>6. Sure(r, end) /\ (Holding(ses[s]) => end.exc # "conflict")
    BY <1>2, <1>3, <1>5 DEF Calm, Sure, Firm, Looked
  <1> QED BY <1>4, <1>6, SureMoves

\* A session that is closed holds nothing.
LEMMA CloseSure ==
    ASSUME IInv, HInv, NEW s \in Sessions, Close(s)
    PROVE  HInv' /\ HoldersWin
  <1>1. /\ Becomes(s, NewSession) /\ req'[s].pc = "done"
        /\ \A t \in Sessions \ {s} : req'[t] = req[t]
    BY Goes DEF Close, Pc
  <1>2. NewSession.txn = NoTxn /\ NewSession.exc = "none"
    BY DEF NewSession
  <1> QED BY <1>1, <1>2, LetsGoSure DEF Holding, Pins

-----------------------------------------------------------------------------

\* Before any request has begun none holds anything.
LEMMA InitSure == Init => HInv
  <1> SUFFICES ASSUME Init, NEW s \in Sessions PROVE Sure(req[s], ses[s])
    BY DEF HInv
  <1>1. ses[s] = NewSession /\ req[s].pc = "idle"
    BY DEF Init
  <1>2. ~ Holding(ses[s])
    BY <1>1 DEF NewSession, Holding, Pins
  <1> QED BY <1>1, <1>2 DEF Sure, Firm, Looked

\* Every step of a request keeps what the holders are sure of, and no holder
\* loses the race in it.
LEMMA StepSure ==
    ASSUME IInv, WInv, HInv, NEW s \in Sessions, Step(s)
    PROVE  HInv' /\ HoldersWin
  <1>1. CASE Begin(s) \/ Read(s) \/ Scan(s) \/ Respond(s) \/ Retry(s)
    BY <1>1, BeginSure, ReadsSure
  <1>2. ASSUME NEW id \in Ids,
               WriteAnchor(s, id) \/ Mutate(s, id) \/ Create(s, id) \/ DeleteAnchor(s, id)
        PROVE  HInv' /\ HoldersWin
    BY <1>2, WritesSure
  <1>3. CASE Join(s) \/ EndWalk(s) \/ Fail(s) \/ Swallow(s) \/ Propagate(s) \/ Return(s)
    BY <1>3, JoinSure, EndsSure
  <1>4. CASE \/ CommitLost(s) \/ Flush(s) \/ CommitNothing(s) \/ CommitLands(s)
             \/ CommitRefused(s) \/ CommitAckLost(s)
    BY <1>4, CommitFailsSure, FlushSure, CommitReturnsSure
  <1>5. CASE UnitExit(s) \/ WaitTurn(s) \/ Pin(s) \/ Reload(s) \/ Close(s)
    BY <1>5, UnitExitSure, TurnsSure, ReloadSure, CloseSure
  <1>6. CASE HandleRoRetry(s) \/ HandleConflict(s) \/ HandleTransient(s) \/ HandleError(s)
    BY <1>6, HandlesSure
  <1> QED BY <1>1, <1>2, <1>3, <1>4, <1>5, <1>6 DEF Step

\* A request that has waited its turn, and whose transaction holds the
\* contended rows, does not lose the race for them again.
THEOREM HoldersKeepTheirTurn == Spec => TurnHolderWins
  <1>1. Init => HInv
    BY InitSure
  <1>2. IInv /\ WInv /\ HInv /\ [Next]_vars => HInv' /\ HoldersWin
    <2> SUFFICES ASSUME IInv, WInv, HInv, [Next]_vars PROVE HInv' /\ HoldersWin
      OBVIOUS
    <2>1. ASSUME NEW s \in Sessions, Step(s) PROVE HInv' /\ HoldersWin
      BY <2>1, StepSure
    <2>2. ASSUME UNCHANGED <<req, ses>> PROVE HInv' /\ HoldersWin
      BY <2>2 DEF HInv, HoldersWin, Sure, Firm
    <2> QED BY <2>1, <2>2 DEF Next, Expire, vars
  <1>3. IInv /\ WInv /\ HInv /\ [Next]_vars
           => [\A s \in Sessions : (ses[s].txn # NoTxn /\ ses'[s].exc = "conflict")
                 => ses'[s].lastConflict \cap ses[s].txn.pins = {}]_vars
    BY <1>2 DEF HoldersWin, Holding, Pins
  <1> QED BY <1>1, <1>2, <1>3, Invariance, WorkKept, PTL DEF Spec, TurnHolderWins
-----------------------------------------------------------------------------
(* A transaction on a read-only snapshot commits nothing.                  *)

RInv == \A s \in Sessions : ReadOnly(ses[s])

-----------------------------------------------------------------------------

\* One session moves, the others stay.
LEMMA ReadOnlyMoves ==
    ASSUME IInv, RInv, NEW s \in Sessions, NEW se, Becomes(s, se),
           se.txn = NoTxn \/ ReadOnly(se)
    PROVE  RInv'
  <1>1. ses'[s] = se /\ \A t \in Sessions \ {s} : ses'[t] = ses[t]
    BY OneMoves
  <1> QED BY <1>1 DEF RInv, ReadOnly, OnSnapshot

\* The others may learn of predicate locks, when the session's transaction is over.
LEMMA ReadOnlyShared ==
    ASSUME IInv, RInv, NEW s \in Sessions, ses'[s].txn = NoTxn,
           \A t \in Sessions \ {s} :
              \/ ses'[t] = ses[t]
              \/ /\ ses[t].txn # NoTxn
                 /\ \E held : ses'[t] = [ses[t] EXCEPT !.txn.peers = held]
    PROVE  RInv'
  <1>1. ASSUME NEW t \in Sessions \ {s} PROVE ReadOnly(ses'[t])
    <2>1. ses[t] \in SessionState /\ ReadOnly(ses[t])
      BY InvSound DEF RInv
    <2>2. CASE ses'[t] = ses[t]
      BY <2>1, <2>2
    <2>3. ASSUME ses[t].txn # NoTxn, NEW held, ses'[t] = [ses[t] EXCEPT !.txn.peers = held]
          PROVE  ReadOnly(ses'[t])
      <3>1. ses[t].txn \in Txn
        BY <2>1, <2>3 DEF SessionState
      <3> DEFINE x == [ses[t].txn EXCEPT !.peers = held]
      <3>2. x.iso = ses[t].txn.iso /\ x.own = ses[t].txn.own /\ x.joins = ses[t].txn.joins
        BY <3>1 DEF Txn
      <3>3. ses'[t].txn = x /\ ses'[t].ledger = ses[t].ledger
        BY <2>1, <2>3 DEF SessionState
      <3> HIDE DEF x
      <3> QED BY <2>1, <2>3, <3>2, <3>3 DEF ReadOnly, OnSnapshot
    <2> QED BY <2>2, <2>3
  <1> QED BY <1>1 DEF RInv, ReadOnly, OnSnapshot

\* A request begins in a transaction that may write.
LEMMA BeginUnwritten ==
    ASSUME IInv, WInv, RInv, NEW s \in Sessions, Begin(s)
    PROVE  RInv'
  <1> DEFINE open == BeginTxn(NewSession, "serializable", rows)
             in   == [open EXCEPT !.units = 1, !.ro = RoUnit]
  <1>1. ses[s] = NewSession /\ rows \in Rows
    BY ServedNow DEF Begin, Served
  <1>2. TxnIsolation(NewSession) = "serializable"
    BY DEF NewSession, TxnIsolation
  <1>3. Becomes(s, UnitEnter(open, RoUnit, rows))
    BY <1>1, <1>2 DEF Begin
  <1>4. /\ in.txn # NoTxn /\ in.txn.iso = "serializable"
        /\ in.exc = "none" /\ ~ in.roRaised /\ open.txn = in.txn
    <2>1. NewTxn("serializable", rows) \in Txn /\ NewTxn("serializable", rows).iso = "serializable"
      BY <1>1, NewTxnType DEF NewTxn, Isolation
    <2> QED BY <2>1, NoTxnAssumption DEF BeginTxn, NewSession
  <1>5. UnitEnter(open, RoUnit, rows) = EnsureTxn(in, rows)
    BY <1>4 DEF UnitEnter
  <1> HIDE DEF in, open
  <1>6. EnsureTxn(in, rows) = in
    BY <1>4 DEF EnsureTxn, ReclaimDeadTxn, BeginWritable, OnSnapshot, Ok
  <1>7. ReadOnly(in)
    BY <1>4 DEF ReadOnly, OnSnapshot
  <1> QED BY <1>3, <1>5, <1>6, <1>7, ReadOnlyMoves

\* A read flushes first, and a write leaves the snapshot; a failed one ends the
\* transaction.
LEMMA TryUnwritten ==
    ASSUME IInv, WInv, RInv, NEW s \in Sessions,
           NEW call, NEW ids \in SUBSET Ids, NEW tries, Try(s, call, ids, tries)
    PROVE  RInv'
  <1> DEFINE own    == Mine(s, req[s].run)
             stored == landed \cup {Seed}
             se     == ses[s]
             busy   == Busy(s)
  <1>1. PICK fault \in {"none", "flush", "load"} :
             \E open \in BarrierResults(se, rows, busy, fault = "flush") :
                 Tried(s, call, ids, tries, fault, open)
    BY DEF Try
  <1>2. PICK open : /\ open \in BarrierResults(se, rows, busy, fault = "flush")
                    /\ Tried(s, call, ids, tries, fault, open)
    BY <1>1
  <1> DEFINE loads == Ok(open)
             broke == StatementFailed(open, "transient")
             seek  == [open EXCEPT !.txn = Reading(@, ids)]
             load  == Load(open, ids)
             read  == IF ~ loads THEN open
                      ELSE IF fault = "load" THEN broke
                      ELSE IF call = "scan" THEN seek
                      ELSE load
             again == read.exc = "transient" /\ tries < LastTry(loads)
             end   == IF again THEN ReplayTxn(read, FALSE) ELSE read
  <1>3. Becomes(s, end)
    BY <1>2 DEF Tried, end, read, loads
  <1>4. /\ ReadOnly(open) /\ Sound(open) /\ open \in SessionState
        /\ Ok(open) => open.txn # NoTxn
    <2> DEFINE hit == fault = "flush"
    <2>1. /\ Faithful(se, stored, own) /\ own \in SUBSET Val /\ Within(rows, stored)
          /\ ReadOnly(se)
      BY ServedNow DEF RInv
    <2>2. open \in BarrierResults(se, rows, busy, hit) /\ hit \in BOOLEAN
      BY <1>2
    <2> HIDE DEF own, stored, se, busy, hit
    <2>3. ReadOnly(open)
      BY <2>1, <2>2, BarrierReadOnly
    <2>4. Faithful(open, stored, own) /\ (Ok(open) => open.txn # NoTxn)
      BY <2>1, <2>2, BarrierKeeps
    <2> QED BY <2>3, <2>4 DEF Faithful, Kept, Sound
  <1>5. broke \in SessionState /\ broke.txn = NoTxn
    BY <1>4, StatementFailedSound, FailureReadOnly DEF Sound, Exceptions
  <1>6. ASSUME Ok(open) PROVE ReadOnly(seek) /\ ReadOnly(load)
    BY <1>4, <1>6, LoadReadOnly
  <1>7. again => read \in {open, broke}
    <2>1. Ok(open) => open.exc = "none" /\ seek.exc = "none" /\ load.exc = "none"
      BY <1>4 DEF Ok, Load, SessionState
    <2> HIDE DEF broke, seek, load
    <2> QED BY <2>1
  <1> HIDE DEF broke, seek, load
  <1>8. ASSUME NEW a \in {open, broke} PROVE ReplayTxn(a, FALSE).txn = NoTxn
    <2>1. RollbackTxn(a) \in SessionState /\ RollbackTxn(a).txn = NoTxn
      BY <1>4, <1>5, RollbackSound
    <2> QED BY <2>1 DEF ReplayTxn, SessionState
  <1>9. end.txn = NoTxn \/ ReadOnly(end)
    <2>1. CASE again
      BY <1>7, <1>8, <2>1
    <2>2. CASE ~ again
      <3>1. end = read
        BY <2>2
      <3> HIDE DEF end, again
      <3> QED BY <1>4, <1>5, <1>6, <3>1
    <2> QED BY <2>1, <2>2
  <1> HIDE DEF end
  <1> QED BY <1>3, <1>9, ReadOnlyMoves

\* So it is with every read.
LEMMA ReadsUnwritten ==
    ASSUME IInv, WInv, RInv, NEW s \in Sessions,
           Read(s) \/ Scan(s) \/ Respond(s) \/ Retry(s)
    PROVE  RInv'
  <1>1. CASE Read(s)
    BY <1>1, TryUnwritten DEF Read, Unread
  <1>2. CASE Scan(s)
    BY <1>2, TryUnwritten, ConstantsAssumption DEF Scan
  <1>3. CASE Respond(s)
    BY <1>3, TryUnwritten DEF Respond, Unread
  <1>4. CASE Retry(s)
    <2>1. req[s].arg \in SUBSET Ids
      BY InvSound DEF Request
    <2> QED BY <1>4, <2>1, TryUnwritten DEF Retry
  <1> QED BY <1>1, <1>2, <1>3, <1>4

\* What the body writes it writes in memory.
LEMMA WritesUnwritten ==
    ASSUME IInv, RInv, NEW s \in Sessions, NEW id \in Ids,
           WriteAnchor(s, id) \/ Mutate(s, id) \/ Create(s, id) \/ DeleteAnchor(s, id)
    PROVE  RInv'
  <1> DEFINE a    == NewContent(s, id)
             mut  == [ses[s] EXCEPT !.mem[id] = a]
             made == Put(ses[s], id, [val |-> Stamp(s), base |-> NoRow])
             gone == Delete(ses[s], id)
  <1>1. ses[s] \in SessionState /\ ReadOnly(ses[s])
    BY InvSound DEF RInv
  <1>2. PICK end \in {mut, MarkDirty(mut, id), made, gone} : Becomes(s, end)
    BY DEF WriteAnchor, Mutate, Create, DeleteAnchor, Local
  <1> HIDE DEF a
  <1>3. /\ mut.txn = ses[s].txn /\ mut.ledger = ses[s].ledger
        /\ made.txn = ses[s].txn /\ made.ledger = ses[s].ledger
        /\ gone.txn = ses[s].txn /\ gone.ledger = ses[s].ledger
        /\ {"txn", "ledger"} \subseteq DOMAIN mut
    BY <1>1 DEF Put, Delete, SessionState
  <1> HIDE DEF mut, made, gone
  <1>4. MarkDirty(mut, id).txn = mut.txn /\ MarkDirty(mut, id).ledger = mut.ledger
    BY <1>3 DEF MarkDirty
  <1>5. end.txn = ses[s].txn /\ end.ledger = ses[s].ledger
    BY <1>3, <1>4
  <1>6. ReadOnly(end)
    BY <1>1, <1>5 DEF ReadOnly, OnSnapshot
  <1> QED BY <1>2, <1>6, ReadOnlyMoves

\* A statement outside the graph rides in a transaction that may write.
LEMMA JoinUnwritten ==
    ASSUME IInv, WInv, RInv, NEW s \in Sessions, Join(s)
    PROVE  RInv'
  <1> DEFINE live  == BeginWritable(ses[s], rows)
             rides == [live EXCEPT !.ledger = Joined(@)]
             open  == EnsureWritableTxn(ses[s], rows)
             rode  == [open EXCEPT !.txn.joins = @ \cup {Stamp(s)}]
             broke == StatementFailed(open, "transient")
  <1>1. PICK end \in {open, broke, rode} : Becomes(s, end) /\ (Ok(open) \/ end = open)
    BY DEF Join
  <1>2. /\ Sound(ses[s]) /\ Tidy(ses[s]) /\ ReadOnly(ses[s]) /\ rows \in Rows
    BY InvSound, ServedNow DEF RInv, Kept
  <1>3. /\ ReadOnly(live) /\ live \in SessionState
        /\ Ok(live) => ~ OnSnapshot(live) /\ live.txn # NoTxn
    BY <1>2, WritableReadOnly, BeginWritableSound DEF Sound
  <1>4. open = IF Ok(live) THEN rides ELSE live
    BY DEF EnsureWritableTxn
  <1> HIDE DEF live
  <1>5. rides \in SessionState /\ rides.txn = live.txn
    BY <1>3 DEF SessionState, Joined, Ledger
  <1> HIDE DEF rides, open
  <1>6. /\ open \in SessionState /\ ReadOnly(open)
        /\ open.txn # NoTxn /\ Ok(open) => ~ OnSnapshot(open)
    BY <1>3, <1>4, <1>5 DEF ReadOnly, OnSnapshot, Ok
  <1>7. broke.txn = NoTxn
    BY <1>6, FailureReadOnly
  <1>8. ASSUME Ok(open), open.txn # NoTxn PROVE ReadOnly(rode)
    <2> DEFINE x == [open.txn EXCEPT !.joins = @ \cup {Stamp(s)}]
    <2>1. open.txn \in Txn /\ open.txn.iso # "snapshot"
      BY <1>6, <1>8 DEF SessionState, OnSnapshot
    <2>2. x.iso = open.txn.iso
      BY <2>1 DEF Txn
    <2>3. rode.txn = x
      BY <1>6 DEF SessionState
    <2> HIDE DEF x, rode
    <2> QED BY <2>1, <2>2, <2>3 DEF ReadOnly, OnSnapshot
  <1>9. Ok(open) => open.txn # NoTxn
    BY <1>2, <1>3, <1>4, <1>5 DEF Ok
  <1> HIDE DEF broke, rode
  <1>10. end.txn = NoTxn \/ ReadOnly(end)
    BY <1>1, <1>6, <1>7, <1>8, <1>9
  <1> QED BY <1>1, <1>10, ReadOnlyMoves

\* How the body ends moves no transaction.
LEMMA EndsUnwritten ==
    ASSUME IInv, RInv, NEW s \in Sessions,
           EndWalk(s) \/ Fail(s) \/ Swallow(s) \/ Propagate(s) \/ Return(s)
    PROVE  RInv'
  <1>1. ASSUME NEW e, Becomes(s, Raise(ses[s], e)) PROVE RInv'
    <2> DEFINE end == Raise(ses[s], e)
    <2>1. ses[s] \in SessionState /\ ReadOnly(ses[s])
      BY InvSound DEF RInv
    <2>2. end.txn = ses[s].txn /\ end.ledger = ses[s].ledger
      BY <2>1 DEF Raise, SessionState
    <2>3. Becomes(s, end)
      BY <1>1
    <2> HIDE DEF end
    <2>4. ReadOnly(end)
      BY <2>1, <2>2 DEF ReadOnly, OnSnapshot
    <2> QED BY <2>3, <2>4, ReadOnlyMoves
  <1>2. UNCHANGED ses => RInv'
    BY DEF RInv, ReadOnly, OnSnapshot
  <1> QED BY <1>1, <1>2 DEF EndWalk, Fail, Swallow, Propagate, Return
-----------------------------------------------------------------------------
(* Session.commit, and what comes after it.                                *)

\* A commit that raises, or replays, ends its transaction.
LEMMA RaisesUnwritten ==
    ASSUME IInv, RInv, NEW s \in Sessions, NEW se \in SessionState, se.txn = NoTxn,
           CommitRaises(s, se)
    PROVE  RInv'
  <1> DEFINE gone == Abort(se)
             end  == CASE req[s].call = "walkend" -> Raise(se, "none")
                       [] req[s].call = "exit" /\ se.exc = "lost" -> Raise(gone, "lost")
                       [] OTHER -> se
             out  == Popped(s, end)
  <1>1. Becomes(s, out)
    BY DEF CommitRaises
  <1>2. gone \in SessionState /\ gone.txn = NoTxn
    BY AbortSound DEF Sound
  <1> HIDE DEF gone
  <1>3. end \in SessionState /\ end.txn = NoTxn
    <2>1. ASSUME NEW a \in {se, gone}, NEW e \in {"none", "lost"}
          PROVE  Raise(a, e) \in SessionState /\ Raise(a, e).txn = NoTxn
      BY <1>2, <2>1 DEF Raise, SessionState, Exceptions
    <2>2. end \in {Raise(se, "none"), Raise(gone, "lost"), se}
      OBVIOUS
    <2> HIDE DEF end
    <2> QED BY <2>1, <2>2
  <1> HIDE DEF end
  <1>4. out.txn = NoTxn
    BY <1>3 DEF Popped, SessionState
  <1> HIDE DEF out
  <1> QED BY <1>1, <1>4, ReadOnlyMoves

LEMMA ReplaysUnwritten ==
    ASSUME IInv, RInv, NEW s \in Sessions, NEW se \in SessionState, CommitReplays(s, se)
    PROVE  RInv'
  <1> DEFINE full == req[s].tries >= MaxRetries
             back == ReplayTxn(se, full)
  <1>1. back \in SessionState /\ back.txn = NoTxn
    <2>1. RollbackTxn(se) \in SessionState /\ RollbackTxn(se).txn = NoTxn
      BY RollbackSound
    <2>2. full \in BOOLEAN
      OBVIOUS
    <2> HIDE DEF full
    <2>3. back.txn = NoTxn
      BY <2>1 DEF ReplayTxn, SessionState
    <2> QED BY <2>2, <2>3, ReplaySound DEF Sound
  <1>2. Becomes(s, back) \/ CommitRaises(s, back)
    BY DEF CommitReplays
  <1> HIDE DEF back
  <1> QED BY <1>1, <1>2, RaisesUnwritten, ReadOnlyMoves

\* A session that is lost raises; a flush writes nothing on a snapshot; a COMMIT
\* that fails, or is not heard of, replays.
LEMMA CommitsUnwritten ==
    ASSUME IInv, WInv, RInv, NEW s \in Sessions,
           CommitLost(s) \/ Flush(s) \/ CommitRefused(s) \/ CommitAckLost(s)
    PROVE  RInv'
  <1> DEFINE own    == Mine(s, req[s].run)
             se     == ses[s]
             stored == landed \cup {Seed}
             busy   == Busy(s)
  <1>1. /\ Faithful(se, stored, own) /\ own \in SUBSET Val /\ Within(rows, stored)
        /\ se \in SessionState /\ ReadOnly(se)
    BY ServedNow DEF RInv
  <1>2. ASSUME NEW a \in SessionState, CommitRaises(s, Raise(RollbackTxn(a), a.exc))
        PROVE  RInv'
    <2> DEFINE back == RollbackTxn(a)
               end  == Raise(back, a.exc)
    <2>1. back \in SessionState /\ back.txn = NoTxn /\ a.exc \in Exceptions
      BY RollbackSound DEF SessionState
    <2>2. CommitRaises(s, end)
      BY <1>2
    <2> HIDE DEF back
    <2>3. end \in SessionState /\ end.txn = NoTxn
      BY <2>1 DEF Raise, SessionState
    <2> HIDE DEF end
    <2> QED BY <2>2, <2>3, RaisesUnwritten
  <1>3. CASE CommitLost(s)
    <2> DEFINE back == RollbackTxn(se)
               end  == Raise(back, "lost")
    <2>1. back \in SessionState /\ back.txn = NoTxn
      BY <1>1, RollbackSound
    <2>2. CommitRaises(s, end)
      BY <1>3 DEF CommitLost
    <2> HIDE DEF back
    <2>3. end \in SessionState /\ end.txn = NoTxn
      BY <2>1 DEF Raise, SessionState, Exceptions
    <2> HIDE DEF end
    <2> QED BY <2>2, <2>3, RaisesUnwritten
  <1>4. CASE Flush(s)
    <2>0. PICK fault \in BOOLEAN :
            \E sent \in FlushResults(se, TRUE, rows, busy, fault) :
              \/ Becomes(s, sent)
              \/ CommitReplays(s, sent)
              \/ CommitRaises(s, Raise(RollbackTxn(sent), sent.exc))
      BY <1>4 DEF Flush
    <2>1. PICK sent \in FlushResults(se, TRUE, rows, busy, fault) :
            \/ Becomes(s, sent)
            \/ CommitReplays(s, sent)
            \/ CommitRaises(s, Raise(RollbackTxn(sent), sent.exc))
      BY <2>0
    <2>2. sent \in FlushResults(se, TRUE, rows, busy, fault)
      OBVIOUS
    <2> HIDE DEF own, se, stored, busy
    <2>3. ReadOnly(sent)
      BY <1>1, <2>2, FlushReadOnly
    <2>4. sent \in SessionState
      BY <1>1, <2>2, FlushKeeps DEF Kept, Sound
    <2> QED BY <1>2, <2>1, <2>3, <2>4, ReplaysUnwritten, ReadOnlyMoves
  <1>5. CASE CommitRefused(s) \/ CommitAckLost(s)
    <2>1. CommitReplays(s, StatementFailed(se, "transient"))
      BY <1>5 DEF CommitRefused, CommitAckLost
    <2>2. StatementFailed(se, "transient") \in SessionState
      BY <1>1 DEF StatementFailed, SessionState, Exceptions
    <2> QED BY <2>1, <2>2, ReplaysUnwritten
  <1> QED BY <1>3, <1>4, <1>5

\* A commit that returns is over.
LEMMA CommitReturnsUnwritten ==
    ASSUME IInv, RInv, NEW s \in Sessions, CommitNothing(s) \/ CommitLands(s)
    PROVE  RInv'
  <1> DEFINE se    == ses[s]
             end   == Popped(s, LeaveQueue(CommitTxn(se)))
             peers == Outlived(s)
  <1>1. PICK on : /\ ses' = [on EXCEPT ![s] = end]
                  /\ on = ses \/ (on = peers /\ se.txn # NoTxn)
    BY DEF CommitNothing, CommitLands, CommitReturns
  <1>2. end.txn = NoTxn
    BY InvSound, CommitTold
  <1>3. ASSUME NEW t \in Sessions \ {s}, se.txn # NoTxn
        PROVE  peers[t] = ses[t] \/ (ses[t].txn # NoTxn
                  /\ \E held : peers[t] = [ses[t] EXCEPT !.txn.peers = held])
    <2>1. CASE ses[t].txn = NoTxn
      BY <2>1 DEF Outlived
    <2>2. CASE ses[t].txn # NoTxn
      <3> DEFINE held == ses[t].txn.peers \cup ses[s].txn.reads
      <3>1. ses[t].txn \in Txn /\ ses[t] \in SessionState
        BY <2>2, InvSound DEF SessionState
      <3>2. peers[t] = [ses[t] EXCEPT !.txn.peers = held]
        BY <2>2, <3>1 DEF Outlived, SessionState, Txn
      <3> QED BY <2>2, <3>2
    <2> QED BY <2>1, <2>2
  <1>4. DOMAIN ses = Sessions /\ DOMAIN peers = Sessions
    BY DEF IInv, TypeOK, Outlived
  <1> HIDE DEF peers, end
  <1>5. /\ ses'[s] = end
        /\ \A t \in Sessions \ {s} :
              ses'[t] = ses[t] \/ (ses[t].txn # NoTxn
                /\ \E held : ses'[t] = [ses[t] EXCEPT !.txn.peers = held])
    BY <1>1, <1>3, <1>4
  <1> QED BY <1>2, <1>5, ReadOnlyShared

\* Leaving the unit aborts, or keeps the transaction for its commit.
LEMMA UnitExitUnwritten ==
    ASSUME IInv, RInv, NEW s \in Sessions, UnitExit(s)
    PROVE  RInv'
  <1> DEFINE se     == [ses[s] EXCEPT !.units = 0, !.roRaised = FALSE]
             gone   == Abort(se)
             out(e) == Raise([gone EXCEPT !.ro = FALSE], e)
             lost   == [out("lost") EXCEPT !.roRaised = ses[s].roRaised]
             left   == [se EXCEPT !.ro = FALSE]
  <1>1. PICK end \in {lost, out("ro"), left, se} : Becomes(s, end)
    BY DEF UnitExit
  <1>2. ses[s] \in SessionState /\ ReadOnly(ses[s])
    BY InvSound DEF RInv
  <1>3. /\ se \in SessionState /\ se.txn = ses[s].txn /\ se.ledger = ses[s].ledger
        /\ left.txn = ses[s].txn /\ left.ledger = ses[s].ledger
    BY <1>2 DEF SessionState
  <1> HIDE DEF se, left
  <1>4. gone \in SessionState /\ gone.txn = NoTxn
    BY <1>3, AbortSound DEF Sound
  <1> HIDE DEF gone
  <1>5. lost.txn = NoTxn /\ out("ro").txn = NoTxn
    BY <1>4 DEF Raise, SessionState
  <1> HIDE DEF lost, out
  <1>6. end.txn = NoTxn \/ ReadOnly(end)
    BY <1>1, <1>2, <1>3, <1>5 DEF ReadOnly, OnSnapshot
  <1> QED BY <1>1, <1>6, ReadOnlyMoves

\* The loop's handlers abort.
LEMMA HandlesUnwritten ==
    ASSUME IInv, RInv, NEW s \in Sessions,
           HandleRoRetry(s) \/ HandleConflict(s) \/ HandleTransient(s) \/ HandleError(s)
    PROVE  RInv'
  <1> DEFINE calm == [ses[s] EXCEPT !.roRaised = FALSE]
  <1>1. Sound(ses[s]) /\ rows \in Rows /\ RoUnit \in BOOLEAN
    BY InvSound, ConstantsAssumption DEF IInv, TypeOK, RoUnit
  <1>2. Sound(calm)
    BY <1>1 DEF Sound, Mirrored, SessionState
  <1> HIDE DEF calm
  <1>3. ASSUME NEW se, Sound(se) PROVE Reenter(se) \in SessionState
    BY <1>1, <1>3, UnitEnterSound DEF Reenter, Sound
  <1>4. \/ Becomes(s, Abort(Reenter(calm))) \/ Becomes(s, Abort(Reenter(ses[s])))
        \/ Becomes(s, Abort(ses[s]))
    BY DEF HandleRoRetry, HandleConflict, HandleTransient, HandleError, calm
  <1>5. PICK x \in SessionState : Becomes(s, Abort(x))
    BY <1>1, <1>2, <1>3, <1>4 DEF Sound
  <1>6. Abort(x).txn = NoTxn
    BY AbortSound
  <1> QED BY <1>5, <1>6, ReadOnlyMoves

\* Waiting its turn a request has no transaction, or one that may write; the
\* next run opens one that has written nothing; a closed session has none.
LEMMA AgainUnwritten ==
    ASSUME IInv, WInv, RInv, NEW s \in Sessions,
           WaitTurn(s) \/ Pin(s) \/ Reload(s) \/ Close(s)
    PROVE  RInv'
  <1> DEFINE se   == ses[s]
             ids  == {id \in se.queued : rows[id] # NoRow}
             took == [se EXCEPT !.queued = se.contended]
             gave == [se EXCEPT !.queued = {}, !.contended = {}]
             open == BeginTxn(se, "serializable", rows)
             pins == [open EXCEPT !.txn.pins = ids]
  <1>1. se \in SessionState /\ ReadOnly(se) /\ Sound(se) /\ Tidy(se) /\ rows \in Rows
    BY InvSound, ServedNow DEF RInv, Kept
  <1>2. CASE UNCHANGED ses
    BY <1>2 DEF RInv, ReadOnly, OnSnapshot
  <1>3. CASE Becomes(s, took) \/ Becomes(s, gave)
    <2>1. /\ took.txn = se.txn /\ took.ledger = se.ledger
          /\ gave.txn = se.txn /\ gave.ledger = se.ledger
      BY <1>1 DEF SessionState
    <2> HIDE DEF took, gave
    <2>2. ReadOnly(took) /\ ReadOnly(gave)
      BY <1>1, <2>1 DEF ReadOnly, OnSnapshot
    <2> QED BY <1>3, <2>2, ReadOnlyMoves
  <1>4. CASE Becomes(s, pins)
    <2> DEFINE t == NewTxn("serializable", rows)
               x == [t EXCEPT !.pins = ids]
    <2>1. t \in Txn /\ t.iso = "serializable"
      BY <1>1, NewTxnType DEF NewTxn, Isolation
    <2>2. x.iso = "serializable"
      BY <2>1 DEF Txn
    <2>3. pins.txn = x
      BY <1>1 DEF BeginTxn, SessionState
    <2> HIDE DEF pins, x
    <2>4. ReadOnly(pins)
      BY <2>2, <2>3 DEF ReadOnly, OnSnapshot
    <2> QED BY <1>4, <2>4, ReadOnlyMoves
  <1>5. CASE Reload(s)
    <2>1. ReadOnly(EnsureTxn(se, rows)) /\ Becomes(s, EnsureTxn(se, rows))
      BY <1>1, <1>5, EnsureReadOnly DEF Reload
    <2> QED BY <2>1, ReadOnlyMoves
  <1>6. CASE Close(s)
    <2>1. Becomes(s, NewSession) /\ NewSession.txn = NoTxn
      BY <1>6 DEF Close, NewSession
    <2> QED BY <2>1, ReadOnlyMoves
  <1> QED BY <1>2, <1>3, <1>4, <1>5, <1>6 DEF WaitTurn, Pin

-----------------------------------------------------------------------------

\* Before any request has begun no transaction is open.
LEMMA InitUnwritten == Init => RInv
  BY DEF Init, RInv, NewSession, ReadOnly, OnSnapshot

\* Every step of a request keeps the snapshots unwritten.
LEMMA StepUnwritten ==
    ASSUME IInv, WInv, RInv, NEW s \in Sessions, Step(s)
    PROVE  RInv'
  <1>1. CASE Begin(s) \/ Read(s) \/ Scan(s) \/ Respond(s) \/ Retry(s)
    BY <1>1, BeginUnwritten, ReadsUnwritten
  <1>2. ASSUME NEW id \in Ids,
               WriteAnchor(s, id) \/ Mutate(s, id) \/ Create(s, id) \/ DeleteAnchor(s, id)
        PROVE  RInv'
    BY <1>2, WritesUnwritten
  <1>3. CASE Join(s) \/ EndWalk(s) \/ Fail(s) \/ Swallow(s) \/ Propagate(s) \/ Return(s)
    BY <1>3, JoinUnwritten, EndsUnwritten
  <1>4. CASE \/ CommitLost(s) \/ Flush(s) \/ CommitNothing(s) \/ CommitLands(s)
             \/ CommitRefused(s) \/ CommitAckLost(s)
    BY <1>4, CommitsUnwritten, CommitReturnsUnwritten
  <1>5. CASE UnitExit(s) \/ WaitTurn(s) \/ Pin(s) \/ Reload(s) \/ Close(s)
    BY <1>5, UnitExitUnwritten, AgainUnwritten
  <1>6. CASE HandleRoRetry(s) \/ HandleConflict(s) \/ HandleTransient(s) \/ HandleError(s)
    BY <1>6, HandlesUnwritten
  <1> QED BY <1>1, <1>2, <1>3, <1>4, <1>5, <1>6 DEF Step

\* A request lands what its own transaction wrote, and one on a snapshot wrote
\* nothing.
LEMMA LandsWritable ==
    ASSUME IInv, IInv', WInv, RInv, [Next]_vars, NEW s \in Sessions, Lands(s)
    PROVE  ses[s].txn.iso = "serializable"
  <1>1. PICK v \in landed' \ landed : v[1] = s
    BY DEF Lands
  <1>2. PICK t \in Sessions : Step(t)
    BY <1>1 DEF Next, Expire, vars
  <1>3. req[t].pc = "committing" /\ ses[t].txn # NoTxn /\ Apply(t)
    BY <1>1, <1>2, OnlyCommitsLand
  <1>4. t = s
    BY <1>1, <1>3, ApplyLands, MineApart
  <1>5. ReadOnly(ses[s]) /\ ses[s].txn \in Txn
    BY <1>3, <1>4, InvSound DEF RInv, SessionState
  <1>6. ~ OnSnapshot(ses[s])
    <2> SUFFICES ASSUME OnSnapshot(ses[s]) PROVE landed' = landed
      BY <1>1
    <2> QED BY <1>3, <1>4, <1>5 DEF ReadOnly, Apply, Wrote
  <1> QED BY <1>3, <1>4, <1>5, <1>6 DEF OnSnapshot, Txn, Isolation

\* Every landed write, and every landed statement that joined a transaction, is
\* committed by a SERIALIZABLE transaction.
THEOREM WritesSerialized == Spec => WritesAreSerializable
  <1>1. Init => RInv
    BY InitUnwritten
  <1>2. IInv /\ WInv /\ RInv /\ [Next]_vars => RInv'
    <2> SUFFICES ASSUME IInv, WInv, RInv, [Next]_vars PROVE RInv'
      OBVIOUS
    <2>1. ASSUME NEW s \in Sessions, Step(s) PROVE RInv'
      BY <2>1, StepUnwritten
    <2>2. UNCHANGED ses => RInv'
      BY DEF RInv, ReadOnly, OnSnapshot
    <2> QED BY <2>1, <2>2 DEF Next, Expire, vars
  <1>3. IInv /\ IInv' /\ WInv /\ RInv /\ [Next]_vars
           => [\A s \in Sessions : Lands(s) => ses[s].txn.iso = "serializable"]_vars
    BY LandsWritable
  <1> QED BY <1>1, <1>2, <1>3, Invariance, WorkKept, PTL DEF Spec, WritesAreSerializable
=============================================================================
