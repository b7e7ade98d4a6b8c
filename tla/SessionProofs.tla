--------------------------- MODULE SessionProofs ---------------------------
(***************************************************************************)
(* What every operator of Session keeps: the session has its type, and the  *)
(* ledger calls nothing written that the open transaction has not written;   *)
(* nothing the body did is forgotten before a COMMIT has applied it, and     *)
(* memory holds nothing that is neither stored nor the session's own;        *)
(* while no row is deleted, a session knows which row each content of its    *)
(* memory was computed from, and writes over that row alone; one that holds  *)
(* rows meets no conflict; and on a read-only snapshot nothing is written.   *)
(***************************************************************************)
EXTENDS Session, TLAPS

\* Where a transaction is open, the rows the ledger calls written are in it.
Mirrored(se) ==
    se.txn # NoTxn =>
        \A id \in Ids : se.ledger.upserted[id] # NoRow =>
            se.txn.own[id] \notin {Unwritten, NoRow}

Sound(se) == se \in SessionState /\ Mirrored(se)

\* Nothing of a transaction is in the ledger: one may begin.
Idle(se) == \A id \in Ids : se.ledger.upserted[id] = NoRow

-----------------------------------------------------------------------------
(* The ledger.                                                             *)

\* Every method of the ledger returns a ledger.
LEMMA LedgerTypes ==
    ASSUME NEW l \in Ledger, NEW ids \in SUBSET Ids
    PROVE  /\ Discard(l) \in Ledger /\ Promote(l) \in Ledger
           /\ Joined(l) \in Ledger /\ Forget(l, ids) \in Ledger
           /\ Removed(l, ids) \in Ledger
    BY DEF Ledger, Rows, MaybeRow, EmptyRows, Discard, Promote, Current,
           Joined, Forget, Removed

\* Rows loaded or upserted leave a typed ledger.
LEMMA LedgerWrites ==
    ASSUME NEW l \in Ledger, NEW ids \in SUBSET Ids,
           NEW row, \A id \in ids : row[id] \in RowState
    PROVE  Upserted(l, ids, row) \in Ledger /\ Loaded(l, ids, row) \in Ledger
    BY DEF Ledger, Rows, MaybeRow, Upserted, Loaded

\* Discard and Promote both leave nothing in flight.
LEMMA LedgerReset ==
    ASSUME NEW l \in Ledger
    PROVE  /\ \A id \in Ids : Discard(l).upserted[id] = NoRow
           /\ \A id \in Ids : Promote(l).upserted[id] = NoRow
    BY DEF Ledger, Rows, MaybeRow, EmptyRows, Discard, Promote

\* Outside the rows given, the ledger calls written what it did.
LEMMA LedgerKeeps ==
    ASSUME NEW l \in Ledger, NEW ids \in SUBSET Ids, NEW row
    PROVE  /\ \A id \in Ids : Removed(l, ids).upserted[id] =
                  IF id \in ids THEN NoRow ELSE l.upserted[id]
           /\ \A id \in Ids : Upserted(l, ids, row).upserted[id] =
                  IF id \in ids THEN row[id] ELSE l.upserted[id]
    BY DEF Ledger, Rows, MaybeRow, Removed, Upserted

\* A load never makes a row count as written.
LEMMA LoadedKeeps ==
    ASSUME NEW l \in Ledger, NEW ids \in SUBSET Ids, NEW row,
           NEW id \in Ids, l.upserted[id] = NoRow
    PROVE  Loaded(l, ids, row).upserted[id] = NoRow
    BY DEF Ledger, Rows, MaybeRow, Loaded

\* Forgetting anchors leaves what the transaction wrote on record.
LEMMA ForgetKeeps ==
    ASSUME NEW l \in Ledger, NEW ids \in SUBSET Ids
    PROVE  Forget(l, ids) \in Ledger /\ Forget(l, ids).upserted = l.upserted
    BY DEF Ledger, Rows, MaybeRow, Forget

-----------------------------------------------------------------------------
(* Ending and opening a transaction.                                       *)

\* _rollback_txn leaves a typed session, no transaction, nothing in flight.
LEMMA RollbackSound ==
    ASSUME NEW se \in SessionState
    PROVE  /\ RollbackTxn(se) \in SessionState
           /\ RollbackTxn(se).txn = NoTxn /\ Idle(RollbackTxn(se))
    BY LedgerTypes, LedgerReset
    DEF SessionState, RollbackTxn, Cached, Idle, Ledger

\* So a rolled-back session is sound and idle.
LEMMA RollbackIsSound ==
    ASSUME NEW se, se \in SessionState
    PROVE  Sound(RollbackTxn(se)) /\ Idle(RollbackTxn(se)) /\ RollbackTxn(se).txn = NoTxn
    BY RollbackSound DEF Sound, Mirrored

\* An exception changes neither transaction nor ledger.
LEMMA RaiseSound ==
    ASSUME NEW se, Sound(se), NEW e \in Exceptions
    PROVE  /\ Sound(Raise(se, e))
           /\ Raise(se, e).ledger = se.ledger /\ Raise(se, e).txn = se.txn
           /\ Raise(se, e).exc = e
    BY DEF Sound, Mirrored, SessionState, Raise

\* A statement that fails ends its transaction and leaves a sound session.
LEMMA StatementFailedSound ==
    ASSUME NEW se \in SessionState, NEW e \in Exceptions
    PROVE  Sound(StatementFailed(se, e)) /\ StatementFailed(se, e).exc = e
    BY DEF Sound, Mirrored, SessionState, StatementFailed

\* _replay_txn leaves a sound session, whether it replays or gives up.
LEMMA ReplaySound ==
    ASSUME NEW se \in SessionState, NEW exhausted \in BOOLEAN
    PROVE  Sound(ReplayTxn(se, exhausted))
    BY RollbackIsSound DEF Sound, Mirrored, SessionState, ReplayTxn, Exceptions

\* Either the transaction is open, or nothing is in flight, or the session
\* has raised TransactionLost: in every case it is sound.
LEMMA ReclaimSound ==
    ASSUME NEW se, Sound(se)
    PROVE  /\ Sound(ReclaimDeadTxn(se))
           /\ ReclaimDeadTxn(se).txn = NoTxn => Idle(ReclaimDeadTxn(se))
           /\ ReclaimDeadTxn(se).txn # NoTxn => ReclaimDeadTxn(se) = se
  <1> DEFINE back == RollbackTxn(se)
  <1>1. Sound(back) /\ Idle(back) /\ back.txn = NoTxn
    BY RollbackIsSound DEF Sound
  <1>2. Sound(Raise(back, "lost")) /\ Raise(back, "lost").ledger = back.ledger
        /\ Raise(back, "lost").txn = NoTxn
    BY <1>1, RaiseSound DEF Exceptions
  <1>3. CASE ~ InFlight(se.ledger) \/ se.txn # NoTxn
    BY <1>3 DEF ReclaimDeadTxn, InFlight, Idle
  <1>4. CASE ~ (~ InFlight(se.ledger) \/ se.txn # NoTxn)
    BY <1>1, <1>2, <1>4 DEF ReclaimDeadTxn, Idle
  <1> QED BY <1>3, <1>4

\* _commit_txn promotes the ledger: nothing is in flight after it.
LEMMA CommitSound ==
    ASSUME NEW se \in SessionState
    PROVE  Sound(CommitTxn(se)) /\ Idle(CommitTxn(se)) /\ CommitTxn(se).txn = NoTxn
  <1>1. Promote(se.ledger) \in Ledger
        /\ \A id \in Ids : Promote(se.ledger).upserted[id] = NoRow
    BY LedgerTypes, LedgerReset DEF SessionState
  <1>2. \A id \in Ids : se.ledger.upserted[id] # NoRow => se.ledger.upserted[id].val \in Val
    BY DEF SessionState, Ledger, Rows, MaybeRow, RowState
  <1>3. CommitTxn(se).mem \in [Ids -> Anchor \cup {NoAnchor}]
    BY <1>2 DEF SessionState, CommitTxn, Anchor
  <1> QED BY <1>1, <1>3 DEF SessionState, CommitTxn, Sound, Mirrored, Idle

\* Dropping what was loaded disturbs neither transaction nor its record.
LEMMA ForgetLoadedSound ==
    ASSUME NEW se, Sound(se)
    PROVE  Sound(ForgetLoaded(se)) /\ (Idle(se) => Idle(ForgetLoaded(se)))
           /\ ForgetLoaded(se).txn = se.txn
  <1>1. Cached(se) \in SUBSET Ids /\ se.ledger \in Ledger
    BY DEF Cached, Sound, SessionState
  <1>2. Forget(se.ledger, Cached(se)) \in Ledger
        /\ Forget(se.ledger, Cached(se)).upserted = se.ledger.upserted
    BY <1>1, ForgetKeeps
  <1> QED BY <1>2 DEF ForgetLoaded, SessionState, Sound, Mirrored, Idle

\* Session.abort leaves a sound session, no transaction, nothing in flight.
LEMMA AbortSound ==
    ASSUME NEW se, se \in SessionState
    PROVE  Sound(Abort(se)) /\ Idle(Abort(se)) /\ Abort(se).txn = NoTxn
           /\ Abort(se).exc = "none"
  <1> DEFINE told == [se EXCEPT !.contended = @ \cup se.lastConflict, !.lastConflict = {}]
             back == RollbackTxn(told)
             bare == ForgetLoaded(back)
  <1>1. told \in SessionState
    BY DEF SessionState
  <1> HIDE DEF told
  <1>2. Sound(back) /\ Idle(back) /\ back.txn = NoTxn
    BY <1>1, RollbackIsSound
  <1> HIDE DEF back
  <1>3. Sound(bare) /\ Idle(bare) /\ bare.txn = NoTxn
    BY <1>2, ForgetLoadedSound
  <1>4. Abort(se) = [bare EXCEPT !.dirty = {}, !.deleted = {},
                        !.snapshotReads = {}, !.lost = FALSE, !.exc = "none"]
    BY DEF Abort, told, back
  <1> HIDE DEF bare
  <1>5. /\ Abort(se).ledger = bare.ledger /\ Abort(se).txn = bare.txn
        /\ Abort(se).exc = "none" /\ Abort(se) \in SessionState
    BY <1>3, <1>4 DEF SessionState, Sound, Exceptions
  <1> QED BY <1>3, <1>5 DEF Sound, Mirrored, Idle

\* Leaving the write queue leaves the unit of work alone.
LEMMA LeaveQueueSound ==
    ASSUME NEW se, Sound(se)
    PROVE  Sound(LeaveQueue(se))
  <1>1. LeaveQueue(se) \in SessionState
    BY DEF Sound, SessionState, LeaveQueue
  <1> QED BY <1>1 DEF Sound, Mirrored, SessionState, LeaveQueue

-----------------------------------------------------------------------------
(* Opening one.                                                            *)

\* A transaction just begun is a transaction.
LEMMA NewTxnType ==
    ASSUME NEW isolation \in Isolation, NEW rows \in Rows
    PROVE  NewTxn(isolation, rows) \in Txn
    BY DEF NewTxn, Txn, Isolation

\* A transaction may begin only over an idle ledger.
LEMMA BeginSound ==
    ASSUME NEW se, Sound(se), Idle(se), NEW isolation \in Isolation, NEW rows \in Rows
    PROVE  Sound(BeginTxn(se, isolation, rows))
           /\ BeginTxn(se, isolation, rows).ledger = se.ledger
           /\ BeginTxn(se, isolation, rows).txn = NewTxn(isolation, rows)
    BY NewTxnType DEF Sound, Mirrored, Idle, SessionState, BeginTxn

\* Dropping snapshot reads disturbs neither transaction nor its record.
LEMMA DropSound ==
    ASSUME NEW se, Sound(se)
    PROVE  Sound(DropSnapshotReads(se)) /\ (Idle(se) => Idle(DropSnapshotReads(se)))
  <1> DEFINE stale == se.snapshotReads \ (se.dirty \cup se.deleted)
  <1>1. Forget(se.ledger, stale) \in Ledger
        /\ Forget(se.ledger, stale).upserted = se.ledger.upserted
    BY ForgetKeeps DEF Sound, SessionState
  <1> QED BY <1>1 DEF DropSnapshotReads, Sound, Mirrored, SessionState, Idle

\* _raise_ro_retry leaves a sound session.
LEMMA RoRetrySound ==
    ASSUME NEW se \in SessionState
    PROVE  Sound(RaiseRoRetry(se))
    BY RollbackIsSound DEF RaiseRoRetry, Sound, Mirrored, SessionState, Exceptions

\* _begin_writable raises or returns an open transaction, in a sound session.
LEMMA BeginWritableSound ==
    ASSUME NEW se, Sound(se), NEW rows \in Rows
    PROVE  /\ Sound(BeginWritable(se, rows))
           /\ Ok(BeginWritable(se, rows)) => BeginWritable(se, rows).txn # NoTxn
  <1> DEFINE live == ReclaimDeadTxn(se)
  <1>1. Sound(live) /\ (live.txn = NoTxn => Idle(live))
    BY ReclaimSound
  <1> HIDE DEF live
  <1>2. Sound(Raise(se, "ro")) /\ Raise(se, "ro").exc # "none"
    BY RaiseSound DEF Exceptions
  <1>3. Sound(RaiseRoRetry(live)) /\ RaiseRoRetry(live).exc # "none"
    BY <1>1, RoRetrySound, RollbackIsSound DEF RaiseRoRetry, Sound, SessionState
  <1>4. CommitTxn(live) \in SessionState /\ Sound(CommitTxn(live)) /\ Idle(CommitTxn(live))
    BY <1>1, CommitSound DEF Sound
  <1>5. Sound(DropSnapshotReads(CommitTxn(live))) /\ Idle(DropSnapshotReads(CommitTxn(live)))
    BY <1>4, DropSound
  <1>6. \A i \in Isolation : NewTxn(i, rows) # NoTxn
    BY NewTxnType, NoTxnAssumption
  <1>7. /\ Sound(BeginTxn(DropSnapshotReads(CommitTxn(live)), "serializable", rows))
        /\ BeginTxn(DropSnapshotReads(CommitTxn(live)), "serializable", rows).txn # NoTxn
    BY <1>5, <1>6, BeginSound DEF Isolation
  <1>8. live.txn = NoTxn => Sound(BeginTxn(live, "serializable", rows))
                            /\ BeginTxn(live, "serializable", rows).txn # NoTxn
    BY <1>1, <1>6, BeginSound DEF Isolation
  <1>9. BeginWritable(se, rows) =
          IF se.roRaised THEN Raise(se, "ro")
          ELSE IF ~ Ok(live) THEN live
          ELSE IF OnSnapshot(live)
               THEN IF live.ro THEN RaiseRoRetry(live)
                    ELSE BeginTxn(DropSnapshotReads(CommitTxn(live)), "serializable", rows)
          ELSE IF live.txn = NoTxn THEN BeginTxn(live, "serializable", rows)
          ELSE live
    BY DEF BeginWritable, live
  <1> QED BY <1>1, <1>2, <1>3, <1>7, <1>8, <1>9 DEF Ok

\* _ensure_txn raises or returns an open transaction, in a sound session.
LEMMA EnsureSound ==
    ASSUME NEW se, Sound(se), NEW rows \in Rows
    PROVE  /\ Sound(EnsureTxn(se, rows))
           /\ Ok(EnsureTxn(se, rows)) => EnsureTxn(se, rows).txn # NoTxn
  <1> DEFINE live == ReclaimDeadTxn(se)
  <1>1. Sound(live) /\ (live.txn = NoTxn => Idle(live))
    BY ReclaimSound
  <1> HIDE DEF live
  <1>2. TxnIsolation(live) \in Isolation
    BY DEF TxnIsolation, Isolation
  <1>3. \A i \in Isolation : NewTxn(i, rows) # NoTxn
    BY NewTxnType, NoTxnAssumption
  <1>4. live.txn = NoTxn => Sound(BeginTxn(live, TxnIsolation(live), rows))
                            /\ BeginTxn(live, TxnIsolation(live), rows).txn # NoTxn
    BY <1>1, <1>2, <1>3, BeginSound
  <1>5. /\ Sound(BeginWritable(live, rows))
        /\ Ok(BeginWritable(live, rows)) => BeginWritable(live, rows).txn # NoTxn
    BY <1>1, BeginWritableSound
  <1>6. EnsureTxn(se, rows) =
          IF ~ Ok(live) THEN live
          ELSE IF live.txn = NoTxn THEN BeginTxn(live, TxnIsolation(live), rows)
          ELSE IF TxnIsolation(live) = "serializable" THEN BeginWritable(live, rows)
          ELSE live
    BY DEF EnsureTxn, live
  <1> QED BY <1>1, <1>4, <1>5, <1>6

\* ensure_writable_txn does so too, with the caller's statement on record.
LEMMA EnsureWritableSound ==
    ASSUME NEW se, Sound(se), NEW rows \in Rows
    PROVE  /\ Sound(EnsureWritableTxn(se, rows))
           /\ Ok(EnsureWritableTxn(se, rows)) => EnsureWritableTxn(se, rows).txn # NoTxn
  <1> DEFINE open == BeginWritable(se, rows)
  <1>1. Sound(open) /\ (Ok(open) => open.txn # NoTxn)
    BY BeginWritableSound
  <1>2. Joined(open.ledger) \in Ledger
        /\ Joined(open.ledger).upserted = open.ledger.upserted
    BY <1>1, LedgerTypes DEF Sound, SessionState, Joined, Ledger
  <1>3. EnsureWritableTxn(se, rows) =
           IF Ok(open) THEN [open EXCEPT !.ledger = Joined(@)] ELSE open
    BY DEF EnsureWritableTxn
  <1> HIDE DEF open
  <1> QED BY <1>1, <1>2, <1>3 DEF Sound, Mirrored, SessionState, Ok

\* Entering a unit keeps the session sound, with or without a transaction.
LEMMA UnitEnterSound ==
    ASSUME NEW se, Sound(se), NEW ro \in BOOLEAN, NEW rows \in Rows
    PROVE  Sound(UnitEnter(se, ro, rows))
  <1> DEFINE entered == [se EXCEPT !.units = 1, !.ro = ro]
  <1>1. Sound(entered)
    BY DEF Sound, Mirrored, SessionState
  <1> HIDE DEF entered
  <1>2. Sound(EnsureTxn(entered, rows))
    BY <1>1, EnsureSound
  <1> QED BY <1>1, <1>2 DEF UnitEnter, entered

-----------------------------------------------------------------------------
(* Flushing and reading.                                                   *)

\* A lock timeout, a lost race or a transient error, leaves a sound session.
LEMMA LockTimeoutSound ==
    ASSUME NEW se \in SessionState, NEW ids \in SUBSET Ids
    PROVE  Sound(LockTimeout(se, ids))
  <1>1. Sound(StatementFailed(se, "transient"))
    BY StatementFailedSound DEF Exceptions
  <1> DEFINE failed == StatementFailed(se, "conflict")
  <1>2. Sound(failed)
    BY StatementFailedSound DEF Exceptions
  <1> HIDE DEF failed
  <1>3. Sound([failed EXCEPT !.lastConflict = ids])
    BY <1>2 DEF Sound, Mirrored, SessionState
  <1> QED BY <1>1, <1>3 DEF LockTimeout, failed

\* The version an upsert presents is a natural number.
LEMMA WriteVersionType ==
    ASSUME NEW l \in Ledger, NEW id \in Ids
    PROVE  WriteVersion(l, id) \in Nat
    BY DEF WriteVersion, Current, Ledger, Rows, MaybeRow, RowState

\* What an upsert reports written is in the transaction, also when a stale row
\* stops it half way.
LEMMA UpsertSound ==
    ASSUME NEW se, Sound(se), se.txn # NoTxn, NEW rows \in Rows,
           NEW content, DOMAIN content \in SUBSET Ids,
           \A id \in DOMAIN content : content[id] \in Val,
           NEW sent \in Upsert(se, content, rows)
    PROVE  Sound(sent) /\ (Ok(sent) => sent.txn # NoTxn)
  <1> DEFINE ids     == DOMAIN content
             version == [id \in ids |-> WriteVersion(se.ledger, id)]
             row     == [id \in ids |-> UpsertedRow(se.txn, rows, id,
                            [version |-> version[id], val |-> content[id]])]
             stale   == {id \in ids : UpsertStale(se.txn, rows, id, version[id])}
             txn     == Write(se.txn, ids \ stale, row)
  <1>1. \A id \in ids : version[id] \in Nat
    BY WriteVersionType DEF Sound, SessionState
  <1>2. \A id \in ids : row[id] \in RowState
    BY <1>1 DEF UpsertedRow, RowState
  <1> HIDE DEF row
  <1>3. se.txn \in Txn
    BY DEF Sound, SessionState
  <1>4. txn \in Txn
    BY <1>2, <1>3 DEF Write, Txn, MaybeRow
  <1>5. \A id \in Ids : txn.own[id] = IF id \in ids \ stale THEN row[id] ELSE se.txn.own[id]
    BY <1>3 DEF Write, Txn
  <1>6. \A id \in ids : row[id] \notin {Unwritten, NoRow}
    BY <1>2, UnwrittenAssumption, NoRowAssumption DEF MaybeRow
  <1>7. txn # NoTxn
    BY <1>4, NoTxnAssumption
  <1>8. Upserted(se.ledger, ids, row) \in Ledger
    BY <1>2, LedgerWrites DEF Sound, SessionState
  <1>9. \A id \in Ids : Upserted(se.ledger, ids, row).upserted[id] =
            IF id \in ids THEN row[id] ELSE se.ledger.upserted[id]
    <2> HIDE DEF version, stale, txn
    <2>1. se.ledger \in Ledger /\ ids \in SUBSET Ids
      BY DEF Sound, SessionState
    <2> HIDE DEF ids
    <2> QED BY <2>1 DEF Ledger, Rows, MaybeRow, Upserted
  <1>10. Upsert(se, content, rows) =
           IF stale = {}
           THEN {[se EXCEPT !.txn = txn, !.ledger = Upserted(@, ids, row)]}
           ELSE {[se EXCEPT !.txn = txn, !.lastConflict = {first}, !.exc = "conflict"] :
                    first \in stale}
    BY DEF Upsert, row
  <1> DEFINE good == [se EXCEPT !.txn = txn, !.ledger = Upserted(@, ids, row)]
  <1>11. CASE stale = {}
    <2>1. sent = good
      BY <1>10, <1>11
    <2>2. \A id \in Ids : good.ledger.upserted[id] # NoRow
                             => good.txn.own[id] \notin {Unwritten, NoRow}
      <3> SUFFICES ASSUME NEW id \in Ids, good.ledger.upserted[id] # NoRow
                   PROVE  good.txn.own[id] \notin {Unwritten, NoRow}
        OBVIOUS
      <3> HIDE DEF txn, stale, version
      <3>1. good.ledger = Upserted(se.ledger, ids, row) /\ good.txn = txn
        BY DEF Sound, SessionState
      <3>2. CASE id \in ids
        BY <3>1, <3>2, <1>5, <1>6, <1>11
      <3>3. CASE id \notin ids
        BY <3>1, <3>3, <1>5, <1>9 DEF Sound, Mirrored
      <3> QED BY <3>2, <3>3
    <2> HIDE DEF txn, stale, version
    <2>3. good \in SessionState /\ good.txn # NoTxn
      BY <1>4, <1>7, <1>8 DEF Sound, SessionState
    <2> QED BY <2>1, <2>2, <2>3 DEF Sound, Mirrored
  <1>12. CASE stale # {}
    <2>1. PICK first \in stale :
             sent = [se EXCEPT !.txn = txn, !.lastConflict = {first}, !.exc = "conflict"]
      BY <1>10, <1>12
    <2>2. first \in Ids
      OBVIOUS
    <2> HIDE DEF txn, stale, version
    <2>3. sent \in SessionState /\ sent.txn = txn /\ sent.ledger = se.ledger
      BY <2>1, <2>2, <1>4 DEF Sound, SessionState, Exceptions
    <2>4. \A id \in Ids : txn.own[id] \in {se.txn.own[id]} \cup {row[i] : i \in ids}
      BY <1>5 DEF stale
    <2> QED BY <2>3, <2>4, <1>6, <1>7 DEF Sound, Mirrored
  <1> QED BY <1>11, <1>12

\* So is every outcome of an upsert: outdated, blocked or sent.
LEMMA UpsertResultsSound ==
    ASSUME NEW se, Sound(se), se.txn # NoTxn, NEW rows \in Rows, NEW busy,
           NEW content, DOMAIN content \in SUBSET Ids,
           \A id \in DOMAIN content : content[id] \in Val,
           NEW sent \in UpsertResults(se, content, rows, busy)
    PROVE  Sound(sent) /\ (Ok(sent) => sent.txn # NoTxn)
  <1>1. Sound(StatementFailed(se, "transient")) /\ ~ Ok(StatementFailed(se, "transient"))
    BY StatementFailedSound DEF Sound, Exceptions, Ok
  <1>2. Sound(LockTimeout(se, DOMAIN content)) /\ ~ Ok(LockTimeout(se, DOMAIN content))
    <2>1. Sound(LockTimeout(se, DOMAIN content))
      BY LockTimeoutSound DEF Sound
    <2>2. LockTimeout(se, DOMAIN content).exc \in {"transient", "conflict"}
      BY DEF LockTimeout, StatementFailed, Sound, SessionState
    <2> QED
      BY <2>1, <2>2 DEF Ok
  <1>3. \A up \in Upsert(se, content, rows) : Sound(up) /\ (Ok(up) => up.txn # NoTxn)
    BY UpsertSound
  <1>4. sent \in {StatementFailed(se, "transient"), LockTimeout(se, DOMAIN content)}
                   \cup Upsert(se, content, rows)
    BY DEF UpsertResults
  <1> QED BY <1>1, <1>2, <1>3, <1>4

\* A DELETE touches the rows it names and no other.
LEMMA EraseType ==
    ASSUME NEW t \in Txn, NEW ids \in SUBSET Ids
    PROVE  /\ Erase(t, ids) \in Txn
           /\ \A id \in Ids \ ids : Erase(t, ids).own[id] = t.own[id]
    BY DEF Erase, Txn, MaybeRow

\* Every outcome of a delete is sound.
LEMMA DeleteResultsSound ==
    ASSUME NEW se, Sound(se), se.txn # NoTxn, NEW rows \in Rows, NEW busy,
           NEW sent \in DeleteResults(se, rows, busy)
    PROVE  Sound(sent) /\ (Ok(sent) => sent.txn # NoTxn)
  <1> DEFINE ids  == se.deleted
             done == [se EXCEPT !.txn = Erase(@, ids),
                                !.ledger = Removed(@, ids), !.deleted = {}]
  <1>1. Sound(StatementFailed(se, "transient")) /\ Sound(LockTimeout(se, ids))
        /\ ~ Ok(StatementFailed(se, "transient")) /\ ~ Ok(LockTimeout(se, ids))
    <2>1. Sound(StatementFailed(se, "transient")) /\ Sound(LockTimeout(se, ids))
      BY StatementFailedSound, LockTimeoutSound DEF Sound, SessionState, Exceptions
    <2>2. ~ Ok(StatementFailed(se, "transient")) /\ ~ Ok(LockTimeout(se, ids))
      BY DEF LockTimeout, StatementFailed, Sound, SessionState, Ok
    <2> QED BY <2>1, <2>2
  <1>2. Erase(se.txn, ids) \in Txn
        /\ \A id \in Ids \ ids : Erase(se.txn, ids).own[id] = se.txn.own[id]
    BY EraseType DEF Sound, SessionState
  <1>3. /\ Removed(se.ledger, ids) \in Ledger
        /\ \A id \in Ids : Removed(se.ledger, ids).upserted[id] =
              IF id \in ids THEN NoRow ELSE se.ledger.upserted[id]
    BY LedgerTypes, LedgerKeeps DEF Sound, SessionState
  <1>4. Sound(done) /\ done.txn # NoTxn
    BY <1>2, <1>3, NoTxnAssumption DEF Sound, Mirrored, SessionState
  <1>5. sent \in {StatementFailed(se, "transient"), LockTimeout(se, ids), done}
    BY DEF DeleteResults
  <1> QED BY <1>1, <1>4, <1>5

\* The upserts and deletes of a flush, with an error after either, are sound.
LEMMA WriteResultsSound ==
    ASSUME NEW se, Sound(se), se.txn # NoTxn, NEW rows \in Rows, NEW busy, NEW fault,
           NEW content, DOMAIN content \in SUBSET Ids,
           \A id \in DOMAIN content : content[id] \in Val,
           NEW sent \in WriteResults(se, content, rows, busy, fault)
    PROVE  Sound(sent) /\ (Ok(sent) => sent.txn # NoTxn)
  <1> DEFINE upserts == IF DOMAIN content = {} THEN {se}
                        ELSE UpsertResults(se, content, rows, busy)
             landed  == {up \in upserts : Ok(up)}
             after(up) == IF up.deleted = {} THEN {up} ELSE DeleteResults(up, rows, busy)
             deletes == UNION {after(up) : up \in landed}
  <1>1. \A up \in upserts : Sound(up) /\ (Ok(up) => up.txn # NoTxn)
    BY UpsertResultsSound
  <1> HIDE DEF upserts
  <1>2. \A up \in landed : \A d \in after(up) : Sound(d) /\ (Ok(d) => d.txn # NoTxn)
    BY <1>1, DeleteResultsSound
  <1>3. \A up \in {se} \cup landed : /\ Sound(StatementFailed(up, "transient"))
                                     /\ ~ Ok(StatementFailed(up, "transient"))
    BY <1>1, StatementFailedSound DEF Sound, Exceptions, Ok
  <1>4. WriteResults(se, content, rows, busy, fault) =
          IF fault
          THEN {StatementFailed(up, "transient") :
                   up \in {se} \cup {up \in landed : up.deleted # {}}}
          ELSE {up \in upserts : ~ Ok(up)} \cup deletes
    BY DEF WriteResults, upserts
  <1>5. CASE fault
    BY <1>3, <1>4, <1>5
  <1>6. CASE ~ fault
    BY <1>1, <1>2, <1>4, <1>6
  <1> QED BY <1>5, <1>6

\* Session.flush is sound in every outcome, and one that succeeds ends no
\* transaction.
LEMMA FlushSound ==
    ASSUME NEW se, Sound(se), NEW full, NEW rows \in Rows, NEW busy, NEW fault,
           NEW sent \in FlushResults(se, full, rows, busy, fault)
    PROVE  Sound(sent) /\ (Ok(sent) /\ se.txn # NoTxn => sent.txn # NoTxn)
  <1> DEFINE live    == ReclaimDeadTxn(se)
             ids     == Unflushed(live, full)
             open    == BeginWritable(live, rows)
             content == [id \in ids |-> live.mem[id].val]
             wrote   == WriteResults(open, content, rows, busy, fault)
  <1>1. Sound(live) /\ (se.txn # NoTxn => live.txn # NoTxn)
    BY ReclaimSound DEF ReclaimDeadTxn
  <1>2. Sound(open) /\ (Ok(open) => open.txn # NoTxn)
    BY <1>1, BeginWritableSound
  <1>3. /\ DOMAIN content \in SUBSET Ids
        /\ \A id \in DOMAIN content : content[id] \in Val
    BY <1>1 DEF Unflushed, Cached, Sound, SessionState, Anchor
  <1>4. Ok(open) => \A w \in wrote : Sound(w) /\ (Ok(w) => w.txn # NoTxn)
    BY <1>2, <1>3, WriteResultsSound
  <1>5. \A w : Sound(w) => /\ Sound([w EXCEPT !.dirty = {}])
                           /\ [w EXCEPT !.dirty = {}].txn = w.txn
                           /\ [w EXCEPT !.dirty = {}].exc = w.exc
    BY DEF Sound, Mirrored, SessionState
  <1>6. FlushResults(se, full, rows, busy, fault) =
          IF ~ Ok(live) THEN {live}
          ELSE IF ids = {} /\ live.deleted = {}
               THEN IF fault THEN {} ELSE {[live EXCEPT !.dirty = {}]}
          ELSE IF ~ Ok(open) THEN {open}
          ELSE {IF Ok(w) THEN [w EXCEPT !.dirty = {}] ELSE w : w \in wrote}
    BY DEF FlushResults
  <1> HIDE DEF live, ids, open, wrote
  <1>7. CASE ~ Ok(live)
    BY <1>1, <1>6, <1>7
  <1>8. CASE Ok(live) /\ ids = {} /\ live.deleted = {}
    <2>1. sent = [live EXCEPT !.dirty = {}]
      BY <1>6, <1>8
    <2> QED BY <2>1, <1>1, <1>5
  <1>9. CASE Ok(live) /\ ~ (ids = {} /\ live.deleted = {}) /\ ~ Ok(open)
    BY <1>2, <1>6, <1>9
  <1>10. CASE Ok(live) /\ ~ (ids = {} /\ live.deleted = {}) /\ Ok(open)
    <2>1. PICK w \in wrote : sent = IF Ok(w) THEN [w EXCEPT !.dirty = {}] ELSE w
      BY <1>6, <1>10
    <2>2. Sound(w) /\ (Ok(w) => w.txn # NoTxn)
      BY <1>4, <1>10
    <2>3. CASE Ok(w)
      <3>1. sent = [w EXCEPT !.dirty = {}]
        BY <2>1, <2>3
      <3>2. Sound(sent) /\ sent.txn = w.txn
        BY <3>1, <2>2, <1>5
      <3> QED BY <3>2, <2>2, <2>3
    <2>4. CASE ~ Ok(w)
      BY <2>1, <2>2, <2>4
    <2> QED BY <2>3, <2>4
  <1> QED BY <1>7, <1>8, <1>9, <1>10

\* A read barrier that succeeds has left a transaction open.
LEMMA BarrierSound ==
    ASSUME NEW se, Sound(se), NEW rows \in Rows, NEW busy, NEW fault,
           NEW open \in BarrierResults(se, rows, busy, fault)
    PROVE  Sound(open) /\ (Ok(open) => open.txn # NoTxn)
    BY EnsureSound, FlushSound DEF BarrierResults

\* What load_full answers enters memory and the ledger as it is.
LEMMA LoadSound ==
    ASSUME NEW se, Sound(se), se.txn # NoTxn, NEW ids \in SUBSET Ids
    PROVE  Sound(Load(se, ids))
  <1> DEFINE row == [id \in Ids |-> Visible(se.txn, id)]
             new == {id \in ids : row[id] # NoRow /\ se.mem[id] = NoAnchor}
  <1>1. se.txn \in Txn
    BY DEF Sound, SessionState
  <1>2. \A id \in new : row[id] \in RowState
    BY <1>1 DEF Txn, Visible, Rows, MaybeRow
  <1>3. Reading(se.txn, ids) \in Txn /\ Reading(se.txn, ids).own = se.txn.own
    BY <1>1 DEF Reading, Txn
  <1>4. /\ Loaded(se.ledger, new, row) \in Ledger
        /\ \A id \in Ids : se.ledger.upserted[id] = NoRow =>
              Loaded(se.ledger, new, row).upserted[id] = NoRow
    <2> HIDE DEF row
    <2>1. se.ledger \in Ledger /\ new \in SUBSET Ids
      BY DEF Sound, SessionState
    <2> HIDE DEF new
    <2>2. Loaded(se.ledger, new, row) \in Ledger
      BY <2>1, <1>2, LedgerWrites
    <2>3. \A id \in Ids : se.ledger.upserted[id] = NoRow =>
             Loaded(se.ledger, new, row).upserted[id] = NoRow
      BY <2>1, LoadedKeeps
    <2> QED BY <2>2, <2>3
  <1> HIDE DEF row
  <1>5. \A id \in new : [val |-> row[id].val, base |-> row[id].val] \in Anchor
    BY <1>2 DEF Anchor, RowState
  <1>6. Load(se, ids) = [se EXCEPT
           !.txn = Reading(@, ids),
           !.mem = [id \in Ids |-> IF id \in new
                      THEN [val |-> row[id].val, base |-> row[id].val] ELSE @[id]],
           !.ledger = Loaded(@, new, row),
           !.snapshotReads = IF OnSnapshot(se) THEN @ \cup new ELSE @]
    BY DEF Load, row
  <1> HIDE DEF new
  <1>7. new \subseteq Ids
    BY DEF new
  <1>8. Load(se, ids) \in SessionState
    <2> DEFINE mem == [id \in Ids |-> IF id \in new
                         THEN [val |-> row[id].val, base |-> row[id].val]
                         ELSE se.mem[id]]
               reads == IF OnSnapshot(se) THEN se.snapshotReads \cup new
                        ELSE se.snapshotReads
    <2>1. mem \in [Ids -> Anchor \cup {NoAnchor}]
      BY <1>5 DEF Sound, SessionState
    <2>2. reads \in SUBSET Ids
      BY <1>7 DEF Sound, SessionState
    <2>3. Load(se, ids) = [se EXCEPT !.txn = Reading(@, ids), !.mem = mem,
              !.ledger = Loaded(@, new, row), !.snapshotReads = reads]
      BY <1>6 DEF Sound, SessionState
    <2> HIDE DEF mem, reads
    <2> QED BY <1>3, <1>4, <2>1, <2>2, <2>3 DEF Sound, SessionState
  <1>9. Mirrored(Load(se, ids))
    BY <1>3, <1>4, <1>6 DEF Sound, Mirrored, SessionState
  <1> QED BY <1>8, <1>9 DEF Sound

-----------------------------------------------------------------------------
(* What a session knows of its work.                                       *)

\* Memory, dirty set and deletions agree; only the read tier reads a snapshot.
Tidy(se) ==
    /\ se.dirty \subseteq Cached(se)
    /\ se.deleted \cap Cached(se) = {}
    /\ OnSnapshot(se) => se.ro

\* Once the read tier has raised, no transaction of the unit carries a write.
Wary(se) ==
    se.roRaised /\ se.txn # NoTxn =>
        se.txn.joins = {} /\ \A id \in Ids : se.txn.own[id] \in {Unwritten, NoRow}

\* Ledger and open transaction agree on the rows outside S.
ExactOff(se, S) ==
    se.txn # NoTxn =>
        \A id \in Ids \ S :
            /\ (se.ledger.upserted[id] # NoRow \/ se.txn.own[id] \notin {Unwritten, NoRow})
                  => se.txn.own[id] = se.ledger.upserted[id]
            /\ id \in se.ledger.removed => Visible(se.txn, id) = NoRow

\* They agree on every row with nothing left to flush.
Exact(se) == ExactOff(se, se.dirty \cup se.deleted)

\* Every row of the table has a content of the set.
Within(rows, stored) ==
    rows \in Rows /\ \A id \in Ids : rows[id] # NoRow => rows[id].val \in stored

\* What the ledger calls committed, and what the snapshot shows, is stored.
Honest(se, stored) ==
    /\ \A id \in Ids : se.ledger.committed[id] # NoRow
                          => se.ledger.committed[id].val \in stored
    /\ se.txn # NoTxn =>
          \A id \in Ids : se.txn.snap[id] # NoRow => se.txn.snap[id].val \in stored

\* What memory, ledger and transaction hold beyond the store is the session's
\* own work.
Signed(se, own) ==
    /\ \A id \in Cached(se) :
          \/ se.mem[id].val \in own
          \/ /\ id \notin se.dirty /\ Current(se.ledger, id) # NoRow
             /\ Current(se.ledger, id).val = se.mem[id].val
    /\ \A id \in Ids : se.ledger.upserted[id] # NoRow
                          => se.ledger.upserted[id].val \in own
    /\ se.txn # NoTxn =>
          /\ se.txn.joins \subseteq own
          /\ \A id \in Ids : se.txn.own[id] \notin {Unwritten, NoRow}
                                => se.txn.own[id].val \in own

Kept(se, stored, own) ==
    Sound(se) /\ Tidy(se) /\ Wary(se) /\ Honest(se, stored) /\ Signed(se, own)

Faithful(se, stored, own) == Kept(se, stored, own) /\ Exact(se)

\* The write j commits with the session's next transaction, or the session
\* refuses to commit.
Rides(se, j) ==
    se.lost \/ (se.ledger.joined /\ (se.txn # NoTxn => j \in se.txn.joins))

\* Nothing the body did is forgotten between se and end, in the same unit.
Follows(se, end) ==
    /\ end.units = se.units
    /\ \A id \in Ids : se.mem[id] # NoAnchor =>
          end.mem[id] # NoAnchor /\ end.mem[id].val = se.mem[id].val
    /\ \A j \in Val : Rides(se, j) => Rides(end, j)

\* Nothing is left to write.
Clean(se) == /\ se.deleted = {} /\ ~ InFlight(se.ledger)
             /\ Unflushed(se, TRUE) = {}

\* Nothing is left to flush: all there is to write is in the open transaction.
Flushed(se) == /\ se.deleted = {} /\ ~ se.lost /\ Unflushed(se, TRUE) = {}
               /\ se.txn = NoTxn => ~ InFlight(se.ledger)

-----------------------------------------------------------------------------

\* The ledger is as exact as before if it and the transaction say the same.
LEMMA SameExact ==
    ASSUME NEW se, NEW end, end.txn # NoTxn => se.txn # NoTxn, NEW S, NEW T, S \subseteq T,
           \A id \in Ids : /\ end.txn.own[id] = se.txn.own[id]
                           /\ end.txn.snap[id] = se.txn.snap[id]
                           /\ end.ledger.upserted[id] = se.ledger.upserted[id]
                           /\ id \in end.ledger.removed => id \in se.ledger.removed
    PROVE  ExactOff(se, S) => ExactOff(end, T)
  <1> SUFFICES ASSUME ExactOff(se, S), end.txn # NoTxn, NEW id \in Ids \ T
               PROVE  /\ (end.ledger.upserted[id] # NoRow
                             \/ end.txn.own[id] \notin {Unwritten, NoRow})
                            => end.txn.own[id] = end.ledger.upserted[id]
                      /\ id \in end.ledger.removed => Visible(end.txn, id) = NoRow
    BY DEF ExactOff
  <1>1. id \in Ids \ S /\ se.txn # NoTxn
    OBVIOUS
  <1> QED BY <1>1 DEF ExactOff, Visible

\* A step that changes nothing forgets nothing.
LEMMA FollowsSelf == ASSUME NEW se PROVE Follows(se, se)
  BY DEF Follows

\* Nor do two steps that each forget nothing.
LEMMA FollowsOn ==
    ASSUME NEW se, NEW mid, NEW end, Follows(se, mid), Follows(mid, end)
    PROVE  Follows(se, end)
  BY DEF Follows

\* The fields the work is in.
Work(se) == <<se.txn, se.ledger, se.mem, se.dirty, se.deleted, se.lost>>

\* A step that leaves those fields alone keeps what is said of the work.
LEMMA SameWork ==
    ASSUME NEW se, NEW end, Work(end) = Work(se), end \in SessionState,
           NEW stored, NEW own,
           OnSnapshot(end) => end.ro, end.roRaised /\ end.txn # NoTxn => se.roRaised
    PROVE  /\ Kept(se, stored, own) => Kept(end, stored, own)
           /\ Exact(se) => Exact(end)
           /\ end.units = se.units => Follows(se, end)
           /\ Clean(se) => Clean(end)
           /\ Flushed(se) => Flushed(end)
  <1>1. /\ end.txn = se.txn /\ end.ledger = se.ledger /\ end.mem = se.mem
        /\ end.dirty = se.dirty /\ end.deleted = se.deleted /\ end.lost = se.lost
    BY DEF Work
  <1>2. Cached(end) = Cached(se) /\ Unflushed(end, TRUE) = Unflushed(se, TRUE)
    BY <1>1 DEF Cached, Unflushed
  <1>3. Kept(se, stored, own) => Kept(end, stored, own)
    BY <1>1, <1>2 DEF Kept, Sound, Mirrored, Tidy, Wary, Honest, Signed, OnSnapshot
  <1>4. Exact(se) => Exact(end)
    BY <1>1 DEF Exact, ExactOff
  <1>5. end.units = se.units => Follows(se, end)
    BY <1>1 DEF Follows, Rides
  <1> QED BY <1>1, <1>2, <1>3, <1>4, <1>5 DEF Clean, Flushed

\* _rollback_txn puts everything the transaction wrote back among what is to
\* be flushed, or marks the session lost.
LEMMA RollbackKeeps ==
    ASSUME NEW stored, NEW own, NEW se, Kept(se, stored, own)
    PROVE  /\ Faithful(RollbackTxn(se), stored, own) /\ Follows(se, RollbackTxn(se))
           /\ ~ InFlight(RollbackTxn(se).ledger) /\ RollbackTxn(se).txn = NoTxn
           /\ Clean(se) => Clean(RollbackTxn(se))
  <1> DEFINE back == RollbackTxn(se)
             up   == {id \in Ids : se.ledger.upserted[id] # NoRow}
  <1>1. /\ back.txn = NoTxn /\ back.mem = se.mem
        /\ back.dirty = se.dirty \cup (up \cap Cached(se))
        /\ back.deleted = se.deleted \cup (se.ledger.removed \ Cached(se))
        /\ back.lost = (se.lost \/ se.ledger.joined)
        /\ back.ledger = Discard(se.ledger) /\ back.units = se.units
    BY DEF RollbackTxn, Kept, Sound, SessionState
  <1>2. /\ back.ledger.committed = se.ledger.committed
        /\ \A id \in Ids : back.ledger.upserted[id] = NoRow
        /\ back.ledger.removed = {} /\ back.ledger.joined = FALSE
    BY <1>1 DEF Discard, EmptyRows, Kept, Sound, SessionState, Ledger
  <1>3. Sound(back)
    BY RollbackIsSound DEF Kept, Sound
  <1> HIDE DEF back
  <1>4. Cached(back) = Cached(se)
    BY <1>1 DEF Cached
  <1>5. ~ InFlight(back.ledger)
    BY <1>2 DEF InFlight
  <1>6. Tidy(back) /\ Wary(back)
    BY <1>1, <1>4 DEF Kept, Tidy, Wary, OnSnapshot
  <1>7. Honest(back, stored)
    BY <1>1, <1>2 DEF Kept, Honest
  <1>8. Signed(back, own)
    <2>1. \A id \in Ids : Current(back.ledger, id) = se.ledger.committed[id]
      BY <1>2 DEF Current
    <2>2. ASSUME NEW id \in Cached(se)
          PROVE  \/ se.mem[id].val \in own
                 \/ /\ id \notin back.dirty /\ Current(back.ledger, id) # NoRow
                    /\ Current(back.ledger, id).val = se.mem[id].val
      <3>1. CASE se.mem[id].val \in own
        BY <3>1
      <3>2. CASE se.mem[id].val \notin own
        <4>1. /\ id \notin se.dirty /\ Current(se.ledger, id) # NoRow
              /\ Current(se.ledger, id).val = se.mem[id].val
          BY <3>2 DEF Kept, Signed
        <4>2. se.ledger.upserted[id] = NoRow
          BY <3>2, <4>1 DEF Kept, Signed, Current, Cached
        <4>3. Current(se.ledger, id) = se.ledger.committed[id]
          BY <4>1, <4>2 DEF Current
        <4> QED BY <4>1, <4>2, <4>3, <2>1, <1>1 DEF Cached
      <3> QED BY <3>1, <3>2
    <2> QED BY <2>2, <1>1, <1>2, <1>4 DEF Signed
  <1>9. Exact(back)
    BY <1>1 DEF Exact, ExactOff
  <1>10. Follows(se, back)
    BY <1>1, <1>2 DEF Follows, Rides
  <1>11. ASSUME Clean(se) PROVE Clean(back)
    <2>1. /\ back.dirty = se.dirty /\ back.deleted = {}
          /\ \A id \in Ids : Current(back.ledger, id) = Current(se.ledger, id)
      BY <1>1, <1>2, <1>11 DEF Clean, InFlight, Current
    <2>2. Unflushed(back, TRUE) = Unflushed(se, TRUE)
      BY <2>1, <1>1, <1>4 DEF Unflushed, Cached
    <2> QED BY <2>1, <2>2, <1>5, <1>11 DEF Clean
  <1> QED BY <1>1, <1>3, <1>5, <1>6, <1>7, <1>8, <1>9, <1>10, <1>11
          DEF Faithful, Kept, back

-----------------------------------------------------------------------------
(* Ending and opening a transaction, over the work.                        *)

\* A statement that failed has taken the transaction and nothing else.
LEMMA FailureKeeps ==
    ASSUME NEW stored, NEW own, NEW se, Kept(se, stored, own), NEW e \in Exceptions
    PROVE  /\ Faithful(StatementFailed(se, e), stored, own)
           /\ Follows(se, StatementFailed(se, e))
           /\ Clean(se) => Clean(StatementFailed(se, e))
  <1> DEFINE end == StatementFailed(se, e)
  <1>1. /\ end.txn = NoTxn /\ end.mem = se.mem /\ end.ledger = se.ledger
        /\ end.dirty = se.dirty /\ end.deleted = se.deleted /\ end.lost = se.lost
        /\ end.units = se.units
    BY DEF StatementFailed, Kept, Sound, SessionState
  <1>2. Sound(end)
    BY StatementFailedSound DEF Kept, Sound
  <1> HIDE DEF end
  <1>3. Cached(end) = Cached(se) /\ Unflushed(end, TRUE) = Unflushed(se, TRUE)
    BY <1>1 DEF Cached, Unflushed
  <1>4. Kept(end, stored, own)
    BY <1>1, <1>2, <1>3 DEF Kept, Tidy, Wary, Honest, Signed, OnSnapshot
  <1>5. Exact(end) /\ Follows(se, end) /\ (Clean(se) => Clean(end))
    BY <1>1, <1>3 DEF Exact, ExactOff, Follows, Rides, Clean
  <1> QED BY <1>4, <1>5 DEF Faithful, end

\* So does an exception keep the work.
LEMMA RaiseKeeps ==
    ASSUME NEW stored, NEW own, NEW se, Kept(se, stored, own), NEW e \in Exceptions
    PROVE  /\ Kept(Raise(se, e), stored, own) /\ (Exact(se) => Exact(Raise(se, e)))
           /\ Follows(se, Raise(se, e)) /\ (Clean(se) => Clean(Raise(se, e)))
           /\ Work(Raise(se, e)) = Work(se)
  <1> DEFINE end == Raise(se, e)
  <1>1. Work(end) = Work(se) /\ end.ro = se.ro /\ end.roRaised = se.roRaised
          /\ end.txn = se.txn /\ end.units = se.units
    BY DEF Raise, Work, Kept, Sound, SessionState
  <1>2. end \in SessionState
    BY RaiseSound DEF Kept, Sound
  <1> HIDE DEF end
  <1>3. OnSnapshot(end) => end.ro
    BY <1>1 DEF Kept, Tidy, Wary, OnSnapshot
  <1>4. /\ Kept(end, stored, own) /\ (Exact(se) => Exact(end))
        /\ Follows(se, end) /\ (Clean(se) => Clean(end))
    BY <1>1, <1>2, <1>3, SameWork
  <1> QED BY <1>1, <1>4 DEF end

\* _replay_txn leaves all of the work in memory, or the session lost.
LEMMA ReplayKeeps ==
    ASSUME NEW stored, NEW own, NEW se, Kept(se, stored, own), NEW exhausted \in BOOLEAN
    PROVE  /\ Faithful(ReplayTxn(se, exhausted), stored, own)
           /\ Follows(se, ReplayTxn(se, exhausted))
           /\ ~ InFlight(ReplayTxn(se, exhausted).ledger)
           /\ ReplayTxn(se, exhausted).txn = NoTxn
           /\ Clean(se) => Clean(ReplayTxn(se, exhausted))
  <1> DEFINE back == RollbackTxn(se)
             end  == ReplayTxn(se, exhausted)
             over == [back EXCEPT !.lost = TRUE, !.exc = "lost"]
             next == [back EXCEPT !.exc = "none"]
  <1>1. /\ Faithful(back, stored, own) /\ Follows(se, back)
        /\ ~ InFlight(back.ledger) /\ back.txn = NoTxn /\ (Clean(se) => Clean(back))
    BY RollbackKeeps
  <1>2. end = IF exhausted \/ back.lost THEN over ELSE next
    BY DEF ReplayTxn
  <1>3. end \in SessionState
    BY ReplaySound DEF Kept, Sound
  <1> HIDE DEF back, end
  <1>4. back \in SessionState
    BY <1>1 DEF Faithful, Kept, Sound
  <1>5. /\ end.txn = NoTxn /\ end.mem = back.mem /\ end.ledger = back.ledger
        /\ end.dirty = back.dirty /\ end.deleted = back.deleted
        /\ end.lost = (exhausted \/ back.lost) /\ end.units = back.units
    BY <1>1, <1>2, <1>4 DEF SessionState
  <1> HIDE DEF over, next
  <1>6. Cached(end) = Cached(back) /\ Unflushed(end, TRUE) = Unflushed(back, TRUE)
    BY <1>5 DEF Cached, Unflushed
  <1>7. Sound(end)
    BY <1>3, <1>5 DEF Sound, Mirrored
  <1>8. Kept(end, stored, own)
    BY <1>1, <1>5, <1>6, <1>7 DEF Faithful, Kept, Tidy, Wary, Honest, Signed, OnSnapshot
  <1>9. Exact(end) /\ (Clean(back) => Clean(end))
    BY <1>5, <1>6 DEF Exact, ExactOff, Clean
  <1>10. Follows(back, end)
    BY <1>1, <1>5 DEF Follows, Rides
  <1> QED BY <1>1, <1>5, <1>8, <1>9, <1>10, FollowsOn DEF Faithful, end

\* _reclaim_dead_txn puts back what a dead transaction had written, and leaves
\* nothing in flight without a transaction.
LEMMA ReclaimKeeps ==
    ASSUME NEW stored, NEW own, NEW se, Faithful(se, stored, own)
    PROVE  /\ Faithful(ReclaimDeadTxn(se), stored, own)
           /\ Follows(se, ReclaimDeadTxn(se))
           /\ ReclaimDeadTxn(se).txn = NoTxn => ~ InFlight(ReclaimDeadTxn(se).ledger)
           /\ Clean(se) => ReclaimDeadTxn(se) = se
           /\ Ok(ReclaimDeadTxn(se)) /\ ~ se.lost => ~ ReclaimDeadTxn(se).lost
  <1> DEFINE back == RollbackTxn(se)
             end  == ReclaimDeadTxn(se)
  <1>1. /\ Faithful(back, stored, own) /\ Follows(se, back)
        /\ ~ InFlight(back.ledger) /\ back.txn = NoTxn
    BY RollbackKeeps DEF Faithful
  <1>2. end = IF ~ InFlight(se.ledger) \/ se.txn # NoTxn THEN se
              ELSE IF back.lost THEN Raise(back, "lost") ELSE back
    BY DEF ReclaimDeadTxn
  <1>3. se.lost \in BOOLEAN /\ back.lost \in BOOLEAN
    BY <1>1 DEF Faithful, Kept, Sound, SessionState
  <1>3a. se.lost => back.lost
    BY DEF RollbackTxn, Faithful, Kept, Sound, SessionState
  <1> HIDE DEF back, end
  <1>4. CASE ~ InFlight(se.ledger) \/ se.txn # NoTxn
    BY <1>2, <1>4, FollowsSelf DEF end
  <1>5. CASE InFlight(se.ledger) /\ se.txn = NoTxn /\ back.lost
    <2>1. /\ Kept(end, stored, own) /\ Exact(end) /\ Follows(back, end)
          /\ Work(end) = Work(back) /\ ~ Ok(end)
      <3>1. end = Raise(back, "lost")
        BY <1>2, <1>5
      <3>2. end.exc = "lost"
        BY <3>1, <1>1 DEF Raise, Faithful, Kept, Sound, SessionState
      <3> QED BY <3>1, <3>2, <1>1, RaiseKeeps DEF Faithful, Exceptions, Ok
    <2>2. end.ledger = back.ledger
      BY <2>1 DEF Work
    <2> QED BY <1>1, <1>5, <2>1, <2>2, FollowsOn DEF Faithful, Clean, end
  <1>6. CASE InFlight(se.ledger) /\ se.txn = NoTxn /\ ~ back.lost
    BY <1>1, <1>2, <1>3, <1>3a, <1>6 DEF Clean, end
  <1> QED BY <1>4, <1>5, <1>6, <1>3 DEF end

\* A transaction begun over an idle ledger carries nothing yet.
LEMMA BeginKeeps ==
    ASSUME NEW stored, NEW own, NEW se, Faithful(se, stored, own),
           ~ InFlight(se.ledger), se.txn = NoTxn,
           NEW isolation \in Isolation, isolation = "snapshot" => se.ro,
           NEW rows, Within(rows, stored)
    PROVE  /\ Faithful(BeginTxn(se, isolation, rows), stored, own)
           /\ Follows(se, BeginTxn(se, isolation, rows))
           /\ BeginTxn(se, isolation, rows).txn # NoTxn
           /\ Clean(se) => Clean(BeginTxn(se, isolation, rows))
  <1> DEFINE end == BeginTxn(se, isolation, rows)
             t   == NewTxn(isolation, rows)
  <1>0. rows \in Rows /\ \A id \in Ids : rows[id] # NoRow => rows[id].val \in stored
    BY DEF Within
  <1>1. /\ end.txn = t /\ end.mem = se.mem /\ end.ledger = se.ledger
        /\ end.dirty = se.dirty /\ end.deleted = se.deleted /\ end.lost = se.lost
        /\ end.ro = se.ro /\ end.roRaised = se.roRaised /\ end.units = se.units
    BY DEF BeginTxn, Faithful, Kept, Sound, SessionState
  <1>2. /\ t.iso = isolation /\ t.snap = rows /\ t.joins = {}
        /\ \A id \in Ids : t.own[id] = Unwritten
    BY DEF NewTxn
  <1>3. Sound(end)
    BY <1>0, BeginSound DEF Faithful, Kept, InFlight, Idle
  <1>4. t # NoTxn
    BY <1>0, NewTxnType, NoTxnAssumption
  <1> HIDE DEF end, t
  <1>5. Cached(end) = Cached(se) /\ Unflushed(end, TRUE) = Unflushed(se, TRUE)
    BY <1>1 DEF Cached, Unflushed
  <1>6. Tidy(end) /\ Wary(end)
    BY <1>1, <1>2, <1>5 DEF Faithful, Kept, Tidy, Wary, OnSnapshot
  <1>7. Honest(end, stored) /\ Signed(end, own)
    BY <1>0, <1>1, <1>2, <1>5 DEF Faithful, Kept, Honest, Signed
  <1>8. Exact(end)
    BY <1>1, <1>2 DEF Exact, ExactOff, InFlight
  <1>9. Follows(se, end)
    BY <1>1 DEF Follows, Rides, InFlight
  <1> QED BY <1>1, <1>3, <1>4, <1>5, <1>6, <1>7, <1>8, <1>9 DEF Faithful, Kept, Clean, end

\* _raise_ro_retry keeps the work, and raises.
LEMMA RoRetryKeeps ==
    ASSUME NEW stored, NEW own, NEW se, Faithful(se, stored, own)
    PROVE  /\ Faithful(RaiseRoRetry(se), stored, own) /\ Follows(se, RaiseRoRetry(se))
           /\ ~ Ok(RaiseRoRetry(se)) /\ (Clean(se) => Clean(RaiseRoRetry(se)))
  <1> DEFINE back == RollbackTxn(se)
             end  == RaiseRoRetry(se)
  <1>1. /\ Faithful(back, stored, own) /\ Follows(se, back) /\ back.txn = NoTxn
        /\ (Clean(se) => Clean(back))
    BY RollbackKeeps DEF Faithful
  <1>2. end = [back EXCEPT !.ro = FALSE, !.roRaised = TRUE, !.exc = "ro"]
    BY DEF RaiseRoRetry
  <1>3. end \in SessionState
    BY RoRetrySound DEF Faithful, Kept, Sound
  <1> HIDE DEF back, end
  <1>4. Work(end) = Work(back) /\ end.txn = back.txn /\ end.exc = "ro" /\ end.units = back.units
    BY <1>1, <1>2 DEF Work, Faithful, Kept, Sound, SessionState
  <1>5. OnSnapshot(end) => end.ro
    BY <1>1, <1>4 DEF OnSnapshot
  <1>6. /\ Kept(end, stored, own) /\ Exact(end) /\ Follows(back, end)
        /\ (Clean(back) => Clean(end))
    BY <1>1, <1>3, <1>4, <1>5, SameWork DEF Faithful
  <1> QED BY <1>1, <1>4, <1>6, FollowsOn DEF Faithful, Ok, end

\* What _begin_writable returns, when it returns, is the session with a
\* transaction.
LEMMA BeginWritableKeeps ==
    ASSUME NEW stored, NEW own, NEW se, Faithful(se, stored, own),
           NEW rows, Within(rows, stored)
    PROVE  /\ Faithful(BeginWritable(se, rows), stored, own)
           /\ Follows(se, BeginWritable(se, rows))
           /\ Clean(se) => Clean(BeginWritable(se, rows))
           /\ Ok(BeginWritable(se, rows)) =>
                \/ BeginWritable(se, rows) = ReclaimDeadTxn(se)
                \/ BeginWritable(se, rows) = BeginTxn(ReclaimDeadTxn(se), "serializable", rows)
  <1> DEFINE live == ReclaimDeadTxn(se)
             end  == BeginWritable(se, rows)
  <1>1. /\ Faithful(live, stored, own) /\ Follows(se, live)
        /\ live.txn = NoTxn => ~ InFlight(live.ledger)
        /\ (Clean(se) => live = se)
    BY ReclaimKeeps
  <1> HIDE DEF live
  <1>2. OnSnapshot(live) => live.ro
    BY <1>1 DEF Faithful, Kept, Tidy, Wary
  <1>3. end = IF se.roRaised THEN Raise(se, "ro")
              ELSE IF ~ Ok(live) THEN live
              ELSE IF OnSnapshot(live) THEN RaiseRoRetry(live)
              ELSE IF live.txn = NoTxn THEN BeginTxn(live, "serializable", rows)
              ELSE live
    BY <1>2 DEF BeginWritable, live
  <1> HIDE DEF end
  <1>4. CASE se.roRaised
    <2>1. end = Raise(se, "ro") /\ "ro" \in Exceptions
      BY <1>3, <1>4 DEF Exceptions
    <2>2. /\ Kept(end, stored, own) /\ Exact(end) /\ Follows(se, end)
          /\ Clean(se) => Clean(end)
      BY <2>1, RaiseKeeps DEF Faithful
    <2>3. ~ Ok(end)
      BY <2>1, RaiseSound DEF Faithful, Kept, Ok
    <2> QED BY <2>2, <2>3 DEF Faithful, end
  <1>5. CASE ~ se.roRaised /\ (~ Ok(live) \/ (~ OnSnapshot(live) /\ live.txn # NoTxn))
    <2>1. end = live
      BY <1>3, <1>5
    <2> QED BY <1>1, <2>1 DEF end, live
  <1>6. CASE ~ se.roRaised /\ Ok(live) /\ OnSnapshot(live)
    <2>1. end = RaiseRoRetry(live)
      BY <1>3, <1>6
    <2>2. /\ Faithful(end, stored, own) /\ Follows(live, end) /\ ~ Ok(end)
          /\ (Clean(live) => Clean(end))
      BY <1>1, <2>1, RoRetryKeeps
    <2> QED BY <1>1, <2>2, FollowsOn DEF end
  <1>7. CASE ~ se.roRaised /\ Ok(live) /\ ~ OnSnapshot(live) /\ live.txn = NoTxn
    <2>1. end = BeginTxn(live, "serializable", rows)
      BY <1>3, <1>7
    <2>2. /\ Faithful(end, stored, own) /\ Follows(live, end)
          /\ (Clean(live) => Clean(end))
      BY <1>1, <1>7, <2>1, BeginKeeps DEF Isolation
    <2> QED BY <1>1, <2>1, <2>2, FollowsOn DEF end, live
  <1> QED BY <1>4, <1>5, <1>6, <1>7

\* _ensure_txn keeps the work.
LEMMA EnsureKeeps ==
    ASSUME NEW stored, NEW own, NEW se, Faithful(se, stored, own),
           NEW rows, Within(rows, stored)
    PROVE  /\ Faithful(EnsureTxn(se, rows), stored, own)
           /\ Follows(se, EnsureTxn(se, rows))
           /\ Clean(se) => Clean(EnsureTxn(se, rows))
  <1> DEFINE live == ReclaimDeadTxn(se)
             end  == EnsureTxn(se, rows)
  <1>1. /\ Faithful(live, stored, own) /\ Follows(se, live)
        /\ live.txn = NoTxn => ~ InFlight(live.ledger)
        /\ (Clean(se) => live = se)
    BY ReclaimKeeps
  <1> HIDE DEF live
  <1>2. TxnIsolation(live) \in Isolation /\ (TxnIsolation(live) = "snapshot" => live.ro)
    BY DEF TxnIsolation, Isolation
  <1>3. end = IF ~ Ok(live) THEN live
              ELSE IF live.txn = NoTxn THEN BeginTxn(live, TxnIsolation(live), rows)
              ELSE IF TxnIsolation(live) = "serializable" THEN BeginWritable(live, rows)
              ELSE live
    BY DEF EnsureTxn, live
  <1>4. live.txn = NoTxn =>
          /\ Faithful(BeginTxn(live, TxnIsolation(live), rows), stored, own)
          /\ Follows(live, BeginTxn(live, TxnIsolation(live), rows))
          /\ Clean(live) => Clean(BeginTxn(live, TxnIsolation(live), rows))
    BY <1>1, <1>2, BeginKeeps
  <1>5. /\ Faithful(BeginWritable(live, rows), stored, own)
        /\ Follows(live, BeginWritable(live, rows))
        /\ Clean(live) => Clean(BeginWritable(live, rows))
    BY <1>1, BeginWritableKeeps
  <1> HIDE DEF end
  <1>6. Faithful(end, stored, own) /\ Follows(live, end) /\ (Clean(live) => Clean(end))
    BY <1>1, <1>3, <1>4, <1>5, FollowsSelf
  <1> QED BY <1>1, <1>6, FollowsOn DEF end

\* _begin_writable returns only where the read tier has not raised.
LEMMA WritableWary ==
    ASSUME NEW se \in SessionState, NEW rows, Ok(BeginWritable(se, rows))
    PROVE  ~ BeginWritable(se, rows).roRaised /\ ~ se.roRaised
  <1> DEFINE live == ReclaimDeadTxn(se)
             open == BeginWritable(se, rows)
             back == RollbackTxn(se)
             drop == DropSnapshotReads(CommitTxn(live))
  <1>1. ~ se.roRaised
    BY DEF BeginWritable, Ok, Raise, SessionState
  <1>2. /\ back.roRaised = se.roRaised
        /\ DOMAIN back = DOMAIN se
        /\ live = se \/ live = back \/ live = [back EXCEPT !.exc = "lost"]
    BY DEF ReclaimDeadTxn, RollbackTxn, Raise, SessionState
  <1> HIDE DEF back
  <1>3. live.roRaised = se.roRaised /\ DOMAIN live = DOMAIN se
    BY <1>2 DEF SessionState
  <1>4. open \in {live, BeginTxn(drop, "serializable", rows),
                  BeginTxn(live, "serializable", rows)}
    <2>1. RaiseRoRetry(live).exc = "ro"
      BY <1>3 DEF RaiseRoRetry, RollbackTxn, SessionState
    <2> QED BY <1>1, <2>1 DEF BeginWritable, Ok
  <1> HIDE DEF live, open
  <1>5. drop.roRaised = se.roRaised /\ DOMAIN drop = DOMAIN se
    BY <1>3 DEF DropSnapshotReads, CommitTxn, SessionState
  <1> HIDE DEF drop
  <1>6. open.roRaised = se.roRaised
    BY <1>3, <1>4, <1>5 DEF BeginTxn, SessionState
  <1> QED BY <1>1, <1>6 DEF open

-----------------------------------------------------------------------------
(* Statements in it.                                                       *)

\* ensure_writable_txn puts the caller's next statement on record.
LEMMA EnsureWritableKeeps ==
    ASSUME NEW stored, NEW own, NEW se, Faithful(se, stored, own),
           NEW rows, Within(rows, stored)
    PROVE  /\ Faithful(EnsureWritableTxn(se, rows), stored, own)
           /\ Follows(se, EnsureWritableTxn(se, rows))
           /\ Ok(EnsureWritableTxn(se, rows)) =>
                /\ EnsureWritableTxn(se, rows).txn # NoTxn
                /\ EnsureWritableTxn(se, rows).ledger.joined
                /\ ~ EnsureWritableTxn(se, rows).roRaised
  <1> DEFINE open == BeginWritable(se, rows)
             end  == EnsureWritableTxn(se, rows)
  <1>1. Faithful(open, stored, own) /\ Follows(se, open)
    BY BeginWritableKeeps
  <1>2. end = IF Ok(open) THEN [open EXCEPT !.ledger = Joined(@)] ELSE open
    BY DEF EnsureWritableTxn
  <1>3. Sound(end) /\ (Ok(end) => end.txn # NoTxn)
    BY EnsureWritableSound DEF Faithful, Kept, Within
  <1>4. Ok(open) => ~ open.roRaised
    BY WritableWary DEF Faithful, Kept, Sound
  <1> HIDE DEF open, end
  <1>5. CASE Ok(open)
    <2>1. /\ end.txn = open.txn /\ end.mem = open.mem /\ end.dirty = open.dirty
          /\ end.deleted = open.deleted /\ end.lost = open.lost /\ end.ro = open.ro
          /\ end.roRaised = open.roRaised
          /\ end.ledger = Joined(open.ledger) /\ end.units = open.units
      BY <1>1, <1>2, <1>5 DEF Faithful, Kept, Sound, SessionState
    <2>2. /\ end.ledger.joined /\ end.ledger.upserted = open.ledger.upserted
          /\ end.ledger.removed = open.ledger.removed
          /\ end.ledger.committed = open.ledger.committed
      BY <2>1, <1>1 DEF Joined, Faithful, Kept, Sound, SessionState, Ledger
    <2>3. /\ Cached(end) = Cached(open)
          /\ \A id \in Ids : Current(end.ledger, id) = Current(open.ledger, id)
      BY <2>1, <2>2 DEF Cached, Current
    <2>4. Tidy(end) /\ Wary(end) /\ Honest(end, stored) /\ Signed(end, own)
      BY <1>1, <2>1, <2>2, <2>3 DEF Faithful, Kept, Tidy, Wary, Honest, Signed, OnSnapshot, Cached
    <2>5. Exact(end)
      <3> DEFINE S == open.dirty \cup open.deleted
      <3>1. ExactOff(open, S) /\ S = end.dirty \cup end.deleted
        BY <1>1, <2>1 DEF Faithful, Exact
      <3> HIDE DEF S
      <3>2. ExactOff(end, S)
        BY <3>1, <2>1, <2>2, SameExact
      <3> QED BY <3>1, <3>2 DEF Exact
    <2>6. Follows(open, end)
      BY <2>1, <2>2 DEF Follows, Rides
    <2> QED BY <1>1, <1>3, <1>4, <1>5, <2>1, <2>2, <2>4, <2>5, <2>6, FollowsOn
            DEF Faithful, Kept, end
  <1>6. CASE ~ Ok(open)
    BY <1>1, <1>2, <1>6 DEF end
  <1> QED BY <1>5, <1>6

\* A lock timeout keeps the work, without the transaction.
LEMMA LockTimeoutKeeps ==
    ASSUME NEW stored, NEW own, NEW se, Kept(se, stored, own), NEW ids \in SUBSET Ids
    PROVE  /\ Faithful(LockTimeout(se, ids), stored, own) /\ Follows(se, LockTimeout(se, ids))
           /\ ~ Ok(LockTimeout(se, ids)) /\ LockTimeout(se, ids).txn = NoTxn
  <1> DEFINE end  == LockTimeout(se, ids)
             soon == StatementFailed(se, "transient")
             lost == StatementFailed(se, "conflict")
  <1>1. /\ Faithful(soon, stored, own) /\ Follows(se, soon)
        /\ Faithful(lost, stored, own) /\ Follows(se, lost)
    BY FailureKeeps DEF Exceptions
  <1>2. soon.txn = NoTxn /\ soon.exc = "transient" /\ lost.txn = NoTxn /\ lost.exc = "conflict"
    BY DEF StatementFailed, Kept, Sound, SessionState
  <1>3. Sound(end)
    BY LockTimeoutSound DEF Kept, Sound
  <1>4. end = soon \/ end = [lost EXCEPT !.lastConflict = ids]
    BY DEF LockTimeout
  <1> HIDE DEF end, soon, lost
  <1>5. CASE end = soon
    BY <1>1, <1>2, <1>5 DEF Ok, end
  <1>6. CASE end = [lost EXCEPT !.lastConflict = ids]
    <2>1. Work(end) = Work(lost) /\ end.txn = NoTxn /\ end.exc = "conflict"
          /\ end.units = lost.units
      BY <1>1, <1>2, <1>6 DEF Work, Faithful, Kept, Sound, SessionState
    <2>2. Kept(end, stored, own) /\ Exact(end) /\ Follows(lost, end)
      BY <1>1, <1>3, <2>1, SameWork DEF Faithful, Sound, OnSnapshot
    <2> QED BY <1>1, <2>1, <2>2, FollowsOn DEF Faithful, Ok, end
  <1> QED BY <1>4, <1>5, <1>6

\* sent is se once the rows ids are upserted: nothing else has moved.
Written(se, sent, ids) ==
    /\ sent.mem = se.mem /\ sent.dirty = se.dirty /\ sent.deleted = se.deleted
    /\ sent.lost = se.lost
    /\ \A id \in ids : Current(sent.ledger, id) # NoRow
                         /\ Current(sent.ledger, id).val = se.mem[id].val
    /\ \A id \in Ids \ ids : Current(sent.ledger, id) = Current(se.ledger, id)
    /\ \A S \in SUBSET Ids : ExactOff(se, S) => ExactOff(sent, S \ ids)

\* An upsert leaves its rows in the transaction and the ledger alike; stopped by
\* a stale row, it leaves them in the transaction only, and still dirty.
LEMMA UpsertKeeps ==
    ASSUME NEW stored, NEW own \in SUBSET Val, NEW se, Kept(se, stored, own), se.txn # NoTxn,
           Ok(se), ~ se.roRaised, NEW rows \in Rows,
           NEW content, DOMAIN content \in SUBSET Cached(se),
           \A id \in DOMAIN content : content[id] = se.mem[id].val /\ content[id] \in own,
           NEW sent \in Upsert(se, content, rows)
    PROVE  /\ Kept(sent, stored, own) /\ Follows(se, sent)
           /\ Ok(sent) => Written(se, sent, DOMAIN content)
           /\ DOMAIN content \subseteq se.dirty /\ ~ Ok(sent) /\ Exact(se) => Exact(sent)
  <1> DEFINE ids     == DOMAIN content
             version == [id \in ids |-> WriteVersion(se.ledger, id)]
             row     == [id \in ids |-> UpsertedRow(se.txn, rows, id,
                            [version |-> version[id], val |-> content[id]])]
             stale   == {id \in ids : UpsertStale(se.txn, rows, id, version[id])}
             txn     == Write(se.txn, ids \ stale, row)
  <1>0. /\ Sound(se) /\ se \in SessionState /\ se.txn \in Txn /\ se.ledger \in Ledger
        /\ ids \in SUBSET Ids
    BY DEF Kept, Sound, SessionState, Cached
  <1>1. \A id \in ids : version[id] \in Nat
    BY <1>0, WriteVersionType
  <1>2. \A id \in ids : row[id] \in RowState /\ row[id].val = se.mem[id].val
                         /\ row[id].val \in own
    BY <1>1 DEF UpsertedRow, RowState
  <1>3. \A id \in ids : row[id] \notin {Unwritten, NoRow}
    BY <1>2, UnwrittenAssumption, NoRowAssumption DEF MaybeRow
  <1>4. Upsert(se, content, rows) =
           IF stale = {}
           THEN {[se EXCEPT !.txn = txn, !.ledger = Upserted(@, ids, row)]}
           ELSE {[se EXCEPT !.txn = txn, !.lastConflict = {first}, !.exc = "conflict"] :
                    first \in stale}
    BY DEF Upsert
  <1>5. Sound(sent)
    BY <1>0, <1>2, UpsertSound
  <1> HIDE DEF row, version
  <1>6. /\ txn.snap = se.txn.snap /\ txn.joins = se.txn.joins /\ txn.iso = se.txn.iso
        /\ \A id \in Ids : txn.own[id] = IF id \in ids \ stale THEN row[id] ELSE se.txn.own[id]
    BY <1>0 DEF Write, Txn
  <1> HIDE DEF txn
  <1>7. /\ sent.txn = txn /\ sent.mem = se.mem /\ sent.dirty = se.dirty
        /\ sent.deleted = se.deleted /\ sent.lost = se.lost /\ sent.ro = se.ro
        /\ sent.roRaised = se.roRaised
        /\ sent.units = se.units
        /\ IF stale = {} THEN sent.ledger = Upserted(se.ledger, ids, row) /\ Ok(sent)
           ELSE sent.ledger = se.ledger /\ ~ Ok(sent)
    <2> HIDE DEF stale, ids
    <2>1. CASE stale = {}
      <3>1. sent = [se EXCEPT !.txn = txn, !.ledger = Upserted(@, ids, row)]
        BY <2>1, <1>4
      <3> QED BY <3>1, <2>1, <1>0 DEF SessionState, Ok
    <2>2. CASE stale # {}
      <3>1. PICK first \in stale :
               sent = [se EXCEPT !.txn = txn, !.lastConflict = {first}, !.exc = "conflict"]
        <4>1. sent \in {[se EXCEPT !.txn = txn, !.lastConflict = {first}, !.exc = "conflict"] :
                           first \in stale}
          BY <2>2, <1>4
        <4> QED BY <4>1
      <3> QED BY <3>1, <2>2, <1>0 DEF SessionState, Ok
    <2> QED BY <2>1, <2>2
  <1>8. /\ Upserted(se.ledger, ids, row).committed = se.ledger.committed
        /\ Upserted(se.ledger, ids, row).joined = se.ledger.joined
        /\ Upserted(se.ledger, ids, row).removed = se.ledger.removed \ ids
        /\ \A id \in Ids : Upserted(se.ledger, ids, row).upserted[id] =
              IF id \in ids THEN row[id] ELSE se.ledger.upserted[id]
    BY <1>0 DEF Upserted, Ledger, Rows
  <1> HIDE DEF stale, ids
  <1>9. Cached(sent) = Cached(se) /\ Tidy(sent) /\ Wary(sent) /\ Honest(sent, stored)
    BY <1>6, <1>7, <1>8 DEF Kept, Tidy, Wary, Honest, OnSnapshot, Cached
  <1>10. Follows(se, sent)
    BY <1>6, <1>7, <1>8 DEF Follows, Rides
  <1>11. CASE stale = {}
    <2>1. \A id \in Ids : /\ id \in ids => Current(sent.ledger, id) = row[id]
                          /\ id \notin ids => Current(sent.ledger, id) = Current(se.ledger, id)
      <3> TAKE id \in Ids
      <3>1. sent.ledger = Upserted(se.ledger, ids, row)
        BY <1>7, <1>11
      <3>2. CASE id \in ids
        BY <3>1, <3>2, <1>3, <1>8 DEF Current
      <3>3. CASE id \notin ids
        BY <3>1, <3>3, <1>8 DEF Current
      <3> QED BY <3>2, <3>3
    <2>2. Signed(sent, own)
      <3>1. \A id \in Cached(se) : id \in ids => se.mem[id].val \in own
        BY <1>2
      <3>2. \A id \in Cached(se) :
               \/ se.mem[id].val \in own
               \/ /\ id \notin sent.dirty /\ Current(sent.ledger, id) # NoRow
                  /\ Current(sent.ledger, id).val = se.mem[id].val
        BY <3>1, <2>1, <1>7 DEF Kept, Signed, Cached
      <3>3. \A id \in Ids : /\ sent.ledger.upserted[id] # NoRow
                                 => sent.ledger.upserted[id].val \in own
                            /\ sent.txn.own[id] \notin {Unwritten, NoRow}
                                 => sent.txn.own[id].val \in own
        <4> TAKE id \in Ids
        <4>1. sent.ledger = Upserted(se.ledger, ids, row) /\ sent.txn = txn
          BY <1>7, <1>11
        <4>2. CASE id \in ids
          BY <4>1, <4>2, <1>2, <1>6, <1>8, <1>11
        <4>3. CASE id \notin ids
          BY <4>1, <4>3, <1>6, <1>8, <1>11 DEF Kept, Signed
        <4> QED BY <4>2, <4>3
      <3> QED BY <3>2, <3>3, <1>6, <1>7, <1>9 DEF Kept, Signed
    <2>3. ASSUME NEW S \in SUBSET Ids, ExactOff(se, S) PROVE ExactOff(sent, S \ ids)
      <3> SUFFICES ASSUME NEW id \in Ids \ (S \ ids)
                   PROVE  /\ (sent.ledger.upserted[id] # NoRow
                                \/ sent.txn.own[id] \notin {Unwritten, NoRow})
                                => sent.txn.own[id] = sent.ledger.upserted[id]
                          /\ id \in sent.ledger.removed => Visible(sent.txn, id) = NoRow
        BY DEF ExactOff
      <3>1. CASE id \in ids
        BY <3>1, <1>6, <1>7, <1>8, <1>11
      <3>2. CASE id \notin ids
        BY <3>2, <2>3, <1>6, <1>7, <1>8, <1>11 DEF ExactOff, Visible
      <3> QED BY <3>1, <3>2
    <2>4. Written(se, sent, ids)
      BY <1>0, <1>2, <1>3, <1>7, <2>1, <2>3 DEF Written
    <2> QED BY <1>5, <1>7, <1>9, <1>10, <1>11, <2>2, <2>4 DEF Kept, ids
  <1>12. CASE stale # {}
    <2>1. Signed(sent, own)
      BY <1>2, <1>6, <1>7, <1>9, <1>12 DEF Kept, Signed
    <2>2. ids \subseteq se.dirty /\ Exact(se) => Exact(sent)
      <3> SUFFICES ASSUME ids \subseteq se.dirty, ExactOff(se, se.dirty \cup se.deleted),
                          NEW id \in Ids \ (se.dirty \cup se.deleted)
                   PROVE  /\ (sent.ledger.upserted[id] # NoRow
                                 \/ sent.txn.own[id] \notin {Unwritten, NoRow})
                                => sent.txn.own[id] = sent.ledger.upserted[id]
                          /\ id \in sent.ledger.removed => Visible(sent.txn, id) = NoRow
        BY <1>7 DEF Exact, ExactOff
      <3>1. /\ sent.ledger = se.ledger /\ sent.txn.own[id] = se.txn.own[id]
            /\ sent.txn.snap = se.txn.snap
        BY <1>6, <1>7, <1>12
      <3> QED BY <3>1 DEF ExactOff, Visible
    <2> QED BY <1>5, <1>7, <1>9, <1>10, <1>12, <2>1, <2>2 DEF Kept, ids
  <1> QED BY <1>11, <1>12

\* So does every outcome of the upsert statement.
LEMMA UpsertResultsKeep ==
    ASSUME NEW stored, NEW own \in SUBSET Val, NEW se, Kept(se, stored, own), se.txn # NoTxn,
           Ok(se), ~ se.roRaised, NEW rows \in Rows, NEW busy,
           NEW content, DOMAIN content \in SUBSET Cached(se),
           \A id \in DOMAIN content : content[id] = se.mem[id].val /\ content[id] \in own,
           NEW sent \in UpsertResults(se, content, rows, busy)
    PROVE  /\ Kept(sent, stored, own) /\ Follows(se, sent)
           /\ Ok(sent) => Written(se, sent, DOMAIN content)
           /\ DOMAIN content \subseteq se.dirty /\ ~ Ok(sent) /\ Exact(se) => Exact(sent)
  <1>0. DOMAIN content \in SUBSET Ids
    BY DEF Cached
  <1>1. /\ Faithful(StatementFailed(se, "transient"), stored, own)
        /\ Follows(se, StatementFailed(se, "transient"))
        /\ ~ Ok(StatementFailed(se, "transient"))
    BY FailureKeeps DEF Exceptions, Ok, StatementFailed, Kept, Sound, SessionState
  <1>2. /\ Faithful(LockTimeout(se, DOMAIN content), stored, own)
        /\ Follows(se, LockTimeout(se, DOMAIN content))
        /\ ~ Ok(LockTimeout(se, DOMAIN content))
    BY <1>0, LockTimeoutKeeps
  <1>3. sent \in {StatementFailed(se, "transient"), LockTimeout(se, DOMAIN content)}
                   \cup Upsert(se, content, rows)
    BY DEF UpsertResults
  <1>4. CASE sent \in Upsert(se, content, rows)
    BY <1>4, UpsertKeeps
  <1> QED BY <1>1, <1>2, <1>3, <1>4 DEF Faithful

\* A delete takes its rows out of transaction and ledger alike.
LEMMA DeleteResultsKeep ==
    ASSUME NEW stored, NEW own, NEW se, Kept(se, stored, own), se.txn # NoTxn, Ok(se),
           NEW rows \in Rows, NEW busy, NEW sent \in DeleteResults(se, rows, busy)
    PROVE  /\ Kept(sent, stored, own) /\ Follows(se, sent)
           /\ ~ Ok(sent) => sent.txn = NoTxn
           /\ Ok(sent) =>
                /\ sent.mem = se.mem /\ sent.dirty = se.dirty /\ sent.deleted = {}
                /\ sent.lost = se.lost
                /\ \A id \in Ids \ se.deleted : Current(sent.ledger, id) = Current(se.ledger, id)
                /\ ExactOff(se, se.deleted) => ExactOff(sent, {})
  <1> DEFINE ids  == se.deleted
             done == [se EXCEPT !.txn = Erase(@, ids),
                                !.ledger = Removed(@, ids), !.deleted = {}]
  <1>0. /\ Sound(se) /\ se \in SessionState /\ se.txn \in Txn /\ se.ledger \in Ledger
        /\ ids \in SUBSET Ids
    BY DEF Kept, Sound, SessionState
  <1>1. /\ Faithful(StatementFailed(se, "transient"), stored, own)
        /\ Follows(se, StatementFailed(se, "transient"))
        /\ ~ Ok(StatementFailed(se, "transient"))
        /\ StatementFailed(se, "transient").txn = NoTxn
    BY FailureKeeps DEF Exceptions, Ok, StatementFailed, Kept, Sound, SessionState
  <1>2. /\ Faithful(LockTimeout(se, ids), stored, own) /\ Follows(se, LockTimeout(se, ids))
        /\ ~ Ok(LockTimeout(se, ids)) /\ LockTimeout(se, ids).txn = NoTxn
    BY <1>0, LockTimeoutKeeps
  <1>3. sent \in {StatementFailed(se, "transient"), LockTimeout(se, ids), done}
    BY DEF DeleteResults
  <1>4. CASE sent = done
    <2>1. Sound(sent)
      BY <1>0, DeleteResultsSound
    <2>2. /\ sent.txn = Erase(se.txn, ids) /\ sent.ledger = Removed(se.ledger, ids)
          /\ sent.mem = se.mem /\ sent.dirty = se.dirty /\ sent.deleted = {}
          /\ sent.lost = se.lost /\ sent.ro = se.ro /\ sent.roRaised = se.roRaised
          /\ Ok(sent) /\ sent.units = se.units
      BY <1>0, <1>4 DEF SessionState, Ok
    <2>3. /\ sent.txn.snap = se.txn.snap /\ sent.txn.joins = se.txn.joins
          /\ sent.txn.iso = se.txn.iso
          /\ \A id \in Ids : sent.txn.own[id] =
                IF id \in ids /\ Visible(se.txn, id) # NoRow THEN NoRow ELSE se.txn.own[id]
      BY <1>0, <2>2 DEF Erase, Txn
    <2>4. /\ sent.ledger.committed = se.ledger.committed
          /\ sent.ledger.joined = se.ledger.joined
          /\ sent.ledger.removed = se.ledger.removed \cup ids
          /\ \A id \in Ids : sent.ledger.upserted[id] =
                IF id \in ids THEN NoRow ELSE se.ledger.upserted[id]
      BY <1>0, <2>2 DEF Removed, Ledger, Rows
    <2> HIDE DEF ids, done
    <2>5. \A id \in Ids \ ids : Current(sent.ledger, id) = Current(se.ledger, id)
      BY <2>4 DEF Current
    <2>6. Cached(sent) = Cached(se) /\ Tidy(sent) /\ Wary(sent) /\ Honest(sent, stored)
            /\ Follows(se, sent)
      BY <2>2, <2>3, <2>4 DEF Kept, Tidy, Wary, Honest, OnSnapshot, Cached, Follows, Rides
    <2>7. Signed(sent, own)
      <3>1. \A id \in Cached(se) : id \in Ids \ ids
        BY DEF Kept, Tidy, Wary, Cached, ids
      <3>2. \A id \in Cached(se) :
               \/ se.mem[id].val \in own
               \/ /\ id \notin sent.dirty /\ Current(sent.ledger, id) # NoRow
                  /\ Current(sent.ledger, id).val = se.mem[id].val
        BY <3>1, <2>2, <2>5 DEF Kept, Signed
      <3>3. \A id \in Ids : /\ sent.ledger.upserted[id] # NoRow
                                 => sent.ledger.upserted[id].val \in own
                            /\ sent.txn.own[id] \notin {Unwritten, NoRow}
                                 => sent.txn.own[id].val \in own
        BY <2>3, <2>4 DEF Kept, Signed
      <3> QED BY <3>2, <3>3, <2>2, <2>3, <2>6 DEF Kept, Signed
    <2>8. ASSUME ExactOff(se, ids) PROVE ExactOff(sent, {})
      <3> SUFFICES ASSUME NEW id \in Ids
                   PROVE  /\ (sent.ledger.upserted[id] # NoRow
                                \/ sent.txn.own[id] \notin {Unwritten, NoRow})
                                => sent.txn.own[id] = sent.ledger.upserted[id]
                          /\ id \in sent.ledger.removed => Visible(sent.txn, id) = NoRow
        BY DEF ExactOff
      <3>0. Unwritten # NoRow
        BY UnwrittenAssumption DEF MaybeRow
      <3>1. CASE id \in ids
        BY <3>0, <3>1, <2>3, <2>4 DEF Visible
      <3>2. CASE id \notin ids
        BY <3>2, <2>8, <2>3, <2>4 DEF ExactOff, Visible
      <3> QED BY <3>1, <3>2
    <2> QED BY <2>1, <2>2, <2>5, <2>6, <2>7, <2>8 DEF Kept, ids
  <1> QED BY <1>1, <1>2, <1>3, <1>4 DEF Faithful

\* sent is se once the rows ids are upserted and its deletions sent.
Sent(se, sent, ids) ==
    /\ sent.mem = se.mem /\ sent.deleted = {} /\ sent.lost = se.lost
    /\ sent.txn # NoTxn /\ ExactOff(sent, {})
    /\ \A id \in ids : Current(sent.ledger, id) # NoRow
                         /\ Current(sent.ledger, id).val = se.mem[id].val
    /\ \A id \in Ids \ (ids \cup se.deleted) :
          Current(sent.ledger, id) = Current(se.ledger, id)

\* The statements of a flush keep the session's work, and once all of them
\* are answered ledger and transaction agree on every row.
LEMMA WriteResultsKeep ==
    ASSUME NEW stored, NEW own \in SUBSET Val, NEW se, Faithful(se, stored, own),
           se.txn # NoTxn, Ok(se), ~ se.roRaised, NEW rows \in Rows, NEW busy, NEW fault,
           NEW content, DOMAIN content \in SUBSET Cached(se),
           se.dirty \subseteq DOMAIN content,
           \A id \in DOMAIN content : content[id] = se.mem[id].val /\ content[id] \in own,
           NEW sent \in WriteResults(se, content, rows, busy, fault)
    PROVE  /\ Kept(sent, stored, own) /\ Follows(se, sent)
           /\ Ok(sent) => Sent(se, sent, DOMAIN content)
           /\ DOMAIN content \subseteq se.dirty /\ ~ Ok(sent) => Exact(sent)
  <1> DEFINE ids     == DOMAIN content
             upserts == IF DOMAIN content = {} THEN {se}
                        ELSE UpsertResults(se, content, rows, busy)
             landed  == {up \in upserts : Ok(up)}
             after(up) == IF up.deleted = {} THEN {up} ELSE DeleteResults(up, rows, busy)
             deletes == UNION {after(up) : up \in landed}
             same(a) == Kept(a, stored, own) /\ Follows(se, a)
  <1>0. Kept(se, stored, own) /\ Exact(se) /\ Sound(se) /\ ids \in SUBSET Ids
        /\ se.dirty \in SUBSET Ids /\ se.deleted \in SUBSET Ids
    BY DEF Faithful, Kept, Sound, SessionState, Cached
  <1>1. \A up \in upserts :
           /\ same(up) /\ (Ok(up) => Written(se, up, ids) /\ up.txn # NoTxn)
           /\ ids \subseteq se.dirty /\ ~ Ok(up) => Exact(up)
    <2> TAKE up \in upserts
    <2>1. CASE ids = {}
      <3>1. up = se
        BY <2>1
      <3>2. \A S \in SUBSET Ids : S \ ids = S
        BY <2>1
      <3>3. Written(se, se, ids)
        BY <2>1, <3>2, <1>0 DEF Written
      <3> QED BY <3>1, <3>3, <1>0, FollowsSelf
    <2>2. CASE ids # {}
      <3>1. up \in UpsertResults(se, content, rows, busy)
        BY <2>2
      <3>2. \A id \in DOMAIN content : content[id] \in Val
        OBVIOUS
      <3>3. Ok(up) => up.txn # NoTxn
        BY <3>1, <3>2, <1>0, UpsertResultsSound
      <3> QED BY <3>1, <3>3, <1>0, UpsertResultsKeep
    <2> QED BY <2>1, <2>2
  <1>2. \A up \in upserts : Ok(up) => ExactOff(up, se.deleted)
    <2>1. ExactOff(se, se.dirty \cup se.deleted)
      BY <1>0 DEF Exact
    <2> SUFFICES ASSUME NEW up \in upserts, Ok(up) PROVE ExactOff(up, se.deleted)
      OBVIOUS
    <2>2. ExactOff(up, (se.dirty \cup se.deleted) \ ids)
      <3> HIDE DEF upserts, ids
      <3>1. Written(se, up, ids)
        BY <1>1
      <3> QED BY <3>1, <2>1, <1>0 DEF Written
    <2> HIDE DEF upserts
    <2> QED BY <2>2, <1>0 DEF ExactOff
  <1>3. WriteResults(se, content, rows, busy, fault) =
          IF fault
          THEN {StatementFailed(up, "transient") :
                   up \in {se} \cup {up \in landed : up.deleted # {}}}
          ELSE {up \in upserts : ~ Ok(up)} \cup deletes
    BY DEF WriteResults
  <1> HIDE DEF upserts
  <1>4. CASE fault
    <2>1. PICK up \in {se} \cup landed : sent = StatementFailed(up, "transient")
      BY <1>3, <1>4
    <2>2. same(up)
      BY <2>1, <1>0, <1>1, FollowsSelf
    <2>3. Faithful(sent, stored, own) /\ Follows(up, sent) /\ ~ Ok(sent)
      BY <2>1, <2>2, FailureKeeps, StatementFailedSound DEF Exceptions, Ok, Kept, Sound
    <2> QED BY <2>2, <2>3, FollowsOn DEF Faithful
  <1>5. CASE ~ fault /\ sent \in upserts /\ ~ Ok(sent)
    BY <1>5, <1>1
  <1>6. CASE ~ fault /\ sent \in deletes
    <2>1. PICK up \in landed : sent \in after(up)
      BY <1>6
    <2>2. /\ same(up) /\ Written(se, up, ids) /\ ExactOff(up, se.deleted)
          /\ Ok(up) /\ up.txn # NoTxn
      BY <2>1, <1>1, <1>2
    <2>3. up.mem = se.mem /\ up.deleted = se.deleted /\ up.lost = se.lost
      BY <2>2 DEF Written
    <2>4. ids \cap se.deleted = {}
      BY DEF Faithful, Kept, Tidy, Wary
    <2>5. CASE up.deleted = {}
      <3>1. sent = up
        BY <2>1, <2>5
      <3>2. Sent(se, sent, ids)
        BY <3>1, <2>2, <2>3, <2>5 DEF Sent, Written
      <3> QED BY <3>1, <3>2, <2>2
    <2>6. CASE up.deleted # {}
      <3>1. sent \in DeleteResults(up, rows, busy)
        BY <2>1, <2>6
      <3> HIDE DEF landed, ids
      <3>2. /\ Kept(sent, stored, own) /\ Follows(up, sent)
            /\ ~ Ok(sent) => sent.txn = NoTxn
            /\ Ok(sent) =>
                 /\ sent.mem = up.mem /\ sent.deleted = {} /\ sent.lost = up.lost
                 /\ \A id \in Ids \ up.deleted :
                       Current(sent.ledger, id) = Current(up.ledger, id)
                 /\ ExactOff(up, up.deleted) => ExactOff(sent, {})
        BY <3>1, <2>2, DeleteResultsKeep
      <3>3. Ok(sent) => sent.txn # NoTxn
        BY <3>1, <2>2, DeleteResultsSound DEF Kept
      <3>4. Ok(sent) => Sent(se, sent, ids)
        <4> SUFFICES ASSUME Ok(sent) PROVE Sent(se, sent, ids)
          OBVIOUS
        <4>1. ExactOff(sent, {})
          BY <3>2, <2>2, <2>3
        <4>2. \A id \in ids : Current(sent.ledger, id) # NoRow
                                /\ Current(sent.ledger, id).val = se.mem[id].val
          BY <3>2, <2>2, <2>3, <2>4, <1>0 DEF Written
        <4>3. \A id \in Ids \ (ids \cup se.deleted) :
                 Current(sent.ledger, id) = Current(se.ledger, id)
          BY <3>2, <2>2, <2>3 DEF Written
        <4> QED BY <3>2, <3>3, <4>1, <4>2, <4>3, <2>3 DEF Sent
      <3>5. ~ Ok(sent) => Exact(sent)
        BY <3>2 DEF Exact, ExactOff
      <3> QED BY <3>2, <3>4, <3>5, <2>2, FollowsOn DEF ids
    <2> QED BY <2>5, <2>6
  <1>7. \/ sent \in upserts /\ ~ Ok(sent)
        \/ sent \in deletes \/ fault
    BY <1>3
  <1> QED BY <1>4, <1>5, <1>6, <1>7

-----------------------------------------------------------------------------
(* Flushing.                                                               *)

\* Where _begin_writable returns, only the transaction may have changed, once
\* no dead one is left.
LEMMA WritableSame ==
    ASSUME NEW stored, NEW own, NEW se, Faithful(se, stored, own),
           se.txn = NoTxn => ~ InFlight(se.ledger),
           NEW rows, Within(rows, stored), Ok(BeginWritable(se, rows))
    PROVE  LET open == BeginWritable(se, rows)
           IN  /\ open.mem = se.mem /\ open.ledger = se.ledger /\ open.dirty = se.dirty
               /\ open.deleted = se.deleted /\ open.lost = se.lost
               /\ open.txn # NoTxn
  <1> DEFINE open == BeginWritable(se, rows)
             next == BeginTxn(se, "serializable", rows)
  <1>1. ReclaimDeadTxn(se) = se
    BY DEF ReclaimDeadTxn
  <1>2. open = se \/ open = next
    BY <1>1, BeginWritableKeeps
  <1>3. open.txn # NoTxn
    BY BeginWritableSound DEF Faithful, Kept, Within
  <1>4. /\ next.mem = se.mem /\ next.ledger = se.ledger /\ next.dirty = se.dirty
        /\ next.deleted = se.deleted /\ next.lost = se.lost
    BY DEF BeginTxn, Faithful, Kept, Sound, SessionState
  <1> HIDE DEF open, next
  <1>5. /\ open.mem = se.mem /\ open.ledger = se.ledger /\ open.dirty = se.dirty
        /\ open.deleted = se.deleted /\ open.lost = se.lost
    BY <1>2, <1>4
  <1> QED BY <1>3, <1>5 DEF open

\* Whatever memory holds and the ledger does not know is the session's own.
LEMMA UnflushedOwn ==
    ASSUME NEW stored, NEW own, NEW se, Kept(se, stored, own), NEW full,
           NEW id \in Unflushed(se, full)
    PROVE  id \in Cached(se) /\ se.mem[id].val \in own
    BY DEF Kept, Signed, Unflushed

\* Session.flush forgets nothing.  When it succeeds nothing is dirty or deleted
\* any more, and after the full scan of a commit nothing in memory differs from
\* what the ledger calls written.
LEMMA FlushKeeps ==
    ASSUME NEW stored, NEW own \in SUBSET Val, NEW se, Faithful(se, stored, own),
           NEW full \in BOOLEAN, NEW rows, Within(rows, stored), NEW busy, NEW fault,
           NEW sent \in FlushResults(se, full, rows, busy, fault)
    PROVE  /\ Kept(sent, stored, own) /\ Follows(se, sent) /\ (Clean(se) => Clean(sent))
           /\ Ok(sent) \/ ~ full => Exact(sent)
           /\ Ok(sent) =>
                /\ sent.dirty = {} /\ sent.deleted = {}
                /\ sent.txn = NoTxn => ~ InFlight(sent.ledger)
                /\ full => Unflushed(sent, TRUE) = {}
                /\ ~ se.lost => ~ sent.lost
  <1> DEFINE live    == ReclaimDeadTxn(se)
             ids     == Unflushed(live, full)
             open    == BeginWritable(live, rows)
             content == [id \in ids |-> live.mem[id].val]
             wrote   == WriteResults(open, content, rows, busy, fault)
             good(a) == [a EXCEPT !.dirty = {}]
  <1>0. rows \in Rows
    BY DEF Within
  <1>1. /\ Faithful(live, stored, own) /\ Follows(se, live)
        /\ live.txn = NoTxn => ~ InFlight(live.ledger)
        /\ Clean(se) => live = se
        /\ Ok(live) /\ ~ se.lost => ~ live.lost
    BY ReclaimKeeps
  <1>2. FlushResults(se, full, rows, busy, fault) =
          IF ~ Ok(live) THEN {live}
          ELSE IF ids = {} /\ live.deleted = {}
               THEN IF fault THEN {} ELSE {good(live)}
          ELSE IF ~ Ok(open) THEN {open}
          ELSE {IF Ok(w) THEN good(w) ELSE w : w \in wrote}
    BY DEF FlushResults
  <1>3. Faithful(open, stored, own) /\ Follows(live, open) /\ (Clean(live) => Clean(open))
    BY <1>1, BeginWritableKeeps
  <1>4. Ok(open) => /\ open.mem = live.mem /\ open.ledger = live.ledger
                    /\ open.dirty = live.dirty /\ open.deleted = live.deleted
                    /\ open.lost = live.lost /\ open.txn # NoTxn /\ ~ open.roRaised
    <2>1. live \in SessionState
      BY <1>1 DEF Faithful, Kept, Sound
    <2> QED BY <1>1, <2>1, WritableSame, WritableWary
  <1>5. /\ ids \subseteq Cached(live)
        /\ live.dirty \subseteq ids
        /\ \A id \in ids : live.mem[id].val \in own
        /\ ~ full => ids \subseteq live.dirty
    <2>1. Kept(live, stored, own)
      BY <1>1 DEF Faithful
    <2> HIDE DEF live
    <2> QED BY <2>1, UnflushedOwn DEF Unflushed, Kept, Tidy, Wary
  <1>6. \A a : Sound(a) => /\ good(a).txn = a.txn /\ good(a).mem = a.mem
                           /\ good(a).ledger = a.ledger /\ good(a).deleted = a.deleted
                           /\ good(a).lost = a.lost /\ good(a).ro = a.ro
                           /\ good(a).roRaised = a.roRaised /\ good(a).dirty = {}
                           /\ good(a).exc = a.exc /\ good(a).units = a.units
                           /\ good(a) \in SessionState
    BY DEF Sound, SessionState
  <1> HIDE DEF live, good
  <1>7. \A a : Kept(a, stored, own) /\ ExactOff(a, {}) /\ a.deleted = {} =>
                 /\ Faithful(good(a), stored, own) /\ Follows(a, good(a))
                 /\ (Clean(a) => Clean(good(a)))
    <2> SUFFICES ASSUME NEW a, Kept(a, stored, own), ExactOff(a, {}), a.deleted = {}
                 PROVE  /\ Faithful(good(a), stored, own) /\ Follows(a, good(a))
                        /\ (Clean(a) => Clean(good(a)))
      OBVIOUS
    <2> DEFINE b == good(a)
    <2>1. /\ b.txn = a.txn /\ b.mem = a.mem /\ b.ledger = a.ledger /\ b.deleted = a.deleted
          /\ b.lost = a.lost /\ b.ro = a.ro /\ b.roRaised = a.roRaised /\ b.dirty = {}
          /\ b \in SessionState
          /\ b.units = a.units
      BY <1>6 DEF Kept
    <2> HIDE DEF b
    <2>2. Cached(b) = Cached(a) /\ Unflushed(b, TRUE) \subseteq Unflushed(a, TRUE)
      BY <2>1 DEF Cached, Unflushed
    <2>3. Kept(b, stored, own)
      <3>1. Sound(b) /\ Tidy(b) /\ Wary(b) /\ Honest(b, stored)
        BY <2>1, <2>2 DEF Kept, Sound, Mirrored, Tidy, Wary, Honest, OnSnapshot
      <3>2. Signed(b, own)
        BY <2>1, <2>2 DEF Kept, Signed
      <3> QED BY <3>1, <3>2 DEF Kept
    <2>4. Exact(b)
      BY <2>1 DEF Exact, ExactOff
    <2>5. Follows(a, b)
      BY <2>1 DEF Follows, Rides
    <2>6. Clean(a) => Clean(b)
      BY <2>1, <2>2 DEF Clean
    <2> QED BY <2>3, <2>4, <2>5, <2>6 DEF Faithful, b
  <1>8. CASE ~ Ok(live)
    BY <1>1, <1>2, <1>8 DEF Faithful
  <1>9. CASE Ok(live) /\ ids = {} /\ live.deleted = {}
    <2>1. sent = good(live)
      BY <1>2, <1>9
    <2>2. live.dirty = {} /\ Kept(live, stored, own) /\ ExactOff(live, {})
      BY <1>1, <1>5, <1>9 DEF Faithful, Exact
    <2>3. Faithful(sent, stored, own) /\ Follows(live, sent) /\ (Clean(live) => Clean(sent))
      BY <1>7, <1>9, <2>1, <2>2
    <2>4. /\ sent.dirty = {} /\ sent.deleted = {} /\ sent.lost = live.lost
          /\ sent.txn = live.txn /\ sent.ledger = live.ledger /\ sent.mem = live.mem
      BY <2>1, <2>2, <1>6, <1>9 DEF Kept
    <2>5. full => Unflushed(sent, TRUE) = {}
      <3>1. full => Unflushed(live, TRUE) = {}
        BY <1>9
      <3>2. Unflushed(sent, TRUE) \subseteq Unflushed(live, TRUE)
        BY <2>4 DEF Unflushed, Cached
      <3> QED BY <3>1, <3>2
    <2>6. Clean(se) => Clean(sent)
      BY <2>3, <1>1
    <2> QED BY <1>1, <1>9, <2>3, <2>4, <2>5, <2>6, FollowsOn DEF Faithful
  <1>10. CASE Ok(live) /\ ~ (ids = {} /\ live.deleted = {}) /\ ~ Ok(open)
    <2>1. sent = open
      BY <1>2, <1>10
    <2>2. ~ Ok(sent)
      BY <2>1, <1>10
    <2>3. Clean(se) => Clean(sent)
      BY <2>1, <1>1, <1>3
    <2> HIDE DEF open
    <2> QED BY <2>1, <2>2, <2>3, <1>1, <1>3, FollowsOn DEF Faithful
  <1>11. CASE Ok(live) /\ ~ (ids = {} /\ live.deleted = {}) /\ Ok(open)
    <2>1. PICK w \in wrote : sent = IF Ok(w) THEN good(w) ELSE w
      BY <1>2, <1>11
    <2> DEFINE found == content
    <2>2. /\ DOMAIN found = ids /\ ids \in SUBSET Cached(open) /\ open.dirty \subseteq ids
          /\ \A id \in ids : found[id] = open.mem[id].val /\ found[id] \in own
      BY <1>4, <1>5, <1>11 DEF Cached
    <2>3. w \in WriteResults(open, found, rows, busy, fault)
      BY <2>1
    <2> HIDE DEF found, open, wrote, content, ids
    <2>4. /\ Kept(w, stored, own) /\ Follows(open, w)
          /\ Ok(w) => Sent(open, w, ids)
          /\ ids \subseteq open.dirty /\ ~ Ok(w) => Exact(w)
      <3>1. /\ DOMAIN found \in SUBSET Cached(open) /\ open.dirty \subseteq DOMAIN found
            /\ \A id \in DOMAIN found : found[id] = open.mem[id].val /\ found[id] \in own
        BY <2>2
      <3>2. /\ Kept(w, stored, own) /\ Follows(open, w)
            /\ Ok(w) => Sent(open, w, DOMAIN found)
            /\ DOMAIN found \subseteq open.dirty /\ ~ Ok(w) => Exact(w)
        BY <3>1, <2>3, <1>0, <1>3, <1>4, <1>11, WriteResultsKeep
      <3> QED BY <3>2, <2>2
    <2>5. Follows(se, w)
      BY <1>1, <1>3, <2>4, FollowsOn
    <2>6. ~ Clean(se)
      <3> SUFFICES ASSUME Clean(se) PROVE FALSE
        OBVIOUS
      <3>1. live = se
        BY <1>1
      <3>2. Unflushed(live, full) \subseteq Unflushed(live, TRUE)
        BY DEF Unflushed
      <3> QED BY <3>1, <3>2, <1>11 DEF Clean, ids
    <2>7. CASE ~ Ok(w)
      BY <2>1, <2>4, <2>5, <2>6, <2>7, <1>4, <1>5, <1>11
    <2>8. CASE Ok(w)
      <3>1. sent = good(w) /\ Sent(open, w, ids)
        BY <2>1, <2>4, <2>8
      <3>2. Faithful(sent, stored, own) /\ Follows(w, sent)
        BY <3>1, <2>4, <1>7 DEF Sent
      <3>3. /\ sent.dirty = {} /\ sent.deleted = {} /\ sent.lost = open.lost
            /\ sent.txn # NoTxn /\ sent.ledger = w.ledger /\ sent.mem = open.mem
        BY <3>1, <2>4, <1>6 DEF Kept, Sent
      <3>4. ASSUME full PROVE Unflushed(sent, TRUE) = {}
        <4> SUFFICES ASSUME NEW id \in Cached(sent)
                     PROVE  /\ Current(sent.ledger, id) # NoRow
                            /\ Current(sent.ledger, id).val = sent.mem[id].val
          BY <3>3 DEF Unflushed
        <4>1. id \in Cached(live) /\ id \in Ids
          BY <3>3, <1>4, <1>11 DEF Cached
        <4>2. CASE id \in ids
          BY <4>2, <3>1, <3>3 DEF Sent
        <4>3. CASE id \notin ids
          <5>1. /\ Current(live.ledger, id) # NoRow
                /\ Current(live.ledger, id).val = live.mem[id].val
            BY <4>1, <4>3, <3>4 DEF ids, Unflushed
          <5>2. id \notin open.deleted
            BY <4>1, <1>1, <1>4, <1>11 DEF Faithful, Kept, Tidy, Wary
          <5>3. Current(w.ledger, id) = Current(open.ledger, id)
            BY <4>1, <4>3, <5>2, <3>1 DEF Sent
          <5> QED BY <5>1, <5>3, <3>3, <1>4, <1>11
        <4> QED BY <4>2, <4>3
      <3> QED BY <3>2, <3>3, <3>4, <2>5, <2>6, <1>1, <1>4, <1>11, FollowsOn DEF Faithful
    <2> QED BY <2>7, <2>8
  <1> QED BY <1>8, <1>9, <1>10, <1>11

\* So does a read barrier; one that succeeds has left nothing to write.
LEMMA BarrierKeeps ==
    ASSUME NEW stored, NEW own \in SUBSET Val, NEW se, Faithful(se, stored, own),
           NEW rows, Within(rows, stored), NEW busy, NEW fault,
           NEW open \in BarrierResults(se, rows, busy, fault)
    PROVE  /\ Faithful(open, stored, own) /\ Follows(se, open)
           /\ Clean(se) => Clean(open)
           /\ Ok(open) => open.dirty = {} /\ open.deleted = {} /\ open.txn # NoTxn
  <1> DEFINE mid == EnsureTxn(se, rows)
  <1>1. Faithful(mid, stored, own) /\ Follows(se, mid) /\ (Clean(se) => Clean(mid))
    BY EnsureKeeps
  <1>2. Ok(open) => open.txn # NoTxn
    BY BarrierSound DEF Faithful, Kept, Within
  <1>3. open \in IF Ok(mid) THEN FlushResults(mid, FALSE, rows, busy, fault) ELSE {mid}
    BY DEF BarrierResults
  <1> HIDE DEF mid
  <1>4. CASE ~ Ok(mid)
    BY <1>1, <1>3, <1>4
  <1>5. CASE Ok(mid)
    <2>1. open \in FlushResults(mid, FALSE, rows, busy, fault)
      BY <1>3, <1>5
    <2>2. /\ Kept(open, stored, own) /\ Follows(mid, open) /\ (Clean(mid) => Clean(open))
          /\ Exact(open)
          /\ Ok(open) => open.dirty = {} /\ open.deleted = {}
      BY <2>1, <1>1, FlushKeeps
    <2> QED BY <2>2, <1>1, <1>2, FollowsOn DEF Faithful
  <1> QED BY <1>4, <1>5

-----------------------------------------------------------------------------
(* Reading, aborting, committing.                                          *)

\* A transaction that takes locks, or learns of others', carries what it did.
LEMMA MarksKeep ==
    ASSUME NEW stored, NEW own, NEW se, Kept(se, stored, own), se.txn # NoTxn,
           NEW t \in Txn, t.iso = se.txn.iso, t.snap = se.txn.snap,
           t.own = se.txn.own, t.joins = se.txn.joins
    PROVE  LET end == [se EXCEPT !.txn = t]
           IN  /\ Kept(end, stored, own) /\ (Exact(se) => Exact(end))
               /\ Follows(se, end) /\ (Clean(se) => Clean(end))
               /\ (Flushed(se) => Flushed(end)) /\ end.txn # NoTxn
               /\ \A j \in Val : Rides(end, j) <=> Rides(se, j)
  <1> DEFINE end == [se EXCEPT !.txn = t]
  <1>1. /\ end.txn = t /\ end.mem = se.mem /\ end.ledger = se.ledger
        /\ end.dirty = se.dirty /\ end.deleted = se.deleted /\ end.lost = se.lost
        /\ end.ro = se.ro /\ end.roRaised = se.roRaised /\ end.units = se.units
        /\ end \in SessionState
    BY DEF Kept, Sound, SessionState
  <1>2. t # NoTxn
    BY NoTxnAssumption
  <1> HIDE DEF end
  <1>3. Cached(end) = Cached(se) /\ Unflushed(end, TRUE) = Unflushed(se, TRUE)
    BY <1>1 DEF Cached, Unflushed
  <1>4. Kept(end, stored, own)
    BY <1>1, <1>2, <1>3 DEF Kept, Sound, Mirrored, Tidy, Wary, Honest, Signed, OnSnapshot
  <1>5. Exact(se) => Exact(end)
    BY <1>1, <1>2, SameExact DEF Exact
  <1>6. \A j \in Val : Rides(end, j) <=> Rides(se, j)
    BY <1>1, <1>2 DEF Rides
  <1>7. Follows(se, end)
    BY <1>1, <1>6 DEF Follows
  <1>8. (Clean(se) => Clean(end)) /\ (Flushed(se) => Flushed(end))
    BY <1>1, <1>2, <1>3 DEF Clean, Flushed
  <1> QED BY <1>2, <1>4, <1>5, <1>6, <1>7, <1>8 DEF end

\* A read's predicate locks are such marks.
LEMMA ReadingKeeps ==
    ASSUME NEW stored, NEW own, NEW se, Faithful(se, stored, own), se.txn # NoTxn,
           NEW ids \in SUBSET Ids
    PROVE  LET end == [se EXCEPT !.txn = Reading(@, ids)]
           IN  Faithful(end, stored, own) /\ Follows(se, end) /\ (Clean(se) => Clean(end))
  <1> DEFINE t == Reading(se.txn, ids)
  <1>1. se.txn \in Txn
    BY DEF Faithful, Kept, Sound, SessionState
  <1>2. /\ t \in Txn /\ t.iso = se.txn.iso /\ t.snap = se.txn.snap
        /\ t.own = se.txn.own /\ t.joins = se.txn.joins
    BY <1>1 DEF Reading, Txn
  <1>3. [se EXCEPT !.txn = Reading(@, ids)] = [se EXCEPT !.txn = t]
    BY DEF Faithful, Kept, Sound, SessionState
  <1> HIDE DEF t
  <1> QED BY <1>2, <1>3, MarksKeep DEF Faithful

\* What a load brings into memory is what the ledger then says is stored: it
\* is only asked when nothing is left to flush.
LEMMA LoadKeeps ==
    ASSUME NEW stored, NEW own, NEW se, Faithful(se, stored, own), se.txn # NoTxn,
           se.dirty = {}, se.deleted = {}, NEW ids \in SUBSET Ids
    PROVE  /\ Faithful(Load(se, ids), stored, own) /\ Follows(se, Load(se, ids))
           /\ Clean(se) => Clean(Load(se, ids))
  <1> DEFINE row == [id \in Ids |-> Visible(se.txn, id)]
             new == {id \in ids : row[id] # NoRow /\ se.mem[id] = NoAnchor}
             end == Load(se, ids)
  <1>0. /\ se \in SessionState /\ se.txn \in Txn /\ se.ledger \in Ledger
        /\ Kept(se, stored, own) /\ Exact(se)
    BY DEF Faithful, Kept, Sound, SessionState
  <1>1. Sound(end)
    BY LoadSound DEF Faithful, Kept
  <1>2. end = [se EXCEPT
           !.txn = Reading(@, ids),
           !.mem = [id \in Ids |-> IF id \in new
                      THEN [val |-> row[id].val, base |-> row[id].val] ELSE @[id]],
           !.ledger = Loaded(@, new, row),
           !.snapshotReads = IF OnSnapshot(se) THEN @ \cup new ELSE @]
    BY DEF Load
  <1> HIDE DEF end
  <1>3. /\ end.txn = Reading(se.txn, ids) /\ end.ledger = Loaded(se.ledger, new, row)
        /\ end.dirty = {} /\ end.deleted = {} /\ end.lost = se.lost
        /\ end.ro = se.ro /\ end.roRaised = se.roRaised /\ end.units = se.units
        /\ \A id \in Ids : end.mem[id] =
              IF id \in new THEN [val |-> row[id].val, base |-> row[id].val] ELSE se.mem[id]
    BY <1>0, <1>2 DEF SessionState
  <1>4. /\ end.txn.iso = se.txn.iso /\ end.txn.snap = se.txn.snap
        /\ end.txn.own = se.txn.own /\ end.txn.joins = se.txn.joins
    BY <1>0, <1>3 DEF Reading, Txn
  <1>5. /\ \A id \in Ids : row[id] = Visible(se.txn, id)
        /\ new \subseteq Ids /\ \A id \in new : row[id] # NoRow /\ se.mem[id] = NoAnchor
    OBVIOUS
  <1>6. /\ end.ledger.removed = se.ledger.removed /\ end.ledger.joined = se.ledger.joined
        /\ \A id \in Ids : end.ledger.upserted[id] =
              IF id \in new /\ se.ledger.upserted[id] # NoRow
              THEN row[id] ELSE se.ledger.upserted[id]
        /\ \A id \in Ids : end.ledger.committed[id] =
              IF id \in new /\ se.ledger.upserted[id] = NoRow
              THEN row[id] ELSE se.ledger.committed[id]
    <2> HIDE DEF row, new
    <2>1. end.ledger = Loaded(se.ledger, new, row)
      BY <1>3
    <2> QED BY <1>0, <1>5, <2>1 DEF Loaded, Ledger, Rows
  <1> HIDE DEF row, new
  <1>7. \A id \in Ids :
           /\ (se.ledger.upserted[id] # NoRow \/ se.txn.own[id] \notin {Unwritten, NoRow})
                 => se.txn.own[id] = se.ledger.upserted[id]
           /\ id \in se.ledger.removed => Visible(se.txn, id) = NoRow
    BY <1>0 DEF Exact, ExactOff
  <1>8. \A id \in Ids : end.ledger.upserted[id] = se.ledger.upserted[id]
    <2>1. \A id \in Ids : se.ledger.upserted[id] # NoRow =>
             se.txn.own[id] \notin {Unwritten, NoRow}
      BY <1>0 DEF Kept, Sound, Mirrored
    <2> QED BY <2>1, <1>5, <1>6, <1>7 DEF Visible
  <1>9. \A id \in new : /\ Current(end.ledger, id) = row[id] /\ id \notin se.ledger.removed
                        /\ end.mem[id].val = row[id].val
    <2> SUFFICES ASSUME NEW id \in new
                 PROVE  /\ Current(end.ledger, id) = row[id] /\ id \notin se.ledger.removed
                        /\ end.mem[id].val = row[id].val
      OBVIOUS
    <2>1. id \in Ids /\ row[id] # NoRow /\ row[id] = Visible(se.txn, id)
      BY <1>5
    <2>2. id \notin se.ledger.removed
      BY <2>1, <1>7
    <2>3. end.mem[id] = [val |-> row[id].val, base |-> row[id].val]
      BY <2>1, <1>3
    <2> QED BY <2>1, <2>2, <2>3, <1>6 DEF Current
  <1>10. \A id \in Ids \ new : /\ Current(end.ledger, id) = Current(se.ledger, id)
                               /\ end.mem[id] = se.mem[id]
    BY <1>3, <1>6 DEF Current
  <1>11. Honest(end, stored)
    <2>1. \A id \in new : se.ledger.upserted[id] = NoRow => row[id] = se.txn.snap[id]
      BY <1>5, <1>7 DEF Visible
    <2>2. \A id \in Ids : end.ledger.committed[id] # NoRow
                             => end.ledger.committed[id].val \in stored
      BY <2>1, <1>0, <1>6 DEF Kept, Honest
    <2> QED BY <2>2, <1>0, <1>4 DEF Kept, Honest
  <1>12. Signed(end, own)
    <2>1. \A id \in Cached(end) :
             \/ end.mem[id].val \in own
             \/ /\ id \notin end.dirty /\ Current(end.ledger, id) # NoRow
                /\ Current(end.ledger, id).val = end.mem[id].val
      <3> TAKE id \in Cached(end)
      <3>1. CASE id \in new
        BY <3>1, <1>3, <1>5, <1>9
      <3>2. CASE id \notin new
        BY <3>2, <1>0, <1>3, <1>10 DEF Kept, Signed, Cached
      <3> QED BY <3>1, <3>2
    <2> QED BY <2>1, <1>0, <1>4, <1>8 DEF Kept, Signed
  <1>13. Tidy(end) /\ Wary(end)
    BY <1>0, <1>3, <1>4 DEF Kept, Tidy, Wary, OnSnapshot
  <1>14. Exact(end)
    <2>1. \A id \in Ids : /\ end.ledger.upserted[id] = se.ledger.upserted[id]
                          /\ id \in end.ledger.removed => id \in se.ledger.removed
      BY <1>6, <1>8
    <2>2. se.txn # NoTxn /\ ExactOff(se, {})
      BY <1>0 DEF ExactOff, Exact
    <2>3. ExactOff(end, {})
      BY <2>1, <2>2, <1>4, <1>8, SameExact
    <2> QED BY <2>3, <1>3 DEF Exact
  <1>15. Follows(se, end)
    <2>1. end.txn # NoTxn
      <3>1. Reading(se.txn, ids) \in Txn
        BY <1>0 DEF Reading, Txn
      <3> QED BY <3>1, <1>3, NoTxnAssumption
    <2>2. \A id \in Ids : se.mem[id] # NoAnchor => end.mem[id] = se.mem[id]
      BY <1>5, <1>10
    <2> QED BY <2>1, <2>2, <1>3, <1>4, <1>6 DEF Follows, Rides
  <1>16. ASSUME Clean(se) PROVE Clean(end)
    <2>1. ~ InFlight(end.ledger)
      BY <1>16, <1>6, <1>8 DEF Clean, InFlight
    <2>2. Unflushed(end, TRUE) = {}
      <3> SUFFICES ASSUME NEW id \in Ids, end.mem[id] # NoAnchor
                   PROVE  /\ Current(end.ledger, id) # NoRow
                          /\ Current(end.ledger, id).val = end.mem[id].val
        BY <1>3 DEF Unflushed, Cached
      <3>1. CASE id \in new
        BY <3>1, <1>5, <1>9
      <3>2. CASE id \notin new
        BY <3>2, <1>10, <1>16 DEF Clean, Unflushed, Cached
      <3> QED BY <3>1, <3>2
    <2> QED BY <2>1, <2>2, <1>3 DEF Clean
  <1> QED BY <1>0, <1>1, <1>11, <1>12, <1>13, <1>14, <1>15, <1>16 DEF Faithful, Kept, end

\* Session.abort forgets the run: nothing is left to write.
LEMMA AbortKeeps ==
    ASSUME NEW stored, NEW own, NEW se, Kept(se, stored, own), NEW mine
    PROVE  /\ Faithful(Abort(se), stored, mine) /\ Clean(Abort(se))
           /\ Abort(se).txn = NoTxn /\ Abort(se).units = se.units
  <1> DEFINE told == [se EXCEPT !.contended = @ \cup se.lastConflict, !.lastConflict = {}]
             back == RollbackTxn(told)
             end  == Abort(se)
  <1>1. /\ Work(told) = Work(se) /\ told \in SessionState /\ told.units = se.units
        /\ told.txn = se.txn /\ told.ro = se.ro /\ told.roRaised = se.roRaised
    BY DEF Work, Kept, Sound, SessionState
  <1> HIDE DEF told
  <1>2. OnSnapshot(told) => told.ro
    BY <1>1 DEF OnSnapshot, Kept, Tidy, Wary
  <1>3. Kept(told, stored, own)
    BY <1>1, <1>2, SameWork
  <1>4. /\ Faithful(back, stored, own) /\ ~ InFlight(back.ledger) /\ back.txn = NoTxn
        /\ back.units = se.units
    BY <1>1, <1>3, RollbackKeeps DEF Follows
  <1> HIDE DEF back
  <1>5. end = [ForgetLoaded(back) EXCEPT !.dirty = {}, !.deleted = {},
                  !.snapshotReads = {}, !.lost = FALSE, !.exc = "none"]
    BY DEF Abort, told, back
  <1>6. Sound(end)
    BY AbortSound DEF Kept, Sound
  <1> HIDE DEF end
  <1>7. /\ end.txn = NoTxn /\ end.dirty = {} /\ end.deleted = {} /\ end.units = se.units
        /\ end.ledger = Forget(back.ledger, Cached(back))
        /\ \A id \in Ids : end.mem[id] = NoAnchor
    BY <1>4, <1>5 DEF ForgetLoaded, Faithful, Kept, Sound, SessionState
  <1>8. /\ end.ledger.upserted = back.ledger.upserted
        /\ end.ledger.removed = back.ledger.removed
        /\ end.ledger.joined = back.ledger.joined
        /\ \A id \in Ids : end.ledger.committed[id] \in {NoRow, back.ledger.committed[id]}
    BY <1>4, <1>7 DEF Forget, Faithful, Kept, Sound, SessionState, Ledger
  <1>9. Cached(end) = {} /\ Unflushed(end, TRUE) = {}
    BY <1>7 DEF Cached, Unflushed
  <1>10. Tidy(end) /\ Wary(end) /\ Honest(end, stored) /\ Signed(end, mine) /\ Exact(end)
    BY <1>4, <1>7, <1>8, <1>9
       DEF Faithful, Kept, Tidy, Wary, Honest, Signed, OnSnapshot, Exact, ExactOff, InFlight
  <1>11. Clean(end)
    BY <1>4, <1>7, <1>8, <1>9 DEF Clean, InFlight
  <1> QED BY <1>6, <1>7, <1>10, <1>11 DEF Faithful, Kept, end

\* A COMMIT that is through leaves nothing to write, and everything memory
\* holds in the store.
LEMMA CommitKeeps ==
    ASSUME NEW stored, NEW own, NEW se, Faithful(se, stored, own), Flushed(se),
           NEW now, stored \subseteq now,
           \A id \in Ids : se.ledger.upserted[id] # NoRow
                              => se.ledger.upserted[id].val \in now
    PROVE  LET end == LeaveQueue(CommitTxn(se))
           IN  /\ Faithful(end, now, own) /\ Clean(end) /\ end.txn = NoTxn
               /\ end.units = se.units
               /\ \A id \in Cached(se) : se.mem[id].val \in now
  <1> DEFINE done == CommitTxn(se)
             end  == LeaveQueue(done)
  <1>0. se \in SessionState /\ se.ledger \in Ledger /\ Kept(se, stored, own) /\ Exact(se)
    BY DEF Faithful, Kept, Sound, SessionState
  <1>1. Sound(end)
    BY <1>0, CommitSound, LeaveQueueSound
  <1>2. /\ done.txn = NoTxn /\ done.ledger = Promote(se.ledger) /\ done.dirty = se.dirty
        /\ done.deleted = se.deleted /\ done.lost = se.lost /\ done.units = se.units
        /\ done \in SessionState
    BY <1>0, CommitSound DEF CommitTxn, SessionState, Sound
  <1>3. \A id \in Ids : /\ (done.mem[id] = NoAnchor) <=> (se.mem[id] = NoAnchor)
                        /\ se.mem[id] # NoAnchor => done.mem[id].val = se.mem[id].val
    <2>1. \A id \in Ids : done.mem[id] =
             IF se.mem[id] # NoAnchor /\ se.ledger.upserted[id] # NoRow
             THEN [se.mem[id] EXCEPT !.base = se.ledger.upserted[id].val] ELSE se.mem[id]
      BY <1>0 DEF CommitTxn, SessionState
    <2> SUFFICES ASSUME NEW id \in Ids
                 PROVE  /\ (done.mem[id] = NoAnchor) <=> (se.mem[id] = NoAnchor)
                        /\ se.mem[id] # NoAnchor => done.mem[id].val = se.mem[id].val
      OBVIOUS
    <2>3. CASE se.mem[id] # NoAnchor /\ se.ledger.upserted[id] # NoRow
      <3>1. se.mem[id] \in Anchor /\ se.ledger.upserted[id].val \in Val
        BY <2>3, <1>0 DEF SessionState, Ledger, Rows, MaybeRow, RowState
      <3>2. /\ [se.mem[id] EXCEPT !.base = se.ledger.upserted[id].val] \in Anchor
            /\ [se.mem[id] EXCEPT !.base = se.ledger.upserted[id].val].val = se.mem[id].val
        BY <3>1 DEF Anchor
      <3> QED BY <2>1, <2>3, <3>2, NoAnchorAssumption
    <2>4. CASE ~ (se.mem[id] # NoAnchor /\ se.ledger.upserted[id] # NoRow)
      BY <2>1, <2>4
    <2> QED BY <2>3, <2>4
  <1> HIDE DEF done
  <1>4. /\ end.txn = NoTxn /\ end.ledger = done.ledger /\ end.dirty = se.dirty
        /\ end.deleted = se.deleted /\ end.mem = done.mem /\ end.lost = se.lost
        /\ end.units = se.units
    BY <1>2 DEF LeaveQueue, SessionState
  <1> HIDE DEF end
  <1>5. /\ end.ledger.removed = {} /\ end.ledger.joined = FALSE
        /\ \A id \in Ids : /\ end.ledger.upserted[id] = NoRow
                           /\ end.ledger.committed[id] = Current(se.ledger, id)
                           /\ Current(end.ledger, id) = Current(se.ledger, id)
    BY <1>0, <1>2, <1>4 DEF Promote, EmptyRows, Ledger, Current
  <1>6. Cached(end) = Cached(se)
    BY <1>3, <1>4 DEF Cached
  <1>7. /\ se.dirty = {} /\ se.deleted = {}
        /\ \A id \in Cached(se) : /\ Current(se.ledger, id) # NoRow
                                  /\ Current(se.ledger, id).val = se.mem[id].val
    BY <1>0 DEF Flushed, Unflushed, Kept, Tidy, Wary
  <1>8. \A id \in Ids : Current(se.ledger, id) # NoRow => Current(se.ledger, id).val \in now
    BY <1>0 DEF Current, Kept, Honest
  <1>9. \A id \in Cached(se) : se.mem[id].val \in now
    BY <1>7, <1>8 DEF Cached
  <1>10. Tidy(end) /\ Wary(end) /\ Honest(end, now) /\ Exact(end)
    BY <1>4, <1>5, <1>7, <1>8 DEF Tidy, Wary, Honest, Exact, ExactOff, OnSnapshot
  <1>11. Signed(end, own)
    <2>1. \A id \in Cached(end) : /\ id \notin end.dirty /\ Current(end.ledger, id) # NoRow
                                  /\ Current(end.ledger, id).val = end.mem[id].val
      <3> TAKE id \in Cached(end)
      <3>1. id \in Cached(se) /\ id \in Ids /\ end.mem[id].val = se.mem[id].val
        BY <1>3, <1>4, <1>6 DEF Cached
      <3> QED BY <3>1, <1>4, <1>5, <1>7
    <2> QED BY <2>1, <1>4, <1>5 DEF Signed
  <1>12. Clean(end)
    <2>1. Unflushed(end, TRUE) = {}
      BY <1>3, <1>4, <1>5, <1>6, <1>7 DEF Unflushed, Cached
    <2> QED BY <2>1, <1>4, <1>5, <1>7 DEF Clean, InFlight
  <1> QED BY <1>1, <1>4, <1>9, <1>10, <1>11, <1>12 DEF Faithful, Kept, end, done

\* A table that has grown is no less faithful.
LEMMA StoredGrows ==
    ASSUME NEW stored, NEW own, NEW se, NEW now, stored \subseteq now
    PROVE  /\ Kept(se, stored, own) => Kept(se, now, own)
           /\ Faithful(se, stored, own) => Faithful(se, now, own)
  BY DEF Faithful, Kept, Honest

\* What is no run's work is any run's.
LEMMA OwnGrows ==
    ASSUME NEW stored, NEW se, NEW own, Faithful(se, stored, {})
    PROVE  Faithful(se, stored, own)
  BY DEF Faithful, Kept, Signed

\* A session just made has nothing to write.
LEMMA NewKeeps ==
    ASSUME NEW stored, NEW own
    PROVE  /\ Faithful(NewSession, stored, own) /\ Clean(NewSession)
           /\ NewSession.txn = NoTxn /\ NewSession.units = 0
  <1>1. /\ NewSession.txn = NoTxn /\ NewSession.dirty = {} /\ NewSession.deleted = {}
        /\ NewSession.units = 0 /\ NewSession.ledger = NewLedger
        /\ \A id \in Ids : NewSession.mem[id] = NoAnchor
    BY DEF NewSession
  <1>2. /\ NewLedger.removed = {} /\ NewLedger.joined = FALSE
        /\ \A id \in Ids : NewLedger.upserted[id] = NoRow /\ NewLedger.committed[id] = NoRow
    BY DEF NewLedger, EmptyRows
  <1>3. Sound(NewSession)
    BY DEF NewSession, SessionState, NewLedger, Ledger, EmptyRows, Rows, MaybeRow,
           Exceptions, Sound, Mirrored
  <1>4. Cached(NewSession) = {} /\ Unflushed(NewSession, TRUE) = {}
    BY <1>1 DEF Cached, Unflushed
  <1>5. Kept(NewSession, stored, own) /\ Exact(NewSession)
    BY <1>1, <1>2, <1>3, <1>4
       DEF Kept, Tidy, Wary, Honest, Signed, OnSnapshot, Exact, ExactOff
  <1>6. Clean(NewSession)
    BY <1>1, <1>2, <1>4 DEF Clean, InFlight
  <1> QED BY <1>1, <1>5, <1>6 DEF Faithful

\* Entering a unit on the read tier is for sessions without a snapshot open.
LEMMA UnitEnterKeeps ==
    ASSUME NEW stored, NEW own, NEW se, Faithful(se, stored, own), ~ OnSnapshot(se),
           NEW ro \in BOOLEAN, NEW rows, Within(rows, stored)
    PROVE  /\ Faithful(UnitEnter(se, ro, rows), stored, own)
           /\ UnitEnter(se, ro, rows).units = 1
  <1> DEFINE entered == [se EXCEPT !.units = 1, !.ro = ro]
             end     == UnitEnter(se, ro, rows)
  <1>1. /\ Work(entered) = Work(se) /\ entered.txn = se.txn /\ entered.units = 1
        /\ entered.roRaised = se.roRaised /\ entered \in SessionState
    BY DEF Work, Faithful, Kept, Sound, SessionState
  <1>2. end = IF se.txn # NoTxn THEN EnsureTxn(entered, rows) ELSE entered
    BY DEF UnitEnter
  <1> HIDE DEF entered, end
  <1>3. Faithful(entered, stored, own)
    <2>1. OnSnapshot(entered) => entered.ro
      BY <1>1 DEF OnSnapshot
    <2> QED BY <2>1, <1>1, SameWork DEF Faithful
  <1>4. /\ Faithful(EnsureTxn(entered, rows), stored, own)
        /\ EnsureTxn(entered, rows).units = 1
    BY <1>1, <1>3, EnsureKeeps DEF Follows
  <1> QED BY <1>1, <1>2, <1>3, <1>4 DEF end

-----------------------------------------------------------------------------
(* What the graph API does in memory.                                      *)

\* end is se but for the anchor id in memory.
Edits(se, end, id) ==
    /\ end.units = se.units
    /\ \A i \in Ids \ {id} : end.mem[i] = se.mem[i]
    /\ \A j \in Val : Rides(se, j) => Rides(end, j)

\* A new content of an anchor is the session's own, marked dirty or not.
LEMMA WriteKeeps ==
    ASSUME NEW stored, NEW own, NEW se, Faithful(se, stored, own), NEW id \in Cached(se),
           NEW anchor \in Anchor, anchor.val \in own,
           NEW end, \/ end = [se EXCEPT !.mem[id] = anchor]
                    \/ end = MarkDirty([se EXCEPT !.mem[id] = anchor], id)
    PROVE  /\ Faithful(end, stored, own) /\ Edits(se, end, id)
           /\ end.mem[id] = anchor
  <1> DEFINE mut == [se EXCEPT !.mem[id] = anchor]
  <1>0. Kept(se, stored, own) /\ Exact(se) /\ Sound(se) /\ se \in SessionState /\ id \in Ids
        /\ anchor # NoAnchor
    BY NoAnchorAssumption DEF Faithful, Kept, Sound, Cached
  <1>1. /\ mut.txn = se.txn /\ mut.ledger = se.ledger /\ mut.deleted = se.deleted
        /\ mut.lost = se.lost /\ mut.ro = se.ro /\ mut.roRaised = se.roRaised
        /\ mut.units = se.units
        /\ mut.dirty = se.dirty /\ mut \in SessionState
        /\ \A i \in Ids : mut.mem[i] = IF i = id THEN anchor ELSE se.mem[i]
    BY <1>0 DEF SessionState
  <1>2. end = mut \/ end = MarkDirty(mut, id)
    OBVIOUS
  <1> HIDE DEF mut
  <1>3. Cached(mut) = Cached(se)
    BY <1>0, <1>1 DEF Cached
  <1>4. /\ end.txn = se.txn /\ end.ledger = se.ledger /\ end.deleted = se.deleted
        /\ end.lost = se.lost /\ end.ro = se.ro /\ end.roRaised = se.roRaised
        /\ end.units = se.units
        /\ se.dirty \subseteq end.dirty /\ end.dirty \subseteq se.dirty \cup {id}
        /\ end \in SessionState
        /\ \A i \in Ids : end.mem[i] = IF i = id THEN anchor ELSE se.mem[i]
    BY <1>0, <1>1, <1>2, <1>3 DEF SessionState, MarkDirty
  <1>5. Cached(end) = Cached(se)
    BY <1>0, <1>4 DEF Cached
  <1>6. Sound(end) /\ Tidy(end) /\ Wary(end) /\ Honest(end, stored)
    BY <1>0, <1>4, <1>5 DEF Sound, Mirrored, Kept, Tidy, Wary, Honest, OnSnapshot
  <1>7. \A i \in Cached(end) :
           \/ end.mem[i].val \in own
           \/ /\ i \notin end.dirty /\ Current(end.ledger, i) # NoRow
              /\ Current(end.ledger, i).val = end.mem[i].val
    BY <1>0, <1>4, <1>5 DEF Kept, Signed, Cached
  <1>8. Signed(end, own)
    BY <1>0, <1>4, <1>7 DEF Kept, Signed
  <1>9. Exact(end) /\ Edits(se, end, id)
    BY <1>0, <1>4 DEF Exact, ExactOff, Edits, Rides
  <1> QED BY <1>0, <1>4, <1>6, <1>8, <1>9 DEF Faithful, Kept

\* So is a new anchor.
LEMMA PutKeeps ==
    ASSUME NEW stored, NEW own, NEW se, Faithful(se, stored, own), NEW id \in Ids,
           NEW anchor \in Anchor, anchor.val \in own
    PROVE  /\ Faithful(Put(se, id, anchor), stored, own) /\ Edits(se, Put(se, id, anchor), id)
           /\ Put(se, id, anchor).mem[id] = anchor
  <1> DEFINE end == Put(se, id, anchor)
  <1>0. Kept(se, stored, own) /\ Exact(se) /\ Sound(se) /\ se \in SessionState
        /\ anchor # NoAnchor
    BY NoAnchorAssumption DEF Faithful, Kept, Sound
  <1>1. /\ end.txn = se.txn /\ end.ledger = se.ledger /\ end.deleted = se.deleted \ {id}
        /\ end.lost = se.lost /\ end.ro = se.ro /\ end.roRaised = se.roRaised
        /\ end.units = se.units
        /\ end.dirty = se.dirty \cup {id} /\ end \in SessionState
        /\ \A i \in Ids : end.mem[i] = IF i = id THEN anchor ELSE se.mem[i]
    BY <1>0 DEF Put, SessionState
  <1> HIDE DEF end
  <1>2. Cached(end) = Cached(se) \cup {id}
    BY <1>0, <1>1 DEF Cached
  <1>3. Sound(end) /\ Tidy(end) /\ Wary(end) /\ Honest(end, stored)
    BY <1>0, <1>1, <1>2 DEF Sound, Mirrored, Kept, Tidy, Wary, Honest, OnSnapshot
  <1>4. \A i \in Cached(end) :
           \/ end.mem[i].val \in own
           \/ /\ i \notin end.dirty /\ Current(end.ledger, i) # NoRow
              /\ Current(end.ledger, i).val = end.mem[i].val
    BY <1>0, <1>1, <1>2 DEF Kept, Signed, Cached
  <1>5. Signed(end, own)
    BY <1>0, <1>1, <1>4 DEF Kept, Signed
  <1>6. Exact(end) /\ Edits(se, end, id)
    BY <1>0, <1>1 DEF Exact, ExactOff, Edits, Rides
  <1> QED BY <1>1, <1>3, <1>5, <1>6 DEF Faithful, Kept, end

\* A deleted anchor is no longer in memory, and still to be deleted below.
LEMMA DeleteKeeps ==
    ASSUME NEW stored, NEW own, NEW se, Faithful(se, stored, own), NEW id \in Ids
    PROVE  Faithful(Delete(se, id), stored, own) /\ Edits(se, Delete(se, id), id)
  <1> DEFINE end == Delete(se, id)
  <1>0. Kept(se, stored, own) /\ Exact(se) /\ Sound(se) /\ se \in SessionState
    BY DEF Faithful, Kept, Sound
  <1>1. /\ end.txn = se.txn /\ end.ledger = se.ledger /\ end.deleted = se.deleted \cup {id}
        /\ end.lost = se.lost /\ end.ro = se.ro /\ end.roRaised = se.roRaised
        /\ end.units = se.units
        /\ end.dirty = se.dirty \ {id} /\ end \in SessionState
        /\ \A i \in Ids : end.mem[i] = IF i = id THEN NoAnchor ELSE se.mem[i]
    BY <1>0 DEF Delete, SessionState
  <1> HIDE DEF end
  <1>2. Cached(end) = Cached(se) \ {id}
    BY <1>1 DEF Cached
  <1>3. Sound(end) /\ Tidy(end) /\ Wary(end) /\ Honest(end, stored)
    BY <1>0, <1>1, <1>2 DEF Sound, Mirrored, Kept, Tidy, Wary, Honest, OnSnapshot
  <1>4. \A i \in Cached(end) :
           \/ end.mem[i].val \in own
           \/ /\ i \notin end.dirty /\ Current(end.ledger, i) # NoRow
              /\ Current(end.ledger, i).val = end.mem[i].val
    BY <1>0, <1>1, <1>2 DEF Kept, Signed, Cached
  <1>5. Signed(end, own)
    BY <1>0, <1>1, <1>4 DEF Kept, Signed
  <1>6. Exact(end) /\ Edits(se, end, id)
    BY <1>0, <1>1 DEF Exact, ExactOff, Edits, Rides
  <1> QED BY <1>3, <1>5, <1>6 DEF Faithful, Kept, end

\* A statement outside the graph that was answered rides in the transaction.
LEMMA JoinKeeps ==
    ASSUME NEW stored, NEW own, NEW se, Faithful(se, stored, own), se.txn # NoTxn,
           se.ledger.joined, ~ se.roRaised, NEW val \in Val, val \in own
    PROVE  LET end == [se EXCEPT !.txn.joins = @ \cup {val}]
           IN  /\ Faithful(end, stored, own) /\ Follows(se, end) /\ Rides(end, val)
  <1> DEFINE t   == [se.txn EXCEPT !.joins = @ \cup {val}]
             end == [se EXCEPT !.txn = t]
  <1>0. Kept(se, stored, own) /\ Exact(se) /\ Sound(se) /\ se \in SessionState
        /\ se.txn \in Txn
    BY DEF Faithful, Kept, Sound, SessionState
  <1>1. /\ t \in Txn /\ t.joins = se.txn.joins \cup {val} /\ t.own = se.txn.own
        /\ t.snap = se.txn.snap /\ t.iso = se.txn.iso
    BY <1>0 DEF Txn
  <1>2. t # NoTxn
    BY <1>1, NoTxnAssumption
  <1>3. [se EXCEPT !.txn.joins = @ \cup {val}] = end
    BY <1>0 DEF SessionState
  <1> HIDE DEF t
  <1>4. /\ end.txn = t /\ end.mem = se.mem /\ end.ledger = se.ledger
        /\ end.dirty = se.dirty /\ end.deleted = se.deleted /\ end.lost = se.lost
        /\ end.ro = se.ro /\ end.roRaised = se.roRaised /\ end.units = se.units
        /\ end \in SessionState
    BY <1>0, <1>1 DEF SessionState
  <1> HIDE DEF end
  <1>5. Cached(end) = Cached(se)
    BY <1>4 DEF Cached
  <1>6. Kept(end, stored, own)
    BY <1>0, <1>1, <1>2, <1>4, <1>5
       DEF Kept, Sound, Mirrored, Tidy, Wary, Honest, Signed, OnSnapshot
  <1>7. Exact(end) /\ Follows(se, end) /\ Rides(end, val)
    BY <1>0, <1>1, <1>2, <1>4 DEF Exact, ExactOff, Visible, Follows, Rides
  <1> QED BY <1>3, <1>6, <1>7 DEF Faithful, end

-----------------------------------------------------------------------------
(* What a session's contents are computed from, while versions are never    *)
(* reissued: no row is deleted, so its versions only grow.                   *)

\* old is what the row new is, or an earlier version of it, or no row at all.
Behind(old, new) ==
    old = NoRow \/ (new # NoRow /\ (old = new \/ old.version < new.version))

\* The cached content of id was computed from what the ledger calls
\* committed; or the session has made the row, and the table has none yet.
Rooted(se, rows, fresh, id) ==
    IF se.ledger.committed[id] = NoRow
    THEN se.mem[id].base = NoRow /\ id \in fresh /\ rows[id] = NoRow
    ELSE se.mem[id].base = se.ledger.committed[id].val

\* The transaction has written id over what the ledger calls committed.
Ahead(se, rows, id) ==
    /\ se.txn.own[id] # NoRow /\ se.mem[id] # NoAnchor
    /\ rows[id] = se.ledger.committed[id]
    /\ rows[id] # NoRow => rows[id].version < se.txn.own[id].version

Based(se, rows, fresh) ==
    /\ se.deleted = {} /\ se.ledger.removed = {}
    /\ \A id \in Ids :
        /\ Behind(se.ledger.committed[id], rows[id])
        /\ se.mem[id] # NoAnchor => Rooted(se, rows, fresh, id)
        /\ se.ledger.upserted[id] # NoRow => se.mem[id] # NoAnchor
        /\ se.txn # NoTxn =>
             /\ Behind(se.txn.snap[id], rows[id])
             /\ se.txn.own[id] # Unwritten => Ahead(se, rows, id)

\* The rows the session has written and not committed.
Held(se) == IF se.txn = NoTxn THEN {} ELSE Wrote(se.txn)

\* end holds no row that was another's, and has cached none that is in no table.
Claims(se, end, rows, busy) ==
    /\ Held(end) \subseteq Held(se) \cup (Ids \ busy)
    /\ \A id \in Cached(end) : id \in Cached(se) \/ rows[id] # NoRow

Builds(se, end, rows, fresh, busy) ==
    Based(se, rows, fresh) => Based(end, rows, fresh) /\ Claims(se, end, rows, busy)

\* Memory is the same, the ledger says no more is written, and the transaction
\* is the same or gone.
Eases(se, end) ==
    /\ end.mem = se.mem /\ end.ledger.committed = se.ledger.committed
    /\ se.deleted = {} /\ se.ledger.removed = {}
          => end.deleted = {} /\ end.ledger.removed = {}
    /\ \A id \in Ids : se.ledger.upserted[id] = NoRow => end.ledger.upserted[id] = NoRow
    /\ end.txn # NoTxn => /\ se.txn # NoTxn
                          /\ end.txn.own = se.txn.own /\ end.txn.snap = se.txn.snap

-----------------------------------------------------------------------------

\* A step that changes nothing builds on nothing new.
LEMMA BuildsSelf ==
    ASSUME NEW se, NEW rows, NEW fresh, NEW busy PROVE Builds(se, se, rows, fresh, busy)
  BY DEF Builds, Claims, Cached

\* Nor do two steps neither of which does.
LEMMA BuildsOn ==
    ASSUME NEW se, NEW mid, NEW end, NEW rows, NEW fresh, NEW busy,
           Builds(se, mid, rows, fresh, busy), Builds(mid, end, rows, fresh, busy)
    PROVE  Builds(se, end, rows, fresh, busy)
  BY DEF Builds, Claims

\* Easing composes.
LEMMA EasesOn ==
    ASSUME NEW se, NEW mid, NEW end, Eases(se, mid), Eases(mid, end)
    PROVE  Eases(se, end)
  BY DEF Eases

\* A session that gives up a transaction stands where it stood.
LEMMA EasesBuilds ==
    ASSUME NEW se, NEW end, Eases(se, end), NEW rows, NEW fresh, NEW busy
    PROVE  Builds(se, end, rows, fresh, busy)
  <1> SUFFICES ASSUME Based(se, rows, fresh)
               PROVE  Based(end, rows, fresh) /\ Claims(se, end, rows, busy)
    BY DEF Builds
  <1>1. end.deleted = {} /\ end.ledger.removed = {}
    BY DEF Eases, Based
  <1>2. ASSUME NEW id \in Ids
        PROVE  /\ Behind(end.ledger.committed[id], rows[id])
               /\ end.mem[id] # NoAnchor => Rooted(end, rows, fresh, id)
               /\ end.ledger.upserted[id] # NoRow => end.mem[id] # NoAnchor
               /\ end.txn # NoTxn =>
                     /\ Behind(end.txn.snap[id], rows[id])
                     /\ end.txn.own[id] # Unwritten => Ahead(end, rows, id)
    BY <1>2 DEF Eases, Based, Rooted, Ahead
  <1>3. Claims(se, end, rows, busy)
    BY DEF Eases, Claims, Held, Wrote, Cached
  <1> QED BY <1>1, <1>2, <1>3 DEF Based

\* What gives up a transaction, or raises.
LEMMA RollbackEases ==
    ASSUME NEW se \in SessionState PROVE Eases(se, RollbackTxn(se))
  <1> DEFINE back == RollbackTxn(se)
             up   == {id \in Ids : se.ledger.upserted[id] # NoRow}
  <1>1. /\ back.txn = NoTxn /\ back.mem = se.mem /\ back.ledger = Discard(se.ledger)
        /\ back.deleted = se.deleted \cup (se.ledger.removed \ Cached(se))
    BY DEF RollbackTxn, SessionState
  <1>2. /\ Discard(se.ledger).committed = se.ledger.committed
        /\ Discard(se.ledger).removed = {}
        /\ \A id \in Ids : Discard(se.ledger).upserted[id] = NoRow
    BY DEF Discard, EmptyRows, SessionState, Ledger
  <1> HIDE DEF back
  <1> QED BY <1>1, <1>2 DEF Eases, back

\* An exception, a failed statement and a full queue change none of it.
LEMMA RaiseEases ==
    ASSUME NEW se \in SessionState, NEW e
    PROVE  /\ Eases(se, Raise(se, e)) /\ Eases(se, StatementFailed(se, e))
           /\ Eases(se, LeaveQueue(se))
  BY DEF Eases, Raise, StatementFailed, LeaveQueue, SessionState

\* _replay_txn, _reclaim_dead_txn and _raise_ro_retry roll back and raise.
LEMMA ReplayEases ==
    ASSUME NEW se \in SessionState, NEW exhausted
    PROVE  /\ Eases(se, ReplayTxn(se, exhausted)) /\ Eases(se, ReclaimDeadTxn(se))
           /\ Eases(se, RaiseRoRetry(se))
  <1> DEFINE back == RollbackTxn(se)
  <1>1. Eases(se, back) /\ back \in SessionState
    BY RollbackEases, RollbackSound
  <1>2. Eases(se, se)
    BY DEF Eases
  <1>3. /\ ReplayTxn(se, exhausted) \in {[back EXCEPT !.lost = TRUE, !.exc = "lost"],
                                         [back EXCEPT !.exc = "none"]}
        /\ ReclaimDeadTxn(se) \in {se, back, [back EXCEPT !.exc = "lost"]}
        /\ RaiseRoRetry(se) = [back EXCEPT !.ro = FALSE, !.roRaised = TRUE, !.exc = "ro"]
    BY DEF ReplayTxn, ReclaimDeadTxn, RaiseRoRetry, Raise
  <1> HIDE DEF back
  <1>4. /\ Eases(back, [back EXCEPT !.lost = TRUE, !.exc = "lost"])
        /\ Eases(back, [back EXCEPT !.exc = "none"]) /\ Eases(back, [back EXCEPT !.exc = "lost"])
        /\ Eases(back, [back EXCEPT !.ro = FALSE, !.roRaised = TRUE, !.exc = "ro"])
    BY <1>1 DEF Eases, SessionState
  <1> QED BY <1>1, <1>2, <1>3, <1>4, EasesOn

\* A transaction that begins sees the table as it is, and has written nothing.
LEMMA BeginBuilds ==
    ASSUME NEW se \in SessionState, NEW isolation, NEW rows, NEW fresh, NEW busy
    PROVE  Builds(se, BeginTxn(se, isolation, rows), rows, fresh, busy)
  <1> DEFINE end == BeginTxn(se, isolation, rows)
             t   == NewTxn(isolation, rows)
  <1>1. /\ end.txn = t /\ end.mem = se.mem /\ end.ledger = se.ledger
        /\ end.deleted = se.deleted
    BY DEF BeginTxn, SessionState
  <1>2. t.snap = rows /\ \A id \in Ids : t.own[id] = Unwritten
    BY DEF NewTxn
  <1> HIDE DEF end, t
  <1>3. Held(end) = {}
    BY <1>1, <1>2 DEF Held, Wrote
  <1>4. Claims(se, end, rows, busy)
    BY <1>1, <1>3 DEF Claims, Cached
  <1>5. Based(se, rows, fresh) => Based(end, rows, fresh)
    BY <1>1, <1>2 DEF Based, Behind, Rooted
  <1> QED BY <1>4, <1>5 DEF Builds, end

\* _begin_writable builds on nothing new.
LEMMA BeginWritableBuilds ==
    ASSUME NEW stored, NEW own, NEW se, Faithful(se, stored, own),
           NEW rows, Within(rows, stored), NEW fresh, NEW busy
    PROVE  Builds(se, BeginWritable(se, rows), rows, fresh, busy)
  <1> DEFINE live == ReclaimDeadTxn(se)
  <1>1. Faithful(live, stored, own) /\ live \in SessionState /\ se \in SessionState
    BY ReclaimKeeps DEF Faithful, Kept, Sound
  <1>2. OnSnapshot(live) => live.ro
    BY <1>1 DEF Faithful, Kept, Tidy
  <1>3. Eases(se, live)
    BY <1>1, ReplayEases
  <1>4. BeginWritable(se, rows) \in
          {Raise(se, "ro"), live, RaiseRoRetry(live), BeginTxn(live, "serializable", rows)}
    BY <1>2 DEF BeginWritable, live
  <1> HIDE DEF live
  <1>5. /\ Builds(se, live, rows, fresh, busy)
        /\ Builds(se, Raise(se, "ro"), rows, fresh, busy)
        /\ Builds(live, RaiseRoRetry(live), rows, fresh, busy)
    BY <1>1, <1>3, RaiseEases, ReplayEases, EasesBuilds
  <1>6. Builds(live, BeginTxn(live, "serializable", rows), rows, fresh, busy)
    BY <1>1, BeginBuilds
  <1> QED BY <1>4, <1>5, <1>6, BuildsOn

\* Nor does _ensure_txn.
LEMMA EnsureBuilds ==
    ASSUME NEW stored, NEW own, NEW se, Faithful(se, stored, own),
           NEW rows, Within(rows, stored), NEW fresh, NEW busy
    PROVE  Builds(se, EnsureTxn(se, rows), rows, fresh, busy)
  <1> DEFINE live == ReclaimDeadTxn(se)
  <1>1. Faithful(live, stored, own) /\ live \in SessionState /\ se \in SessionState
    BY ReclaimKeeps DEF Faithful, Kept, Sound
  <1>2. Builds(se, live, rows, fresh, busy)
    BY <1>1, ReplayEases, EasesBuilds
  <1>3. EnsureTxn(se, rows) \in
          {live, BeginTxn(live, TxnIsolation(live), rows), BeginWritable(live, rows)}
    BY DEF EnsureTxn, live
  <1> HIDE DEF live
  <1>4. /\ Builds(live, BeginTxn(live, TxnIsolation(live), rows), rows, fresh, busy)
        /\ Builds(live, BeginWritable(live, rows), rows, fresh, busy)
    BY <1>1, BeginBuilds, BeginWritableBuilds
  <1> QED BY <1>2, <1>3, <1>4, BuildsOn

\* Nor ensure_writable_txn, and the caller's statement that then rides in it.
LEMMA EnsureWritableBuilds ==
    ASSUME NEW stored, NEW own, NEW se, Faithful(se, stored, own),
           NEW rows, Within(rows, stored), NEW fresh, NEW busy
    PROVE  /\ Builds(se, EnsureWritableTxn(se, rows), rows, fresh, busy)
           /\ EnsureWritableTxn(se, rows) \in SessionState
  <1> DEFINE open == BeginWritable(se, rows)
             more == [open EXCEPT !.ledger = Joined(@)]
  <1>1. Builds(se, open, rows, fresh, busy) /\ open \in SessionState
    BY BeginWritableBuilds, BeginWritableKeeps DEF Faithful, Kept, Sound
  <1>2. EnsureWritableTxn(se, rows) \in {open, more}
    BY DEF EnsureWritableTxn
  <1>3. EnsureWritableTxn(se, rows) \in SessionState
    BY EnsureWritableKeeps DEF Faithful, Kept, Sound
  <1> HIDE DEF open
  <1>4. Joined(open.ledger) = [open.ledger EXCEPT !.joined = TRUE]
    BY DEF Joined
  <1>5. Eases(open, more)
    BY <1>1, <1>4 DEF Eases, SessionState, Ledger
  <1> HIDE DEF more
  <1>6. Builds(open, more, rows, fresh, busy)
    BY <1>5, EasesBuilds
  <1> QED BY <1>1, <1>2, <1>3, <1>6, BuildsOn

\* Joined work rides in the transaction that is open.
LEMMA JoinEases ==
    ASSUME NEW se \in SessionState, se.txn # NoTxn, NEW val
    PROVE  Eases(se, [se EXCEPT !.txn.joins = @ \cup {val}])
  <1> DEFINE t == [se.txn EXCEPT !.joins = @ \cup {val}]
  <1>1. [se EXCEPT !.txn.joins = @ \cup {val}] = [se EXCEPT !.txn = t]
    BY DEF SessionState
  <1>2. t.own = se.txn.own /\ t.snap = se.txn.snap
    BY DEF SessionState, Txn
  <1> HIDE DEF t
  <1> QED BY <1>1, <1>2 DEF Eases, SessionState

\* So do the predicate locks of a read.
LEMMA ReadingEases ==
    ASSUME NEW se \in SessionState, se.txn # NoTxn, NEW ids
    PROVE  Eases(se, [se EXCEPT !.txn = Reading(@, ids)])
  <1> DEFINE t == Reading(se.txn, ids)
  <1>1. t.own = se.txn.own /\ t.snap = se.txn.snap
    BY DEF SessionState, Txn, Reading
  <1>2. [se EXCEPT !.txn = Reading(@, ids)] = [se EXCEPT !.txn = t]
    BY DEF SessionState
  <1> HIDE DEF t
  <1> QED BY <1>1, <1>2 DEF Eases, SessionState

-----------------------------------------------------------------------------

\* An upsert that meets the version it presents replaces the very row the
\* session's content was computed from, or a row of the session's own.
LEMMA UpsertAhead ==
    ASSUME NEW se, Sound(se), se.txn # NoTxn, NEW rows \in Rows, NEW fresh,
           Based(se, rows, fresh), NEW id \in Cached(se), NEW val \in Val,
           NEW version, version = WriteVersion(se.ledger, id),
           ~ UpsertStale(se.txn, rows, id, version),
           NEW row, row = UpsertedRow(se.txn, rows, id, [version |-> version, val |-> val])
    PROVE  /\ row # NoRow /\ rows[id] = se.ledger.committed[id]
           /\ rows[id] # NoRow => rows[id].version < row.version
  <1> DEFINE was == se.ledger.committed[id]
  <1>1. /\ se.ledger \in Ledger /\ se.txn \in Txn /\ id \in Ids /\ se.mem[id] # NoAnchor
        /\ version \in Nat /\ rows[id] \in MaybeRow /\ was \in MaybeRow
    BY WriteVersionType DEF Sound, SessionState, Cached, Ledger, Rows
  <1>2. row \in RowState /\ row.version \in {version, version + 1}
    BY <1>1 DEF UpsertedRow, RowState
  <1>3. row # NoRow
    BY <1>2, NoRowAssumption
  <1>4. Behind(was, rows[id]) /\ Rooted(se, rows, fresh, id) /\ se.ledger.removed = {}
    BY <1>1 DEF Based
  <1>5. CASE se.txn.own[id] # Unwritten
    <2>1. Ahead(se, rows, id) /\ se.txn.own[id] \in RowState
      BY <1>1, <1>5 DEF Based, Ahead, Txn, MaybeRow
    <2>2. UpsertTarget(se.txn, rows, id) = se.txn.own[id]
      BY <1>5 DEF UpsertTarget
    <2>3. se.txn.own[id].version = version /\ row.version = version + 1
      BY <1>1, <2>1, <2>2 DEF UpsertStale, UpsertedRow, Ahead
    <2> QED BY <1>1, <1>3, <2>1, <2>3 DEF Ahead, MaybeRow, RowState
  <1>6. CASE se.txn.own[id] = Unwritten
    <2>1. se.ledger.upserted[id] = NoRow
      BY <1>1, <1>6 DEF Sound, Mirrored
    <2>2. version = IF was = NoRow THEN 0 ELSE was.version
      BY <1>4, <2>1 DEF WriteVersion, Current
    <2>3. UpsertTarget(se.txn, rows, id) = rows[id]
      BY <1>6 DEF UpsertTarget
    <2>4. CASE rows[id] = NoRow
      BY <1>3, <1>4, <2>4 DEF Behind
    <2>5. CASE rows[id] # NoRow
      <3>1. rows[id].version = version /\ row.version = version + 1
        BY <1>1, <2>3, <2>5 DEF UpsertStale, UpsertedRow
      <3>2. was # NoRow
        BY <1>4, <2>5 DEF Rooted
      <3>3. was = rows[id]
        BY <1>1, <1>4, <2>2, <3>1, <3>2 DEF Behind, MaybeRow, RowState
      <3> QED BY <1>1, <1>3, <3>1, <3>3
    <2> QED BY <2>4, <2>5
  <1> QED BY <1>5, <1>6

\* The upsert statement writes rows no other transaction has written, over
\* what the ledger calls committed.
LEMMA UpsertBuilds ==
    ASSUME NEW se, Sound(se), se.txn # NoTxn, NEW rows \in Rows, NEW fresh, NEW busy,
           NEW content, DOMAIN content \in SUBSET Cached(se),
           \A id \in DOMAIN content : content[id] \in Val,
           DOMAIN content \cap busy = {},
           NEW sent \in Upsert(se, content, rows)
    PROVE  Builds(se, sent, rows, fresh, busy)
  <1> DEFINE ids     == DOMAIN content
             version == [id \in ids |-> WriteVersion(se.ledger, id)]
             row     == [id \in ids |-> UpsertedRow(se.txn, rows, id,
                            [version |-> version[id], val |-> content[id]])]
             stale   == {id \in ids : UpsertStale(se.txn, rows, id, version[id])}
             txn     == Write(se.txn, ids \ stale, row)
  <1> SUFFICES ASSUME Based(se, rows, fresh)
               PROVE  Based(sent, rows, fresh) /\ Claims(se, sent, rows, busy)
    BY DEF Builds
  <1>0. /\ se \in SessionState /\ se.txn \in Txn /\ se.ledger \in Ledger /\ ids \in SUBSET Ids
    BY DEF Sound, SessionState, Cached
  <1>1. ASSUME NEW id \in ids \ stale
        PROVE  /\ row[id] # NoRow /\ rows[id] = se.ledger.committed[id]
               /\ rows[id] # NoRow => rows[id].version < row[id].version
    <2>1. /\ id \in Cached(se) /\ content[id] \in Val /\ version[id] = WriteVersion(se.ledger, id)
          /\ ~ UpsertStale(se.txn, rows, id, version[id])
          /\ row[id] = UpsertedRow(se.txn, rows, id, [version |-> version[id], val |-> content[id]])
      OBVIOUS
    <2> HIDE DEF version, row, stale
    <2> QED BY <2>1, UpsertAhead
  <1>2. sent \in IF stale = {}
           THEN {[se EXCEPT !.txn = txn, !.ledger = Upserted(@, ids, row)]}
           ELSE {[se EXCEPT !.txn = txn, !.lastConflict = {first}, !.exc = "conflict"] :
                    first \in stale}
    BY DEF Upsert
  <1> HIDE DEF row, version, stale
  <1>3. /\ txn.snap = se.txn.snap
        /\ \A id \in Ids : txn.own[id] = IF id \in ids \ stale THEN row[id] ELSE se.txn.own[id]
    BY <1>0 DEF Write, Txn
  <1> HIDE DEF txn
  <1>4. /\ sent.txn = txn /\ sent.mem = se.mem /\ sent.deleted = se.deleted
        /\ sent.ledger \in {se.ledger, Upserted(se.ledger, ids, row)}
    <2>1. CASE sent = [se EXCEPT !.txn = txn, !.ledger = Upserted(@, ids, row)]
      BY <1>0, <2>1 DEF SessionState
    <2>2. CASE \E first \in stale :
                  sent = [se EXCEPT !.txn = txn, !.lastConflict = {first}, !.exc = "conflict"]
      BY <1>0, <2>2 DEF SessionState
    <2> QED
      BY <1>2, <2>1, <2>2
  <1>5. /\ Upserted(se.ledger, ids, row).committed = se.ledger.committed
        /\ Upserted(se.ledger, ids, row).removed = se.ledger.removed \ ids
        /\ \A id \in Ids : Upserted(se.ledger, ids, row).upserted[id] =
              IF id \in ids THEN row[id] ELSE se.ledger.upserted[id]
    BY <1>0 DEF Upserted, Ledger, Rows
  <1> HIDE DEF ids
  <1>6. /\ sent.ledger.committed = se.ledger.committed /\ sent.ledger.removed = {}
        /\ sent.deleted = {}
        /\ \A id \in Ids : sent.ledger.upserted[id] # NoRow
                              => se.ledger.upserted[id] # NoRow \/ id \in ids
    BY <1>4, <1>5 DEF Based
  <1>7. \A id \in ids : se.mem[id] # NoAnchor
    BY DEF Cached, ids
  <1>8. ASSUME NEW id \in Ids
        PROVE  /\ Behind(sent.ledger.committed[id], rows[id])
               /\ sent.mem[id] # NoAnchor => Rooted(sent, rows, fresh, id)
               /\ sent.ledger.upserted[id] # NoRow => sent.mem[id] # NoAnchor
               /\ Behind(sent.txn.snap[id], rows[id])
    BY <1>3, <1>4, <1>6, <1>7, <1>8 DEF Based, Rooted
  <1>9. ASSUME NEW id \in Ids, sent.txn.own[id] # Unwritten PROVE Ahead(sent, rows, id)
    <2>1. CASE id \in ids \ stale
      BY <1>1, <1>3, <1>4, <1>6, <1>7, <2>1 DEF Ahead
    <2>2. CASE id \notin ids \ stale
      <3>1. sent.txn.own[id] = se.txn.own[id]
        BY <1>3, <1>4, <2>2
      <3> QED BY <1>4, <1>6, <1>9, <3>1 DEF Based, Ahead
    <2> QED BY <2>1, <2>2
  <1>10. Based(sent, rows, fresh)
    BY <1>6, <1>8, <1>9 DEF Based
  <1>11. Held(sent) \subseteq Held(se) \cup (Ids \ busy)
    <2>1. \A id \in Ids : sent.txn.own[id] # Unwritten
                            => se.txn.own[id] # Unwritten \/ id \notin busy
      BY <1>3, <1>4 DEF ids
    <2> QED BY <2>1 DEF Held, Wrote
  <1> QED BY <1>4, <1>10, <1>11 DEF Claims, Cached

\* So it does whatever the database answers, and no delete follows it.
LEMMA WriteResultsBuild ==
    ASSUME NEW se, Sound(se), se.txn # NoTxn, NEW rows \in Rows, NEW fresh, NEW busy,
           NEW fault, NEW content, DOMAIN content \in SUBSET Cached(se),
           \A id \in DOMAIN content : content[id] \in Val,
           NEW sent \in WriteResults(se, content, rows, busy, fault)
    PROVE  Builds(se, sent, rows, fresh, busy)
  <1> DEFINE ids     == DOMAIN content
             upserts == IF ids = {} THEN {se} ELSE UpsertResults(se, content, rows, busy)
             landed  == {up \in upserts : Ok(up)}
             deletes == UNION {IF up.deleted = {} THEN {up}
                               ELSE DeleteResults(up, rows, busy) : up \in landed}
  <1> SUFFICES ASSUME Based(se, rows, fresh) PROVE Builds(se, sent, rows, fresh, busy)
    BY DEF Builds
  <1>0. se \in SessionState
    BY DEF Sound
  <1>1. ASSUME NEW e PROVE Builds(se, StatementFailed(se, e), rows, fresh, busy)
    BY <1>0, RaiseEases, EasesBuilds
  <1>2. Builds(se, LockTimeout(se, ids), rows, fresh, busy)
    <2> DEFINE lost == StatementFailed(se, "conflict")
    <2>1. Eases(se, lost) /\ lost.txn = NoTxn
      BY <1>0, RaiseEases DEF StatementFailed, SessionState
    <2>2. Eases(se, [lost EXCEPT !.lastConflict = ids])
      BY <1>0, <2>1 DEF StatementFailed, SessionState, Eases
    <2> QED BY <1>1, <2>2, EasesBuilds DEF LockTimeout
  <1>3. ASSUME NEW up \in upserts PROVE Builds(se, up, rows, fresh, busy)
    <2>1. CASE ids = {}
      BY <2>1, <1>3, BuildsSelf
    <2>2. CASE ids # {}
      <3>1. \/ up \in {StatementFailed(se, "transient"), LockTimeout(se, ids)}
            \/ up \in Upsert(se, content, rows) /\ ids \cap busy = {}
        BY <2>2, <1>3 DEF UpsertResults
      <3>2. CASE up \in Upsert(se, content, rows) /\ ids \cap busy = {}
        BY <3>2, UpsertBuilds
      <3> QED BY <1>1, <1>2, <3>1, <3>2
    <2> QED BY <2>1, <2>2
  <1>4. \A up \in upserts : up.deleted = {}
    BY <1>3 DEF Builds, Based
  <1>5. sent \in upserts \/ sent \in {StatementFailed(up, "transient") : up \in {se}}
    <2>1. WriteResults(se, content, rows, busy, fault) =
             IF fault
             THEN {StatementFailed(up, "transient") :
                      up \in {se} \cup {up \in landed : up.deleted # {}}}
             ELSE {up \in upserts : ~ Ok(up)} \cup deletes
      BY DEF WriteResults
    <2> HIDE DEF upserts
    <2>2. {up \in landed : up.deleted # {}} = {} /\ deletes \subseteq upserts
      BY <1>4
    <2> QED BY <2>1, <2>2
  <1> QED BY <1>1, <1>3, <1>5

\* So does a flush.
LEMMA FlushBuilds ==
    ASSUME NEW stored, NEW own \in SUBSET Val, NEW se, Faithful(se, stored, own),
           NEW full \in BOOLEAN, NEW rows, Within(rows, stored), NEW fresh, NEW busy, NEW fault,
           NEW sent \in FlushResults(se, full, rows, busy, fault)
    PROVE  Builds(se, sent, rows, fresh, busy)
  <1> DEFINE live    == ReclaimDeadTxn(se)
             ids     == Unflushed(live, full)
             open    == BeginWritable(live, rows)
             content == [id \in ids |-> live.mem[id].val]
             wrote   == WriteResults(open, content, rows, busy, fault)
             good(a) == [a EXCEPT !.dirty = {}]
  <1>1. /\ Faithful(live, stored, own)
        /\ live.txn = NoTxn => ~ InFlight(live.ledger)
        /\ se \in SessionState /\ rows \in Rows
    BY ReclaimKeeps DEF Faithful, Kept, Sound, Within
  <1>2. FlushResults(se, full, rows, busy, fault) =
          IF ~ Ok(live) THEN {live}
          ELSE IF ids = {} /\ live.deleted = {}
               THEN IF fault THEN {} ELSE {good(live)}
          ELSE IF ~ Ok(open) THEN {open}
          ELSE {IF Ok(w) THEN good(w) ELSE w : w \in wrote}
    BY DEF FlushResults
  <1>3. Builds(se, live, rows, fresh, busy) /\ live \in SessionState
    BY <1>1, ReplayEases, EasesBuilds DEF Faithful, Kept, Sound
  <1> HIDE DEF live
  <1>4. Builds(live, open, rows, fresh, busy) /\ Sound(open)
    BY <1>1, BeginWritableBuilds, BeginWritableKeeps DEF Faithful, Kept
  <1>5. Ok(open) => open.mem = live.mem /\ open.txn # NoTxn
    BY <1>1, WritableSame
  <1>6. \A a \in SessionState : Eases(a, good(a))
    BY DEF Eases, SessionState
  <1>7. ids \in SUBSET Cached(live) /\ \A id \in ids : live.mem[id].val \in Val
    BY <1>3 DEF Unflushed, Cached, SessionState, Anchor
  <1>8. CASE sent \in {live, good(live), open}
    BY <1>3, <1>4, <1>6, <1>8, EasesBuilds, BuildsOn
  <1>9. CASE Ok(open) /\ \E w \in wrote : sent \in {w, good(w)}
    <2>1. PICK w \in wrote : sent \in {w, good(w)}
      BY <1>9
    <2> DEFINE found == content
    <2>2. /\ DOMAIN found \in SUBSET Cached(open) /\ \A id \in DOMAIN found : found[id] \in Val
          /\ w \in WriteResults(open, found, rows, busy, fault) /\ DOMAIN found \in SUBSET Ids
      BY <1>5, <1>7, <1>9, <2>1 DEF Cached
    <2> HIDE DEF found, open, wrote, content, ids
    <2>3. Builds(open, w, rows, fresh, busy)
      BY <1>1, <1>4, <1>5, <1>9, <2>2, WriteResultsBuild
    <2>4. Sound(w)
      BY <1>1, <1>4, <1>5, <1>9, <2>2, WriteResultsSound
    <2>5. Builds(w, good(w), rows, fresh, busy)
      BY <2>4, <1>6, EasesBuilds DEF Sound
    <2> QED BY <1>3, <1>4, <2>1, <2>3, <2>5, BuildsOn
  <1> HIDE DEF open, wrote, good
  <1>10. \/ sent \in {live, good(live), open}
         \/ Ok(open) /\ \E w \in wrote : sent = IF Ok(w) THEN good(w) ELSE w
    BY <1>2
  <1> QED BY <1>8, <1>9, <1>10

\* And so does a read barrier.
LEMMA BarrierBuilds ==
    ASSUME NEW stored, NEW own \in SUBSET Val, NEW se, Faithful(se, stored, own),
           NEW rows, Within(rows, stored), NEW fresh, NEW busy, NEW fault,
           NEW open \in BarrierResults(se, rows, busy, fault)
    PROVE  Builds(se, open, rows, fresh, busy)
  <1> DEFINE mid == EnsureTxn(se, rows)
  <1>1. Builds(se, mid, rows, fresh, busy) /\ Faithful(mid, stored, own)
    BY EnsureBuilds, EnsureKeeps
  <1>2. open \in IF Ok(mid) THEN FlushResults(mid, FALSE, rows, busy, fault) ELSE {mid}
    BY DEF BarrierResults
  <1> HIDE DEF mid
  <1>3. CASE open = mid
    BY <1>1, <1>3
  <1>4. CASE open \in FlushResults(mid, FALSE, rows, busy, fault)
    BY <1>1, <1>4, FlushBuilds, BuildsOn
  <1> QED BY <1>2, <1>3, <1>4

-----------------------------------------------------------------------------

\* What a load brings into memory is the row the transaction sees.
LEMMA LoadBuilds ==
    ASSUME NEW se \in SessionState, se.txn # NoTxn, NEW ids \in SUBSET Ids,
           NEW rows, NEW fresh, NEW busy
    PROVE  Builds(se, Load(se, ids), rows, fresh, busy)
  <1> DEFINE row == [id \in Ids |-> Visible(se.txn, id)]
             new == {id \in ids : row[id] # NoRow /\ se.mem[id] = NoAnchor}
             end == Load(se, ids)
  <1> SUFFICES ASSUME Based(se, rows, fresh)
               PROVE  Based(end, rows, fresh) /\ Claims(se, end, rows, busy)
    BY DEF Builds
  <1>1. /\ end.txn = Reading(se.txn, ids) /\ end.ledger = Loaded(se.ledger, new, row)
        /\ end.deleted = se.deleted
        /\ \A id \in Ids : end.mem[id] =
              IF id \in new THEN [val |-> row[id].val, base |-> row[id].val] ELSE se.mem[id]
    BY DEF Load, SessionState
  <1>2. end.txn.snap = se.txn.snap /\ end.txn.own = se.txn.own
    BY <1>1 DEF SessionState, Reading, Txn
  <1>3. ASSUME NEW id \in new
        PROVE  /\ id \in Ids /\ se.mem[id] = NoAnchor /\ row[id] # NoRow
               /\ se.txn.own[id] = Unwritten /\ se.ledger.upserted[id] = NoRow
               /\ row[id] = se.txn.snap[id]
    BY <1>3 DEF Based, Ahead, Visible
  <1> HIDE DEF end, row
  <1>4. /\ end.ledger.removed = se.ledger.removed
        /\ \A id \in Ids : /\ end.ledger.upserted[id] = se.ledger.upserted[id]
                           /\ end.ledger.committed[id] =
                                 IF id \in new THEN row[id] ELSE se.ledger.committed[id]
    <2> HIDE DEF new
    <2>1. \A id \in new : se.ledger.upserted[id] = NoRow
      BY <1>3
    <2> QED BY <1>1, <2>1 DEF SessionState, Loaded, Ledger, Rows
  <1> HIDE DEF new
  <1>5. end.deleted = {} /\ end.ledger.removed = {}
    BY <1>1, <1>4 DEF Based
  <1>6. ASSUME NEW id \in Ids
        PROVE  /\ Behind(end.ledger.committed[id], rows[id])
               /\ end.mem[id] # NoAnchor => Rooted(end, rows, fresh, id)
               /\ end.ledger.upserted[id] # NoRow => end.mem[id] # NoAnchor
               /\ Behind(end.txn.snap[id], rows[id])
               /\ end.txn.own[id] # Unwritten => Ahead(end, rows, id)
    <2>1. CASE id \in new
      <3>1. /\ Behind(row[id], rows[id]) /\ Behind(end.txn.snap[id], rows[id])
            /\ end.ledger.upserted[id] = NoRow /\ end.txn.own[id] = Unwritten
        BY <1>2, <1>3, <1>4, <2>1 DEF Based
      <3>2. end.ledger.committed[id] = row[id] /\ row[id] # NoRow
        BY <1>3, <1>4, <2>1
      <3>3. end.mem[id] = [val |-> row[id].val, base |-> row[id].val]
        BY <1>1, <2>1
      <3>4. Rooted(end, rows, fresh, id)
        BY <3>2, <3>3 DEF Rooted
      <3> QED BY <3>1, <3>2, <3>4
    <2>2. CASE id \notin new
      <3>1. /\ end.mem[id] = se.mem[id] /\ end.txn.own[id] = se.txn.own[id]
            /\ end.txn.snap[id] = se.txn.snap[id]
            /\ end.ledger.upserted[id] = se.ledger.upserted[id]
            /\ end.ledger.committed[id] = se.ledger.committed[id]
        BY <1>1, <1>2, <1>4, <2>2
      <3> QED BY <3>1 DEF Based, Rooted, Ahead
    <2> QED BY <2>1, <2>2
  <1>7. Claims(se, end, rows, busy)
    <2>1. Held(end) = Held(se)
      <3>1. end.txn # NoTxn
        <4>1. Reading(se.txn, ids) \in Txn
          BY DEF Reading, Txn, SessionState
        <4> QED BY <1>1, <4>1, NoTxnAssumption
      <3> QED BY <1>2, <3>1 DEF Held, Wrote
    <2>2. ASSUME NEW id \in Ids, end.mem[id] # NoAnchor, se.mem[id] = NoAnchor
          PROVE  rows[id] # NoRow
      BY <1>1, <1>3, <1>6, <1>4, <2>2 DEF Behind
    <2> QED BY <2>1, <2>2 DEF Claims, Cached
  <1> QED BY <1>5, <1>6, <1>7 DEF Based

\* Session.abort forgets what memory was computed from with what it held.
LEMMA AbortBuilds ==
    ASSUME NEW se \in SessionState, NEW rows, NEW fresh, NEW busy
    PROVE  Builds(se, Abort(se), rows, fresh, busy)
  <1> DEFINE told == [se EXCEPT !.contended = @ \cup se.lastConflict, !.lastConflict = {}]
             back == RollbackTxn(told)
             end  == Abort(se)
  <1>1. told \in SessionState /\ Eases(se, told)
    BY DEF SessionState, Eases
  <1>2. back \in SessionState /\ Eases(told, back) /\ back.txn = NoTxn
    <2> HIDE DEF told
    <2>1. back \in SessionState /\ Eases(told, back)
      BY <1>1, RollbackSound, RollbackEases
    <2>2. back.txn = NoTxn
      BY <1>1 DEF RollbackTxn, SessionState
    <2> QED BY <2>1, <2>2
  <1>3. end = [ForgetLoaded(back) EXCEPT !.dirty = {}, !.deleted = {},
                  !.snapshotReads = {}, !.lost = FALSE, !.exc = "none"]
    BY DEF Abort
  <1> HIDE DEF told, back, end
  <1>4. /\ end.txn = NoTxn /\ end.deleted = {}
        /\ end.ledger = Forget(back.ledger, Cached(back))
        /\ \A id \in Ids : end.mem[id] = NoAnchor
    BY <1>2, <1>3 DEF ForgetLoaded, SessionState
  <1>5. /\ end.ledger.upserted = back.ledger.upserted
        /\ end.ledger.removed = back.ledger.removed
        /\ \A id \in Ids : end.ledger.committed[id] \in {NoRow, back.ledger.committed[id]}
    BY <1>2, <1>4 DEF Forget, SessionState, Ledger
  <1>6. \A id \in Ids : back.ledger.upserted[id] = NoRow
    BY <1>1 DEF back, RollbackTxn, Discard, EmptyRows, SessionState, Ledger
  <1>7. ASSUME Based(se, rows, fresh) PROVE Based(end, rows, fresh)
    <2>1. Based(back, rows, fresh)
      BY <1>1, <1>2, <1>7, EasesOn, EasesBuilds DEF Builds
    <2> QED BY <1>4, <1>5, <1>6, <2>1 DEF Based, Behind
  <1>8. Claims(se, end, rows, busy)
    BY <1>4 DEF Claims, Held, Cached
  <1> QED BY <1>7, <1>8 DEF Builds, end

\* A unit is entered under the transaction that is open.
LEMMA UnitEnterBuilds ==
    ASSUME NEW stored, NEW own, NEW se, Faithful(se, stored, own), ~ OnSnapshot(se),
           NEW ro \in BOOLEAN, NEW rows, Within(rows, stored), NEW fresh, NEW busy
    PROVE  Builds(se, UnitEnter(se, ro, rows), rows, fresh, busy)
  <1> DEFINE entered == [se EXCEPT !.units = 1, !.ro = ro]
  <1>1. /\ Work(entered) = Work(se) /\ entered.txn = se.txn
        /\ entered.roRaised = se.roRaised /\ entered \in SessionState /\ Eases(se, entered)
    BY DEF Work, Faithful, Kept, Sound, SessionState, Eases
  <1>2. UnitEnter(se, ro, rows) = IF se.txn # NoTxn THEN EnsureTxn(entered, rows) ELSE entered
    BY DEF UnitEnter
  <1> HIDE DEF entered
  <1>3. Faithful(entered, stored, own)
    <2>1. OnSnapshot(entered) => entered.ro
      BY <1>1 DEF OnSnapshot
    <2> QED BY <2>1, <1>1, SameWork DEF Faithful
  <1>4. /\ Builds(se, entered, rows, fresh, busy)
        /\ Builds(entered, EnsureTxn(entered, rows), rows, fresh, busy)
    BY <1>1, <1>3, EasesBuilds, EnsureBuilds
  <1> QED BY <1>2, <1>4, BuildsOn

\* A new content of a cached anchor was computed from the one before.
LEMMA WriteBuilds ==
    ASSUME NEW se \in SessionState, NEW id \in Cached(se), NEW anchor \in Anchor,
           anchor.base = se.mem[id].base,
           NEW end, \/ end = [se EXCEPT !.mem[id] = anchor]
                    \/ end = MarkDirty([se EXCEPT !.mem[id] = anchor], id),
           NEW rows, NEW fresh, NEW busy
    PROVE  Builds(se, end, rows, fresh, busy)
  <1> DEFINE mut == [se EXCEPT !.mem[id] = anchor]
  <1>1. id \in Ids /\ se.mem[id] # NoAnchor /\ anchor # NoAnchor
    BY NoAnchorAssumption DEF Cached
  <1>2. /\ mut.txn = se.txn /\ mut.ledger = se.ledger /\ mut.deleted = se.deleted
        /\ mut \in SessionState
        /\ \A i \in Ids : mut.mem[i] = IF i = id THEN anchor ELSE se.mem[i]
    BY <1>1 DEF SessionState
  <1>3. end = mut \/ end = MarkDirty(mut, id)
    OBVIOUS
  <1> HIDE DEF mut
  <1>4. /\ end.txn = se.txn /\ end.ledger = se.ledger /\ end.deleted = se.deleted
        /\ end.mem = mut.mem
    BY <1>2, <1>3 DEF MarkDirty, SessionState
  <1>5. \A i \in Ids : /\ (end.mem[i] = NoAnchor) <=> (se.mem[i] = NoAnchor)
                       /\ end.mem[i].base = se.mem[i].base
    BY <1>1, <1>2, <1>4
  <1>6. Claims(se, end, rows, busy)
    BY <1>4, <1>5 DEF Claims, Held, Cached
  <1>7. Based(se, rows, fresh) => Based(end, rows, fresh)
    BY <1>4, <1>5 DEF Based, Rooted, Ahead
  <1> QED BY <1>6, <1>7 DEF Builds

\* A new anchor, under an id the table does not have, is computed from nothing.
LEMMA PutBased ==
    ASSUME NEW se \in SessionState, NEW id \in Ids, NEW anchor \in Anchor,
           anchor.base = NoRow, NEW rows, NEW fresh, id \in fresh, rows[id] = NoRow,
           Based(se, rows, fresh)
    PROVE  /\ Based(Put(se, id, anchor), rows, fresh)
           /\ Held(Put(se, id, anchor)) = Held(se)
           /\ \A i \in Ids \ {id} : Put(se, id, anchor).mem[i] = se.mem[i]
  <1> DEFINE end == Put(se, id, anchor)
  <1>1. /\ end.txn = se.txn /\ end.ledger = se.ledger /\ end.deleted = se.deleted \ {id}
        /\ \A i \in Ids : end.mem[i] = IF i = id THEN anchor ELSE se.mem[i]
    BY DEF Put, SessionState
  <1>2. anchor # NoAnchor
    BY NoAnchorAssumption
  <1> HIDE DEF end
  <1>3. se.ledger.committed[id] = NoRow
    BY DEF Based, Behind
  <1>4. Held(end) = Held(se)
    BY <1>1 DEF Held
  <1>5. ASSUME NEW i \in Ids
        PROVE  /\ Behind(end.ledger.committed[i], rows[i])
               /\ end.mem[i] # NoAnchor => Rooted(end, rows, fresh, i)
               /\ end.ledger.upserted[i] # NoRow => end.mem[i] # NoAnchor
               /\ end.txn # NoTxn =>
                     /\ Behind(end.txn.snap[i], rows[i])
                     /\ end.txn.own[i] # Unwritten => Ahead(end, rows, i)
    BY <1>1, <1>2, <1>3, <1>5 DEF Based, Rooted, Ahead
  <1>6. end.deleted = {} /\ end.ledger.removed = {}
    BY <1>1 DEF Based
  <1> QED BY <1>1, <1>4, <1>5, <1>6 DEF Based, end

\* A session just made is computed from nothing.
LEMMA NewBased ==
    ASSUME NEW rows, NEW fresh
    PROVE  Based(NewSession, rows, fresh) /\ Held(NewSession) = {} /\ Cached(NewSession) = {}
  <1>1. /\ NewSession.txn = NoTxn /\ NewSession.deleted = {}
        /\ NewSession.ledger = NewLedger
        /\ \A id \in Ids : NewSession.mem[id] = NoAnchor
    BY DEF NewSession
  <1>2. /\ NewLedger.removed = {}
        /\ \A id \in Ids : NewLedger.upserted[id] = NoRow /\ NewLedger.committed[id] = NoRow
    BY DEF NewLedger, EmptyRows
  <1> QED BY <1>1, <1>2 DEF Based, Behind, Held, Cached

-----------------------------------------------------------------------------
(* COMMIT.                                                                 *)

\* What was an earlier version of a row is one of the row a COMMIT leaves.
LEMMA AppliedBehind ==
    ASSUME NEW rows \in Rows, NEW fresh, NEW se \in SessionState, se.txn # NoTxn,
           Based(se, rows, fresh), NEW id \in Ids
    PROVE  /\ \A old \in MaybeRow : Behind(old, rows[id])
                                      => Behind(old, Applied(se.txn, rows)[id])
           /\ Applied(se.txn, rows)[id] = NoRow => rows[id] = NoRow
           /\ Applied(se.txn, rows)[id] # rows[id] => id \in Held(se) /\ Ahead(se, rows, id)
  <1> DEFINE now == Applied(se.txn, rows)[id]
  <1>1. now = IF se.txn.own[id] # Unwritten THEN se.txn.own[id] ELSE rows[id]
    BY DEF Applied
  <1>2. rows[id] \in MaybeRow /\ se.txn.own[id] \in MaybeRow \cup {Unwritten}
    BY DEF Rows, SessionState, Txn
  <1>3. se.txn.own[id] # Unwritten => Ahead(se, rows, id) /\ id \in Held(se)
    BY DEF Based, Held, Wrote
  <1> HIDE DEF now
  <1>4. ASSUME NEW old \in MaybeRow, Behind(old, rows[id]) PROVE Behind(old, now)
    BY <1>1, <1>2, <1>3, <1>4 DEF Behind, Ahead, MaybeRow, RowState
  <1> QED BY <1>1, <1>3, <1>4 DEF Ahead, now

\* Another session, with rows of its own, stands where it stood.
LEMMA OthersBased ==
    ASSUME NEW rows \in Rows, NEW fresh,
           NEW se \in SessionState, se.txn # NoTxn, Based(se, rows, fresh),
           NEW other \in SessionState, Based(other, rows, fresh),
           Held(se) \cap Held(other) = {},
           \A id \in Ids : rows[id] = NoRow => id \notin Cached(se) \cap Cached(other)
    PROVE  Based(other, Applied(se.txn, rows), fresh)
  <1> DEFINE now == Applied(se.txn, rows)
  <1>1. ASSUME NEW id \in Ids
        PROVE  /\ Behind(other.ledger.committed[id], now[id])
               /\ other.mem[id] # NoAnchor => Rooted(other, now, fresh, id)
               /\ other.ledger.upserted[id] # NoRow => other.mem[id] # NoAnchor
               /\ other.txn # NoTxn =>
                     /\ Behind(other.txn.snap[id], now[id])
                     /\ other.txn.own[id] # Unwritten => Ahead(other, now, id)
    <2>1. /\ \A old \in MaybeRow : Behind(old, rows[id]) => Behind(old, now[id])
          /\ now[id] # rows[id] => id \in Held(se) /\ Ahead(se, rows, id)
      BY AppliedBehind
    <2>2. /\ other.ledger.committed[id] \in MaybeRow
          /\ other.txn # NoTxn => other.txn.snap[id] \in MaybeRow
      BY DEF SessionState, Ledger, Rows, Txn
    <2> HIDE DEF now
    <2>3. other.txn # NoTxn /\ other.txn.own[id] # Unwritten => now[id] = rows[id]
      BY <2>1 DEF Held, Wrote
    <2>4. other.mem[id] # NoAnchor /\ rows[id] = NoRow => now[id] = rows[id]
      BY <2>1 DEF Ahead, Cached
    <2>5. other.mem[id] # NoAnchor => Rooted(other, now, fresh, id)
      BY <2>4 DEF Based, Rooted
    <2>6. other.txn # NoTxn /\ other.txn.own[id] # Unwritten => Ahead(other, now, id)
      BY <2>3 DEF Based, Ahead
    <2> QED BY <2>1, <2>2, <2>5, <2>6 DEF Based
  <1> QED BY <1>1 DEF Based

\* A session told of its COMMIT holds what is now in the table.
LEMMA CommitBased ==
    ASSUME NEW stored, NEW own, NEW se, Faithful(se, stored, own), Flushed(se),
           se.txn # NoTxn, NEW rows \in Rows, NEW fresh, Based(se, rows, fresh)
    PROVE  LET end == LeaveQueue(CommitTxn(se))
           IN  /\ Based(end, Applied(se.txn, rows), fresh) /\ Held(end) = {}
               /\ Cached(end) = Cached(se)
  <1> DEFINE done == CommitTxn(se)
             end  == LeaveQueue(done)
             now  == Applied(se.txn, rows)
  <1>0. /\ se \in SessionState /\ se.ledger \in Ledger /\ Kept(se, stored, own) /\ Exact(se)
        /\ Mirrored(se)
    BY DEF Faithful, Kept, Sound, SessionState
  <1>1. /\ done.txn = NoTxn /\ done.ledger = Promote(se.ledger)
        /\ done.deleted = se.deleted /\ done \in SessionState
        /\ \A id \in Ids : done.mem[id] =
              IF se.mem[id] # NoAnchor /\ se.ledger.upserted[id] # NoRow
              THEN [se.mem[id] EXCEPT !.base = se.ledger.upserted[id].val] ELSE se.mem[id]
    BY <1>0, CommitSound DEF CommitTxn, SessionState, Sound, Kept
  <1> HIDE DEF done
  <1>2. end.txn = NoTxn /\ end.ledger = done.ledger /\ end.deleted = {} /\ end.mem = done.mem
    BY <1>1 DEF LeaveQueue, SessionState, Based
  <1> HIDE DEF end
  <1>3. se.dirty = {} /\ se.deleted = {} /\ se.ledger.removed = {}
    BY <1>0 DEF Flushed, Unflushed, Kept, Tidy, Based
  <1>4. /\ end.ledger.removed = {}
        /\ \A id \in Ids : /\ end.ledger.upserted[id] = NoRow
                           /\ end.ledger.committed[id] = Current(se.ledger, id)
                           /\ Current(se.ledger, id) = IF se.ledger.upserted[id] # NoRow
                                                       THEN se.ledger.upserted[id]
                                                       ELSE se.ledger.committed[id]
    BY <1>0, <1>1, <1>2, <1>3 DEF Promote, EmptyRows, Ledger, Current
  <1>5. \A id \in Cached(se) : Current(se.ledger, id) # NoRow
    BY DEF Flushed, Unflushed
  <1>6. \A id \in Ids : now[id] = IF se.ledger.upserted[id] # NoRow
                                  THEN se.ledger.upserted[id] ELSE rows[id]
    <2>1. \A id \in Ids : now[id] = IF se.txn.own[id] # Unwritten
                                    THEN se.txn.own[id] ELSE rows[id]
      BY DEF Applied
    <2>2. \A id \in Ids : se.txn.own[id] # Unwritten => se.txn.own[id] # NoRow
      BY DEF Based, Ahead
    <2>3. \A id \in Ids :
             (se.ledger.upserted[id] # NoRow \/ se.txn.own[id] \notin {Unwritten, NoRow})
                => se.txn.own[id] = se.ledger.upserted[id]
      BY <1>0, <1>3 DEF Exact, ExactOff
    <2>4. \A id \in Ids : se.ledger.upserted[id] # NoRow => se.txn.own[id] # Unwritten
      BY <1>0 DEF Mirrored
    <2> HIDE DEF now
    <2> QED BY <2>1, <2>2, <2>3, <2>4
  <1> HIDE DEF now
  <1>7. ASSUME NEW id \in Ids
        PROVE  /\ Behind(end.ledger.committed[id], now[id])
               /\ end.mem[id] # NoAnchor => Rooted(end, now, fresh, id)
               /\ (end.mem[id] = NoAnchor) <=> (se.mem[id] = NoAnchor)
    <2>1. /\ Behind(se.ledger.committed[id], rows[id])
          /\ se.mem[id] # NoAnchor => Rooted(se, rows, fresh, id)
      BY DEF Based
    <2>2. CASE se.mem[id] # NoAnchor /\ se.ledger.upserted[id] # NoRow
      <3>1. se.mem[id] \in Anchor /\ se.ledger.upserted[id].val \in Val
        BY <2>2, <1>0 DEF SessionState, Ledger, Rows, MaybeRow, RowState
      <3>2. /\ [se.mem[id] EXCEPT !.base = se.ledger.upserted[id].val] \in Anchor
            /\ [se.mem[id] EXCEPT !.base = se.ledger.upserted[id].val].base
                  = se.ledger.upserted[id].val
        BY <3>1 DEF Anchor
      <3>3. /\ end.mem[id] # NoAnchor /\ end.mem[id].base = se.ledger.upserted[id].val
        BY <1>1, <1>2, <2>2, <3>2, NoAnchorAssumption
      <3> QED BY <1>4, <1>6, <2>2, <3>3 DEF Behind, Rooted
    <2>3. CASE se.mem[id] # NoAnchor /\ se.ledger.upserted[id] = NoRow
      <3>1. end.mem[id] = se.mem[id] /\ se.ledger.committed[id] # NoRow
        BY <1>1, <1>2, <1>4, <1>5, <2>3 DEF Cached
      <3> QED BY <1>4, <1>6, <2>1, <2>3, <3>1 DEF Rooted
    <2>4. CASE se.mem[id] = NoAnchor
      <3>1. end.mem[id] = NoAnchor /\ se.ledger.upserted[id] = NoRow
        BY <1>1, <1>2, <2>4 DEF Based
      <3> QED BY <1>4, <1>6, <2>1, <2>4, <3>1
    <2> QED BY <2>2, <2>3, <2>4
  <1>8. Based(end, now, fresh)
    BY <1>2, <1>4, <1>7 DEF Based
  <1>9. Held(end) = {} /\ Cached(end) = Cached(se)
    BY <1>2, <1>7 DEF Held, Cached
  <1> QED BY <1>8, <1>9 DEF end, done, now

\* A COMMIT with nothing to commit changes nothing.
LEMMA CommitNothingEases ==
    ASSUME NEW se \in SessionState, se.txn = NoTxn, ~ InFlight(se.ledger)
    PROVE  Eases(se, LeaveQueue(CommitTxn(se)))
  <1> DEFINE done == CommitTxn(se)
  <1>1. se.ledger.removed = {} /\ \A id \in Ids : se.ledger.upserted[id] = NoRow
    BY DEF InFlight
  <1>2. /\ done.txn = NoTxn /\ done.ledger = Promote(se.ledger)
        /\ done.deleted = se.deleted
        /\ done.mem = [id \in Ids |-> se.mem[id]]
    BY <1>1 DEF CommitTxn, SessionState
  <1>3. done.mem = se.mem
    BY <1>2 DEF SessionState
  <1>4. /\ done.ledger.committed = [id \in Ids |-> se.ledger.committed[id]]
        /\ done.ledger.removed = {} /\ \A id \in Ids : done.ledger.upserted[id] = NoRow
    BY <1>1, <1>2 DEF Promote, Current, EmptyRows, SessionState, Ledger
  <1>5. done.ledger.committed = se.ledger.committed
    BY <1>4 DEF SessionState, Ledger, Rows
  <1>6. done = [se EXCEPT !.txn = NoTxn, !.ledger = Promote(@), !.mem = done.mem]
    BY DEF CommitTxn
  <1> HIDE DEF done
  <1>7. LeaveQueue(done).txn = NoTxn /\ LeaveQueue(done).mem = done.mem
        /\ LeaveQueue(done).ledger = done.ledger /\ LeaveQueue(done).deleted = done.deleted
    BY <1>6 DEF LeaveQueue, SessionState
  <1> QED BY <1>2, <1>3, <1>4, <1>5, <1>7 DEF Eases, done

\* Nor does one whose answer is lost, of a session that makes no anchors.
LEMMA UnansweredBased ==
    ASSUME NEW rows \in Rows, NEW se \in SessionState, se.txn # NoTxn, Based(se, rows, {}),
           NEW e
    PROVE  Based(StatementFailed(se, e), Applied(se.txn, rows), {})
  <1> DEFINE end == StatementFailed(se, e)
             now == Applied(se.txn, rows)
  <1>1. /\ end.txn = NoTxn /\ end.mem = se.mem /\ end.ledger = se.ledger
        /\ end.deleted = se.deleted
    BY DEF StatementFailed, SessionState
  <1> HIDE DEF end
  <1>2. ASSUME NEW id \in Ids
        PROVE  /\ Behind(se.ledger.committed[id], now[id])
               /\ se.mem[id] # NoAnchor => Rooted(end, now, {}, id)
    <2>1. Behind(se.ledger.committed[id], now[id])
      BY AppliedBehind DEF Based, SessionState, Ledger, Rows
    <2> HIDE DEF now
    <2>2. se.mem[id] # NoAnchor => Rooted(end, now, {}, id)
      BY <1>1 DEF Based, Rooted
    <2> QED BY <2>1, <2>2
  <1> HIDE DEF now
  <1> QED BY <1>1, <1>2 DEF Based, end, now
-----------------------------------------------------------------------------
(* What a session that holds rows by SELECT ... FOR UPDATE is sure of.       *)

Pins(se) == IF se.txn = NoTxn THEN {} ELSE se.txn.pins

Holding(se) == Pins(se) # {}

\* All it has in memory was read, or written, in the transaction that holds
\* the rows: each version it presents is the one that transaction sees.
Firm(se) ==
    Holding(se) =>
        /\ se.txn.iso = "serializable" /\ se.queued # {} /\ se.exc # "conflict"
        /\ \A id \in Ids :
            /\ se.txn.own[id] = Unwritten /\ se.txn.snap[id] # NoRow =>
                  /\ id \notin se.ledger.removed
                  /\ se.mem[id] # NoAnchor => se.ledger.committed[id] = se.txn.snap[id]
            /\ se.txn.own[id] \notin {Unwritten, NoRow} =>
                  /\ id \notin se.ledger.removed
                  /\ se.ledger.upserted[id] = se.txn.own[id]

\* The rows end holds it holds since se, and has written what se had.
SamePins(se, end) ==
    Holding(end) =>
        /\ Holding(se) /\ end.txn.snap = se.txn.snap
        /\ \A id \in Ids : se.txn.own[id] # Unwritten => end.txn.own[id] # Unwritten

\* Between se and end no statement of a flush was sent.
Calm(se, end) ==
    /\ SamePins(se, end) /\ (Firm(se) => Firm(end))
    /\ end.exc = "conflict" => se.exc = "conflict"

\* A session that holds rows does not lose the race between se and end.
Wins(se, end) ==
    /\ SamePins(se, end) /\ (Firm(se) => Firm(end))
    /\ Firm(se) /\ Holding(se) => end.exc # "conflict"

-----------------------------------------------------------------------------

\* What sends no statement loses no race, before or after what wins one.
LEMMA CalmOn ==
    ASSUME NEW se, NEW mid, NEW end, Calm(mid, end)
    PROVE  /\ Wins(mid, end)
           /\ Calm(se, mid) => Calm(se, end)
           /\ Wins(se, mid) => Wins(se, end)
  BY DEF Calm, Wins, SamePins, Firm

\* A session that has let go of its rows has nothing to be sure of.
LEMMA LetsGo ==
    ASSUME NEW se, NEW end, ~ Holding(end)
    PROVE  /\ (end.exc = "conflict" => se.exc = "conflict") => Calm(se, end)
           /\ (Firm(se) /\ Holding(se) => end.exc # "conflict") => Wins(se, end)
  BY DEF Calm, Wins, SamePins, Firm

\* The fields a holder's certainty is about.
Hold(se) ==
    <<se.txn.iso, se.txn.snap, se.txn.own, se.txn.pins, se.ledger.removed,
      se.ledger.committed, se.ledger.upserted, se.mem, se.queued>>

\* A step that leaves them alone leaves it as sure.
LEMMA SameHold ==
    ASSUME NEW se, NEW end, end.txn # NoTxn => se.txn # NoTxn /\ Hold(end) = Hold(se),
           end.exc = "conflict" => se.exc = "conflict"
    PROVE  Calm(se, end)
  <1>1. CASE end.txn = NoTxn
    BY <1>1, LetsGo DEF Holding, Pins
  <1>2. CASE end.txn # NoTxn
    <2>1. /\ se.txn # NoTxn /\ end.txn.iso = se.txn.iso /\ end.txn.snap = se.txn.snap
          /\ end.txn.own = se.txn.own /\ end.txn.pins = se.txn.pins
          /\ end.ledger.removed = se.ledger.removed
          /\ end.ledger.committed = se.ledger.committed
          /\ end.ledger.upserted = se.ledger.upserted
          /\ end.mem = se.mem /\ end.queued = se.queued
      BY <1>2 DEF Hold
    <2> QED BY <1>2, <2>1 DEF Calm, SamePins, Firm, Holding, Pins
  <1> QED BY <1>1, <1>2

\* Nothing happens calmly.
LEMMA CalmSelf == ASSUME NEW se PROVE Calm(se, se)
  BY DEF Calm, SamePins

\* Exceptions but a lost race, and the ends of a transaction.
LEMMA EndsCalm ==
    ASSUME NEW se \in SessionState, NEW e, e # "conflict", NEW exhausted
    PROVE  /\ Calm(se, Raise(se, e)) /\ Calm(se, StatementFailed(se, e))
           /\ Calm(se, RollbackTxn(se)) /\ Calm(se, ReplayTxn(se, exhausted))
           /\ Calm(se, RaiseRoRetry(se)) /\ Calm(se, ReclaimDeadTxn(se))
           /\ Calm(se, CommitTxn(se))
  <1>1. Calm(se, Raise(se, e))
    <2>1. /\ Raise(se, e).txn = se.txn /\ Hold(Raise(se, e)) = Hold(se)
          /\ Raise(se, e).exc = e
      BY DEF Raise, SessionState, Hold
    <2> QED BY <2>1, SameHold
  <1>2. Calm(se, StatementFailed(se, e))
    <2>1. StatementFailed(se, e).txn = NoTxn /\ StatementFailed(se, e).exc = e
      BY DEF StatementFailed, SessionState
    <2> QED BY <2>1, LetsGo DEF Holding, Pins
  <1> DEFINE back == RollbackTxn(se)
             ends == {back, [back EXCEPT !.lost = TRUE, !.exc = "lost"],
                      [back EXCEPT !.exc = "none"], [back EXCEPT !.exc = "lost"],
                      [back EXCEPT !.ro = FALSE, !.roRaised = TRUE, !.exc = "ro"]}
  <1>3. back.txn = NoTxn /\ back.exc = se.exc /\ back \in SessionState
    BY RollbackSound DEF RollbackTxn, SessionState
  <1>4. /\ ReplayTxn(se, exhausted) \in ends /\ ReclaimDeadTxn(se) \in {se} \cup ends
        /\ RaiseRoRetry(se) \in ends /\ back \in ends
    BY DEF ReplayTxn, ReclaimDeadTxn, RaiseRoRetry, Raise
  <1> HIDE DEF back
  <1>5. ASSUME NEW end \in ends PROVE Calm(se, end)
    <2>1. end.txn = NoTxn /\ (end.exc = "conflict" => se.exc = "conflict")
      BY <1>3, <1>5 DEF SessionState
    <2> QED BY <2>1, LetsGo DEF Holding, Pins
  <1> HIDE DEF ends
  <1>6. Calm(se, CommitTxn(se))
    <2>1. CommitTxn(se).txn = NoTxn /\ CommitTxn(se).exc = se.exc
      BY CommitSound DEF CommitTxn, SessionState
    <2> QED BY <2>1, LetsGo DEF Holding, Pins
  <1> QED BY <1>1, <1>2, <1>4, <1>5, <1>6, CalmSelf DEF back

\* A transaction that begins holds no rows.
LEMMA BeginCalm ==
    ASSUME NEW se, NEW x \in SessionState, x.exc = se.exc, NEW isolation, NEW rows
    PROVE  Calm(se, BeginTxn(x, isolation, rows)) /\ ~ Holding(BeginTxn(x, isolation, rows))
  <1> DEFINE end == BeginTxn(x, isolation, rows)
  <1>1. end.txn = NewTxn(isolation, rows) /\ end.exc = se.exc
    BY DEF BeginTxn, SessionState
  <1>2. NewTxn(isolation, rows).pins = {}
    BY DEF NewTxn
  <1> HIDE DEF end
  <1>3. ~ Holding(end)
    BY <1>1, <1>2 DEF Holding, Pins
  <1> QED BY <1>1, <1>3, LetsGo DEF end

\* A session that is sure of its rows opens nothing new.
LEMMA HolderStays ==
    ASSUME NEW se \in SessionState, Holding(se), Firm(se), NEW rows
    PROVE  /\ ReclaimDeadTxn(se) = se
           /\ BeginWritable(se, rows) \in {se, Raise(se, "ro")}
           /\ EnsureTxn(se, rows) \in {se, Raise(se, "ro")}
  <1>1. se.txn # NoTxn /\ ~ OnSnapshot(se)
    BY DEF Holding, Pins, Firm, OnSnapshot
  <1>2. ReclaimDeadTxn(se) = se
    BY <1>1 DEF ReclaimDeadTxn
  <1>3. BeginWritable(se, rows) \in {se, Raise(se, "ro")}
    BY <1>1, <1>2 DEF BeginWritable
  <1> QED BY <1>1, <1>2, <1>3 DEF EnsureTxn

\* _begin_writable and _ensure_txn send nothing but a BEGIN.
LEMMA OpensCalm ==
    ASSUME NEW se, Sound(se), NEW rows
    PROVE  Calm(se, BeginWritable(se, rows)) /\ Calm(se, EnsureTxn(se, rows))
  <1>1. ASSUME NEW x, Sound(x) PROVE Calm(x, BeginWritable(x, rows))
    <2> DEFINE live == ReclaimDeadTxn(x)
               told == DropSnapshotReads(CommitTxn(live))
    <2>1. Sound(live) /\ Calm(x, live) /\ x \in SessionState
      BY <1>1, ReclaimSound, EndsCalm DEF Sound
    <2>2. BeginWritable(x, rows) \in {Raise(x, "ro"), live, RaiseRoRetry(live),
             BeginTxn(told, "serializable", rows), BeginTxn(live, "serializable", rows)}
      BY DEF BeginWritable, live, told
    <2>3. told \in SessionState /\ told.exc = live.exc
      <3> HIDE DEF live
      <3>1. Sound(CommitTxn(live)) /\ CommitTxn(live).exc = live.exc
        BY <2>1, CommitSound DEF Sound, CommitTxn, SessionState
      <3> DEFINE y == CommitTxn(live)
      <3> HIDE DEF y
      <3>2. Sound(DropSnapshotReads(y)) /\ DropSnapshotReads(y).exc = y.exc
        BY <3>1, DropSound DEF y, Sound, DropSnapshotReads, SessionState
      <3> QED BY <3>1, <3>2 DEF Sound, y
    <2> HIDE DEF live, told
    <2>4. /\ Calm(live, BeginTxn(told, "serializable", rows))
          /\ Calm(live, BeginTxn(live, "serializable", rows))
          /\ Calm(live, RaiseRoRetry(live)) /\ Calm(x, Raise(x, "ro"))
      BY <2>1, <2>3, BeginCalm, EndsCalm DEF Sound
    <2> QED BY <2>1, <2>2, <2>4, CalmOn
  <1> DEFINE live == ReclaimDeadTxn(se)
  <1>2. Sound(live) /\ Calm(se, live) /\ live \in SessionState
    BY ReclaimSound, EndsCalm DEF Sound
  <1>3. EnsureTxn(se, rows) \in
          {live, BeginTxn(live, TxnIsolation(live), rows), BeginWritable(live, rows)}
    BY DEF EnsureTxn, live
  <1> HIDE DEF live
  <1>4. /\ Calm(live, BeginTxn(live, TxnIsolation(live), rows))
        /\ Calm(live, BeginWritable(live, rows))
    BY <1>1, <1>2, BeginCalm
  <1> QED BY <1>1, <1>2, <1>3, <1>4, CalmOn

\* Nor does ensure_writable_txn, or entering a unit.
LEMMA EntersCalm ==
    ASSUME NEW se, Sound(se), NEW rows \in Rows, NEW ro \in BOOLEAN
    PROVE  Calm(se, EnsureWritableTxn(se, rows)) /\ Calm(se, UnitEnter(se, ro, rows))
  <1>1. Calm(se, EnsureWritableTxn(se, rows))
    <2> DEFINE open == BeginWritable(se, rows)
               more == [open EXCEPT !.ledger = Joined(@)]
    <2>1. Calm(se, open) /\ open \in SessionState
      BY OpensCalm, BeginWritableSound DEF Sound
    <2>2. EnsureWritableTxn(se, rows) \in {open, more}
      BY DEF EnsureWritableTxn
    <2> HIDE DEF open
    <2>3. /\ Joined(open.ledger).removed = open.ledger.removed
          /\ Joined(open.ledger).upserted = open.ledger.upserted
          /\ Joined(open.ledger).committed = open.ledger.committed
      BY <2>1 DEF SessionState, Ledger, Joined
    <2>4. more.txn = open.txn /\ more.exc = open.exc /\ Hold(more) = Hold(open)
      BY <2>1, <2>3 DEF SessionState, Hold
    <2>5. Calm(open, more)
      BY <2>4, SameHold
    <2> QED BY <2>1, <2>2, <2>5, CalmOn
  <1>2. Calm(se, UnitEnter(se, ro, rows))
    <2> DEFINE entered == [se EXCEPT !.units = 1, !.ro = ro]
    <2>1. /\ Sound(entered) /\ entered.txn = se.txn /\ entered.exc = se.exc
          /\ Hold(entered) = Hold(se)
      BY DEF Sound, Mirrored, SessionState, Hold
    <2>2. UnitEnter(se, ro, rows) \in {entered, EnsureTxn(entered, rows)}
      BY DEF UnitEnter
    <2> HIDE DEF entered
    <2>3. Calm(se, entered) /\ Calm(entered, EnsureTxn(entered, rows))
      BY <2>1, SameHold, OpensCalm
    <2> QED BY <2>2, <2>3, CalmOn
  <1> QED BY <1>1, <1>2

-----------------------------------------------------------------------------

\* Waiting for a row lock, a holder of others meets a transient error.
LEMMA TimeoutWins ==
    ASSUME NEW se \in SessionState, NEW ids, NEW e, e # "conflict"
    PROVE  Wins(se, LockTimeout(se, ids)) /\ Wins(se, StatementFailed(se, e))
  <1>1. LockTimeout(se, ids).txn = NoTxn
    BY DEF LockTimeout, StatementFailed, SessionState
  <1>2. Firm(se) /\ Holding(se) => LockTimeout(se, ids).exc # "conflict"
    BY DEF Firm, LockTimeout, StatementFailed, SessionState
  <1>3. Wins(se, LockTimeout(se, ids))
    BY <1>1, <1>2, LetsGo DEF Holding, Pins
  <1> QED BY <1>3, EndsCalm, CalmOn

\* The version a holder presents is the one its upsert meets.
LEMMA NeverStale ==
    ASSUME NEW se, Sound(se), Firm(se), Holding(se), NEW rows, NEW id \in Cached(se),
           ~ UpsertOutdated(se.txn, rows, id)
    PROVE  ~ UpsertStale(se.txn, rows, id, WriteVersion(se.ledger, id))
  <1>1. id \in Ids /\ se.mem[id] # NoAnchor /\ se.txn # NoTxn
    BY DEF Cached, Holding, Pins
  <1>2. CASE se.txn.own[id] = Unwritten
    <2>1. se.ledger.upserted[id] = NoRow
      BY <1>1, <1>2 DEF Sound, Mirrored
    <2>2. UpsertTarget(se.txn, rows, id) = rows[id]
      BY <1>2 DEF UpsertTarget
    <2>3. CASE rows[id] = NoRow
      BY <2>2, <2>3 DEF UpsertStale
    <2>4. CASE rows[id] # NoRow
      <3>1. rows[id] = se.txn.snap[id]
        BY <1>2, <2>4 DEF UpsertOutdated
      <3>2. id \notin se.ledger.removed /\ se.ledger.committed[id] = rows[id]
        BY <1>1, <1>2, <2>4, <3>1 DEF Firm
      <3>3. WriteVersion(se.ledger, id) = rows[id].version
        BY <2>1, <2>4, <3>2 DEF WriteVersion, Current
      <3> QED BY <2>2, <3>3 DEF UpsertStale
    <2> QED BY <2>3, <2>4
  <1>3. CASE se.txn.own[id] # Unwritten
    <2>1. UpsertTarget(se.txn, rows, id) = se.txn.own[id]
      BY <1>3 DEF UpsertTarget
    <2>2. CASE se.txn.own[id] = NoRow
      BY <2>1, <2>2 DEF UpsertStale
    <2>3. CASE se.txn.own[id] # NoRow
      <3>1. id \notin se.ledger.removed /\ se.ledger.upserted[id] = se.txn.own[id]
        BY <1>1, <1>3, <2>3 DEF Firm
      <3>2. WriteVersion(se.ledger, id) = se.txn.own[id].version
        BY <2>3, <3>1 DEF WriteVersion, Current
      <3> QED BY <2>1, <3>2 DEF UpsertStale
    <2> QED BY <2>2, <2>3
  <1> QED BY <1>2, <1>3
\* What wins a race goes on to win the next while it holds its rows.
LEMMA WinsOn ==
    ASSUME NEW se, NEW mid, NEW end, Wins(se, mid), Wins(mid, end),
           Firm(se) /\ Holding(se) => Holding(mid)
    PROVE  Wins(se, end)
  BY DEF Wins, SamePins, Firm

\* An upsert of what memory holds meets, in a holder, only versions it has.
LEMMA UpsertWins ==
    ASSUME NEW se, Sound(se), se.txn # NoTxn, NEW rows \in Rows,
           NEW content, DOMAIN content \in SUBSET Cached(se),
           \A id \in DOMAIN content : content[id] \in Val,
           \A id \in DOMAIN content : ~ UpsertOutdated(se.txn, rows, id),
           NEW sent \in Upsert(se, content, rows)
    PROVE  Wins(se, sent) /\ Pins(sent) = Pins(se)
  <1> DEFINE ids     == DOMAIN content
             version == [id \in ids |-> WriteVersion(se.ledger, id)]
             row     == [id \in ids |-> UpsertedRow(se.txn, rows, id,
                            [version |-> version[id], val |-> content[id]])]
             stale   == {id \in ids : UpsertStale(se.txn, rows, id, version[id])}
             txn     == Write(se.txn, ids \ stale, row)
  <1>0. /\ se \in SessionState /\ se.txn \in Txn /\ se.ledger \in Ledger
        /\ ids \in SUBSET Ids /\ ids \in SUBSET Cached(se)
    BY DEF Sound, SessionState, Cached
  <1>1. ASSUME NEW id \in ids PROVE row[id] \notin {Unwritten, NoRow}
    <2>1. WriteVersion(se.ledger, id) \in Nat /\ content[id] \in Val
      BY <1>0, WriteVersionType
    <2>2. row[id] \in RowState
      BY <2>1 DEF UpsertedRow, RowState
    <2> QED BY <2>2, NoRowAssumption, UnwrittenAssumption DEF MaybeRow
  <1>2. sent \in IF stale = {}
           THEN {[se EXCEPT !.txn = txn, !.ledger = Upserted(@, ids, row)]}
           ELSE {[se EXCEPT !.txn = txn, !.lastConflict = {first}, !.exc = "conflict"] :
                    first \in stale}
    BY DEF Upsert
  <1>3. Firm(se) /\ Holding(se) => stale = {}
    BY <1>0, NeverStale
  <1> HIDE DEF row, version, stale
  <1>4. /\ txn.snap = se.txn.snap /\ txn.pins = se.txn.pins /\ txn.iso = se.txn.iso
        /\ \A id \in Ids : txn.own[id] = IF id \in ids \ stale THEN row[id] ELSE se.txn.own[id]
        /\ txn # NoTxn
    <2> DEFINE wrote == [id \in Ids |->
                    IF id \in ids \ stale THEN row[id] ELSE se.txn.own[id]]
    <2>1. txn = [se.txn EXCEPT !.own = wrote]
      BY <1>0 DEF Write, Txn
    <2>1a. \A id \in Ids : wrote[id] = IF id \in ids \ stale THEN row[id]
                                        ELSE se.txn.own[id]
      OBVIOUS
    <2> HIDE DEF wrote
    <2>1b. /\ txn.snap = se.txn.snap /\ txn.pins = se.txn.pins
           /\ txn.iso = se.txn.iso /\ txn.own = wrote
      <3> HIDE DEF ids, txn
      <3> QED BY <1>0, <2>1 DEF Txn
    <2>2. /\ txn.snap = se.txn.snap /\ txn.pins = se.txn.pins /\ txn.iso = se.txn.iso
          /\ \A id \in Ids : txn.own[id] = IF id \in ids \ stale THEN row[id]
                                           ELSE se.txn.own[id]
      BY <2>1a, <2>1b
    <2>3. txn # NoTxn
      <3>1. \A id \in ids : row[id] \in MaybeRow
        <4>1. \A id \in ids : WriteVersion(se.ledger, id) \in Nat /\ content[id] \in Val
          BY <1>0, WriteVersionType
        <4> QED BY <4>1 DEF row, version, UpsertedRow, RowState, MaybeRow
      <3>2. wrote \in [Ids -> MaybeRow \cup {Unwritten}]
        BY <1>0, <3>1 DEF Txn, wrote
      <3>3. txn \in Txn
        BY <1>0, <2>1, <3>2 DEF Txn
      <3> QED BY <3>3, NoTxnAssumption
    <2> QED BY <2>2, <2>3
  <1> HIDE DEF txn
  <1>5. /\ sent.txn = txn /\ sent.mem = se.mem /\ sent.queued = se.queued
        /\ stale = {} => sent.exc = se.exc /\ sent.ledger = Upserted(se.ledger, ids, row)
    <2>1. CASE sent = [se EXCEPT !.txn = txn, !.ledger = Upserted(@, ids, row)]
      BY <1>0, <2>1 DEF SessionState
    <2>2. CASE \E first \in stale :
                  sent = [se EXCEPT !.txn = txn, !.lastConflict = {first}, !.exc = "conflict"]
      BY <1>0, <2>2 DEF SessionState
    <2> QED BY <1>2, <2>1, <2>2
  <1>6. /\ Upserted(se.ledger, ids, row).committed = se.ledger.committed
        /\ Upserted(se.ledger, ids, row).removed = se.ledger.removed \ ids
        /\ \A id \in Ids : Upserted(se.ledger, ids, row).upserted[id] =
              IF id \in ids THEN row[id] ELSE se.ledger.upserted[id]
    BY <1>0 DEF Upserted, Ledger, Rows
  <1> HIDE DEF ids
  <1>7. Pins(sent) = Pins(se)
    BY <1>4, <1>5 DEF Pins
  <1>8. SamePins(se, sent)
    BY <1>1, <1>4, <1>5, <1>7 DEF SamePins, Holding
  <1>9. ASSUME Firm(se), Holding(se) PROVE Firm(sent) /\ sent.exc # "conflict"
    <2>1. /\ stale = {} /\ sent.exc = se.exc /\ sent.exc # "conflict"
          /\ sent.txn.iso = "serializable" /\ sent.queued # {}
      BY <1>3, <1>4, <1>5, <1>9 DEF Firm
    <2>2. ASSUME NEW id \in Ids
          PROVE  /\ sent.txn.own[id] = Unwritten /\ sent.txn.snap[id] # NoRow =>
                      /\ id \notin sent.ledger.removed
                      /\ sent.mem[id] # NoAnchor
                            => sent.ledger.committed[id] = sent.txn.snap[id]
                 /\ sent.txn.own[id] \notin {Unwritten, NoRow} =>
                      /\ id \notin sent.ledger.removed
                      /\ sent.ledger.upserted[id] = sent.txn.own[id]
      <3>1. CASE id \in ids
        BY <1>1, <1>4, <1>5, <1>6, <2>1, <3>1
      <3>2. CASE id \notin ids
        BY <1>4, <1>5, <1>6, <1>9, <2>1, <3>2 DEF Firm
      <3> QED BY <3>1, <3>2
    <2> QED BY <2>1, <2>2 DEF Firm
  <1>10. ~ Holding(se) => ~ Holding(sent)
    BY <1>7 DEF Holding
  <1> QED BY <1>7, <1>8, <1>9, <1>10 DEF Wins, Firm

\* A delete erases what the transaction sees, and no version is left to differ.
LEMMA DeleteWins ==
    ASSUME NEW se, Sound(se), se.txn # NoTxn, NEW rows, NEW busy,
           NEW sent \in DeleteResults(se, rows, busy)
    PROVE  Wins(se, sent)
  <1> DEFINE ids  == se.deleted
             txn  == Erase(se.txn, ids)
             done == [se EXCEPT !.txn = Erase(@, ids),
                                !.ledger = Removed(@, ids), !.deleted = {}]
  <1>0. /\ se \in SessionState /\ se.txn \in Txn /\ se.ledger \in Ledger /\ ids \in SUBSET Ids
    BY DEF Sound, SessionState
  <1>1. sent \in {StatementFailed(se, "transient"), LockTimeout(se, ids), done}
    BY DEF DeleteResults
  <1>2. Wins(se, StatementFailed(se, "transient")) /\ Wins(se, LockTimeout(se, ids))
    BY <1>0, TimeoutWins
  <1>3. txn \in Txn /\ txn # NoTxn
    BY <1>0, EraseType, NoTxnAssumption
  <1>4. /\ txn.snap = se.txn.snap /\ txn.pins = se.txn.pins /\ txn.iso = se.txn.iso
        /\ \A id \in Ids : txn.own[id] =
              IF id \in ids /\ Visible(se.txn, id) # NoRow THEN NoRow ELSE se.txn.own[id]
    BY <1>0 DEF Erase, Txn
  <1>5. /\ done.txn = txn /\ done.mem = se.mem /\ done.queued = se.queued
        /\ done.exc = se.exc /\ done.ledger = Removed(se.ledger, ids)
    BY <1>0 DEF SessionState
  <1>6. /\ Removed(se.ledger, ids).committed = se.ledger.committed
        /\ Removed(se.ledger, ids).removed = se.ledger.removed \cup ids
        /\ \A id \in Ids : Removed(se.ledger, ids).upserted[id] =
              IF id \in ids THEN NoRow ELSE se.ledger.upserted[id]
    BY <1>0 DEF Removed, Ledger, Rows
  <1> HIDE DEF txn, done
  <1>7. Pins(done) = Pins(se)
    BY <1>3, <1>4, <1>5 DEF Pins
  <1>8. SamePins(se, done)
    BY <1>4, <1>5, <1>7, UnwrittenAssumption DEF SamePins, Holding, MaybeRow
  <1>9. ASSUME Firm(se), Holding(se) PROVE Firm(done) /\ done.exc # "conflict"
    <2>1. /\ done.exc # "conflict" /\ done.txn.iso = "serializable" /\ done.queued # {}
      BY <1>4, <1>5, <1>9 DEF Firm
    <2>2. ASSUME NEW id \in Ids
          PROVE  /\ done.txn.own[id] = Unwritten /\ done.txn.snap[id] # NoRow =>
                      /\ id \notin done.ledger.removed
                      /\ done.mem[id] # NoAnchor
                            => done.ledger.committed[id] = done.txn.snap[id]
                 /\ done.txn.own[id] \notin {Unwritten, NoRow} =>
                      /\ id \notin done.ledger.removed
                      /\ done.ledger.upserted[id] = done.txn.own[id]
      <3>1. CASE id \in ids
        <4>1. \/ done.txn.own[id] = NoRow
              \/ done.txn.own[id] = se.txn.own[id] /\ Visible(se.txn, id) = NoRow
          BY <1>4, <1>5, <3>1
        <4> QED BY <1>4, <1>5, <4>1, UnwrittenAssumption DEF Visible, MaybeRow
      <3>2. CASE id \notin ids
        BY <1>4, <1>5, <1>6, <1>9, <3>2 DEF Firm
      <3> QED BY <3>1, <3>2
    <2> QED BY <2>1, <2>2 DEF Firm
  <1>10. ~ Holding(se) => ~ Holding(done)
    BY <1>7 DEF Holding
  <1>11. Wins(se, done)
    BY <1>8, <1>9, <1>10 DEF Wins, Firm
  <1> QED BY <1>1, <1>2, <1>11

\* The upserts and deletes of a flush, with an error after either.
LEMMA WriteResultsWin ==
    ASSUME NEW se, Sound(se), se.txn # NoTxn, NEW rows \in Rows, NEW busy, NEW fault,
           NEW content, DOMAIN content \in SUBSET Cached(se),
           \A id \in DOMAIN content : content[id] \in Val,
           NEW sent \in WriteResults(se, content, rows, busy, fault)
    PROVE  Wins(se, sent)
  <1> DEFINE ids     == DOMAIN content
             upserts == IF ids = {} THEN {se} ELSE UpsertResults(se, content, rows, busy)
             landed  == {up \in upserts : Ok(up)}
             after(up) == IF up.deleted = {} THEN {up} ELSE DeleteResults(up, rows, busy)
             deletes == UNION {after(up) : up \in landed}
             out     == {StatementFailed(up, "transient") :
                            up \in {se} \cup {up \in landed : up.deleted # {}}}
  <1>0. se \in SessionState /\ DOMAIN content \in SUBSET Ids
    BY DEF Sound, Cached
  <1>1. ASSUME NEW up \in upserts
        PROVE  /\ Wins(se, up) /\ Sound(up) /\ (Ok(up) => up.txn # NoTxn)
               /\ Ok(up) => Pins(up) = Pins(se)
    <2>1. CASE ids = {}
      BY <1>1, <2>1, CalmSelf, CalmOn
    <2>2. CASE ids # {}
      <3>1. up \in UpsertResults(se, content, rows, busy)
        BY <1>1, <2>2
      <3> HIDE DEF upserts
      <3>2. Sound(up) /\ (Ok(up) => up.txn # NoTxn)
        BY <1>0, <3>1, UpsertResultsSound
      <3>3. \/ up \in {StatementFailed(se, "transient"), LockTimeout(se, ids)}
            \/ /\ up \in Upsert(se, content, rows)
               /\ \A id \in ids : ~ UpsertOutdated(se.txn, rows, id)
        BY <3>1 DEF UpsertResults
      <3>4. CASE up \in {StatementFailed(se, "transient"), LockTimeout(se, ids)}
        <4>1. Wins(se, up)
          BY <1>0, <3>4, TimeoutWins
        <4>2. ~ Ok(up)
          BY <1>0, <3>4 DEF LockTimeout, StatementFailed, SessionState, Ok
        <4> QED BY <3>2, <4>1, <4>2
      <3>5. CASE /\ up \in Upsert(se, content, rows)
                 /\ \A id \in ids : ~ UpsertOutdated(se.txn, rows, id)
        BY <3>2, <3>5, UpsertWins
      <3> QED BY <3>3, <3>4, <3>5
    <2> QED BY <2>1, <2>2
  <1>2. sent \in IF fault THEN out ELSE {up \in upserts : ~ Ok(up)} \cup deletes
    BY DEF WriteResults
  <1> HIDE DEF upserts
  <1>3. ASSUME NEW up, up \in landed \/ up = se
        PROVE  Wins(se, StatementFailed(up, "transient"))
    <2>1. Wins(se, up) /\ up \in SessionState
      BY <1>0, <1>1, <1>3, CalmSelf, CalmOn DEF Sound
    <2> QED BY <2>1, EndsCalm, CalmOn
  <1>4. ASSUME NEW up \in landed, NEW d \in after(up) PROVE Wins(se, d)
    <2>1. Wins(se, up) /\ Sound(up) /\ up.txn # NoTxn /\ (Holding(se) => Holding(up))
      BY <1>1, <1>4 DEF Holding
    <2>2. d = up \/ d \in DeleteResults(up, rows, busy)
      BY <1>4
    <2> QED BY <2>1, <2>2, DeleteWins, WinsOn
  <1>5. CASE fault
    BY <1>2, <1>3, <1>5
  <1>6. CASE ~ fault
    BY <1>1, <1>2, <1>4, <1>6
  <1> QED BY <1>5, <1>6

\* Session.flush loses no race in a session that holds its rows.
LEMMA FlushWins ==
    ASSUME NEW stored, NEW own, NEW se, Faithful(se, stored, own),
           NEW full, NEW rows, Within(rows, stored), NEW busy, NEW fault,
           NEW sent \in FlushResults(se, full, rows, busy, fault)
    PROVE  Wins(se, sent)
  <1> DEFINE live    == ReclaimDeadTxn(se)
             ids     == Unflushed(live, full)
             open    == BeginWritable(live, rows)
             content == [id \in ids |-> live.mem[id].val]
             wrote   == WriteResults(open, content, rows, busy, fault)
             good(a) == [a EXCEPT !.dirty = {}]
  <1>1. /\ Sound(live) /\ Calm(se, live) /\ live \in SessionState /\ se \in SessionState
        /\ Faithful(live, stored, own) /\ (live.txn = NoTxn => ~ InFlight(live.ledger))
        /\ rows \in Rows
    BY ReclaimKeeps, EndsCalm DEF Faithful, Kept, Sound, Within
  <1>2. FlushResults(se, full, rows, busy, fault) =
          IF ~ Ok(live) THEN {live}
          ELSE IF ids = {} /\ live.deleted = {}
               THEN IF fault THEN {} ELSE {good(live)}
          ELSE IF ~ Ok(open) THEN {open}
          ELSE {IF Ok(w) THEN good(w) ELSE w : w \in wrote}
    BY DEF FlushResults
  <1>3. Firm(se) /\ Holding(se) => live = se
    BY <1>1, HolderStays
  <1> HIDE DEF live
  <1>4. Sound(open) /\ Calm(live, open) /\ (Ok(open) => open.txn # NoTxn)
    BY <1>1, BeginWritableSound, OpensCalm
  <1>5. Firm(live) /\ Holding(live) /\ Ok(open) => open = live
    <2>1. ~ Ok(Raise(live, "ro"))
      BY <1>1 DEF Raise, Ok, SessionState
    <2> QED BY <1>1, <2>1, HolderStays
  <1>6. \A a : Sound(a) => Calm(a, good(a))
    <2> SUFFICES ASSUME NEW a, Sound(a) PROVE Calm(a, good(a))
      OBVIOUS
    <2>1. good(a).txn = a.txn /\ good(a).exc = a.exc /\ Hold(good(a)) = Hold(a)
      BY DEF Sound, SessionState, Hold
    <2> HIDE DEF good
    <2> QED BY <2>1, SameHold
  <1>7. ids \in SUBSET Cached(live) /\ \A id \in ids : live.mem[id].val \in Val
    BY <1>1 DEF Unflushed, Cached, SessionState, Anchor
  <1>8. Calm(se, open)
    BY <1>1, <1>4, CalmOn
  <1>9. CASE sent \in {live, good(live), open}
    BY <1>1, <1>6, <1>8, <1>9, CalmOn
  <1>10. CASE Ok(open) /\ \E w \in wrote : sent \in {w, good(w)}
    <2>1. PICK w \in wrote : sent \in {w, good(w)}
      BY <1>10
    <2> DEFINE found == content
    <2>2. DOMAIN found = ids /\ (\A id \in ids : found[id] \in Val)
          /\ w \in WriteResults(open, found, rows, busy, fault)
      BY <1>7, <2>1
    <2> HIDE DEF found, wrote, content
    <2>3. DOMAIN found \in SUBSET Cached(open)
      <3>1. \A id \in Cached(live) : id \in Cached(open)
        BY <1>1, <1>10, WritableSame DEF Cached
      <3> QED BY <1>7, <2>2, <3>1
    <2> HIDE DEF open, ids
    <2>4. Wins(open, w) /\ Sound(w)
      <3>1. \A id \in DOMAIN found : found[id] \in Val
        BY <2>2
      <3>2. DOMAIN found \in SUBSET Ids
        BY <2>3 DEF Cached
      <3>3. rows \in Rows /\ Sound(open) /\ open.txn # NoTxn
        BY <1>1, <1>4, <1>10
      <3> QED BY <2>2, <2>3, <3>1, <3>2, <3>3, WriteResultsWin, WriteResultsSound
    <2>5. Wins(se, w)
      <3>1. Wins(se, open) /\ (Firm(se) /\ Holding(se) => Holding(open))
        BY <1>3, <1>5, <1>8, <1>10, CalmOn
      <3> QED BY <2>4, <3>1, WinsOn
    <2>6. Calm(w, good(w))
      BY <1>6, <2>4
    <2> HIDE DEF good
    <2> QED BY <2>1, <2>5, <2>6, CalmOn
  <1> HIDE DEF open, wrote, good
  <1>11. \/ sent \in {live, good(live), open}
         \/ Ok(open) /\ \E w \in wrote : sent = IF Ok(w) THEN good(w) ELSE w
    BY <1>2
  <1> QED BY <1>9, <1>10, <1>11
\* Nor does a read barrier.
LEMMA BarrierWins ==
    ASSUME NEW stored, NEW own, NEW se, Faithful(se, stored, own),
           NEW rows, Within(rows, stored), NEW busy, NEW fault,
           NEW open \in BarrierResults(se, rows, busy, fault)
    PROVE  Wins(se, open)
  <1> DEFINE mid == EnsureTxn(se, rows)
  <1>1. Calm(se, mid) /\ Faithful(mid, stored, own) /\ se \in SessionState
    BY OpensCalm, EnsureKeeps DEF Faithful, Kept, Sound
  <1>2. open \in IF Ok(mid) THEN FlushResults(mid, FALSE, rows, busy, fault) ELSE {mid}
    BY DEF BarrierResults
  <1>3. Firm(se) /\ Holding(se) /\ Ok(mid) => mid = se
    <2>1. ~ Ok(Raise(se, "ro"))
      BY <1>1 DEF Raise, Ok, SessionState
    <2> QED BY <1>1, <2>1, HolderStays
  <1> HIDE DEF mid
  <1>4. Wins(se, mid)
    BY <1>1, CalmSelf, CalmOn
  <1>5. CASE open = mid
    BY <1>4, <1>5
  <1>6. CASE Ok(mid) /\ open \in FlushResults(mid, FALSE, rows, busy, fault)
    <2>1. Wins(mid, open)
      BY <1>1, <1>6, FlushWins
    <2> QED BY <1>3, <1>4, <1>6, <2>1, WinsOn
  <1> QED BY <1>2, <1>5, <1>6

-----------------------------------------------------------------------------

\* A read's predicate locks, and work that joins, are no writes of rows.
LEMMA RidesCalm ==
    ASSUME NEW se \in SessionState, se.txn # NoTxn, NEW ids, NEW val
    PROVE  /\ Calm(se, [se EXCEPT !.txn = Reading(@, ids)])
           /\ Calm(se, [se EXCEPT !.txn.joins = @ \cup {val}])
  <1> DEFINE read == Reading(se.txn, ids)
             rode == [se.txn EXCEPT !.joins = @ \cup {val}]
  <1>0. se.txn \in Txn
    BY DEF SessionState
  <1>1. \A t \in {read, rode} : /\ t.iso = se.txn.iso /\ t.snap = se.txn.snap
                                /\ t.own = se.txn.own /\ t.pins = se.txn.pins
    BY <1>0 DEF Reading, Txn
  <1>2. /\ [se EXCEPT !.txn = Reading(@, ids)] = [se EXCEPT !.txn = read]
        /\ [se EXCEPT !.txn.joins = @ \cup {val}] = [se EXCEPT !.txn = rode]
    BY DEF SessionState
  <1> HIDE DEF read, rode
  <1>3. ASSUME NEW t \in {read, rode} PROVE Calm(se, [se EXCEPT !.txn = t])
    <2> DEFINE end == [se EXCEPT !.txn = t]
    <2>1. Hold(end) = Hold(se) /\ end.exc = se.exc
      BY <1>1, <1>3 DEF Hold, SessionState
    <2> HIDE DEF end
    <2>2. Calm(se, end)
      BY <2>1, SameHold
    <2> QED BY <2>2 DEF end
  <1> QED BY <1>2, <1>3

\* What a load brings into memory is the row the transaction sees.
LEMMA LoadCalm ==
    ASSUME NEW se, Sound(se), se.txn # NoTxn, NEW ids \in SUBSET Ids
    PROVE  Calm(se, Load(se, ids))
  <1> DEFINE row == [id \in Ids |-> Visible(se.txn, id)]
             new == {id \in ids : row[id] # NoRow /\ se.mem[id] = NoAnchor}
             end == Load(se, ids)
  <1>0. /\ se \in SessionState /\ se.txn \in Txn /\ se.ledger \in Ledger
        /\ new \in SUBSET Ids
    BY DEF Sound, SessionState
  <1>1. /\ end.txn = Reading(se.txn, ids) /\ end.ledger = Loaded(se.ledger, new, row)
        /\ end.queued = se.queued /\ end.exc = se.exc
        /\ \A id \in Ids : end.mem[id] =
              IF id \in new THEN [val |-> row[id].val, base |-> row[id].val] ELSE se.mem[id]
    BY <1>0 DEF Load, SessionState
  <1>2. /\ end.txn.snap = se.txn.snap /\ end.txn.own = se.txn.own
        /\ end.txn.pins = se.txn.pins /\ end.txn.iso = se.txn.iso
    BY <1>0, <1>1 DEF Reading, Txn
  <1>3. ASSUME NEW id \in new
        PROVE  /\ se.txn.own[id] # NoRow
               /\ se.txn.own[id] = Unwritten =>
                     se.ledger.upserted[id] = NoRow /\ row[id] = se.txn.snap[id]
               /\ se.txn.own[id] # Unwritten => row[id] = se.txn.own[id]
    BY <1>3, UnwrittenAssumption DEF Sound, Mirrored, Visible, MaybeRow
  <1> HIDE DEF end, row
  <1>4. /\ end.ledger.removed = se.ledger.removed
        /\ \A id \in Ids :
              /\ end.ledger.upserted[id] =
                    IF id \in new /\ se.ledger.upserted[id] # NoRow THEN row[id]
                    ELSE se.ledger.upserted[id]
              /\ end.ledger.committed[id] =
                    IF id \in new /\ se.ledger.upserted[id] = NoRow THEN row[id]
                    ELSE se.ledger.committed[id]
    <2> HIDE DEF new
    <2> QED BY <1>0, <1>1 DEF Loaded, Ledger, Rows
  <1> HIDE DEF new
  <1>5. Holding(end) => Holding(se)
    BY <1>2 DEF Holding, Pins
  <1>6. ASSUME Firm(se), Holding(end) PROVE Firm(end)
    <2>1. end.txn.iso = "serializable" /\ end.queued # {} /\ end.exc # "conflict"
      BY <1>1, <1>2, <1>5, <1>6 DEF Firm
    <2>2. ASSUME NEW id \in Ids
          PROVE  /\ end.txn.own[id] = Unwritten /\ end.txn.snap[id] # NoRow =>
                      /\ id \notin end.ledger.removed
                      /\ end.mem[id] # NoAnchor
                            => end.ledger.committed[id] = end.txn.snap[id]
                 /\ end.txn.own[id] \notin {Unwritten, NoRow} =>
                      /\ id \notin end.ledger.removed
                      /\ end.ledger.upserted[id] = end.txn.own[id]
      <3>1. /\ se.txn.own[id] = Unwritten /\ se.txn.snap[id] # NoRow =>
                  /\ id \notin se.ledger.removed
                  /\ se.mem[id] # NoAnchor => se.ledger.committed[id] = se.txn.snap[id]
            /\ se.txn.own[id] \notin {Unwritten, NoRow} =>
                  /\ id \notin se.ledger.removed
                  /\ se.ledger.upserted[id] = se.txn.own[id]
        BY <1>5, <1>6 DEF Firm
      <3>2. CASE id \in new
        BY <1>2, <1>3, <1>4, <3>1, <3>2
      <3>3. CASE id \notin new
        BY <1>1, <1>2, <1>4, <3>1, <3>3
      <3> QED BY <3>2, <3>3
    <2> QED BY <2>1, <2>2 DEF Firm
  <1>7. ~ Holding(end) => Firm(end)
    BY DEF Firm
  <1> QED BY <1>1, <1>2, <1>5, <1>6, <1>7 DEF Calm, SamePins, end

\* Changing what memory holds, forgetting some of it, and making what the
\* transaction has not seen, leave a holder as sure as it was.
LEMMA MemoryCalm ==
    ASSUME NEW se, NEW end, end.txn = se.txn, end.ledger = se.ledger,
           end.queued = se.queued, end.exc = se.exc,
           \A id \in Ids : end.mem[id] # NoAnchor =>
              \/ se.mem[id] # NoAnchor
              \/ Holding(se) /\ se.txn.own[id] = Unwritten => se.txn.snap[id] = NoRow
    PROVE  Calm(se, end)
  BY DEF Calm, SamePins, Firm, Holding, Pins

\* Session.abort lets go of everything.
LEMMA AbortCalm ==
    ASSUME NEW se \in SessionState
    PROVE  /\ Abort(se).txn = NoTxn /\ Abort(se).exc = "none" /\ Calm(se, Abort(se))
           /\ Abort(se).ledger.removed = {} /\ Idle(Abort(se))
           /\ \A id \in Ids : Abort(se).mem[id] = NoAnchor
  <1> DEFINE told == [se EXCEPT !.contended = @ \cup se.lastConflict, !.lastConflict = {}]
             back == RollbackTxn(told)
             end  == Abort(se)
  <1>1. told \in SessionState
    BY DEF SessionState
  <1>2. back \in SessionState /\ back.txn = NoTxn /\ Idle(back) /\ back.ledger.removed = {}
    <2> HIDE DEF told
    <2>1. back \in SessionState /\ back.txn = NoTxn /\ Idle(back)
      BY <1>1, RollbackSound
    <2>2. back.ledger = Discard(told.ledger)
      BY <1>1 DEF RollbackTxn, SessionState
    <2>3. Discard(told.ledger).removed = {}
      BY <1>1 DEF Discard, SessionState, Ledger
    <2> QED BY <2>1, <2>2, <2>3
  <1>3. end = [ForgetLoaded(back) EXCEPT !.dirty = {}, !.deleted = {},
                  !.snapshotReads = {}, !.lost = FALSE, !.exc = "none"]
    BY DEF Abort
  <1> HIDE DEF told, back, end
  <1>4. /\ end.txn = NoTxn /\ end.exc = "none"
        /\ end.ledger = Forget(back.ledger, Cached(back))
        /\ \A id \in Ids : end.mem[id] = NoAnchor
    BY <1>2, <1>3 DEF ForgetLoaded, SessionState
  <1>5. /\ end.ledger.removed = back.ledger.removed
        /\ end.ledger.upserted = back.ledger.upserted
    BY <1>2, <1>4 DEF Forget, SessionState, Ledger
  <1>6. Calm(se, end)
    BY <1>4, LetsGo DEF Holding, Pins
  <1> QED BY <1>2, <1>4, <1>5, <1>6 DEF end, Idle

\* A transaction that takes the rows' locks as it begins, over a session that
\* has nothing in memory, has all to learn from what it sees.
LEMMA PinFirm ==
    ASSUME NEW se, Sound(se), Idle(se), se.exc = "none", se.ledger.removed = {},
           \A id \in Ids : se.mem[id] = NoAnchor,
           NEW rows \in Rows, NEW ids \in SUBSET se.queued
    PROVE  Firm([BeginTxn(se, "serializable", rows) EXCEPT !.txn.pins = ids])
  <1> DEFINE open == BeginTxn(se, "serializable", rows)
             t    == [open.txn EXCEPT !.pins = ids]
             end  == [open EXCEPT !.txn.pins = ids]
  <1>1. /\ open \in SessionState /\ open.txn = NewTxn("serializable", rows)
        /\ open.ledger = se.ledger /\ open.mem = se.mem /\ open.queued = se.queued
        /\ open.exc = se.exc
    BY BeginSound DEF Isolation, Sound, BeginTxn, SessionState
  <1>2. /\ t.iso = "serializable" /\ t.pins = ids
        /\ \A id \in Ids : t.own[id] = Unwritten
    BY <1>1 DEF NewTxn
  <1>3. end = [open EXCEPT !.txn = t]
    BY <1>1 DEF SessionState
  <1> HIDE DEF t, open
  <1>4. /\ end.txn = t /\ end.ledger = se.ledger /\ end.mem = se.mem
        /\ end.queued = se.queued /\ end.exc = se.exc
    BY <1>1, <1>3 DEF SessionState
  <1> HIDE DEF end
  <1>5. Firm(end)
    BY <1>2, <1>4 DEF Firm, Holding, Pins
  <1> QED BY <1>5 DEF end, open
-----------------------------------------------------------------------------
(* A transaction on a read-only snapshot.                                   *)

\* On the snapshot it has written nothing, and nothing of its own is in flight.
ReadOnly(se) ==
    OnSnapshot(se) =>
        /\ ~ InFlight(se.ledger) /\ se.txn.joins = {}
        /\ \A id \in Ids : se.txn.own[id] = Unwritten

-----------------------------------------------------------------------------

\* Outside a transaction nothing is in flight once _reclaim_dead_txn is through.
LEMMA ReclaimReadOnly ==
    ASSUME NEW se, Sound(se), ReadOnly(se)
    PROVE  LET live == ReclaimDeadTxn(se)
           IN  ReadOnly(live) /\ (live.txn = NoTxn => ~ InFlight(live.ledger))
  <1> DEFINE live == ReclaimDeadTxn(se)
             back == RollbackTxn(se)
             lost == Raise(back, "lost")
  <1>1. CASE ~ InFlight(se.ledger) \/ se.txn # NoTxn
    BY <1>1 DEF ReclaimDeadTxn
  <1>2. CASE InFlight(se.ledger) /\ se.txn = NoTxn
    <2>1. /\ back \in SessionState /\ back.txn = NoTxn
          /\ back.ledger = Discard(se.ledger) /\ se.ledger \in Ledger
      BY RollbackSound DEF Sound, RollbackTxn, SessionState
    <2>2. ~ InFlight(back.ledger)
      BY <2>1 DEF InFlight, Discard, Ledger, EmptyRows
    <2>3. live = back \/ live = lost
      BY <1>2 DEF ReclaimDeadTxn
    <2> HIDE DEF back, live
    <2>4. lost.txn = NoTxn /\ lost.ledger = back.ledger
      BY <2>1 DEF Raise, SessionState
    <2> HIDE DEF lost
    <2> QED BY <2>1, <2>2, <2>3, <2>4 DEF ReadOnly, OnSnapshot, live
  <1> QED BY <1>1, <1>2

\* A transaction that begins has written nothing.
LEMMA BeginReadOnly ==
    ASSUME NEW se \in SessionState, ~ InFlight(se.ledger), NEW isolation \in Isolation,
           NEW rows \in Rows
    PROVE  LET open == BeginTxn(se, isolation, rows)
           IN  ReadOnly(open) /\ (OnSnapshot(open) <=> isolation = "snapshot")
  <1> DEFINE t    == NewTxn(isolation, rows)
             open == BeginTxn(se, isolation, rows)
  <1>1. open.txn = t /\ open.ledger = se.ledger
    BY DEF BeginTxn, SessionState
  <1>2. /\ t # NoTxn /\ t.iso = isolation /\ t.joins = {}
        /\ \A id \in Ids : t.own[id] = Unwritten
    BY NewTxnType, NoTxnAssumption DEF NewTxn
  <1> HIDE DEF open, t
  <1> QED BY <1>1, <1>2 DEF open, ReadOnly, OnSnapshot

\* _begin_writable opens a transaction that may write, or raises: on a snapshot
\* the unit is on the read tier, and ReadOnlyRetry leaves it.
LEMMA WritableReadOnly ==
    ASSUME NEW se, Sound(se), Tidy(se), ReadOnly(se), NEW rows \in Rows
    PROVE  LET open == BeginWritable(se, rows)
           IN  ReadOnly(open) /\ (Ok(open) => ~ OnSnapshot(open))
  <1> DEFINE live == ReclaimDeadTxn(se)
             open == BeginWritable(se, rows)
             ro   == Raise(se, "ro")
             back == RollbackTxn(live)
             out  == [back EXCEPT !.ro = FALSE, !.roRaised = TRUE, !.exc = "ro"]
             next == BeginTxn(live, "serializable", rows)
  <1>1. /\ Sound(live) /\ ReadOnly(live)
        /\ live.txn = NoTxn => ~ InFlight(live.ledger)
        /\ live.txn # NoTxn => live = se
    BY ReclaimSound, ReclaimReadOnly
  <1>2. OnSnapshot(live) => live.ro
    BY <1>1 DEF OnSnapshot, Tidy
  <1>3. open = IF se.roRaised THEN ro
               ELSE IF ~ Ok(live) THEN live
               ELSE IF OnSnapshot(live) THEN out
               ELSE IF live.txn = NoTxn THEN next
               ELSE live
    BY <1>2 DEF BeginWritable, RaiseRoRetry, live
  <1> HIDE DEF live, open
  <1>4. CASE se.roRaised
    <2>1. ro.txn = se.txn /\ ro.ledger = se.ledger /\ ro.exc = "ro"
      BY DEF Raise, Sound, SessionState
    <2> HIDE DEF ro
    <2> QED BY <1>3, <1>4, <2>1 DEF open, ReadOnly, OnSnapshot, Ok
  <1>5. CASE ~ se.roRaised /\ ~ Ok(live)
    BY <1>1, <1>3, <1>5 DEF open
  <1>6. CASE ~ se.roRaised /\ Ok(live) /\ OnSnapshot(live)
    <2>1. back \in SessionState /\ back.txn = NoTxn
      BY <1>1, RollbackSound DEF Sound
    <2> HIDE DEF back
    <2>2. out.txn = NoTxn
      BY <2>1 DEF SessionState
    <2> HIDE DEF out
    <2> QED BY <1>3, <1>6, <2>2 DEF open, ReadOnly, OnSnapshot
  <1>7. CASE ~ se.roRaised /\ Ok(live) /\ ~ OnSnapshot(live) /\ live.txn = NoTxn
    <2>1. ReadOnly(next) /\ ~ OnSnapshot(next)
      BY <1>1, <1>7, BeginReadOnly DEF Sound, Isolation
    <2> HIDE DEF next
    <2> QED BY <1>3, <1>7, <2>1 DEF open
  <1>8. CASE ~ se.roRaised /\ Ok(live) /\ ~ OnSnapshot(live) /\ live.txn # NoTxn
    BY <1>1, <1>3, <1>8 DEF open
  <1> QED BY <1>4, <1>5, <1>6, <1>7, <1>8

\* _ensure_txn opens a snapshot that has written nothing.
LEMMA EnsureReadOnly ==
    ASSUME NEW se, Sound(se), Tidy(se), ReadOnly(se), NEW rows \in Rows
    PROVE  ReadOnly(EnsureTxn(se, rows))
  <1> DEFINE live == ReclaimDeadTxn(se)
             iso  == TxnIsolation(live)
             next == BeginTxn(live, iso, rows)
  <1>1. /\ Sound(live) /\ ReadOnly(live)
        /\ live.txn = NoTxn => ~ InFlight(live.ledger)
        /\ live.txn # NoTxn => live = se
    BY ReclaimSound, ReclaimReadOnly
  <1>2. iso \in Isolation
    BY DEF TxnIsolation, Isolation
  <1>3. EnsureTxn(se, rows) = IF ~ Ok(live) THEN live
                              ELSE IF live.txn = NoTxn THEN next
                              ELSE IF iso = "serializable" THEN BeginWritable(live, rows)
                              ELSE live
    BY DEF EnsureTxn, live
  <1> HIDE DEF live, iso
  <1>4. live.txn = NoTxn => ReadOnly(next)
    BY <1>1, <1>2, BeginReadOnly DEF Sound
  <1>5. live.txn # NoTxn => ReadOnly(BeginWritable(live, rows))
    BY <1>1, WritableReadOnly
  <1> HIDE DEF next
  <1> QED BY <1>1, <1>3, <1>4, <1>5

\* A statement that fails ends the transaction.
LEMMA FailureReadOnly ==
    ASSUME NEW se \in SessionState, NEW e, NEW ids
    PROVE  /\ StatementFailed(se, e).txn = NoTxn
           /\ LockTimeout(se, ids).txn = NoTxn
  BY DEF StatementFailed, LockTimeout, SessionState

\* An upsert or a delete changes what a transaction wrote, not its kind.
LEMMA StatementWritable ==
    ASSUME NEW se, Sound(se), se.txn # NoTxn, ~ OnSnapshot(se), NEW rows, NEW busy
    PROVE  /\ \A content : \A up \in UpsertResults(se, content, rows, busy) :
                 ~ OnSnapshot(up)
           /\ \A down \in DeleteResults(se, rows, busy) : ~ OnSnapshot(down)
  <1>0. se \in SessionState /\ se.txn \in Txn /\ se.txn.iso # "snapshot"
    BY DEF Sound, SessionState, OnSnapshot
  <1>1. ASSUME NEW content, NEW up \in Upsert(se, content, rows)
        PROVE  ~ OnSnapshot(up)
    <2> DEFINE ids     == DOMAIN content
               version == [id \in ids |-> WriteVersion(se.ledger, id)]
               row     == [id \in ids |-> UpsertedRow(se.txn, rows, id,
                             [version |-> version[id], val |-> content[id]])]
               stale   == {id \in ids : UpsertStale(se.txn, rows, id, version[id])}
               txn     == Write(se.txn, ids \ stale, row)
               ledger  == Upserted(se.ledger, ids, row)
    <2>1. \/ up = [se EXCEPT !.txn = txn, !.ledger = ledger]
          \/ \E first : up = [se EXCEPT !.txn = txn, !.lastConflict = first,
                                        !.exc = "conflict"]
      <3>1. [se EXCEPT !.txn = txn, !.ledger = Upserted(@, ids, row)]
              = [se EXCEPT !.txn = txn, !.ledger = ledger]
        BY <1>0 DEF SessionState
      <3>2. up \in IF stale = {}
                   THEN {[se EXCEPT !.txn = txn, !.ledger = Upserted(@, ids, row)]}
                   ELSE {[se EXCEPT !.txn = txn, !.lastConflict = {first}, !.exc = "conflict"] :
                           first \in stale}
        BY <1>1 DEF Upsert
      <3> HIDE DEF txn, ledger, stale
      <3> QED BY <3>1, <3>2
    <2>2. txn.iso = se.txn.iso
      BY <1>0 DEF Write, Txn
    <2> HIDE DEF txn, ledger
    <2>3. up.txn = txn
      BY <1>0, <2>1 DEF SessionState
    <2> QED BY <1>0, <2>2, <2>3 DEF OnSnapshot
  <1>2. ASSUME NEW content, NEW up \in UpsertResults(se, content, rows, busy)
        PROVE  ~ OnSnapshot(up)
    <2>1. up \in {StatementFailed(se, "transient"), LockTimeout(se, DOMAIN content)}
                    \cup Upsert(se, content, rows)
      BY <1>2 DEF UpsertResults
    <2> QED BY <1>0, <1>1, <2>1, FailureReadOnly DEF OnSnapshot
  <1>3. ASSUME NEW down \in DeleteResults(se, rows, busy) PROVE ~ OnSnapshot(down)
    <2> DEFINE ids  == se.deleted
               txn  == Erase(se.txn, ids)
               done == [se EXCEPT !.txn = Erase(@, ids),
                                  !.ledger = Removed(@, ids), !.deleted = {}]
    <2>1. down \in {StatementFailed(se, "transient"), LockTimeout(se, ids), done}
      BY <1>3 DEF DeleteResults
    <2>2. txn.iso = se.txn.iso
      BY <1>0 DEF Erase, Txn
    <2>3. done.txn = txn
      BY <1>0 DEF SessionState
    <2> HIDE DEF txn, done
    <2> QED BY <1>0, <2>1, <2>2, <2>3, FailureReadOnly DEF OnSnapshot
  <1> QED BY <1>2, <1>3

\* So it is with all the statements of a flush.
LEMMA WriteResultsWritable ==
    ASSUME NEW se, Sound(se), se.txn # NoTxn, ~ OnSnapshot(se), Ok(se), NEW rows \in Rows,
           NEW busy, NEW fault \in BOOLEAN, NEW content, DOMAIN content \in SUBSET Ids,
           \A id \in DOMAIN content : content[id] \in Val,
           NEW sent \in WriteResults(se, content, rows, busy, fault)
    PROVE  ~ OnSnapshot(sent)
  <1> DEFINE upserts == IF DOMAIN content = {} THEN {se}
                        ELSE UpsertResults(se, content, rows, busy)
             landed  == {up \in upserts : Ok(up)}
             after(up) == IF up.deleted = {} THEN {up} ELSE DeleteResults(up, rows, busy)
             deletes == UNION {after(up) : up \in landed}
             failed  == {StatementFailed(up, "transient") :
                           up \in {se} \cup {up \in landed : up.deleted # {}}}
  <1>1. ASSUME NEW up \in upserts
        PROVE  ~ OnSnapshot(up) /\ Sound(up) /\ (Ok(up) => up.txn # NoTxn)
    <2>1. CASE DOMAIN content = {}
      BY <1>1, <2>1
    <2>2. CASE DOMAIN content # {}
      <3>1. up \in UpsertResults(se, content, rows, busy)
        BY <1>1, <2>2
      <3> QED BY <2>2, <3>1, StatementWritable, UpsertResultsSound
    <2> QED BY <2>1, <2>2
  <1>2. sent \in IF fault THEN failed ELSE {up \in upserts : ~ Ok(up)} \cup deletes
    BY DEF WriteResults
  <1> HIDE DEF upserts
  <1>3. CASE fault
    <2>1. PICK up : sent = StatementFailed(up, "transient") /\ (up = se \/ up \in landed)
      BY <1>2, <1>3
    <2>2. up \in SessionState
      BY <1>1, <2>1 DEF Sound
    <2> QED BY <2>1, <2>2, FailureReadOnly DEF OnSnapshot
  <1>4. CASE ~ fault
    <2>1. CASE sent \in upserts
      BY <1>1, <2>1
    <2>2. CASE sent \in deletes
      <3>1. PICK up \in landed : sent \in after(up)
        BY <2>2
      <3> QED BY <1>1, <3>1, StatementWritable
    <2> QED BY <1>2, <1>4, <2>1, <2>2
  <1> QED BY <1>3, <1>4

\* Session.flush writes nothing on a snapshot.
LEMMA FlushReadOnly ==
    ASSUME NEW stored, NEW own, NEW se, Faithful(se, stored, own), ReadOnly(se),
           NEW full \in BOOLEAN, NEW fault \in BOOLEAN,
           NEW rows, Within(rows, stored), NEW busy,
           NEW sent \in FlushResults(se, full, rows, busy, fault)
    PROVE  ReadOnly(sent)
  <1> DEFINE live    == ReclaimDeadTxn(se)
             ids     == Unflushed(live, full)
             open    == BeginWritable(live, rows)
             content == [id \in ids |-> live.mem[id].val]
             wrote   == WriteResults(open, content, rows, busy, fault)
             good(a) == [a EXCEPT !.dirty = {}]
  <1>1. /\ Faithful(live, stored, own) /\ Sound(live) /\ Tidy(live) /\ ReadOnly(live)
        /\ live \in SessionState /\ rows \in Rows
    BY ReclaimKeeps, ReclaimReadOnly DEF Faithful, Kept, Sound, Within
  <1>2. FlushResults(se, full, rows, busy, fault) =
          IF ~ Ok(live) THEN {live}
          ELSE IF ids = {} /\ live.deleted = {}
               THEN IF fault THEN {} ELSE {good(live)}
          ELSE IF ~ Ok(open) THEN {open}
          ELSE {IF Ok(w) THEN good(w) ELSE w : w \in wrote}
    BY DEF FlushResults
  <1>3. ids \in SUBSET Ids /\ \A id \in ids : live.mem[id].val \in Val
    BY <1>1 DEF Unflushed, Cached, SessionState, Anchor
  <1> HIDE DEF live
  <1>4. ASSUME NEW a \in SessionState PROVE good(a).txn = a.txn /\ good(a).ledger = a.ledger
    BY <1>4 DEF SessionState
  <1>5. CASE sent = live \/ sent = good(live)
    BY <1>1, <1>4, <1>5 DEF ReadOnly, OnSnapshot
  <1>6. ReadOnly(open) /\ Sound(open) /\ (Ok(open) => ~ OnSnapshot(open) /\ open.txn # NoTxn)
    BY <1>1, WritableReadOnly, BeginWritableSound
  <1>7. CASE sent = open
    BY <1>6, <1>7
  <1> DEFINE found == content
  <1>8. DOMAIN found = ids /\ \A id \in ids : found[id] \in Val
    BY <1>3
  <1> HIDE DEF open, content
  <1>9. ASSUME Ok(open), NEW w \in wrote, sent = IF Ok(w) THEN good(w) ELSE w
        PROVE  ReadOnly(sent)
    <2>1. w \in WriteResults(open, found, rows, busy, fault)
      BY <1>9
    <2> HIDE DEF found, wrote, ids
    <2>2. ~ OnSnapshot(w) /\ w \in SessionState
      BY <1>1, <1>3, <1>6, <1>8, <1>9, <2>1, WriteResultsWritable, WriteResultsSound DEF Sound
    <2>3. sent.txn = w.txn
      BY <1>4, <1>9, <2>2
    <2> QED BY <2>2, <2>3 DEF ReadOnly, OnSnapshot
  <1> QED BY <1>2, <1>5, <1>7, <1>9

\* Nor does a read barrier.
LEMMA BarrierReadOnly ==
    ASSUME NEW stored, NEW own \in SUBSET Val, NEW se, Faithful(se, stored, own),
           ReadOnly(se), NEW fault \in BOOLEAN,
           NEW rows, Within(rows, stored), NEW busy,
           NEW open \in BarrierResults(se, rows, busy, fault)
    PROVE  ReadOnly(open)
  <1> DEFINE mid == EnsureTxn(se, rows)
  <1>1. Faithful(mid, stored, own) /\ ReadOnly(mid)
    BY EnsureKeeps, EnsureReadOnly DEF Faithful, Kept, Within
  <1>2. open \in IF Ok(mid) THEN FlushResults(mid, FALSE, rows, busy, fault) ELSE {mid}
    BY DEF BarrierResults
  <1> HIDE DEF mid
  <1> QED BY <1>1, <1>2, FlushReadOnly

\* A read changes what the transaction has read.
LEMMA LoadReadOnly ==
    ASSUME NEW se \in SessionState, se.txn # NoTxn, ReadOnly(se),
           NEW ids \in SUBSET Ids,
           NEW end \in {Load(se, ids), [se EXCEPT !.txn = Reading(@, ids)]}
    PROVE  ReadOnly(end)
  <1> DEFINE row == [id \in Ids |-> Visible(se.txn, id)]
             new == {id \in ids : row[id] # NoRow /\ se.mem[id] = NoAnchor}
             t   == Reading(se.txn, ids)
             l   == Loaded(se.ledger, new, row)
  <1>1. end.txn = t /\ end.ledger \in {se.ledger, l}
    BY DEF Load, SessionState
  <1>2. /\ t.iso = se.txn.iso /\ t.own = se.txn.own /\ t.joins = se.txn.joins
    <2>1. se.txn \in Txn
      BY DEF SessionState
    <2> QED BY <2>1 DEF Reading, Txn
  <1>3. ~ InFlight(se.ledger) => ~ InFlight(l)
    <2> HIDE DEF new, row
    <2>1. se.ledger \in Ledger
      BY DEF SessionState
    <2>2. l.removed = se.ledger.removed /\ l.joined = se.ledger.joined
          /\ \A id \in Ids : se.ledger.upserted[id] = NoRow => l.upserted[id] = NoRow
      BY <2>1 DEF Loaded, Ledger, Rows
    <2> QED BY <2>2 DEF InFlight
  <1> HIDE DEF t, l
  <1> QED BY <1>1, <1>2, <1>3 DEF ReadOnly, OnSnapshot
=============================================================================
