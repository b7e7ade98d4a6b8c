------------------------------ MODULE Session ------------------------------
(***************************************************************************)
(* The unit-of-work session (obj Session, jac/jaclang/server/session.jac,   *)
(* impl/session.impl.jac): in-memory anchors over one store connection, a    *)
(* transaction opened by the first statement, a flush before every read, a   *)
(* commit that replays its write set on a serialization conflict.           *)
(*                                                                         *)
(* A session is a record; a method is an operator from sessions to sessions, *)
(* or to the set of sessions it may leave when the database decides.        *)
(* `exc` is the exception the last call raised.                             *)
(***************************************************************************)
EXTENDS Store

CONSTANT NoAnchor      \* nothing in memory under this id

-----------------------------------------------------------------------------
(* obj RowLedger: the rows a session believes the store holds.  What is     *)
(* committed, what its open transaction wrote on top, what it removed, and  *)
(* whether work outside the graph (an outbox row, a user statement) joined  *)
(* the transaction.                                                        *)

Ledger == [committed : Rows, upserted : Rows,
           removed : SUBSET Ids, joined : BOOLEAN]

EmptyRows == [id \in Ids |-> NoRow]

NewLedger == [committed |-> EmptyRows, upserted |-> EmptyRows,
              removed |-> {}, joined |-> FALSE]

Current(l, id) ==
    IF id \in l.removed THEN NoRow
    ELSE IF l.upserted[id] # NoRow THEN l.upserted[id]
    ELSE l.committed[id]

\* The version an upsert presents: a row the transaction removed is put back
\* one version after the committed one.
WriteVersion(l, id) ==
    IF id \in l.removed
    THEN IF l.committed[id] = NoRow THEN 0 ELSE l.committed[id].version + 1
    ELSE IF Current(l, id) = NoRow THEN 0 ELSE Current(l, id).version

InFlight(l) ==
    \/ \E id \in Ids : l.upserted[id] # NoRow
    \/ l.removed # {}
    \/ l.joined

\* A row read back is committed, unless this transaction wrote it.
Loaded(l, ids, row) ==
    LET mine == {id \in ids : l.upserted[id] # NoRow}
    IN  [l EXCEPT
           !.upserted  = [id \in Ids |-> IF id \in mine THEN row[id] ELSE @[id]],
           !.committed = [id \in Ids |-> IF id \in ids \ mine THEN row[id] ELSE @[id]]]

Upserted(l, ids, row) ==
    [l EXCEPT !.removed  = @ \ ids,
              !.upserted = [id \in Ids |-> IF id \in ids THEN row[id] ELSE @[id]]]

Removed(l, ids) ==
    [l EXCEPT !.upserted = [id \in Ids |-> IF id \in ids THEN NoRow ELSE @[id]],
              !.removed  = @ \cup ids]

Joined(l) == [l EXCEPT !.joined = TRUE]

Forget(l, ids) ==
    [l EXCEPT !.committed = [id \in Ids |-> IF id \in ids THEN NoRow ELSE @[id]]]

\* _reset, on its own what discard leaves.
Discard(l) ==
    [l EXCEPT !.upserted = EmptyRows, !.removed = {}, !.joined = FALSE]

Promote(l) ==
    [l EXCEPT !.committed = [id \in Ids |-> Current(l, id)],
              !.upserted = EmptyRows, !.removed = {}, !.joined = FALSE]

-----------------------------------------------------------------------------
(* The session.                                                            *)

\* `base` is history, not a field of the code: the committed content the
\* in-memory value was computed from.
Anchor == [val : Val, base : Val \cup {NoRow}]

ASSUME NoAnchorAssumption == NoAnchor \notin Anchor

Exceptions == {"none",
               "transient",   \* a database error _is_serialization_conflict knows
               "conflict",    \* WriteConflict
               "lost",        \* TransactionLost, a WriteConflict
               "ro",          \* ReadOnlyRetry, a WriteConflict
               "other"}       \* anything else the body raises

SessionState ==
    [txn : Txn \cup {NoTxn}, ledger : Ledger,
     mem : [Ids -> Anchor \cup {NoAnchor}],
     dirty : SUBSET Ids, deleted : SUBSET Ids, snapshotReads : SUBSET Ids,
     lost : BOOLEAN, units : {0, 1},
     ro : BOOLEAN,          \* the open unit is on the read tier (_ro_units)
     roRaised : BOOLEAN,    \* _ro_retry_raised
     lastConflict : SUBSET Ids, contended : SUBSET Ids, queued : SUBSET Ids,
     exc : Exceptions]

NewSession ==
    [txn |-> NoTxn, ledger |-> NewLedger, mem |-> [id \in Ids |-> NoAnchor],
     dirty |-> {}, deleted |-> {}, snapshotReads |-> {}, lost |-> FALSE,
     units |-> 0, ro |-> FALSE, roRaised |-> FALSE,
     lastConflict |-> {}, contended |-> {}, queued |-> {}, exc |-> "none"]

Cached(se) == {id \in Ids : se.mem[id] # NoAnchor}
Ok(se)     == se.exc = "none"

Raise(se, e) == [se EXCEPT !.exc = e]

\* A statement failed: PgStore._run has rolled the transaction back (or lost
\* the connection) and left the ledger as it was.
StatementFailed(se, e) == [se EXCEPT !.txn = NoTxn, !.exc = e]

-----------------------------------------------------------------------------
(* Memory: what the graph API does to the session without a statement.      *)

Put(se, id, anchor) ==
    [se EXCEPT !.mem[id] = anchor, !.dirty = @ \cup {id}, !.deleted = @ \ {id}]

MarkDirty(se, id) ==
    IF id \in Cached(se) THEN [se EXCEPT !.dirty = @ \cup {id}] ELSE se

Delete(se, id) ==
    [se EXCEPT !.mem[id] = NoAnchor, !.dirty = @ \ {id}, !.deleted = @ \cup {id}]

-----------------------------------------------------------------------------
(* Ending a transaction.                                                   *)

\* Mutants of RollbackTxn: the ledger keeps what the transaction wrote; that
\* other work rode in the transaction is forgotten.
RollbackTxnStore(se) ==
    LET up == {id \in Ids : se.ledger.upserted[id] # NoRow}
    IN  [se EXCEPT !.txn     = NoTxn,
                   !.lost    = @ \/ se.ledger.joined,
                   !.dirty   = @ \cup (up \cap Cached(se)),
                   !.deleted = @ \cup (se.ledger.removed \ Cached(se))]

RollbackTxnJoined(se) ==
    LET up == {id \in Ids : se.ledger.upserted[id] # NoRow}
    IN  [se EXCEPT !.txn     = NoTxn,
                   !.ledger  = Discard(@),
                   !.dirty   = @ \cup (up \cap Cached(se)),
                   !.deleted = @ \cup (se.ledger.removed \ Cached(se))]

RollbackTxn(se) ==
    LET up == {id \in Ids : se.ledger.upserted[id] # NoRow}
    IN  [se EXCEPT !.txn     = NoTxn,
                   !.ledger  = Discard(@),
                   !.lost    = @ \/ se.ledger.joined,
                   !.dirty   = @ \cup (up \cap Cached(se)),
                   !.deleted = @ \cup (se.ledger.removed \ Cached(se))]

\* Nothing is left in flight for a retry unless the transaction is lost.
ReplayTxn(se, exhausted) ==
    LET back == RollbackTxn(se)
    IN  IF exhausted \/ back.lost
        THEN [back EXCEPT !.lost = TRUE, !.exc = "lost"]
        ELSE [back EXCEPT !.exc = "none"]

ReclaimDeadTxn(se) ==
    IF ~ InFlight(se.ledger) \/ se.txn # NoTxn THEN se
    ELSE LET back == RollbackTxn(se)
         IN  IF back.lost THEN Raise(back, "lost") ELSE back

\* Mutant: the ledger is left as the transaction had it.
CommitTxnOnly(se) == [se EXCEPT !.txn = NoTxn]

\* Store and ledger both move on; the content just written is what later
\* writes of these anchors are computed from.
CommitTxn(se) ==
    [se EXCEPT !.txn    = NoTxn,
               !.ledger = Promote(@),
               !.mem    = [id \in Ids |->
                   IF se.mem[id] # NoAnchor /\ se.ledger.upserted[id] # NoRow
                   THEN [@[id] EXCEPT !.base = se.ledger.upserted[id].val]
                   ELSE @[id]]]

ForgetLoaded(se) ==
    [se EXCEPT !.mem    = [id \in Ids |-> NoAnchor],
               !.ledger = Forget(@, Cached(se))]

\* Mutants of Abort: what the aborted run loaded and wrote stays in memory;
\* that some of it came from a snapshot is remembered no better.
AbortTxnOnly(se) ==
    [RollbackTxn([se EXCEPT !.contended = @ \cup se.lastConflict, !.lastConflict = {}])
        EXCEPT !.lost = FALSE, !.exc = "none"]

AbortKeepsReads(se) ==
    LET back == RollbackTxn([se EXCEPT !.contended = @ \cup se.lastConflict,
                                       !.lastConflict = {}])
    IN  [back EXCEPT !.dirty = {}, !.deleted = {}, !.lost = FALSE, !.exc = "none"]

Abort(se) ==
    LET back == RollbackTxn([se EXCEPT !.contended = @ \cup se.lastConflict,
                                       !.lastConflict = {}])
    IN  [ForgetLoaded(back) EXCEPT !.dirty = {}, !.deleted = {},
                                   !.snapshotReads = {}, !.lost = FALSE,
                                   !.exc = "none"]

LeaveQueue(se) ==
    [se EXCEPT !.contended = {}, !.lastConflict = {}, !.queued = {}]

-----------------------------------------------------------------------------
(* Opening one.                                                            *)

TxnIsolation(se) ==
    IF se.dirty = {} /\ se.deleted = {} /\ se.units > 0 /\ se.ro
    THEN "snapshot" ELSE "serializable"

BeginTxn(se, isolation, rows) == [se EXCEPT !.txn = NewTxn(isolation, rows)]

OnSnapshot(se) == se.txn # NoTxn /\ se.txn.iso = "snapshot"

DropSnapshotReads(se) ==
    LET stale == se.snapshotReads \ (se.dirty \cup se.deleted)
    IN  [se EXCEPT !.mem    = [id \in Ids |-> IF id \in stale THEN NoAnchor ELSE @[id]],
                   !.ledger = Forget(@, stale),
                   !.snapshotReads = {}]

RaiseRoRetry(se) ==
    [RollbackTxn(se) EXCEPT !.ro = FALSE, !.roRaised = TRUE, !.exc = "ro"]

\* Mutant: a write takes whatever transaction is open.
BeginWritableAnyhow(se, rows) ==
    LET live == ReclaimDeadTxn(se)
    IN  IF Ok(live) /\ live.txn = NoTxn THEN BeginTxn(live, "serializable", rows)
        ELSE live

BeginWritable(se, rows) ==
    IF se.roRaised THEN Raise(se, "ro")
    ELSE LET live == ReclaimDeadTxn(se)
         IN  IF ~ Ok(live) THEN live
             ELSE IF OnSnapshot(live)
                  THEN IF live.ro THEN RaiseRoRetry(live)
                       ELSE BeginTxn(DropSnapshotReads(CommitTxn(live)),
                                     "serializable", rows)
             ELSE IF live.txn = NoTxn THEN BeginTxn(live, "serializable", rows)
             ELSE live

EnsureTxn(se, rows) ==
    LET live == ReclaimDeadTxn(se)
    IN  IF ~ Ok(live) THEN live
        ELSE IF live.txn = NoTxn THEN BeginTxn(live, TxnIsolation(live), rows)
        ELSE IF TxnIsolation(live) = "serializable" THEN BeginWritable(live, rows)
        ELSE live

\* The caller's own statement is about to ride in the transaction.
EnsureWritableTxn(se, rows) ==
    LET open == BeginWritable(se, rows)
    IN  IF Ok(open) THEN [open EXCEPT !.ledger = Joined(@)] ELSE open

UnitEnter(se, ro, rows) ==
    LET entered == [se EXCEPT !.units = 1, !.ro = ro]
    IN  IF se.txn # NoTxn THEN EnsureTxn(entered, rows) ELSE entered

-----------------------------------------------------------------------------
(* flush: what memory holds and the store does not.  `busy` are the rows    *)
(* other transactions hold locks on; a statement that meets one waits, and   *)
(* may be told 55P03 when lock_timeout runs out.  `fault` is a database      *)
(* error of its own accord at one of the statements.                        *)

\* Mutant: the commit's full scan finds what a read's flush does.
UnflushedDirty(se, full) == Cached(se) \cap se.dirty

Unflushed(se, full) ==
    {id \in Cached(se) :
        \/ id \in se.dirty
        \/ full /\ \/ Current(se.ledger, id) = NoRow
                   \/ Current(se.ledger, id).val # se.mem[id].val}

\* Before the session waits for its turn a lock timeout is a lost race;
\* in the queue it is a transient error.
LockTimeout(se, ids) ==
    IF se.queued # {} THEN StatementFailed(se, "transient")
    ELSE [StatementFailed(se, "conflict") EXCEPT !.lastConflict = ids]

\* `content` is what the flush found in memory, by id.
Upsert(se, content, rows) ==
    LET ids        == DOMAIN content
        version    == [id \in ids |-> WriteVersion(se.ledger, id)]
        row        == [id \in ids |-> UpsertedRow(se.txn, rows, id,
                          [version |-> version[id], val |-> content[id]])]
        stale      == {id \in ids : UpsertStale(se.txn, rows, id, version[id])}
        sent       == Write(se.txn, ids \ stale, row)
    IN  IF stale = {}
        THEN {[se EXCEPT !.txn = sent, !.ledger = Upserted(@, ids, row)]}
        ELSE {[se EXCEPT !.txn = sent, !.lastConflict = {first}, !.exc = "conflict"] :
                  first \in stale}

UpsertResults(se, content, rows, busy) ==
    LET ids      == DOMAIN content
        outdated == \E id \in ids : UpsertOutdated(se.txn, rows, id)
        blocked  == ids \cap busy # {}
    IN  (IF outdated THEN {StatementFailed(se, "transient")} ELSE {})
        \cup (IF blocked THEN {LockTimeout(se, ids)} ELSE {})
        \cup (IF outdated \/ blocked THEN {} ELSE Upsert(se, content, rows))

DeleteResults(se, rows, busy) ==
    LET ids      == se.deleted
        outdated == \E id \in ids : DeleteOutdated(se.txn, rows, id)
        blocked  == ids \cap busy # {}
        done     == [se EXCEPT !.txn = Erase(@, ids),
                               !.ledger = Removed(@, ids), !.deleted = {}]
    IN  (IF outdated THEN {StatementFailed(se, "transient")} ELSE {})
        \cup (IF blocked THEN {LockTimeout(se, ids)} ELSE {})
        \cup (IF outdated \/ blocked THEN {} ELSE {done})

\* The upsert statement, if there is anything to upsert, then the delete.
WriteResults(se, content, rows, busy, fault) ==
    LET upserts == IF DOMAIN content = {} THEN {se}
                   ELSE UpsertResults(se, content, rows, busy)
        landed  == {up \in upserts : Ok(up)}
        deletes == UNION {IF up.deleted = {} THEN {up}
                          ELSE DeleteResults(up, rows, busy) : up \in landed}
    IN  IF fault
        THEN {StatementFailed(up, "transient") :
                 up \in {se} \cup {up \in landed : up.deleted # {}}}
        ELSE {up \in upserts : ~ Ok(up)} \cup deletes

FlushResults(se, full, rows, busy, fault) ==
    LET live == ReclaimDeadTxn(se)
        ids  == Unflushed(live, full)
        open == BeginWritable(live, rows)
        content == [id \in ids |-> live.mem[id].val]
    IN  IF ~ Ok(live) THEN {live}
        ELSE IF ids = {} /\ live.deleted = {}
             THEN IF fault THEN {} ELSE {[live EXCEPT !.dirty = {}]}
        ELSE IF ~ Ok(open) THEN {open}
        ELSE {IF Ok(sent) THEN [sent EXCEPT !.dirty = {}] ELSE sent :
                 sent \in WriteResults(open, content, rows, busy, fault)}

\* One try of read_barrier: the transaction, then what is dirty.
BarrierResults(se, rows, busy, fault) ==
    LET open == EnsureTxn(se, rows)
    IN  IF Ok(open) THEN FlushResults(open, FALSE, rows, busy, fault) ELSE {open}

-----------------------------------------------------------------------------
(* load_full and _materialize: an anchor memory already holds is kept.      *)

Load(se, ids) ==
    LET row == [id \in Ids |-> Visible(se.txn, id)]
        new == {id \in ids : row[id] # NoRow /\ se.mem[id] = NoAnchor}
    IN  [se EXCEPT !.txn = Reading(@, ids),
                   !.mem = [id \in Ids |-> IF id \in new
                              THEN [val |-> row[id].val, base |-> row[id].val]
                              ELSE @[id]],
                   !.ledger = Loaded(@, new, row),
                   !.snapshotReads = IF OnSnapshot(se) THEN @ \cup new ELSE @]
=============================================================================
