------------------------------- MODULE Store -------------------------------
(***************************************************************************)
(* One connection of the anchor store (obj PgStore,                        *)
(* jac/jaclang/data/impl/store.impl.jac) and as much of PostgreSQL as the   *)
(* statements it sends depend on: a transaction is the snapshot it began    *)
(* with, the rows it wrote, and the rows it read under predicate locks.     *)
(* `rows` is everywhere the latest committed state of the table `anchors`. *)
(***************************************************************************)
EXTENDS Integers

CONSTANTS
    Ids,        \* anchor ids
    Val,        \* row contents: distinct contents have distinct hashes
    NoRow,      \* "no such row"
    NoTxn,      \* the connection has no open transaction
    Unwritten   \* this transaction did not write the row

RowState == [version : Nat, val : Val]
MaybeRow == RowState \cup {NoRow}
Rows     == [Ids -> MaybeRow]

ASSUME NoRowAssumption == NoRow \notin RowState
ASSUME UnwrittenAssumption == Unwritten \notin MaybeRow

Isolation == {"serializable", "snapshot"}    \* "snapshot": READ ONLY

Txn == [iso   : Isolation,
        snap  : Rows,                                  \* what it reads
        own   : [Ids -> MaybeRow \cup {Unwritten}],    \* what it wrote
        joins : SUBSET Val,   \* writes outside the graph it carries
        pins  : SUBSET Ids,   \* rows it holds by SELECT ... FOR UPDATE
        reads : SUBSET Ids,   \* its predicate locks
        peers : SUBSET Ids]   \* those of concurrent transactions now committed

ASSUME NoTxnAssumption == NoTxn \notin Txn

NewTxn(isolation, rows) ==
    [iso |-> isolation, snap |-> rows, own |-> [id \in Ids |-> Unwritten],
     joins |-> {}, pins |-> {}, reads |-> {}, peers |-> {}]

Wrote(t) == {id \in Ids : t.own[id] # Unwritten}

Visible(t, id) == IF t.own[id] # Unwritten THEN t.own[id] ELSE t.snap[id]

\* The rows no other transaction can write until this one ends.
RowLocks(t) == IF t = NoTxn THEN {} ELSE Wrote(t) \cup t.pins

PredicateLocks(t) == IF t = NoTxn THEN {} ELSE t.reads

Reading(t, ids) ==
    IF t.iso = "serializable" THEN [t EXCEPT !.reads = @ \cup ids] ELSE t

-----------------------------------------------------------------------------
(* INSERT ... ON CONFLICT (id) DO UPDATE ... WHERE version = :version,      *)
(* and DELETE.  PostgreSQL answers 40001 when the row was changed by a      *)
(* transaction the snapshot does not see.  A row another transaction        *)
(* deleted is no conflict: the INSERT goes through.                         *)

UpsertTarget(t, rows, id) ==
    IF t.own[id] # Unwritten THEN t.own[id] ELSE rows[id]

UpsertOutdated(t, rows, id) ==
    t.own[id] = Unwritten /\ rows[id] # NoRow /\ rows[id] # t.snap[id]

\* Mutant: the upsert without its WHERE clause.
AnyVersion(t, rows, id, version) == FALSE

UpsertStale(t, rows, id, version) ==
    LET target == UpsertTarget(t, rows, id)
    IN  target # NoRow /\ target.version # version

UpsertedRow(t, rows, id, row) ==
    IF UpsertTarget(t, rows, id) = NoRow THEN row
    ELSE [row EXCEPT !.version = @ + 1]

DeleteOutdated(t, rows, id) ==
    t.own[id] = Unwritten /\ t.snap[id] # NoRow /\ rows[id] # t.snap[id]

Write(t, ids, row) ==
    [t EXCEPT !.own = [id \in Ids |-> IF id \in ids THEN row[id] ELSE @[id]]]

\* DELETE of what the transaction can see; the rest matches nothing.
Erase(t, ids) ==
    [t EXCEPT !.own = [id \in Ids |->
        IF id \in ids /\ Visible(t, id) # NoRow THEN NoRow ELSE @[id]]]

-----------------------------------------------------------------------------
(* COMMIT.  A transaction that missed a committed write of something it    *)
(* read, while a concurrent one read something it writes, is the pivot of   *)
(* a cycle: SERIALIZABLE answers 40001.                                     *)

Pivot(t, rows, othersRead) ==
    /\ t.iso = "serializable"
    /\ \E id \in t.reads : rows[id] # t.snap[id]
    /\ Wrote(t) \cap (t.peers \cup othersRead) # {}

Applied(t, rows) ==
    [id \in Ids |-> IF t.own[id] # Unwritten THEN t.own[id] ELSE rows[id]]
=============================================================================
