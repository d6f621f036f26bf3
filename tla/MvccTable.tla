----------------------------- MODULE MvccTable -----------------------------
(***************************************************************************)
(* Sessions running SQL transactions over one base table.                  *)
(*                                                                         *)
(* A step is one message: a dispatcher handler (the transaction manager is *)
(* owned by the dispatcher) or a disk-agent handler (the table is owned by *)
(* one agent).  A statement of a session is a chain of such messages       *)
(* (executor_t::execute_plan_full, the DML operators, the commit and abort *)
(* operators), and the chains of different sessions interleave between any *)
(* two messages.                                                           *)
(***************************************************************************)
EXTENDS TxnManager, RowVersions

CONSTANTS
    Indexed,    \* the table has an index engine, which a predicate on its key uses
    InitRows,   \* rows of the table when the schedulers start
    MaxRows,    \* bound on the length of the heap
    MaxHits     \* bound on the rows an index scan returns

ASSUME TableAssumption ==
    /\ Indexed \in BOOLEAN
    /\ InitRows \in Nat /\ MaxRows \in Nat /\ InitRows <= MaxRows /\ MaxHits \in Nat
    /\ MaxTs < TxnIdStart /\ TxnIdStart + MaxTs < NotDeleted

VARIABLES
    rows,      \* the heap of the table, in row-id order
    nextKey,   \* identity of the next appended row (ghost: rows move, keys do not)
    pc,        \* what the session's message chain does next
    op         \* the values that chain carries

tableVars == <<rows, nextKey, pc, op>>
vars == <<tmVars, tableVars>>

-----------------------------------------------------------------------------
(* The values a chain carries between two messages.                        *)
(*   explicit   transaction_t::is_explicit                                 *)
(*   ids        row ids the scan of a DELETE or UPDATE returned            *)
(*   hits       number of rows it returned: an index may list a row twice  *)
(*   stmtApp    appended row ids of the running statement                  *)
(*   stmtDel    the running statement marked rows                          *)
(*   app, del   the same, parked on transaction_t by txn_accumulate_msg    *)
(*   txnId      transaction_data.transaction_id, kept after the drain      *)
(*   commitId   commit_id of the drain                                     *)
(*   watermark  reply of txn_publish_msg                                   *)
NoOp ==
    [explicit |-> FALSE, ids |-> {}, hits |-> 0, stmtApp |-> {}, stmtDel |-> FALSE,
     app |-> {}, del |-> FALSE, txnId |-> 0, commitId |-> 0, watermark |-> 0]

PC == {"idle", "open", "scanned", "effect", "failed", "commit", "drained", "deletes", "publish",
       "cleanup", "abort"}

\* transaction_t::data() of the session's transaction.
Data(s) == [transactionId |-> TxnIdStart + active[s].txnId,
            horizon       |-> active[s].snapHorizon,
            inFlight      |-> active[s].snapInFlight]

\* What begin_transaction would hand out now.
FreshData == [transactionId |-> 0, horizon |-> horizon, inFlight |-> inFlight]

VisibleRows(txn) == {i \in DOMAIN rows : Visible(txn, rows[i])}

KeysAt(positions) == {rows[i].key : i \in positions}

TableInit ==
    /\ nextTxnId = 0
    /\ currentTs = 1
    /\ active = [s \in Session |-> NoTxn]
    /\ inFlight = {}
    /\ horizon = 0
    /\ phase = "serving"
    /\ rows = [i \in 1 .. InitRows |-> [key |-> i, ins |-> 0, del |-> NotDeleted]]
    /\ nextKey = InitRows + 1
    /\ pc = [s \in Session |-> "idle"]
    /\ op = [s \in Session |-> NoOp]

-----------------------------------------------------------------------------
(* Statements.                                                             *)

\* txn_begin_session_msg, and txn_mark_explicit_msg for a BEGIN.
Begin(s, explicit) ==
    /\ pc[s] = "idle"
    /\ BeginTransaction(s)
    /\ pc' = [pc EXCEPT ![s] = "open"]
    /\ op' = [op EXCEPT ![s] = [NoOp EXCEPT !.explicit = explicit,
                                            !.txnId = TxnIdStart + nextTxnId]]
    /\ UNCHANGED <<rows, nextKey>>

\* A read-only statement: the executor releases an implicit transaction.
ReleaseReadOnly(s) ==
    /\ pc[s] = "open"
    /\ ~op[s].explicit
    /\ Abort(s)
    /\ pc' = [pc EXCEPT ![s] = "idle"]
    /\ op' = [op EXCEPT ![s] = NoOp]
    /\ UNCHANGED <<rows, nextKey>>

\* storage_append of an INSERT.
Insert(s) ==
    /\ pc[s] = "open"
    /\ Len(rows) < MaxRows
    /\ rows' = AppendRows(rows, <<nextKey>>, op[s].txnId)
    /\ nextKey' = nextKey + 1
    /\ op' = [op EXCEPT ![s].stmtApp = {Len(rows) + 1}]
    /\ pc' = [pc EXCEPT ![s] = "effect"]
    /\ UNCHANGED tmVars

\* The row ids that a scan has found travel back to the operator of a DELETE or UPDATE.
ScanReply(s, matched, hits) ==
    /\ pc[s] = "open"
    /\ matched # {}
    /\ op' = [op EXCEPT ![s].ids = matched, ![s].hits = hits]
    /\ pc' = [pc EXCEPT ![s] = "scanned"]
    /\ UNCHANGED <<tmVars, rows, nextKey>>

\* storage_scan_batched: the rows that are visible and match the predicate.
Scan(s, matched) ==
    /\ matched \subseteq VisibleRows(Data(s))
    /\ ScanReply(s, matched, Cardinality(matched))

\* index_scan, for a predicate on the indexed key: the row ids of the index, fetched
\* without a look at their versions.  The index is not part of this module, so they may
\* be any; IndexMvcc says which ones an index finds.
IndexScan(s, matched, hits) ==
    /\ Indexed
    /\ Cardinality(matched) <= hits
    /\ ScanReply(s, matched, hits)

\* A DML statement that matches nothing.
EmptyStatement(s) ==
    /\ pc[s] = "open"
    /\ pc' = [pc EXCEPT ![s] = "effect"]
    /\ UNCHANGED <<tmVars, rows, nextKey, op>>

\* storage_delete_rows with the row ids of the scan.  get_segment finds no row
\* group for an id past the end, so the guard is the handler's.
DeleteRows(s) ==
    /\ pc[s] = "scanned"
    /\ op[s].ids \subseteq DOMAIN rows
    /\ rows' = MarkDeleted(rows, op[s].ids, op[s].txnId)
    /\ op' = [op EXCEPT ![s].ids = {}, ![s].hits = 0, ![s].stmtDel = TRUE]
    /\ pc' = [pc EXCEPT ![s] = "effect"]
    /\ UNCHANGED <<tmVars, nextKey>>

\* storage_update: marks the old rows and appends one new row for each row of the
\* scan, in one message; the number of rows actually marked is not looked at.
UpdateRows(s) ==
    LET n == op[s].hits IN
    /\ pc[s] = "scanned"
    /\ op[s].ids \subseteq DOMAIN rows
    /\ Len(rows) + n <= MaxRows
    /\ rows' = AppendRows(MarkDeleted(rows, op[s].ids, op[s].txnId),
                          [i \in 1 .. n |-> nextKey + i - 1], op[s].txnId)
    /\ nextKey' = nextKey + n
    /\ op' = [op EXCEPT ![s].ids = {}, ![s].hits = 0, ![s].stmtDel = TRUE,
                        ![s].stmtApp = Len(rows) + 1 .. Len(rows) + n]
    /\ pc' = [pc EXCEPT ![s] = "effect"]
    /\ UNCHANGED tmVars

\* storage_update whose append fails (memory, a re-rooted table): the old rows are
\* already marked when the error goes back.
UpdateFailed(s) ==
    /\ pc[s] = "scanned"
    /\ op[s].ids \subseteq DOMAIN rows
    /\ rows' = MarkDeleted(rows, op[s].ids, op[s].txnId)
    /\ op' = [op EXCEPT ![s].ids = {}, ![s].hits = 0]
    /\ pc' = [pc EXCEPT ![s] = "failed"]
    /\ UNCHANGED <<tmVars, nextKey>>

\* The statement succeeded: txn_accumulate_msg parks its ranges on transaction_t.
\* Autocommit goes on with the commit pipeline, an explicit transaction waits.
StatementOk(s) ==
    /\ pc[s] = "effect"
    /\ op' = [op EXCEPT ![s].app = @ \cup op[s].stmtApp, ![s].del = @ \/ op[s].stmtDel,
                        ![s].stmtApp = {}, ![s].stmtDel = FALSE]
    /\ pc' = [pc EXCEPT ![s] = IF op[s].explicit THEN "open" ELSE "commit"]
    /\ UNCHANGED <<tmVars, rows, nextKey>>

\* The statement failed, before its effect (a constraint, a conflict, memory), half
\* way through it or after it (a RETURNING projection is evaluated last).
\* execute_sub_plan_ leaves the loop before it lifts the ranges of the failing
\* sub-plan, so revert_failed_txn has nothing to revert: it sends txn_abort_msg,
\* which also ends an explicit transaction.
StatementFailed(s) ==
    /\ pc[s] \in {"open", "scanned", "effect", "failed"}
    /\ Abort(s)
    /\ pc' = [pc EXCEPT ![s] = "idle"]
    /\ op' = [op EXCEPT ![s] = NoOp]
    /\ UNCHANGED <<rows, nextKey>>

-----------------------------------------------------------------------------
(* operator_commit_transaction_t.                                          *)

AtCommit(s) == pc[s] = "commit" \/ (pc[s] = "open" /\ op[s].explicit)

\* txn_commit_drain_msg: allocates the commit id and drains transaction_t.
CommitDrain(s) ==
    /\ AtCommit(s)
    /\ op[s].app # {} \/ op[s].del
    /\ Commit(s)
    /\ op' = [op EXCEPT ![s].commitId = currentTs]
    /\ pc' = [pc EXCEPT ![s] = "drained"]
    /\ UNCHANGED <<rows, nextKey>>

\* txn_commit_drain_msg of a transaction that accumulated nothing.
CommitEmpty(s) ==
    /\ AtCommit(s)
    /\ op[s].app = {} /\ ~op[s].del
    /\ Abort(s)
    /\ pc' = [pc EXCEPT ![s] = "idle"]
    /\ op' = [op EXCEPT ![s] = NoOp]
    /\ UNCHANGED <<rows, nextKey>>

\* commit_inserts or commit_deletes of the index manager fails: the operator
\* returns before anything is published and the commit id stays in flight.
IndexCommitFailed(s) ==
    /\ Indexed
    /\ pc[s] = "drained"
    /\ pc' = [pc EXCEPT ![s] = "idle"]
    /\ op' = [op EXCEPT ![s] = NoOp]
    /\ UNCHANGED <<tmVars, rows, nextKey>>

\* storage_publish_commits, skipped when there is no append.
StampAppends(s) ==
    /\ pc[s] = "drained"
    /\ rows' = CommitAppend(rows, op[s].app, op[s].commitId)
    /\ pc' = [pc EXCEPT ![s] = "deletes"]
    /\ UNCHANGED <<tmVars, nextKey, op>>

\* storage_publish_deletes, skipped when there is no delete.
StampDeletes(s) ==
    /\ pc[s] = "deletes"
    /\ rows' = IF op[s].del THEN CommitAllDeletes(rows, op[s].txnId, op[s].commitId) ELSE rows
    /\ pc' = [pc EXCEPT ![s] = "publish"]
    /\ UNCHANGED <<tmVars, nextKey, op>>

\* txn_publish_msg, after the WAL marker: the barrier, and the watermark of the
\* state it leaves.  Only a commit with deletes goes on to the compaction, and
\* only when tables_without_indexes names the table.
PublishCommit(s) ==
    /\ pc[s] = "publish"
    /\ Publish(op[s].commitId)
    /\ IF op[s].del /\ ~Indexed
       THEN /\ op' = [op EXCEPT ![s] = [NoOp EXCEPT !.watermark = CompactWatermark']]
            /\ pc' = [pc EXCEPT ![s] = "cleanup"]
       ELSE /\ op' = [op EXCEPT ![s] = NoOp]
            /\ pc' = [pc EXCEPT ![s] = "idle"]
    /\ UNCHANGED <<rows, nextKey>>

\* maybe_cleanup_inner: compacts when more than 30% of the rows carry a
\* committed delete; the watermark is the one the message carries.
MaybeCleanup(s) ==
    /\ pc[s] = "cleanup"
    /\ rows' = IF 10 * CommittedDeletedCount(rows) > 3 * Len(rows)
               THEN Compact(rows, op[s].watermark) ELSE rows
    /\ pc' = [pc EXCEPT ![s] = "idle"]
    /\ op' = [op EXCEPT ![s] = NoOp]
    /\ UNCHANGED <<tmVars, nextKey>>

-----------------------------------------------------------------------------
(* operator_abort_transaction_t, for the base table.                       *)

\* txn_abort_drain_msg: the base append ranges are discarded, the table oids of
\* the deletes are kept.
RollbackDrain(s) ==
    /\ pc[s] = "open"
    /\ op[s].explicit
    /\ Abort(s)
    /\ pc' = [pc EXCEPT ![s] = "abort"]
    /\ UNCHANGED <<rows, nextKey, op>>

\* storage_revert_deletes, sent when the transaction deleted from the table.
RollbackDeletes(s) ==
    /\ pc[s] = "abort"
    /\ rows' = IF op[s].del THEN RevertAllDeletes(rows, op[s].txnId) ELSE rows
    /\ pc' = [pc EXCEPT ![s] = "idle"]
    /\ op' = [op EXCEPT ![s] = NoOp]
    /\ UNCHANGED <<tmVars, nextKey>>

-----------------------------------------------------------------------------
\* The messages of a chain that no client input decides.
Pipeline(s) ==
    \/ StatementOk(s)
    \/ pc[s] = "commit" /\ (CommitDrain(s) \/ CommitEmpty(s))
    \/ StampAppends(s)
    \/ StampDeletes(s)
    \/ PublishCommit(s)
    \/ MaybeCleanup(s)
    \/ RollbackDeletes(s)

Client(s) ==
    \/ \E explicit \in BOOLEAN : Begin(s, explicit)
    \/ ReleaseReadOnly(s)
    \/ Insert(s)
    \/ \E matched \in SUBSET VisibleRows(Data(s)) : Scan(s, matched)
    \/ \E matched \in SUBSET (1 .. MaxRows), hits \in 1 .. MaxHits : IndexScan(s, matched, hits)
    \/ EmptyStatement(s)
    \/ DeleteRows(s)
    \/ UpdateRows(s)
    \/ UpdateFailed(s)
    \/ StatementFailed(s)
    \/ pc[s] = "open" /\ (CommitDrain(s) \/ CommitEmpty(s))
    \/ IndexCommitFailed(s)
    \/ RollbackDrain(s)

TableNext == \E s \in Session : Client(s) \/ Pipeline(s)

TableSpec == TableInit /\ [][TableNext]_vars

\* What a statement is about to mark its transaction sees.  Two things break it, and both
\* are steps of TableSpec: an index scan finds rows of a commit that was in flight at the
\* snapshot, and the compaction of a table without an index moves the rows that a scan
\* of another session has named.
ScansInView == \A s \in Session : pc[s] = "scanned" => op[s].ids \subseteq VisibleRows(Data(s))

\* The behaviours in which neither happens.
InViewSpec == TableInit /\ [][TableNext /\ ScansInView']_vars

\* The schedulers run every actor that has a message, so a chain that needs no
\* client input goes on.
FairSpec == TableSpec /\ \A s \in Session : WF_vars(Pipeline(s))

-----------------------------------------------------------------------------
\* Type invariant of the sessions' chains and the heap: a row carries stamps that the
\* transaction manager has given out.
TableTypeOK ==
    /\ TypeOK
    /\ \A i \in DOMAIN rows :
          /\ rows[i].key \in 1 .. nextKey - 1
          /\ rows[i].ins \in 0 .. MaxTs \cup TxnIdStart .. TxnIdStart + nextTxnId - 1
          /\ rows[i].del \in 0 .. MaxTs \cup TxnIdStart .. TxnIdStart + nextTxnId - 1
                             \cup {NotDeleted}
    /\ Len(rows) <= MaxRows
    /\ pc \in [Session -> PC]
    /\ \A s \in Session :
          /\ op[s].app \cup op[s].stmtApp \cup op[s].ids \subseteq 1 .. MaxRows
          /\ op[s].hits \in Nat
          /\ op[s].commitId \in 0 .. MaxTs /\ op[s].watermark \in 0 .. MaxTs

\* The claim of data_table_t::compact: a pending stamp stops the rebuild, so "a
\* later positional commit_append" never targets moved rows.  Until they are
\* stamped, the row ids a transaction has parked hold its own pending rows,
\* whatever the other sessions append, delete and compact in between.
RangesStillPending ==
    \A s \in Session : IsActive(s) \/ pc[s] = "drained" =>
        \A i \in op[s].app \cup op[s].stmtApp :
            i \in DOMAIN rows /\ rows[i].ins = op[s].txnId

\* What a new transaction would see, and what the snapshot of an active one
\* holds apart from its own writes.
FreshView == KeysAt(VisibleRows(FreshData))
SnapshotView(s) == KeysAt(VisibleRows([Data(s) EXCEPT !.transactionId = 0]))

\* compact() is "only correct when EVERY stamp in the table is already visible to
\* all current and future snapshots": no message of any session changes what the
\* snapshot of an active transaction holds, and only a publish barrier changes
\* what a new one would hold.
SnapshotsStable ==
    [][/\ \A s \in Session : IsActive(s) /\ active'[s] = active[s] =>
             SnapshotView(s)' = SnapshotView(s)
       /\ (inFlight' \subseteq inFlight /\ inFlight' # inFlight) \/ FreshView' = FreshView]_vars

(* The refinement mapping onto SnapshotStore.                              *)

Committing(s) == pc[s] \in {"drained", "deletes", "publish"}

StoreStatus(s) == IF IsActive(s) THEN "active" ELSE IF Committing(s) THEN "committing" ELSE "none"

\* The rows whose stamp is the session's own, pending or just committed.
Own(s, stamp(_)) ==
    IF IsActive(s) \/ Committing(s)
    THEN KeysAt({i \in DOMAIN rows :
                    \/ stamp(rows[i]) = op[s].txnId
                    \/ Committing(s) /\ stamp(rows[i]) = op[s].commitId})
    ELSE {}

OwnInserts(s) == Own(s, LAMBDA r : r.ins)
OwnDeletes(s) == Own(s, LAMBDA r : r.del)

OpenSnapshot(s) == IF IsActive(s) THEN SnapshotView(s) ELSE {}

Store == INSTANCE SnapshotStore WITH
    db     <- FreshView,
    status <- [s \in Session |-> StoreStatus(s)],
    snap   <- [s \in Session |-> OpenSnapshot(s)],
    ins    <- [s \in Session |-> OwnInserts(s)],
    del    <- [s \in Session |-> OwnDeletes(s)]

\* Snapshot isolation of the whole chain: a snapshot never changes under a
\* transaction, a commit becomes visible in one step and completely although
\* its rows are stamped in several messages, and a failed, abandoned or
\* rolled-back transaction changes nothing for anybody.  It holds while the statements
\* mark rows of their snapshots (InViewSpec), with and without an index and across
\* compactions; IndexMvcc has the index scans that end it.
SnapshotIsolation == Store!StoreSpec

\* operator_commit_transaction_t: a commit that has been stamped becomes visible
\* to new snapshots, also when an older commit id never leaves in_flight_commits_.
CommitBecomesVisible ==
    \A s \in Session : \A c \in 1 .. MaxTs :
        (pc[s] = "deletes" /\ op[s].commitId = c) ~> UseInsertedVersion(FreshData, c)
=============================================================================
