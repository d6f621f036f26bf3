---------------------------- MODULE RowVersions ----------------------------
(***************************************************************************)
(* The heap of one table seen row by row: every row carries the id that    *)
(* inserted it and the id that deleted it (inserted[] and deleted[] of     *)
(* chunk_vector_info).  An id below TxnIdStart is a commit id, one from    *)
(* TxnIdStart on is the id of a transaction whose write is pending.        *)
(* Constant-level: the operations are operators on sequences of rows.      *)
(***************************************************************************)
EXTENDS Integers, Sequences, FiniteSets

CONSTANTS
    TxnIdStart,   \* TRANSACTION_ID_START, 4611686018427388000 in the code
    NotDeleted    \* NOT_DELETED_ID, 2^64 - 2 in the code

ASSUME StampAssumption ==
    /\ TxnIdStart \in Nat \ {0}
    /\ NotDeleted \in Nat
    /\ TxnIdStart < NotDeleted

-----------------------------------------------------------------------------
\* Rules 1 to 5 of use_inserted_version.  txn is a transaction_data: its own
\* id (0 for none), the horizon and the in-flight list of its snapshot.
UseInsertedVersion(txn, id) ==
    \/ txn.transactionId # 0 /\ id = txn.transactionId
    \/ id < TxnIdStart /\ id <= txn.horizon /\ id \notin txn.inFlight

UseDeletedVersion(txn, id) == ~UseInsertedVersion(txn, id)

Visible(txn, row) == UseInsertedVersion(txn, row.ins) /\ UseDeletedVersion(txn, row.del)

\* The default transaction_data: the "see all committed rows" view.
SeeAll(maxId) == [transactionId |-> 0, horizon |-> maxId, inFlight |-> {}]

-----------------------------------------------------------------------------
\* Mutant: the two stamps of a new row are swapped.
AppendRows_Swapped(rows, keys, txnId) ==
    rows \o [i \in 1 .. Len(keys) |-> [key |-> keys[i], ins |-> NotDeleted, del |-> txnId]]

\* append + append_version_info: one pending row per key, at the end.
AppendRows(rows, keys, txnId) ==
    rows \o [i \in 1 .. Len(keys) |-> [key |-> keys[i], ins |-> txnId, del |-> NotDeleted]]

\* commit_append: positional, whatever stamp the row carries.
CommitAppend(rows, positions, commitId) ==
    [i \in DOMAIN rows |-> IF i \in positions THEN [rows[i] EXCEPT !.ins = commitId] ELSE rows[i]]

\* Mutant: a second delete takes the mark over.
MarkDeleted_Overwrites(rows, positions, txnId) ==
    [i \in DOMAIN rows |-> IF i \in positions THEN [rows[i] EXCEPT !.del = txnId] ELSE rows[i]]

\* delete_rows: a slot that already carries a mark is skipped, whoever set it.
MarkDeleted(rows, positions, txnId) ==
    [i \in DOMAIN rows |-> IF i \in positions /\ rows[i].del = NotDeleted
                           THEN [rows[i] EXCEPT !.del = txnId] ELSE rows[i]]

\* commit_all_deletes and revert_all_deletes: every mark of one transaction.
RestampDeletes(rows, from, to) ==
    [i \in DOMAIN rows |-> IF rows[i].del = from THEN [rows[i] EXCEPT !.del = to] ELSE rows[i]]

CommitAllDeletes(rows, txnId, commitId) == RestampDeletes(rows, txnId, commitId)

RevertAllDeletes(rows, txnId) == RestampDeletes(rows, txnId, NotDeleted)

-----------------------------------------------------------------------------
CommittedDeletedCount(rows) == Cardinality({i \in DOMAIN rows : rows[i].del < TxnIdStart})

\* Mutant: only commit ids are compared, pending ids are taken for old ones.
HasVersionAbove_CommittedOnly(rows, watermark) ==
    \E i \in DOMAIN rows : \E id \in {rows[i].ins, rows[i].del} :
        id > watermark /\ id < TxnIdStart

\* Mutant: the delete stamps are not looked at.
HasVersionAbove_InsertsOnly(rows, watermark) ==
    \E i \in DOMAIN rows : rows[i].ins > watermark

\* has_version_above: a pending id is above every watermark.
HasVersionAbove(rows, watermark) ==
    \E i \in DOMAIN rows :
        \/ rows[i].ins > watermark
        \/ rows[i].del # NotDeleted /\ rows[i].del > watermark

\* The rows of the see-all view.
LivePositions(rows) == {i \in DOMAIN rows : Visible(SeeAll(TxnIdStart), rows[i])}

\* The place of i among the members of S.
Rank(S, i) == Cardinality({j \in S : j <= i})

\* The rebuild of data_table_t::compact: the rows of the see-all view, in their
\* order, stamped with id 0.
Rebuilt(rows) ==
    LET live  == LivePositions(rows)
        At(k) == CHOOSE i \in live : Rank(live, i) = k
    IN  [k \in 1 .. Cardinality(live) |-> [key |-> rows[At(k)].key, ins |-> 0, del |-> NotDeleted]]

\* data_table_t::compact, all or nothing.
Compact(rows, watermark) ==
    IF Len(rows) = 0 \/ HasVersionAbove(rows, watermark) THEN rows ELSE Rebuilt(rows)
=============================================================================
