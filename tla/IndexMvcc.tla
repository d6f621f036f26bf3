----------------------------- MODULE IndexMvcc -----------------------------
(***************************************************************************)
(* The index engine of one table beside its heap: manager_index_t with one *)
(* single_field_index_t (hash_single_field_index_t keeps the same state    *)
(* and runs the same code on it).                                          *)
(*                                                                         *)
(* The heap and the index belong to two actors.  Every DML message to the  *)
(* disk agent is followed by a mirror message to the index manager, COMMIT *)
(* stamps and ROLLBACK reverts the index before the heap, and CHECKPOINT   *)
(* renumbers the heap first and rebuilds the index afterwards.             *)
(* MvccTable supplies the chains of the sessions; this module adds the     *)
(* messages to the index between theirs.  An index scan reads row ids off  *)
(* the index and fetches them without a look at the versions in the heap.  *)
(***************************************************************************)
EXTENDS MvccTable, Functions

CONSTANT MaxRebuild    \* bound on the CHECKPOINT statements

ASSUME IndexAssumption == Indexed /\ MaxRebuild \in Nat

VARIABLES
    idx,       \* storage_ of the index: entries, numbered in their order of insertion
    ix,        \* the index messages the session's chain has still to send
    cp,        \* the chain of a CHECKPOINT
    rebuilds,  \* CHECKPOINT statements so far
    tainted    \* ghost: rows on which heap and index can disagree, see Taint

indexVars == <<idx, ix, cp, rebuilds, tainted>>
allVars == <<vars, indexVars>>

\* index_value_t with its key.
Entry(key, row, ins) == [key |-> key, row |-> row, ins |-> ins, del |-> NotDeleted]

\*   step   the next message to the index, or the fetch that follows a search of it
\*   found  row ids that the search has found
\*   old    keys and row ids of the scan output of a DELETE or UPDATE
NoIx == [step |-> "none", found |-> <<>>, old |-> {}]

\*   watermark  of the compaction          total  reply of storage_total_rows
\*   chunk      reply of the scan          moved  the heap was renumbered
NoCp == [pc |-> "idle", watermark |-> 0, total |-> 0, chunk |-> <<>>, moved |-> FALSE]

Quiet(s) == ix[s].step = "none"

NextIx(s, step) == ix' = [ix EXCEPT ![s].step = step]

-----------------------------------------------------------------------------
(* single_field_index_t.  pending_inserts_[t] and pending_deletes_[t] list  *)
(* the entries that carry t, so the stamps alone stand for them.            *)

\* mark_delete_impl: the first unmarked entry with this key and row.
MarkDelete(entries, old, txnId) ==
    LET matches(j) == <<entries[j].key, entries[j].row>> \in old /\ entries[j].del = NotDeleted
        first(j)   == \A i \in DOMAIN entries : i < j /\ matches(i) => entries[i].row # entries[j].row
    IN  [j \in DOMAIN entries |->
            IF matches(j) /\ first(j) THEN [entries[j] EXCEPT !.del = txnId] ELSE entries[j]]

\* The entries, and behind them the added ones in their order.
Extended(entries, added) ==
    LET last == Max({0} \cup DOMAIN entries)
    IN  [j \in DOMAIN entries \cup {last + p : p \in DOMAIN added} |->
            IF j \in DOMAIN entries THEN entries[j] ELSE added[j - last]]

\* Mutant: the mirror counts row ids from the row after the first appended one.
InsertRows_OffByOne(entries, positions, txnId) ==
    Extended(entries, [p \in positions |-> Entry(rows[p].key, p + 1, txnId)])

\* insert_txn_impl for each appended row, under its row id.
InsertRows(entries, positions, txnId) ==
    Extended(entries, [p \in positions |-> Entry(rows[p].key, p, txnId)])

\* commit_insert_impl, commit_delete_impl.
CommitInsert(entries, txnId, commitId) ==
    [j \in DOMAIN entries |-> IF entries[j].ins = txnId THEN [entries[j] EXCEPT !.ins = commitId] ELSE entries[j]]

CommitDelete(entries, txnId, commitId) ==
    [j \in DOMAIN entries |-> IF entries[j].del = txnId THEN [entries[j] EXCEPT !.del = commitId] ELSE entries[j]]

\* revert_insert_impl.
RevertInsert(entries, txnId) == [j \in {k \in DOMAIN entries : entries[k].ins # txnId} |-> entries[j]]

\* Mutant: the marks of a rolled-back transaction stay.
RevertDelete_Keeps(entries, txnId) == entries

\* revert_delete_impl.
RevertDelete(entries, txnId) == CommitDelete(entries, txnId, NotDeleted)

\* index_entry_visible, with start_time and transaction_id of the session.
EntryVisible(s, e) ==
    LET start == active[s].startTime
        txnId == op[s].txnId
    IN  /\ e.ins < start \/ e.ins = txnId
        /\ ~(e.del < start /\ e.del < TxnIdStart) /\ e.del # txnId

\* The entries that a search of the session finds.
Search(s) == {j \in DOMAIN idx : EntryVisible(s, idx[j])}

EntriesOf(i) == {j \in DOMAIN idx : idx[j].row = i}

-----------------------------------------------------------------------------
(* The rows a property has to leave out.                                   *)

\* A heap mark that was refused because the row carries one, that hit another row than
\* the one scanned or a row whose own mirror is still to come: the index may still mark
\* the entry, or mark none.
Refused(s) == {i \in op[s].ids \cap DOMAIN rows :
                  \/ rows[i].del # NotDeleted
                  \/ <<rows[i].key, i>> \notin ix[s].old
                  \/ EntriesOf(i) = {}}

\* A rebuild takes every row of the heap for a committed one.
Unsettled == {i \in DOMAIN rows : rows[i].ins >= TxnIdStart \/ rows[i].del # NotDeleted
                                    \/ ~(\A s \in Session : IsActive(s) => Visible(Data(s), rows[i]))
                                    \/ rows[i].ins \in inFlight}

\* Rows that a mirror sent before a rebuild will mark in the rebuilt index.
MirrorsToCome == {old[2] : old \in UNION {ix[s].old : s \in {t \in Session : ~Quiet(t)}}}

-----------------------------------------------------------------------------
IndexInit ==
    /\ TableInit
    /\ idx = [i \in 1 .. InitRows |-> Entry(i, i, 0)]
    /\ ix = [s \in Session |-> NoIx]
    /\ cp = NoCp /\ rebuilds = 0
    /\ tainted = {}

\* The messages of MvccTable that no index message follows.
HeapOnly(s) ==
    /\ Quiet(s)
    /\ \/ \E explicit \in BOOLEAN : Begin(s, explicit)
       \/ ReleaseReadOnly(s) \/ EmptyStatement(s)
       \/ StatementOk(s) \/ StatementFailed(s)
       \/ CommitEmpty(s)
       \/ StampAppends(s) \/ StampDeletes(s) \/ PublishCommit(s)
       \/ RollbackDeletes(s)
    /\ ix' = [ix EXCEPT ![s] = IF pc[s] \in {"scanned", "failed"} THEN NoIx ELSE @]
    /\ UNCHANGED <<idx, cp, rebuilds, tainted>>

-----------------------------------------------------------------------------
(* DML: storage first, then the mirror.                                    *)

IInsert(s) ==
    /\ Quiet(s) /\ Insert(s)
    /\ NextIx(s, "mirror")
    /\ UNCHANGED <<idx, cp, rebuilds, tainted>>

\* full_scan, for a predicate that no index serves.
IScan(s, matched) ==
    /\ Quiet(s) /\ Scan(s, matched)
    /\ ix' = [ix EXCEPT ![s].old = {<<rows[i].key, i>> : i \in matched}]
    /\ UNCHANGED <<idx, cp, rebuilds, tainted>>

\* index_scan, for a predicate on the indexed key: the row ids of the entries that the
\* search finds and the predicate, OFFSET and LIMIT keep.
ISearch(s, hits) ==
    /\ Quiet(s) /\ pc[s] = "open"
    /\ ix' = [ix EXCEPT ![s].step = "fetch", ![s].found = [k \in DOMAIN hits |-> idx[hits[k]].row]]
    /\ UNCHANGED <<vars, idx, cp, rebuilds, tainted>>

\* storage_fetch of these ids: fetch skips the ones past the end, looks at no version
\* and packs the rest, while the reply names the first ids of the request.
\* The predicate is not evaluated again.
IFetch(s) ==
    LET found   == ix[s].found
        present == {p \in DOMAIN found : found[p] \in DOMAIN rows}
        named   == [p \in present |-> found[Cardinality({q \in present : q <= p})]]
    IN
    /\ ix[s].step = "fetch"
    /\ IF present = {} THEN EmptyStatement(s) ELSE IndexScan(s, Range(named), Cardinality(present))
    /\ ix' = [ix EXCEPT ![s] = [NoIx EXCEPT !.old = {<<rows[found[p]].key, named[p]>> : p \in present}]]
    /\ UNCHANGED <<idx, cp, rebuilds, tainted>>

IDelete(s) ==
    /\ Quiet(s) /\ DeleteRows(s)
    /\ NextIx(s, "mirror")
    /\ tainted' = tainted \cup Refused(s)
    /\ UNCHANGED <<idx, cp, rebuilds>>

IUpdate(s) ==
    /\ Quiet(s) /\ UpdateRows(s)
    /\ NextIx(s, "mirror")
    /\ tainted' = tainted \cup Refused(s)
    /\ UNCHANGED <<idx, cp, rebuilds>>

IUpdateFailed(s) ==
    /\ Quiet(s) /\ UpdateFailed(s)
    /\ UNCHANGED <<idx, ix, cp, rebuilds, tainted>>

\* insert_rows, delete_rows or update_rows of the manager: old entries are marked,
\* new ones added, under the transaction's id.
Mirror(s) ==
    /\ ix[s].step = "mirror"
    /\ idx' = InsertRows(MarkDelete(idx, ix[s].old, op[s].txnId), op[s].stmtApp, op[s].txnId)
    /\ ix' = [ix EXCEPT ![s] = NoIx]
    /\ UNCHANGED <<vars, cp, rebuilds, tainted>>

-----------------------------------------------------------------------------
(* COMMIT and ROLLBACK.                                                    *)

AfterInserts(s) == IF op[s].del THEN "commit_deletes" ELSE "none"

ICommitDrain(s) ==
    /\ Quiet(s) /\ CommitDrain(s)
    /\ NextIx(s, IF op[s].app # {} THEN "commit_inserts" ELSE AfterInserts(s))
    /\ UNCHANGED <<idx, cp, rebuilds, tainted>>

\* Mutant: the entries keep the transaction's id.
Flipped_Pending(entries, txnId, commitId) == entries

\* commit_insert of the transaction, and of id 0: a rebuild that waits for its disk
\* agent has entries pending under 0.
Flipped(entries, txnId, commitId) ==
    LET own == CommitInsert(entries, txnId, commitId)
    IN  IF cp.pc = "commit0" THEN CommitInsert(own, 0, commitId) ELSE own

Adopted == IF cp.pc = "commit0" THEN {idx[j].row : j \in {i \in DOMAIN idx : idx[i].ins = 0}} ELSE {}

\* commit_inserts after the replies of the disk agents.  The flip does not depend on
\* them; an error ends the commit and leaves its id in flight.
CommitInserts(s, failed) ==
    /\ ix[s].step = "commit_inserts"
    /\ idx' = Flipped(idx, op[s].txnId, op[s].commitId)
    /\ tainted' = tainted \cup Adopted
    /\ IF failed THEN IndexCommitFailed(s) /\ NextIx(s, "none")
                 ELSE UNCHANGED vars /\ NextIx(s, AfterInserts(s))
    /\ UNCHANGED <<cp, rebuilds>>

\* commit_deletes, the same for the marks; nothing is marked under id 0.
CommitDeletes(s, failed) ==
    /\ ix[s].step = "commit_deletes"
    /\ idx' = CommitDelete(idx, op[s].txnId, op[s].commitId)
    /\ NextIx(s, "none")
    /\ IF failed THEN IndexCommitFailed(s) ELSE UNCHANGED vars
    /\ UNCHANGED <<cp, rebuilds, tainted>>

IRollbackDrain(s) ==
    /\ Quiet(s) /\ RollbackDrain(s)
    /\ NextIx(s, IF op[s].app # {} THEN "revert_insert" ELSE IF op[s].del THEN "revert_delete" ELSE "none")
    /\ UNCHANGED <<idx, cp, rebuilds, tainted>>

IRevertInsert(s) ==
    /\ ix[s].step = "revert_insert"
    /\ idx' = RevertInsert(idx, op[s].txnId)
    /\ NextIx(s, IF op[s].del THEN "revert_delete" ELSE "none")
    /\ UNCHANGED <<vars, cp, rebuilds, tainted>>

IRevertDelete(s) ==
    /\ ix[s].step = "revert_delete"
    /\ idx' = RevertDelete(idx, op[s].txnId)
    /\ NextIx(s, "none")
    /\ UNCHANGED <<vars, cp, rebuilds, tainted>>

-----------------------------------------------------------------------------
(* operator_checkpoint_t: the heap is compacted, then the index rebuilt.   *)

\* txn_compact_watermark_msg.
CpWatermark ==
    /\ cp.pc = "idle" /\ rebuilds < MaxRebuild
    /\ rebuilds' = rebuilds + 1
    /\ cp' = [NoCp EXCEPT !.pc = "compact", !.watermark = CompactWatermark]
    /\ UNCHANGED <<vars, idx, ix, tainted>>

\* checkpoint_inner, as far as the heap goes.
CpCompact ==
    /\ cp.pc = "compact"
    /\ rows' = Compact(rows, cp.watermark)
    /\ cp' = [cp EXCEPT !.pc = "total", !.moved = (rows' # rows)]
    /\ UNCHANGED <<tmVars, nextKey, pc, op, idx, ix, rebuilds, tainted>>

\* storage_total_rows.
CpTotal ==
    /\ cp.pc = "total"
    /\ cp' = [cp EXCEPT !.pc = "scan", !.total = Len(rows)]
    /\ UNCHANGED <<vars, idx, ix, rebuilds, tainted>>

\* storage_scan_segment: a COMMITTED_ROWS scan applies no version at all.
CpScan ==
    /\ cp.pc = "scan"
    /\ cp' = [cp EXCEPT !.pc = "refill", !.chunk = [i \in 1 .. cp.total |-> rows[i].key]]
    /\ UNCHANGED <<vars, idx, ix, rebuilds, tainted>>

\* Mutant: the entries of before stay in the index.
Refilled_Keeps(entries, chunk) ==
    Extended(entries, [i \in DOMAIN chunk |-> Entry(chunk[i], i, 0)])

\* clean_memory_to_new_elements, then row i of the chunk under row id i and id 0.
Refilled(entries, chunk) == [i \in DOMAIN chunk |-> Entry(chunk[i], i, 0)]

\* repopulate_table after the disk agents have cleared their files.
CpRefill ==
    /\ cp.pc = "refill"
    /\ idx' = Refilled(idx, cp.chunk)
    /\ tainted' = Unsettled \cup (DOMAIN rows \ 1 .. cp.total) \cup MirrorsToCome
    /\ cp' = [cp EXCEPT !.pc = "commit0", !.moved = FALSE]
    /\ UNCHANGED <<vars, ix, rebuilds>>

\* commit_insert(0, 0) after the disk agents have their rows: the pending list goes.
CpCommit0 ==
    /\ cp.pc = "commit0"
    /\ cp' = NoCp
    /\ UNCHANGED <<vars, idx, ix, rebuilds, tainted>>

-----------------------------------------------------------------------------
Dml(s) ==
    \/ IInsert(s) \/ IDelete(s) \/ IUpdate(s) \/ IUpdateFailed(s)
    \/ \E matched \in SUBSET VisibleRows(Data(s)) : IScan(s, matched)
    \/ \E n \in 1 .. MaxHits : \E hits \in Injection(1 .. n, Search(s)) : ISearch(s, hits)
    \/ IFetch(s)
    \/ Mirror(s)

EndOfTxn(s) ==
    \/ ICommitDrain(s) \/ IRollbackDrain(s) \/ IRevertInsert(s) \/ IRevertDelete(s)
    \/ \E failed \in BOOLEAN : CommitInserts(s, failed) \/ CommitDeletes(s, failed)

Rebuild == CpWatermark \/ CpCompact \/ CpTotal \/ CpScan \/ CpRefill \/ CpCommit0

IndexNext == (\E s \in Session : HeapOnly(s) \/ Dml(s) \/ EndOfTxn(s)) \/ Rebuild

IndexSpec == IndexInit /\ [][IndexNext]_allVars

-----------------------------------------------------------------------------
\* Type invariant: every entry names a row id and a key of the table and carries stamps
\* that the transaction manager has given out.
IndexTypeOK ==
    /\ TableTypeOK
    /\ \A j \in DOMAIN idx :
          /\ idx[j].key \in 1 .. nextKey - 1 /\ idx[j].row \in 1 .. MaxRows
          /\ idx[j].ins \in 0 .. MaxTs \cup TxnIdStart .. TxnIdStart + nextTxnId - 1
          /\ idx[j].del \in 0 .. MaxTs \cup TxnIdStart .. TxnIdStart + nextTxnId - 1 \cup {NotDeleted}
    /\ tainted \subseteq 1 .. MaxRows

\* Whether a commit in flight when the snapshot was taken has stamped the row or the
\* entry: index_entry_visible knows the start time only.
InWindow(s, x) == {x.ins, x.del} \cap active[s].snapInFlight # {}

\* An index scan returns every row of the session's snapshot once, under its own key,
\* and no other row, although heap and index are stamped, reverted and rebuilt by
\* separate messages.  Left out are the rows of commits in flight at the snapshot, the
\* rows of `tainted`, and the time between a renumbering and the rebuild.
IndexAgreesWithHeap ==
    \A s \in Session : (IsActive(s) /\ pc[s] = "open" /\ Quiet(s) /\ ~cp.moved) =>
        \A i \in DOMAIN rows \ tainted :
            LET found == EntriesOf(i) \cap Search(s) IN
            \/ InWindow(s, rows[i]) \/ \E j \in EntriesOf(i) : InWindow(s, idx[j])
            \/ /\ Cardinality(found) = (IF Visible(Data(s), rows[i]) THEN 1 ELSE 0)
               /\ \A j \in found : idx[j].key = rows[i].key
=============================================================================
