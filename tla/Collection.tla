---------------------------- MODULE Collection ----------------------------
(***************************************************************************)
(* The physical layout of a table's heap: collection_t, row_group_t,       *)
(* row_version_manager_t and the two chunk_info kinds.                     *)
(*                                                                         *)
(* A row group holds one vector of rows (row_group_size is                 *)
(* DEFAULT_VECTOR_CAPACITY), the column values of those rows, and version  *)
(* infos indexed by vector number.  A version info is missing ("none": all *)
(* rows visible), constant (one stamp for the whole vector) or a vector of *)
(* stamps with the shortcuts same_inserted_id and any_deleted.             *)
(*                                                                         *)
(* Beside the layout the module keeps the heap that RowVersions describes, *)
(* row by row, and gives it the same messages: the properties compare what *)
(* the layout answers with what the plain rows say.  Row ids count from 0. *)
(***************************************************************************)
EXTENDS RowVersions, FiniteSetsExt

CONSTANTS
    Capacity,   \* DEFAULT_VECTOR_CAPACITY, 1024 in the code
    MaxRows,    \* bound on the number of rows
    Writer      \* the transactions that write, numbered from 0

ASSUME LayoutAssumption ==
    /\ Capacity \in Nat \ {0}
    /\ MaxRows \in Nat \ {0}
    /\ Writer \subseteq Nat /\ IsFiniteSet(Writer)
    /\ Cardinality(Writer) + 1 < TxnIdStart
    /\ \A w \in Writer : TxnIdStart + w < NotDeleted

VARIABLES
    coll,        \* the collection: its row groups and total_rows_
    heap,        \* the same rows one by one (RowVersions)
    nextKey,     \* the value of the next appended row
    status,      \* where the writer is in its commit or abort
    ranges,      \* the ranges [start, count] the writer has appended
    commitId,    \* its commit id, once stamped
    lastCommit,  \* the last commit id given out
    misread      \* maintenance has relied on infos that are not there (ghost)

vars == <<coll, heap, nextKey, status, ranges, commitId, lastCommit, misread>>

Slot == 0 .. Capacity - 1
Vector == 0 .. (MaxRows - 1) \div Capacity

-----------------------------------------------------------------------------
(* chunk_info, chunk_constant_info and chunk_vector_info.                  *)

NoInfo == [kind |-> "none"]

ConstantInfo(insertId, deleteId) ==
    [kind |-> "constant", insertId |-> insertId, deleteId |-> deleteId]

VectorInfo(insertId) ==
    [kind |-> "vector", insertId |-> insertId, sameInsertedId |-> TRUE, anyDeleted |-> FALSE,
     inserted |-> [i \in Slot |-> insertId], deleted |-> [i \in Slot |-> NotDeleted]]

\* row_version_manager_t::vector_info: the info as a vector of stamps.
AsVector(info) ==
    CASE info.kind = "none"     -> VectorInfo(0)
      [] info.kind = "constant" -> VectorInfo(info.insertId)
      [] info.kind = "vector"   -> info

\* The stamps indexing_vector decides with: the shortcuts come before the slots.
StampsAt(info, i) ==
    CASE info.kind = "none"     -> [ins |-> 0, del |-> NotDeleted]
      [] info.kind = "constant" -> [ins |-> info.insertId, del |-> info.deleteId]
      [] info.kind = "vector"   ->
            [ins |-> IF info.sameInsertedId THEN info.insertId ELSE info.inserted[i],
             del |-> IF info.anyDeleted THEN info.deleted[i] ELSE NotDeleted]

\* chunk_vector_info::append for the slots from .. to - 1.
VectorAppend(info, from, to, id) ==
    LET same == from = 0 \/ info.insertId = id IN
    [info EXCEPT !.insertId       = IF same THEN id ELSE NotDeleted,
                 !.sameInsertedId = @ /\ same,
                 !.inserted       = [i \in Slot |-> IF i \in from .. to - 1 THEN id ELSE @[i]]]

\* append_version_info for one vector: an append that fills it gets a constant.
AppendVersionInfo(info, from, to, id) ==
    IF from = 0 /\ to = Capacity THEN ConstantInfo(id, NotDeleted)
    ELSE IF from = to THEN info
    ELSE VectorAppend(AsVector(info), from, to, id)

\* Mutant: the shortcut id is left pending, only the slots are stamped.
InfoCommitAppend_SlotsOnly(info, slots, id) ==
    CASE info.kind = "constant" -> [info EXCEPT !.insertId = id]
      [] info.kind = "vector"   ->
            [info EXCEPT !.inserted = [i \in Slot |-> IF i \in slots THEN id ELSE @[i]]]

\* commit_append of the two kinds; with same_inserted_id the shortcut is stamped too.
InfoCommitAppend(info, slots, id) ==
    CASE info.kind = "constant" -> [info EXCEPT !.insertId = id]
      [] info.kind = "vector"   ->
            [info EXCEPT !.insertId = IF info.sameInsertedId THEN id ELSE @,
                         !.inserted = [i \in Slot |-> IF i \in slots THEN id ELSE @[i]]]

\* chunk_vector_info::delete_rows.
VectorDelete(info, slots, id) ==
    [info EXCEPT !.anyDeleted = TRUE,
                 !.deleted = [i \in Slot |-> IF i \in slots /\ @[i] = NotDeleted THEN id ELSE @[i]]]

\* commit_all_deletes and revert_all_deletes skip an info without any_deleted.
InfoRestamp(info, from, to) ==
    IF info.kind = "vector" /\ info.anyDeleted
    THEN [info EXCEPT !.deleted = [i \in Slot |-> IF @[i] = from THEN to ELSE @[i]]]
    ELSE info

\* Mutant: the last live row is not looked at.
InfoVersionAbove_ShortByOne(info, count, watermark) ==
    CASE info.kind = "none"     -> FALSE
      [] info.kind = "constant" ->
            \/ info.insertId > watermark
            \/ info.deleteId # NotDeleted /\ info.deleteId > watermark
      [] info.kind = "vector"   ->
            \/ info.sameInsertedId /\ info.insertId > watermark
            \/ ~info.sameInsertedId /\ \E i \in 0 .. count - 2 : info.inserted[i] > watermark
            \/ info.anyDeleted /\ \E i \in 0 .. count - 2 :
                  info.deleted[i] # NotDeleted /\ info.deleted[i] > watermark

\* has_version_above of a chunk_info for its first count rows.
InfoVersionAbove(info, count, watermark) ==
    CASE info.kind = "none"     -> FALSE
      [] info.kind = "constant" ->
            \/ info.insertId > watermark
            \/ info.deleteId # NotDeleted /\ info.deleteId > watermark
      [] info.kind = "vector"   ->
            \/ info.sameInsertedId /\ info.insertId > watermark
            \/ ~info.sameInsertedId /\ \E i \in 0 .. count - 1 : info.inserted[i] > watermark
            \/ info.anyDeleted /\ \E i \in 0 .. count - 1 :
                  info.deleted[i] # NotDeleted /\ info.deleted[i] > watermark

\* The rows that committed_deleted_count of a chunk_info counts among its first count.
InfoDeleted(info, count) ==
    CASE info.kind = "none"     -> {}
      [] info.kind = "constant" -> IF info.deleteId < TxnIdStart THEN 0 .. count - 1 ELSE {}
      [] info.kind = "vector"   ->
            IF info.anyDeleted THEN {i \in 0 .. count - 1 : info.deleted[i] < TxnIdStart} ELSE {}

\* chunk_info::cleanup: the info that replaces a full vector's info, which is the
\* info itself when a stamp is too recent.
InfoCleanup(info, lowest) ==
    CASE info.kind = "none"     -> info
      [] info.kind = "constant" -> IF InfoVersionAbove(info, Capacity, lowest) THEN info ELSE NoInfo
      [] info.kind = "vector"   ->
            IF InfoVersionAbove(info, Capacity, lowest) THEN info
            ELSE IF info.anyDeleted /\ \A i \in Slot : info.deleted[i] # NotDeleted
                 THEN ConstantInfo(IF info.sameInsertedId THEN info.insertId ELSE info.inserted[0],
                                   Min({info.deleted[i] : i \in Slot}))
                 ELSE NoInfo

-----------------------------------------------------------------------------
(* row_group_t.  Append, commit, cleanup, revert and the gate number the   *)
(* vectors of a group from 0; a scan numbers them through the collection   *)
(* (collection_scan_state::vector_index), and so does a delete.            *)

RowGroup(start) ==
    [start |-> start, count |-> 0, infos |-> [v \in Vector |-> NoInfo], vals |-> <<>>]

GroupAppend(g, vals, id) ==
    LET to == g.count + Len(vals) IN
    [g EXCEPT !.count    = to,
              !.vals     = @ \o vals,
              !.infos[0] = AppendVersionInfo(@, g.count, to, id)]

\* Row ids a transaction has appended: the members of its ranges.
RangeRows(rs) == UNION {rs[j].start .. rs[j].start + rs[j].count - 1 : j \in DOMAIN rs}

\* The commit of every range of a transaction in one row group: collection_t::commit_append
\* clips a range to every row group it meets, and all ranges get the same id.
GroupCommitAppend(g, rs, id) ==
    LET slots == {i \in 0 .. g.count - 1 : g.start + i \in RangeRows(rs)} IN
    IF slots = {} THEN g ELSE [g EXCEPT !.infos[0] = InfoCommitAppend(@, slots, id)]

\* Mutant: the vector is numbered within the row group.
GroupDelete_LocalVector(g, ids, id) ==
    LET slots == {i - g.start : i \in ids \cap (g.start .. g.start + g.count - 1)} IN
    IF slots = {} THEN g ELSE [g EXCEPT !.infos[0] = VectorDelete(AsVector(@), slots, id)]

\* row_group_t::delete_rows and version_delete_state: the vector is the row id
\* divided by the capacity.
GroupDelete(g, ids, id) ==
    LET mine == ids \cap (g.start .. g.start + g.count - 1) IN
    [g EXCEPT !.infos = [v \in Vector |->
        LET slots == {i % Capacity : i \in {j \in mine : j \div Capacity = v}} IN
        IF slots = {} THEN @[v] ELSE VectorDelete(AsVector(@[v]), slots, id)]]

GroupRestamp(g, from, to) ==
    [g EXCEPT !.infos = [v \in Vector |-> InfoRestamp(@[v], from, to)]]

\* row_version_manager_t::cleanup_append of a full vector.
GroupCleanup(g, lowest) ==
    IF g.count = Capacity THEN [g EXCEPT !.infos[0] = InfoCleanup(@, lowest)] ELSE g

-----------------------------------------------------------------------------
(* collection_t.                                                           *)

EmptyCollection == [groups |-> <<>>, total |-> 0]

\* Mutant: counts the rows of the group before this append is finalized.
NextStart_FromCount(last, j) == last.start + last.count + (j - 1) * Capacity

\* Where the j-th row group opened by an append starts: offset_in_row_group has
\* reached the group's size.
NextStart(last, j) == last.start + j * Capacity

\* initialize_append, append and finalize_append: fill the last group, open as
\* many new ones as the chunk needs.
CollectionAppend(c, vals, id) ==
    LET groups == IF c.groups = <<>> THEN <<RowGroup(0)>> ELSE c.groups
        last   == groups[Len(groups)]
        n      == Len(vals)
        first  == Min({n, Capacity - last.count})
        opened == (n - first + Capacity - 1) \div Capacity
        Opened(j) == GroupAppend(RowGroup(NextStart(last, j)),
                                 SubSeq(vals, first + (j - 1) * Capacity + 1,
                                        Min({n, first + j * Capacity})), id)
    IN [groups |-> [groups EXCEPT ![Len(groups)] = GroupAppend(last, SubSeq(vals, 1, first), id)]
                     \o [j \in 1 .. opened |-> Opened(j)],
        total  |-> c.total + n]

\* What a scan meets, in order: the value and the stamps of every row.  The k-th
\* row group is read with vector number k - 1.
ScannedRows(c) ==
    [i \in 1 .. c.total |->
        LET k    == (i - 1) \div Capacity + 1
            slot == (i - 1) % Capacity
            at   == StampsAt(c.groups[k].infos[k - 1], slot)
        IN [key |-> c.groups[k].vals[slot + 1], ins |-> at.ins, del |-> at.del]]

\* collection_t::has_version_above.
VersionAbove(c, watermark) ==
    \E k \in DOMAIN c.groups : InfoVersionAbove(c.groups[k].infos[0], c.groups[k].count, watermark)

\* total_rows less committed_row_count.
DeletedCount(c) ==
    Cardinality(UNION {{k} \X InfoDeleted(c.groups[k].infos[0], c.groups[k].count) :
                       k \in DOMAIN c.groups})

\* collection_t::delete_rows, commit_append of all ranges, commit_all_deletes with
\* revert_all_deletes, and cleanup_versions: every row group in turn.
CollectionDelete(c, ids, id) ==
    [c EXCEPT !.groups = [k \in DOMAIN @ |-> GroupDelete(@[k], ids, id)]]

CollectionCommitAppend(c, rs, id) ==
    [c EXCEPT !.groups = [k \in DOMAIN @ |-> GroupCommitAppend(@[k], rs, id)]]

CollectionRestamp(c, from, to) ==
    [c EXCEPT !.groups = [k \in DOMAIN @ |-> GroupRestamp(@[k], from, to)]]

CollectionCleanup(c, lowest) ==
    [c EXCEPT !.groups = [k \in DOMAIN @ |-> GroupCleanup(@[k], lowest)]]

\* data_table_t::compact: refused above the watermark, else the scanned rows that
\* the see-all view shows are appended to a new collection under id 0.
CollectionCompact(c, watermark) ==
    LET live == Rebuilt(ScannedRows(c))
    IN  IF c.total = 0 \/ VersionAbove(c, watermark) THEN c
        ELSE CollectionAppend(EmptyCollection, [i \in DOMAIN live |-> live[i].key], 0)

-----------------------------------------------------------------------------
(* The messages of the disk agent that owns the table.                     *)

TxnId(t) == TxnIdStart + t

Init ==
    /\ coll = EmptyCollection
    /\ heap = <<>>
    /\ nextKey = 1
    /\ status = [t \in Writer |-> "open"]
    /\ ranges = [t \in Writer |-> <<>>]
    /\ commitId = [t \in Writer |-> 0]
    /\ lastCommit = 0
    /\ misread = FALSE

\* The rows a statement of t can have scanned.
ScannableBy(t) ==
    LET txn  == [transactionId |-> TxnId(t), horizon |-> lastCommit, inFlight |-> {}]
        seen == ScannedRows(coll)
    IN  {i - 1 : i \in {j \in DOMAIN seen : Visible(txn, seen[j])}}

\* storage_append_inner of n rows.
AppendChunk(t, n) ==
    LET vals == [i \in 1 .. n |-> nextKey + i - 1] IN
    /\ status[t] = "open"
    /\ coll.total + n <= MaxRows
    /\ coll' = CollectionAppend(coll, vals, TxnId(t))
    /\ heap' = AppendRows(heap, vals, TxnId(t))
    /\ nextKey' = nextKey + n
    /\ ranges' = [ranges EXCEPT ![t] = Append(@, [start |-> coll.total, count |-> n])]
    /\ UNCHANGED <<status, commitId, lastCommit, misread>>

\* storage_delete_rows_inner.
DeleteRows(t, ids) ==
    /\ status[t] = "open"
    /\ ids # {}
    /\ coll' = CollectionDelete(coll, ids, TxnId(t))
    /\ heap' = MarkDeleted(heap, {i + 1 : i \in ids}, TxnId(t))
    /\ UNCHANGED <<nextKey, status, ranges, commitId, lastCommit, misread>>

\* storage_update_inner: the delete and the append of one message.
UpdateRows(t, ids) ==
    LET n    == Cardinality(ids)
        vals == [i \in 1 .. n |-> nextKey + i - 1]
    IN
    /\ status[t] = "open"
    /\ ids # {}
    /\ coll.total + n <= MaxRows
    /\ coll' = CollectionAppend(CollectionDelete(coll, ids, TxnId(t)), vals, TxnId(t))
    /\ heap' = AppendRows(MarkDeleted(heap, {i + 1 : i \in ids}, TxnId(t)), vals, TxnId(t))
    /\ nextKey' = nextKey + n
    /\ ranges' = [ranges EXCEPT ![t] = Append(@, [start |-> coll.total, count |-> n])]
    /\ UNCHANGED <<status, commitId, lastCommit, misread>>

\* storage_publish_commits_inner: every range of the transaction in one message.
PublishCommits(t) ==
    LET c == lastCommit + 1 IN
    /\ status[t] = "open"
    /\ coll' = CollectionCommitAppend(coll, ranges[t], c)
    /\ heap' = CommitAppend(heap, {i + 1 : i \in RangeRows(ranges[t])}, c)
    /\ commitId' = [commitId EXCEPT ![t] = c]
    /\ lastCommit' = c
    /\ status' = [status EXCEPT ![t] = "stamped"]
    /\ UNCHANGED <<nextKey, ranges, misread>>

\* storage_publish_deletes_inner.
PublishDeletes(t) ==
    /\ status[t] = "stamped"
    /\ coll' = CollectionRestamp(coll, TxnId(t), commitId[t])
    /\ heap' = CommitAllDeletes(heap, TxnId(t), commitId[t])
    /\ status' = [status EXCEPT ![t] = "done"]
    /\ UNCHANGED <<nextKey, ranges, commitId, lastCommit, misread>>

\* storage_revert_deletes_inner of a ROLLBACK.
RevertDeletes(t) ==
    /\ status[t] = "open"
    /\ coll' = CollectionRestamp(coll, TxnId(t), NotDeleted)
    /\ heap' = RevertAllDeletes(heap, TxnId(t))
    /\ status' = [status EXCEPT ![t] = "done"]
    /\ UNCHANGED <<nextKey, ranges, commitId, lastCommit, misread>>

\* data_table_t::compact, from maybe_cleanup or a checkpoint, with any watermark.
\* Behind the first row group its scan and its gate look for infos at the wrong vector.
Compaction(watermark) ==
    /\ coll' = CollectionCompact(coll, watermark)
    /\ heap' = Compact(heap, watermark)
    /\ misread' = (misread \/ Len(coll.groups) > 1)
    /\ UNCHANGED <<nextKey, status, ranges, commitId, lastCommit>>

\* Cleanup drops an info that holds a delete mark: the row is unmarked from then on.
DropsMarks(g, lowest) ==
    /\ \E i \in Slot : StampsAt(g.infos[0], i).del # NotDeleted
    /\ GroupCleanup(g, lowest).infos[0] = NoInfo

\* vacuum_inner when no other transaction is active: the oldest start time is the
\* one of VACUUM itself, above every commit id.
Vacuum ==
    /\ \A t \in Writer : status[t] = "done"
    /\ coll' = CollectionCompact(CollectionCleanup(coll, lastCommit + 1), lastCommit)
    /\ heap' = Compact(heap, lastCommit)
    /\ misread' = (misread \/ Len(coll.groups) > 1
                           \/ \E k \in DOMAIN coll.groups :
                                 DropsMarks(coll.groups[k], lastCommit + 1))
    /\ UNCHANGED <<nextKey, status, ranges, commitId, lastCommit>>

Writes ==
    \E t \in Writer :
        \/ \E n \in 1 .. MaxRows : AppendChunk(t, n)
        \/ \E ids \in SUBSET ScannableBy(t) : DeleteRows(t, ids) \/ UpdateRows(t, ids)
        \/ PublishCommits(t)
        \/ PublishDeletes(t)
        \/ RevertDeletes(t)

Next ==
    \/ Writes
    \/ \E w \in 0 .. lastCommit : Compaction(w)
    \/ Vacuum

Spec == Init /\ [][Next]_vars

-----------------------------------------------------------------------------
\* Row ids are dense: the row groups follow each other without a gap, all but the
\* last are full, and total_rows_ is where the last one ends (the rows the groups hold
\* add up to it), which is the number of rows there are.
LayoutOK ==
    /\ \A k \in DOMAIN coll.groups :
          LET g == coll.groups[k] IN
          /\ g.start = (k - 1) * Capacity
          /\ g.count \in 0 .. Capacity
          /\ k < Len(coll.groups) => g.count = Capacity
          /\ Len(g.vals) = g.count
    /\ misread \/ coll.total = Len(heap)
    /\ coll.total = IF coll.groups = <<>> THEN 0
                    ELSE LET last == coll.groups[Len(coll.groups)] IN last.start + last.count

\* The constant infos, the same_inserted_id and any_deleted shortcuts and their
\* conversions are only shortcuts: a scan meets every row of the first row group with
\* the value and the stamps that the messages gave it, also after VACUUM has dropped
\* the infos no snapshot needs.  Up to the maintenance that misread stands for.
ScanAgreesWithStamps ==
    misread \/ Len(coll.groups) > 1 \/ ScannedRows(coll) = heap

\* The compaction gate and the 30% rule read the version infos as the scan does:
\* for every watermark they answer what the stamps of the rows say.
GateAgreesWithStamps ==
    \/ misread \/ Len(coll.groups) > 1
    \/ /\ \A w \in 0 .. lastCommit : VersionAbove(coll, w) = HasVersionAbove(heap, w)
       /\ DeletedCount(coll) = CommittedDeletedCount(heap)

\* In every row group a delete mark is found where delete_rows put it: delete and
\* scan number the vectors alike.
DeletesAgreeWithStamps ==
    misread \/ \A i \in DOMAIN heap : ScannedRows(coll)[i].del = heap[i].del

-----------------------------------------------------------------------------
(* What comments and tests say of the code and the messages above refute.  *)

\* row_version_manager.cpp, rule 2: "If id >= TRANSACTION_ID_START -> another txn's
\* pending write, not visible."
PendingRowsHidden ==
    misread \/ \A i \in DOMAIN heap : heap[i].ins >= TxnIdStart =>
        ~Visible(SeeAll(lastCommit), ScannedRows(coll)[i])
=============================================================================
