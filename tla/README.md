# TLA+ models of Otterbrix

Otterbrix is an embedded SQL engine built from actors: a dispatcher, executors,
a disk manager with a pool of disk agents, an index manager and a write-ahead
log. This directory models the part every query rests on: its multi-version
transactions, from the commit clock down to the version stamps in a row group;
the garbage collection of dropped tables; the index beside the heap; and what
is left on disk after a crash, from the log and its pages to the blocks of a
table file and the on-disk hash index. The modules were written from the code,
and every definition that models code is tied to its lines in `PROJECT.json`
("map").

## 1. Inventory

| component | state | operations | interacts with |
|---|---|---|---|
| transaction manager (`components/table/transaction_manager`) | clock, active transactions with their snapshots, in-flight commit ids, published horizon | begin, commit, publish, abort, restore clock; watermark and horizons for GC | owned by the dispatcher, called under one mutex |
| row versions (`row_version_manager`) | per vector: nothing, one stamp pair, or a stamp pair per row with shortcuts | visibility, append, delete, commit, revert, cleanup, gate | owned by a row group |
| collection, row groups (`collection`, `row_group`, `table_state`) | row groups of 1024 rows, `total_rows_`, column values | append, delete, scan, stamp, revert, compact | owned by a data table |
| data table, storage adapter | the current collection | compact (replaces the collection), append, update, delete, checkpoint, load | one disk agent per table |
| columns, segments, block manager, metadata (`column_data`, `column_checkpoint_state`, `storage/`) | where each segment lives; free list, end of file, two headers; blocks of the file | write-through, flush, packing, free-list persistence, header swap, load | data table, checkpoint |
| buffer pool (`storage/buffer_pool`, `block_handle`) | pins, eviction queue, memory limit | pin, unpin, evict, reload | segments |
| disk agent (`services/disk/agent_disk`) | the tables of its slice, tombstones | storage messages, checkpoint with its `.prev` copy, vacuum, cleanup, sweep | messages from the disk manager; awaits the WAL |
| disk manager (`services/disk/manager_disk*`) | the agents | fan-out of drops, horizons and checkpoints; load of table files | dispatcher, agents, WAL |
| dispatcher (`services/dispatcher`) | the transaction manager, DROP-GC flags | begin, accumulate, commit drain, abort drain, publish, watermark, horizon broadcast | messages from executors |
| executor and operators (`services/collection/executor`, `components/physical_plan/operators`) | one coroutine per statement | DML operators, commit and abort operators, failure path | messages to dispatcher, disk, index, WAL |
| DROP garbage collection | tombstones of agents and index manager, last broadcast horizon | mark, remap to commit id, un-mark, broadcast, sweep, acknowledge | dispatcher, agents, index manager |
| write-ahead log (`services/wal`) | segments of pages, WAL ids, page buffer | physical records, commit marker, rotation, truncation, reading back | agents, executors, bootstrap |
| bootstrap and recovery (`integration/cpp/base_spaces`) | none of its own | load of files, filter and replay of the log, restored clock | everything, before the schedulers start |
| index manager and agents (`services/index`, `components/index`) | entries with insert and delete stamps, pending lists | mirror of DML, commit, revert, search, rebuild | executors, commit and abort chains |
| on-disk hash index (`bitcask_index_disk`, `disk_hash_table`) | segment files, hash table of references, transaction log with applied mark, merge manifest | batches of inserts and deletes, rotation, merge on its own thread, recovery | index agent |
| B+tree index files, catalog, parser, planner, compute, cursors, bindings | files of the tree; rows of pg_catalog; otherwise none that outlives a statement | translation and evaluation | dispatcher, executors |

What is hard here, and what a unit test hardly reaches:

* statements are chains of messages, so the chains of two sessions interleave
  between any two of them: row ids, ranges, snapshots and watermarks are all
  read in one message and used in a later one;
* commits take their id early and become visible late, in any order;
* compaction moves rows while other transactions hold positions;
* a statement may fail before, half way through and after its storage effect;
* version infos have three forms and two shortcuts, and the vector number that
  selects one is local to a row group in some places and collection-wide in
  others;
* heap and index belong to two actors and are stamped by separate messages;
* a crash can hit between any two messages, writes and renames, and what was not
  synced may be there, torn or gone; ids start over or are given out again after it;
* blocks are freed, reused and named by several structures at once.

`PROJECT.json` lists these as hazards, each at its line, with the properties
that cover it or the reason none does.

## 2. Modules

| module | what it models |
|---|---|
| `TxnManager` | `transaction_manager_t`. One action per method, since every method holds `lock_`. `inFlight`, `horizon`, `currentTs`, `active` are the fields of the same meaning; `phase` tells bootstrap, when the clock is restored, from serving. |
| `TxnManagerProofs` | the theorems about it. |
| `RowVersions` | constant-level: a heap as a sequence of rows `[key, ins, del]`, the visibility rules, append, delete marks, commit and revert stamps, the compaction gate, the rebuild. |
| `RowVersionsProofs` | what append, stamps, marks and the rebuild do to a heap and to what a transaction sees of it, as lemmas. |
| `SnapshotStore` | the abstract specification: a set of rows, snapshots, private writes, commits that change the set in one step. |
| `MvccTable` | sessions running autocommit and explicit transactions over one table; extends `TxnManager` and `RowVersions`. |
| `MvccTableProofs` | the invariants of the chains and the stability of snapshots. |
| `SnapshotIsolationProofs` | the refinement of `SnapshotStore` by `MvccTable`. |
| `IndexMvcc` | an index in memory beside the heap; extends `MvccTable` with the messages to the index manager. |
| `IndexMvccProofs` | the theorems about it, on top of those about the table. |
| `DropGc` | CREATE and DROP TABLE with tombstones, horizons and the eager removal; extends `TxnManager`. |
| `DropGcProofs` | the theorems about it. |
| `Recovery` | log, checkpoint, crash and replay over several tables; extends `TxnManager`. |
| `Collection` | the physical layout of a heap: row groups, version infos with their shortcuts, vector numbering, VACUUM; keeps the plain heap of `RowVersions` beside it. |
| `CollectionProofs` | the theorems about it. |
| `WalPages` | one segment file of the log, byte by byte: writer, crash, reader. |
| `BlockFile` | the `.otbx` file of one table: blocks, free list, headers, segments, compaction, checkpoint, `.prev`, crash and load. |
| `BlockFileProofs` | the theorems about it. |
| `Bitcask` | the on-disk hash index. |
| `MC*` | the instances for TLC. |

`TxnManager` and `RowVersions` are shared by the composed modules, so that a change of
the commit clock or of the version rules is seen by all of them. `Recovery` takes the
bytes of the log and the blocks of a table file as given; `WalPages` and `BlockFile`
are what it relies on: a durable record is read back, a checkpoint is found whole.

**MvccTable.** A step is one message. `pc[s]` is where the session's coroutine
is, `op[s]` what it carries:

| action | code |
|---|---|
| `Begin`, `ReleaseReadOnly` | `txn_begin_session_msg`, `txn_mark_explicit_msg`; release of a read-only statement |
| `Insert` | `operator_insert`, `storage_append` |
| `Scan` or `IndexScan`, then `DeleteRows`, `UpdateRows` or `UpdateFailed` | `full_scan` or, for a predicate on an indexed key, `index_scan` of a DELETE or UPDATE; `storage_delete_rows`, `storage_update`; the last one when the append half of an update fails after the old rows are marked |
| `EmptyStatement` | a DML statement that matches nothing |
| `StatementOk`, `StatementFailed` | `txn_accumulate_msg`; `revert_failed_txn` and `txn_abort_msg` |
| `CommitDrain`, `CommitEmpty` | `txn_commit_drain_msg` |
| `IndexCommitFailed` | the early return of the commit operator |
| `StampAppends`, `StampDeletes`, `PublishCommit`, `MaybeCleanup` | `storage_publish_commits`, `storage_publish_deletes`, WAL marker and `txn_publish_msg`, `maybe_cleanup_inner` |
| `RollbackDrain`, `RollbackDeletes` | `txn_abort_drain_msg`, `storage_revert_deletes` |

A statement is one sub-plan on one table; foreign-key cascades, in which an
earlier sub-plan's ranges are reverted when a later one fails, are left out.
Row values are abstract: a row is its key, a ghost identity that stays with it
when compaction moves it. The index is not part of this module, so `IndexScan`
may return any row ids and one of them more than once; an UPDATE appends a row for
each. `ScansInView` says that a statement is about to mark rows of its snapshot,
and `InViewSpec` are the behaviours of `TableSpec` in which that stays so.

**IndexMvcc.** Beside the steps above: the mirror messages behind every DML message, the
flip of the index before the heap is stamped (`operator_commit_transaction`), the
revert before the heap's (`operator_abort_transaction`), and `Rebuild`, the chain of
CHECKPOINT that compacts the heap, asks for its size, scans it and fills the index
anew. The scan of a DELETE or UPDATE is `IScan` (`full_scan`), or `ISearch` and
`IFetch` (`index_scan`): the search takes row ids from the entries that
`index_entry_visible` lets pass, the fetch, a message later, takes these rows from the
heap without a look at their versions, skips ids past the end and names the rest by the first
ids of the request, as `storage_fetch_inner` does. `found` is what travels between the two.

**DropGc.** `Client` steps are CREATE, DROP, other writes, COMMIT and ROLLBACK; `Chain`
steps the messages they cause. `tombs` are `dropped_storages_` of each agent and
`dropped_table_agents_` of the index manager; `mailbox` holds the horizons on their way,
`notices` the messages back to the dispatcher. `SweepTombstones` is
`on_horizon_advanced`, `TakeNotice` the dispatcher's side of `on_drop_resource_marked`
and `on_subscriber_empty`. Mailboxes are FIFO.

**Recovery.** `Insert`, `DeleteLog`/`DeleteMark` and `UpdateStore`/`UpdateLog` keep the order
in which the code logs and stores; `Marker` is the flushed and synced commit record;
`CpBegin` to `CpTruncate` are the messages of a checkpoint; `Crash` and
`CrashInCheckpoint` lose what is in memory and what the page buffer still held, and run
the start: load, filter, replay, clock. A table whose file was never checkpointed
(`headed`) does not load and comes back in memory.

**Collection.** `infos` of a row group are indexed by vector number as in the
code, so that the local and the collection-wide numbering are both there. `Compaction`
may come with any watermark; `Vacuum` cleans infos and compacts. The ghost `misread`
is set when maintenance has relied on an info that is not where it looks (see
section 5).

**WalPages.** A byte is the record it belongs to and its place in it. `AppendRecord` is
`append` with the split over pages and the flags CONT and END, `AppendDiskFull` the same
when a page write fails, `Flush` and `FlushAndSync` the two ways to write the last page out.
`Crash` keeps what was synced, any number of the pages after that, any of them torn, and
reopens the file. `ReadAllRecords` and `SeekToLsn` are the reader.

**BlockFile.** A segment holds a token; its kind says whether it is stored alone, packed or
kept in memory. `AppendSegment`, `CloseRowGroup`, `Compact` and `CompactFails` are what the
agent does to a live table; `CkBegin`, `CkColumn`, `CkWrite`, `CkSync`, `CkHeader`, `CkSecond` cut
`checkpoint_inner` where a crash would find another file; `CkFails` and `Restore` are its
out-of-memory path. `Crash` makes every unsynced block unreadable. `Load` is
`load_storage_disk_sync` with the two headers and `.prev`.

**Bitcask.** `ApplyInserts`, `ApplyDeletes` start a batch by appending its frame to the
transaction log; `SkipValue`, `Rotate`, `WriteValue`, `FinishBatch` work it off. `MergeCollect`,
`MergeBuild`, `MergeRename`, `MergeSwap`, `MergeRemove` are the merge thread, which holds the
mutex in the first step and from the fourth on. `WalCommit` is the marker in the log,
`Reopen` the load with merge cleanup, the references and the gated recovery. Transaction ids
start again at each boot (`FreshTxns`); frames and markers carry their boot as a ghost, and the
gate compares ids alone. Segment ids wrap at `SegWord`, references to them at `RefWord`.

## 3. Runs

| run | bounds | shows |
|---|---|---|
| `txn` | 3 sessions, clock up to 8, every restored frontier | `TypeOK`, `ClockAboveHorizon`, `NoDirtySnapshot`, `WatermarkVisibleToAll`, `WatermarkMonotone` |
| `snapshot_isolation` | 2 sessions, clock 5, 1 row at start, at most 3, indexed table, index scans of up to 2 rows, `InViewSpec` | `SnapshotIsolation`: the chains implement `SnapshotStore` |
| `compaction` | the same, table without index, which commits compact, `TableSpec` | `TableTypeOK`, `RangesStillPending`, `SnapshotsStable` |
| `commit_liveness` | 2 sessions, clock 5, one row, which either may insert or delete, index scans, no symmetry | `CommitBecomesVisible` |
| `version_infos` | 3 writers, row groups of 2 rows, at most 3 rows | `LayoutOK`, `ScanAgreesWithStamps`, `GateAgreesWithStamps`, `DeletesAgreeWithStamps` |
| `drop_gc` | 2 sessions, clock 5, a table that exists and one that may be created, on 2 agents | `DropTypeOK`, `UncommittedDropKeepsTable`, `IndexBeforeDisk`, `TombstonesAnnounced`, `PublishedDropLeavesNothing` |
| `recovery` | 2 sessions, 2 tables (one may be in memory), 5 WAL ids, 2 transactions per boot of one statement each, 2 segments, 2 checkpoints or crashes | `RecTypeOK`, `RecoveryExact` |
| `index_mvcc` | 2 sessions, clock 4, 1 row at start, at most 2, index scans of one entry, one CHECKPOINT | `IndexTypeOK`, `IndexAgreesWithHeap` |
| `wal_pages` | pages of 6 bytes, size field of 2, records of 4, 5 and 8 bytes, 4 records, 2 crashes | `PagesTypeOK`, `ReadIdsIncrease`, `RecordsReadBack`, `SeekFindsPage` |
| `block_file` | 2 segments of 3 kinds, 2 packed segments to a block, 9 blocks, 4 compactions, checkpoints, failures and crashes together | `FileTypeOK`, `LiveSegmentsReadBack`, `DurableImageIntact`, `FreeBlocksUnused` |
| `bitcask` | 2 keys, 2 rows, 3 frames, 1 record to a segment, segment ids up to 5, which allows three merges, 2 crashes | `BitcaskTypeOK`, `CommittedRowsFound`, `NothingElseFound` |
| `pending_rows_visible` | as `version_infos` | refutes `PendingRowsHidden`: rows of the second row group are read without their version info |

*Why the bounds are enough to be interesting.* The clock counts begins and
commits together: 8 lets three transactions begin and commit out of order with a
snapshot taken between commit and publish; 5 lets two transactions begin and
commit in either order, or one commit between the snapshots of two others; 4 lets one commit
while another is open or begins before it is published. Three rows are enough for an
update that appends, a delete and a compaction that moves a row (more than 30% of
the rows deleted). Groups of two rows make an append cross the border and an append
start exactly at it, and three writers reach every form of a version info: constant,
same id, mixed ids, with and without deletes of two transactions. Two agents and two tables let
one subscriber be swept while another is still behind. In `recovery` two events allow a
checkpoint and a crash, two crashes, or a crash inside a checkpoint, and two segments
let truncation take one. Pages of 6 bytes make a record end exactly with a page, leave
one or two bytes (a cut size field), and span two or three pages. Four events in
`block_file` are a checkpoint, a crash with load, a compaction over the loaded blocks
and a second checkpoint. Two crashes in `bitcask` hit the merge and then the recovery's
own result, and let a boot reuse the ids of the one before. Segment ids up to 5 leave room
for the third merge, whose own id is 0 - 1; a load behind it is past the bound. Index scans
of one entry in `index_mvcc` keep the run small; scans of several, whose reply names wrong ids once
a row of them is gone, are covered by `IndexAgrees`, which holds for every `MaxHits`.

Bounds in guards are the constants `Max...`; `Capacity`, `SegmentLimit`, `PageData`, `SegWord` and
`RefWord` are sizes of the code made small. A model that has used up a bound
stops, which the program does not, so deadlock checking is off. Sessions, and the keys of
`Bitcask`, are symmetric where a cfg says so; symmetry is not used in the liveness run.

*Fairness* (`FairSpec` of `MvccTable`): weak fairness of each session's `Pipeline`, the messages
that need no decision of a client. The schedulers run every actor that has a
message and a message is never lost, so a chain that can go on does. Nothing is
assumed of clients, and an index commit may fail at any time.

*What the properties leave out.* Where the code has a weakness, the property is stated
around it, never past it: a ghost variable names the case, the model still takes
the step, and the property or the specification leaves out exactly what comes of it.
Section 5 describes them.

* `Recovery` and `BlockFile` collect in `exposed` the weaknesses a behaviour has met;
  `TameSpec` are the behaviours that meet none, and `RecSpec` and `FileSpec` all of them.
* `SnapshotIsolation` is stated for `InViewSpec`: no statement is about to mark a row its snapshot
  does not hold. Two steps of `TableSpec` end that, an index scan that finds rows of a commit in
  flight and a compaction between the scan and the marks of another
  session. `compaction`, `commit_liveness` and `index_mvcc` are about all behaviours.
* `misread` in `Collection`, `tainted` and `InWindow` in `IndexMvcc`, `LosesPlace` in `WalPages`.
* `leaked`, `stray` and `Disputed` in `Bitcask`; the last are the entries of frames that share an id with a
  commit of another boot. `CommittedRowsFound` is stated for the time in which every segment has an id
  a reference can hold (`Numbered`), which ends with the third merge.

## 4. Proofs

The theorems hold for every set of sessions, every bound and, where there are any, every number of rows,
tables, agents and blocks. Their assumptions are the `ASSUME`s of the modules they are about, which TLC
evaluates on each run: bounds are numbers, commit ids lie below `TxnIdStart` and transaction ids below
`NotDeleted`, a table has one agent, segments have one of three kinds.

| module | theorem | states |
|---|---|---|
| `TxnManagerProofs` | `TypeCorrect` | `Spec => []TypeOK` |
| | `ClockCorrect` | `Spec => []ClockAboveHorizon` |
| | `SnapshotsClean` | `Spec => []NoDirtySnapshot` |
| | `WatermarkCorrect` | `Spec => []WatermarkVisibleToAll` |
| | `WatermarkNeverFalls` | `Spec => WatermarkMonotone` |
| `MvccTableProofs` | `TableTypeCorrect` | `TableSpec => []TableTypeOK` |
| | `RangesCorrect` | `TableSpec => []RangesStillPending` |
| | `SnapshotsNeverChange` | `TableSpec => SnapshotsStable` |
| `SnapshotIsolationProofs` | `SnapshotIsolated` | `InViewSpec => SnapshotIsolation` |
| `IndexMvccProofs` | `IndexTypeCorrect` | `IndexSpec => []IndexTypeOK` |
| | `IndexAgrees` | `IndexSpec => []IndexAgreesWithHeap` |
| `DropGcProofs` | `DropTypeCorrect` | `DropSpec => []DropTypeOK` |
| | `UncommittedDropSafe` | `DropSpec => []UncommittedDropKeepsTable` |
| | `EnginesOverStorages` | `DropSpec => []IndexBeforeDisk` |
| | `PublishedDropEnds` | `DropSpec => []PublishedDropLeavesNothing` |
| | `TombstonesAreAnnounced` | `DropSpec => []TombstonesAnnounced` |
| `BlockFileProofs` | `FileTypeCorrect` | `TameSpec => []FileTypeOK` |
| | `SegmentsReadBack` | `TameSpec => []LiveSegmentsReadBack` |
| | `ImageIntact` | `TameSpec => []DurableImageIntact` |
| | `FreeBlocksAreUnused` | `TameSpec => []FreeBlocksUnused` |
| `CollectionProofs` | `CollectionCorrect` | `Spec => []CollectionInv` |
| | `LayoutCorrect` | `Spec => []LayoutOK` |
| | `ScanCorrect` | `Spec => []ScanAgreesWithStamps` |
| | `GateCorrect` | `Spec => []GateAgreesWithStamps` |
| | `DeletesCorrect` | `Spec => []DeletesAgreeWithStamps` |

**The manager.** None of the properties is inductive alone. `NoDirtySnapshot` speaks of ids that
are in flight now, and a commit adds one: it must be known to be above every
snapshot's horizon, which needs that the clock is above the horizon
(`ClockAboveHorizon`) and that snapshots lie in the past of the clock. `IInv` is the
conjunction; `InitIInv` and `NextIInv` show it inductive, one step per action.
The two watermark theorems need that the minimum of a non-empty set of numbers exists
and is a lower bound (`MinOfNats`, `WatermarkIsLeast`). `BoundsGrow` shows
that every bound after a step is at or above one before it, from which
monotonicity follows. The modules composed of the manager reuse `IInv`: each of their steps is a step
of the manager or leaves it alone (`ManagerStep`).

**The heap and its chains.** `RowVersionsProofs` is constant-level. `RankNumbers` shows that the places of
the live rows are numbered without a gap, so that `RebuiltRows` can say which row of a rebuilt heap stands for which of the
old one; `CompactedView` is the fact compaction rests on: if every stamp is at or below a watermark that
the reader sees, the rebuilt heap shows the reader the same keys.

`TableInv` adds to `IInv` that stamps on rows have been given out (`HeapOK`), that what a coroutine carries
fits where it is (`ChainsOK`), that no two sessions hold the same transaction or commit id (`IdsApart`), and
`RangesStillPending`. The last needs the others: a session's stamps reach a row only through an id, so that
two sessions with one id would stamp each other's rows, and a compaction moves the rows of a range only
if no row of it is pending, which the gate decides by the id. `SnapshotsNeverChange` follows from `TableInv`
without an invariant of its own: a step is a stamp or mark with an id no other snapshot sees (`HeapViewStep`), a compaction under a
watermark that every snapshot sees (`WatermarkCorrect`), or a publish.

**Snapshot isolation.** The refinement maps the store's rows to the keys a new transaction would see, and
a session's private writes to the rows that carry its stamp. That is a mapping only if the stamps
on the heap and the chain's memory of them agree, which is `IsoInv`: keys are unique, a commit id on a row is
published or in flight, a row is deleted for everybody only after it is there for everybody, and each chain knows the
rows it appended and whether it marked any until it has stamped them (`AppendsKnown`, `MarksKnown`), and has marked only what it could see
(`MarksSeen`). `ScansInView` is in it as well, since `InViewSpec` keeps it; it is what the marks of the next message rest on. `StepRefines` then takes one message
at a time: begin, a private write, commit drain, publish and abort are steps of the store; the two stamping messages, marks
that do nothing and scans are stutters. A compaction is one too (`CleanupStutters`): the gate lets it run only when no row carries a stamp
of an open transaction, every live row is seen by everybody, and the rebuilt rows are nobody's (`CleanupStep`). The theorem
does not mention `Indexed`: where the rows of a scan come from no longer matters once they are in view.

**The index.** `IndexAgreesWithHeap` speaks of what an open transaction finds; `IndexInv` says why, about the two stamps of
a row and of its entry at every step between two messages. Of an untainted row (`RowAgrees`) the stamps are
equal, or differ in one of four ways, each tied to the place of the one chain that can end it. The index has the commit id
and the heap still the transaction's (`Half`: the chain has to stamp the heap, or has failed and leaves the id in flight for
ever). The row has no entry yet or no more (`Unmirrored`), or the entry no mark (`Unmarked`): the mirror is to come, or a rollback has
taken it back. The entry has id 0 from a rebuild and everybody sees the row's stamp (`Settled`). An open transaction counts both
stamps of each pair alike (`InsertsCounted`, `DeletesCounted`), since the chain in question is another one. For this the stamps
must be comparable with start times, which the heap never uses: every commit id below a snapshot's start time is published or in its
in-flight list (`SnapshotsTimed`, `StampsKnown`). `ChainIx` is what makes the four ways last: the messages to the index that a chain
owes (`StepOK`), the scan output its mirror will use (`OldOK`), and that answered messages have left none of its ids
behind (`Answered`). DML fed by the index may name any row, of a commit in flight or appended by a session whose own mirror is
still to come; of the rows it marks, `MirrorOK` keeps that an untainted one has its entry already (`Unclaimed`), so that the two
mirrors cannot meet in the wrong order. Without the last, the heap could be stamped or reverted while an entry still carries the transaction's id.
The table's messages keep `TableInv` as before. CHECKPOINT is shown apart: a compaction that moves a row finds none pending, so
no chain has parked a range (`CpRenumbers`), and after the rebuild every row outside `tainted` is settled (`CpRefills`).

**DROP.** `GcInv` holds for each session what its coroutine stands for (`SessionOK`): the tables it has created and not
erased again and their rows in pg_class (`CreatedOK`, `ClassStamped`), those it dropped (`DroppedOK`), those it is about to
take away (`GoneOK`). On top come the facts between sessions. A table in the making has one creator (`OneCreator`), or
the rollback of one would erase the storage of the other. A tombstone with a commit id is one of a decided drop, and one with
a transaction id belongs to that transaction's drops (`TombsOwned`): a sweep takes only commit ids, so it cannot take a
table that may still be rolled back, even when two transactions drop the same one and one of them un-marks. `TablesOK` ties a
published drop to a chain that has yet to erase the storage. `TombstonesAnnounced` is shown on top of `GcInv`, for appending,
taking and announcing a notice (the `Flag` lemmas).

**The table file.** The three safety properties are one argument, about who owns a block. `FileInv` says it for every place a
block can be named: a live segment lies in blocks that are neither free nor beyond the end and hold its bytes (`SegOK` in `LiveOK`), a
checkpoint has taken its metadata block, its buffers and its free list from what was nobody's (`CkApart`), its buffers and later its
blocks hold the columns written so far (`CkFlushed`, `CkWritten`), and header, metadata and free list of the last image fit
together (`ImageShape`), are given to nobody else (`ImageApart`) and hold what the image stands for (`ImageWhole`). `PrevOK` is
needed for a crash in the middle of a restore: the copy has the image too. `HeadsOK` orders the iterations of the two headers, so that the one written
first is the one a start takes. The atomic switch of images is then `CkHeaderInv`: until that step every write went to
blocks outside the old image, and at that step the blocks of the new one are written and synced. Steps that leave the headers
alone share one lemma (`QuietImage`): blocks that are taken were free, blocks of the image that are free are at risk. The theorems are
about `TameSpec`, as the run is: without the two weaknesses of section 5 taken out, the properties fail.

`transition_to_disk` is a loop over all segments. The provers cannot use an induction principle with an operator parameter, but
they can use one about sets: `Induction` takes the numbers for which a fact holds as a set, and is proved from the least number outside it.
`LoopExists` shows in the same way that the recursive function of the loop exists, and `LoopUnfolds` gives its equations, so that
`TransitionDone` holds for any number of segments.

**The row groups.** The theorems hold for every vector capacity, number of rows and finite set of writers that has fewer members
than there are commit ids. `CollectionInv` has a part about the layout alone, which holds through all maintenance (`LaidOut`: row groups
start at multiples of the capacity, all but the last are full, `total_rows_` is where the last ends), and a part that ends with
`misread`: `Tracks` relates the infos to the plain rows. `LayoutOK` is nearly inductive, but an append needs the sum of the chunks it
cuts (`GroupsNeeded`, `ChunkSizes`, `AppendedLayout`): the first fills the last group, every other starts at a multiple of the capacity and only the last may be
short. `ScanAgreesWithStamps` is not inductive, because a shortcut hides slots that a later message brings back. `MarksShown`: while `any_deleted` is false every slot
of `deleted` is NOT_DELETED_ID, or the first delete would show an old mark. `SharedId`: under `same_inserted_id` the slots carry the
shared id too, or an append by another transaction would uncover other stamps. `MarksTracked` speaks of all slots of a vector,
those behind the last row included, so that a row appended there starts unmarked. In groups behind the first a scan reads the info with
the collection-wide number, where only deletes write: marks agree there (`DeletesCorrect`), insert stamps do not
(run `pending_rows_visible`), and the theorems about scan and gate stop at one group. The commit of a transaction restamps a whole constant info
or a shared id, although it was given only the transaction's ranges. That is right because the ranges of an open transaction name exactly the rows that
carry its id (`RangesExact`), so that a vector with one shared id is its own throughout (`OwnSlots`); commit ids stay below pending
ones (`CommitIdsBelow`), so no other transaction's rows are taken for them. For VACUUM, `CleanedInfo` shows that a dropped or merged info
held only stamps that the see-all view of the rebuild shows as before, or a mark, and then `misread` is set. Each message is one `...Step` lemma about
a collection and its rows, one `...Stamps` lemma about the rows alone, and one `...Keeps` lemma that joins them.

**Only model-checked.** Liveness (`CommitBecomesVisible`) and ENABLED are beyond the prover. Facts about folds, filters and
RECURSIVE operators are too; where one of them was restated as a recursive function its loop can be reasoned about as above, which is
not done yet for `Recovery` (replay is a fold over the log), `WalPages` (the reader) and `Bitcask` (recovery). In `Collection`,
where publishing was a fold over ranges too, it is stated over the set of their rows: every range of a message gets the same id, so their order
does not matter.

## 5. What the models show beyond the properties

Disagreements with a comment or a test that a run demonstrates are findings in
`PROJECT.json`. The following were met while modelling; each is in a model as a step the code takes,
or was seen in code next to a modelled one, and is kept out of the properties.

*Versions and compaction.*
* Rows behind the first row group are scanned without their version info; the gate of
  compaction looks there under another vector number as well.
* A compaction between the scan and the storage message of a DELETE leaves stale row ids; `InViewSpec`
  leaves these steps out.
* A failed statement leaves its delete marks, a rolled-back INSERT its pending rows: later
  deletes of such a row are skipped without an error, the table is never compacted or
  checkpointed again.
* VACUUM drops the info of a full vector with some committed deletes, then compacts by a
  scan that needs it: the deleted rows come back.
* The physical revert of catalog appends cuts off rows that others appended behind.

*DROP.* A committed DROP takes the table from transactions with older snapshots, which is
intended. A horizon may be above a commit id in flight, so a sweep can come before
the publish (`transaction_manager.cpp:153-158` says otherwise). An agent that owns no tombstone
reports itself empty and so clears the flag of all agents. An eagerly dropped table
loses the addresses of its index agents, whose files are never removed.

*Index.* The index is flipped before the heap is stamped and before the barrier, and
`index_entry_visible` knows no list of commits in flight: a transaction that begins in between
sees the new entries, and its DELETE or UPDATE marks rows outside its snapshot: `IndexSpec => []ScansInView` fails after
two begins, an INSERT and half of its COMMIT, although `index.hpp:27` calls the predicate one "mirroring table MVCC".
`storage_fetch` skips ids past the end and names the rows behind them by the wrong ids. A rebuild takes pending, deleted and recent rows for
committed ones, and a commit that waits beside it adopts its entries. Heap and index decide separately which of two
transactions marks a row.

*Recovery*, the names in `exposed`:

| name | met when |
|---|---|
| `reused` | a transaction id of an earlier boot is used again: its marker commits the records of the other |
| `overtaken` | the log lost ids that a table file already stands for; new records fall below that id and are skipped |
| `shifted` | a DELETE or UPDATE record names a row behind versions appended by UPDATE, or behind rows that compaction removed |
| `unsettled` | it names a row behind rows of transactions that may still go away, or one already marked |
| `ahead` | the file holds rows of commits above the id it is written under; they are replayed again |
| `straddled` | the checkpoint falls between the record and the mark of a DELETE, which is then in neither |
| `window` | the crash falls between the file and its sidecar with records to replay |

*Log pages.* A spanning record that starts on the page where another one ends is lost, as is one whose
size field is cut by the page end, and what follows an unfinished record. The worker ignores
failed appends and flushes.

*Table file.*
* `overwritten`: after a load the live segments are those of the durable image. Compaction frees their
  blocks, write-through reuses them, and a crash before the next header finds the
  metadata readable and other rows under it; `.prev` is removed because the file loads.
* `rolledback`: a checkpoint that fails after the first column has re-pointed live segments to new
  blocks; the copy of `.prev` over the open file takes these away.
* A checkpoint may also run out of memory between the write-through of a column and that of its validity;
  the model has the failure before and after the column as a whole.
* The restored file and `.prev` are never synced. Blocks of older images and of failed rebuilds
  are never freed. Headers carry a checksum field that nobody reads. The free list is iterated while the
  metadata writer may take further blocks from it. Validity is not persisted (`column_data.cpp:1018`).
* A disk table that was never checkpointed comes back as a table in memory.
* `Crash` treats a `.prev` that is being copied back as complete, which holds for a process crash.

*On-disk hash index.* Entries of a transaction that crashes between its batch and its marker stay (`leaked`).
A torn tail makes the next load fail or lose what is behind it. A reference may outlive
the record it points to (`stray`). Merges number their output 1, 0 and then 0 - 1 (`bitcask_index_disk.cpp:1091`): a reference
holds 32 bits of that, so behind the third merge its rows are not found, and a load takes the segment for the last. Without
`Numbered`, `CommittedRowsFound` fails without any crash. The recover gate compares transaction ids, which start
again at each boot: a frame without a marker is applied when an earlier boot committed the id, and so is one whose successor has lost
its marker to a checkpoint, which brings a deleted row back. Without `Disputed`, both properties fail.

## 6. Not modelled, and why

* Buffer pool: next on the plan. `BlockFile` takes a pin as something that succeeds or fails for lack
  of memory.
* The pages of the hash table below `Bitcask`, its bulk load, clear and drop; the B+tree files; the disk side of
  the index agents beyond a batch.
* CREATE INDEX with its backfill, ALTER TABLE and ADD_COLUMN records, the system tables and their rebuild,
  foreign-key cascades, joins in DELETE ... USING.
* A crash inside recovery, sync modes other than FULL, metadata and free lists that need more than one
  block, short reads and writes of the file system layer.
* Encodings inside a segment, zone maps, scans and casts; parser, transformer, planner, validation,
  expressions, compute kernels, vectors, types, cursors and bindings. These are most of
  the repository's lines: sequential translations and computations without shared or
  durable state, for which a state machine would restate the code. The models cover
  the transactional and durable core instead.
* The actor runtime is external. A handler runs to its next await without another handler of the same
  actor. Whether an await inside `storage_append_inner` lets another append of the table in depends on it;
  `Recovery` and `MvccTable` take that handler as one step.

## 7. Plan

1. Done: `TxnManager`, `RowVersions`, `MvccTable` against `SnapshotStore`, `Collection`; then `DropGc`, `Recovery`,
   `IndexMvcc`, `WalPages`, `Bitcask`, `BlockFile`.
2. Proved: the manager, the chains over one table and their refinement of the store, the garbage collection of DROP,
   an index beside its heap, the blocks of a table file, the row groups and version infos of a collection. Next: the merge of `Bitcask`.
3. Buffer pool: pin counts and eviction at the limit, a dying handle against a new one of the
   same block. Then the pages of `disk_hash_table` under `Bitcask`, and the order of its lock and the
   index's.
