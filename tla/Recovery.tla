------------------------------ MODULE Recovery ------------------------------
(***************************************************************************)
(* Durability: the write-ahead log, checkpoints, crashes and the replay at *)
(* the next start.                                                         *)
(*                                                                         *)
(* A statement logs physical records: INSERT carries the rows, DELETE and  *)
(* UPDATE carry row ids.  COMMIT ends in a marker that is flushed and      *)
(* synced.  A checkpoint writes the compacted heap of a table to its .otbx *)
(* file together with the WAL id it stands for, and drops old segments.    *)
(* A start loads the files, keeps the records of transactions that have a  *)
(* marker, skips those at or below the table's id, and replays the rest.   *)
(*                                                                         *)
(* One action is one message handled by an agent, the WAL worker or the    *)
(* dispatcher.  The rows a statement touches are those its snapshot shows  *)
(* when it logs or stores them; MvccTable models the scan before it.       *)
(***************************************************************************)
EXTENDS TxnManager, RowVersions, SequencesExt, BagsExt

CONSTANTS
    Tab,           \* the tables of one disk agent
    Key,           \* the contents that the rows of each table can have
    Checkpointer,  \* CHECKPOINT statements and the automatic checkpoint
    MaxWalId,      \* bound on global_id_
    MaxTxn,        \* bound on the transactions of a boot
    MaxStatement,  \* bound on the statements of a transaction
    MaxEvent,      \* bound on checkpoints and crashes together
    MaxSeg,        \* bound on current_segment_index_
    MayBeInMemory  \* the tables that may have no file

ASSUME RecoveryAssumption ==
    /\ MayBeInMemory \subseteq Tab
    /\ {MaxWalId, MaxTxn, MaxStatement, MaxEvent, MaxSeg} \subseteq Nat
    /\ MaxTs < TxnIdStart /\ TxnIdStart + MaxTs < NotDeleted

VARIABLES
    heap,          \* table_storage of every table, row by row
    wal,           \* the records of all segments, oldest first
    flushed,       \* how many of them are sure to have left the page buffer
    seg,           \* current_segment_index_
    writer,        \* whether writer_ is open
    globalId,      \* global_id_ and the worker's id_
    image,         \* the rows in the .otbx file
    headed,        \* tables whose .otbx header points to a checkpoint
    sidecar,       \* the .wal_id file
    cpId,          \* checkpoint_wal_id_, prev_checkpoint_wal_id_
    inMemory,      \* tables with storage_mode_t::IN_MEMORY
    cp,            \* the checkpoint chains
    pc, op,        \* the statement and commit chains of the sessions
    truth,         \* ghost: what the durable commits have made of every table
    aligned,       \* ghost: how many first rows have their replay position
    exposed,       \* ghost: which known weakness of the design was met
    boots, rounds  \* ghosts: crashes and checkpoints so far

diskVars == <<wal, flushed, seg, image, headed, sidecar>>
cpVars == <<cpId, cp>>
ghosts == <<truth, aligned, boots, rounds>>
vars == <<tmVars, heap, diskVars, writer, globalId, cpVars, inMemory, pc, op, ghosts, exposed>>

NoOp == [txnId |-> 0, commitId |-> 0, tab |-> "none", pos |-> 0, key |-> "none", watermark |-> 0,
         deleted |-> FALSE, touched |-> {}]

NoCp == [pc |-> "idle", boundary |-> 0, watermark |-> 0, floor |-> -1]

Disk == Tab \ inMemory

Data(s) == [transactionId |-> op[s].txnId,
            horizon       |-> active[s].snapHorizon,
            inFlight      |-> active[s].snapInFlight]

Rec(kind, t, pos, key, txnId, cid) ==
    [id |-> globalId + 1, kind |-> kind, tab |-> t, pos |-> pos, key |-> key, txn |-> txnId,
     cid |-> cid, seg |-> 0, boot |-> boots]

-----------------------------------------------------------------------------
(* What a start makes of the files.                                        *)

\* Mutant: a record counts as committed whether its marker is there or not.
CommittedTxns_All(log) == {log[i].txn : i \in DOMAIN log}

\* read_database_segments, pass 1.
CommittedTxns(log) == {log[i].txn : i \in {j \in DOMAIN log : log[j].kind = "commit"}}

\* Pass 2 and the filter of the replay: the physical records of one table, of
\* committed transactions, above the id of the table's file.
RecordsToReplay(log, t, cpWalId) ==
    LET committed == CommittedTxns(log)
    IN  SelectSeq(log, LAMBDA r : /\ r.kind # "commit" /\ r.tab = t
                                  /\ r.txn \in committed
                                  /\ r.id > cpWalId)

\* direct_append_sync at the end, direct_delete_sync and direct_update_sync in place.
\* A row id past the end throws out of the open.
ReplayRecord(acc, r) ==
    CASE r.kind = "insert" -> [acc EXCEPT !.rows = Append(@, [key |-> r.key, ins |-> 0, del |-> NotDeleted])]
      [] r.pos \notin DOMAIN acc.rows -> [acc EXCEPT !.ok = FALSE]
      [] r.kind = "delete" /\ r.pos \in DOMAIN acc.rows -> [acc EXCEPT !.rows = MarkDeleted(@, {r.pos}, 0)]
      [] r.kind = "update" /\ r.pos \in DOMAIN acc.rows -> [acc EXCEPT !.rows[r.pos].key = r.key]

LoadedRows(keys) == [i \in DOMAIN keys |-> [key |-> keys[i], ins |-> 0, del |-> NotDeleted]]

Replay(log, t, keys, cpWalId) ==
    FoldLeft(ReplayRecord, [rows |-> LoadedRows(keys), ok |-> TRUE], RecordsToReplay(log, t, cpWalId))

\* append writes a page out whenever it is full, so a crash may find more of the log
\* on disk than the last flush has put there.
OnDisk(n) == SubSeq(wal, 1, n)

Recovered(t, n) == Replay(OnDisk(n), t, image[t], sidecar[t])

\* The ids that the ctor of the WAL manager and the bootstrap read off the log.
MaxIdIn(log) == Max({0} \cup {log[i].id : i \in DOMAIN log})

MaxCommitIdIn(log) == Max({0} \cup {log[i].cid : i \in DOMAIN log})

\* The rows of a heap that count, as a bag of their contents.
Contents(rows) ==
    LET live == SelectSeq(rows, LAMBDA r : Visible(SeeAll(TxnIdStart), r))
        keys == {live[i].key : i \in DOMAIN live}
    IN  [k \in keys |-> Cardinality({i \in DOMAIN live : live[i].key = k})]

-----------------------------------------------------------------------------
RecInit ==
    /\ nextTxnId = 0 /\ currentTs = 1 /\ active = [s \in Session |-> NoTxn]
    /\ inFlight = {} /\ horizon = 0 /\ phase = "serving"
    /\ heap = [t \in Tab |-> <<>>]
    /\ wal = <<>> /\ flushed = 0 /\ seg = 0 /\ writer = FALSE /\ globalId = 0
    /\ image = [t \in Tab |-> <<>>] /\ headed = {} /\ sidecar = [t \in Tab |-> 0]
    /\ cpId = [t \in Tab |-> [current |-> 0, prev |-> 0]]
    /\ inMemory \in SUBSET MayBeInMemory
    /\ cp = [c \in Checkpointer |-> NoCp]
    /\ pc = [s \in Session |-> "idle"]
    /\ op = [s \in Session |-> NoOp]
    /\ truth = [t \in Tab |-> EmptyBag]
    /\ aligned = [t \in Tab |-> 0]
    /\ exposed = {}
    /\ boots = 0 /\ rounds = 0

Goto(s, p) == pc' = [pc EXCEPT ![s] = p]

\* The append of a record by the worker, behind next_wal_id of the manager.
\* ensure_writer may find the segment full: it is flushed and the next one opened.
\* Then the caller flushes, or leaves the record in the page buffer.
Log(r, flush) ==
    /\ globalId < MaxWalId
    /\ globalId' = globalId + 1
    /\ writer' = TRUE
    /\ \/ seg' = seg /\ flushed' = IF flush THEN Len(wal) + 1 ELSE flushed
       \/ /\ writer /\ seg < MaxSeg
          /\ seg' = seg + 1 /\ flushed' = IF flush THEN Len(wal) + 1 ELSE Len(wal)
    /\ wal' = Append(wal, [r EXCEPT !.seg = seg'])

-----------------------------------------------------------------------------
(* The weaknesses a run can meet, each named where it is met.              *)

\* The transaction ids start over at every boot: the log already holds a marker under
\* this id, or records whose transaction never committed.
ReusedId(txnId, marker) ==
    \E i \in DOMAIN wal :
        /\ wal[i].txn = txnId /\ wal[i].boot < boots
        /\ marker \/ wal[i].kind = "commit"

\* The log has lost ids that the file of a table already stands for: they were still
\* in the page buffer, or their segments are gone.
Overtaken(log, ids) == \E t \in Tab : ids[t] > MaxIdIn(log)

\* Row ids count the rows before them: versions appended by UPDATE and rows removed
\* by compaction shift what follows, and rows of transactions that may still go away
\* make the id of the replay uncertain; so does a mark that is not this transaction's.
Shifted(t, p) == p > aligned[t]

Unsettled(s, t, p) ==
    \/ heap[t][p].del # NotDeleted
    \/ \E i \in 1 .. p :
          \/ heap[t][i].ins >= TxnIdStart /\ heap[t][i].ins # op[s].txnId
          \/ \E o \in Session : pc[o] = "marker" /\ heap[t][i].ins = op[o].commitId

\* Between the record of a DELETE and its mark another transaction has marked the row,
\* or compaction has moved it away.
Overrun(t, p) == p \notin DOMAIN heap[t] \/ heap[t][p].del # NotDeleted

Met(cond, name) == IF cond THEN {name} ELSE {}

MetAtLog(s, t, p) ==
    Met(ReusedId(op[s].txnId, FALSE), "reused")
      \cup (IF p = 0 THEN {} ELSE Met(Shifted(t, p), "shifted") \cup Met(Unsettled(s, t, p), "unsettled"))

-----------------------------------------------------------------------------
(* Statements.                                                             *)

Begin(s) ==
    /\ pc[s] = "idle" /\ nextTxnId < MaxTxn
    /\ BeginTransaction(s)
    /\ Goto(s, "open")
    /\ op' = [op EXCEPT ![s] = [NoOp EXCEPT !.txnId = TxnIdStart + nextTxnId]]
    /\ UNCHANGED <<heap, diskVars, writer, globalId, cpVars, inMemory, ghosts, exposed>>

StatementsLogged(s) == Cardinality({i \in DOMAIN wal : wal[i].txn = op[s].txnId /\ wal[i].boot = boots})

MayExecute(s) == pc[s] = "open" /\ StatementsLogged(s) < MaxStatement

\* storage_append_inner: the record, then the row.  Bound: contents that no row of the
\* table has or had since its last compaction.
Insert(s, t, k) ==
    /\ MayExecute(s)
    /\ k \notin {heap[t][i].key : i \in DOMAIN heap[t]}
    /\ Log(Rec("insert", t, 0, k, op[s].txnId, 0), FALSE)
    /\ heap' = [heap EXCEPT ![t] = AppendRows(@, <<k>>, op[s].txnId)]
    /\ op' = [op EXCEPT ![s].touched = @ \cup {t}]
    /\ aligned' = [aligned EXCEPT ![t] = IF @ = Len(heap[t]) THEN @ + 1 ELSE @]
    /\ exposed' = exposed \cup MetAtLog(s, t, 0)
    /\ UNCHANGED <<tmVars, image, headed, sidecar, cpVars, inMemory, pc, truth, boots, rounds>>

\* operator_delete: write_physical_delete, then storage_delete_rows.
DeleteLog(s, t, p) ==
    /\ MayExecute(s)
    /\ p \in DOMAIN heap[t] /\ Visible(Data(s), heap[t][p])
    /\ Log(Rec("delete", t, p, "none", op[s].txnId, 0), FALSE)
    /\ op' = [op EXCEPT ![s].tab = t, ![s].pos = p]
    /\ Goto(s, "delete")
    /\ exposed' = exposed \cup MetAtLog(s, t, p)
    /\ UNCHANGED <<tmVars, heap, image, headed, sidecar, cpVars, inMemory, ghosts>>

DeleteMark(s) ==
    LET t == op[s].tab IN
    /\ pc[s] = "delete"
    /\ heap' = [heap EXCEPT ![t] = MarkDeleted(@, {op[s].pos}, op[s].txnId)]
    /\ op' = [op EXCEPT ![s].tab = "none", ![s].pos = 0, ![s].deleted = TRUE, ![s].touched = @ \cup {t}]
    /\ Goto(s, "open")
    /\ exposed' = exposed \cup Met(Overrun(t, op[s].pos), "unsettled")
    /\ UNCHANGED <<tmVars, diskVars, writer, globalId, cpVars, inMemory, ghosts>>

\* operator_update: storage_update (mark the old row, append the new one), then
\* write_physical_update with the row id of the old one.
UpdateStore(s, t, p, k) ==
    /\ MayExecute(s)
    /\ p \in DOMAIN heap[t] /\ Visible(Data(s), heap[t][p])
    /\ k \notin {heap[t][i].key : i \in DOMAIN heap[t]}
    /\ heap' = [heap EXCEPT ![t] = AppendRows(MarkDeleted(@, {p}, op[s].txnId), <<k>>, op[s].txnId)]
    /\ op' = [op EXCEPT ![s].tab = t, ![s].pos = p, ![s].key = k]
    /\ Goto(s, "update")
    /\ exposed' = exposed \cup Met(Unsettled(s, t, p), "unsettled")
    /\ UNCHANGED <<tmVars, diskVars, writer, globalId, cpVars, inMemory, ghosts>>

UpdateLog(s) ==
    LET t == op[s].tab IN
    /\ pc[s] = "update"
    /\ Log(Rec("update", t, op[s].pos, op[s].key, op[s].txnId, 0), FALSE)
    /\ op' = [op EXCEPT ![s].tab = "none", ![s].pos = 0, ![s].key = "none", ![s].deleted = TRUE,
                        ![s].touched = @ \cup {t}]
    /\ Goto(s, "open")
    /\ exposed' = exposed \cup MetAtLog(s, t, 0) \cup Met(Shifted(t, op[s].pos), "shifted")
    /\ UNCHANGED <<tmVars, heap, image, headed, sidecar, cpVars, inMemory, ghosts>>

-----------------------------------------------------------------------------
(* COMMIT and ROLLBACK.                                                    *)

\* txn_commit_drain_msg, storage_publish_commits and storage_publish_deletes.  Between
\* them the id in flight keeps every gate closed and nothing durable changes.
CommitStamp(s) ==
    /\ pc[s] = "open" /\ op[s].touched # {}
    /\ Commit(s)
    /\ heap' = [t \in Tab |->
                  CommitAllDeletes(
                    CommitAppend(heap[t], {i \in DOMAIN heap[t] : heap[t][i].ins = op[s].txnId}, currentTs),
                    op[s].txnId, currentTs)]
    /\ op' = [op EXCEPT ![s].commitId = currentTs]
    /\ Goto(s, "marker")
    /\ UNCHANGED <<diskVars, writer, globalId, cpVars, inMemory, ghosts, exposed>>

\* The rows the commit inserted for good, and the ones it removed.
Added(t, c) == Contents(SelectSeq(heap[t], LAMBDA r : r.ins = c /\ r.del # c))

Removed(t, c) == {heap[t][i].key : i \in {j \in DOMAIN heap[t] : heap[t][j].del = c /\ heap[t][j].ins # c}}

\* Mutant: the marker stays in the page buffer.
MarkerFlush_Buffered == FALSE

\* wal_sync_mode::FULL: flush_and_sync writes the whole page buffer.
MarkerFlush == TRUE

\* commit_txn of the WAL: the marker, flushed and synced in the same handler.
Marker(s) ==
    LET c == op[s].commitId IN
    /\ pc[s] = "marker"
    /\ Log(Rec("commit", "none", 0, "none", op[s].txnId, c), MarkerFlush)
    /\ truth' = [t \in Tab |-> (truth[t] (-) SetToBag(Removed(t, c))) (+) Added(t, c)]
    /\ exposed' = exposed \cup Met(ReusedId(op[s].txnId, TRUE), "reused")
    /\ Goto(s, "publish")
    /\ UNCHANGED <<tmVars, heap, image, headed, sidecar, cpVars, inMemory, op, aligned, boots, rounds>>

\* txn_publish_msg; a commit with deletes goes on to compact the tables it touched.
PublishCommit(s) ==
    /\ pc[s] = "publish"
    /\ Publish(op[s].commitId)
    /\ IF op[s].deleted
       THEN Goto(s, "cleanup") /\ op' = [op EXCEPT ![s].watermark = CompactWatermark']
       ELSE Goto(s, "idle") /\ op' = [op EXCEPT ![s] = NoOp]
    /\ UNCHANGED <<heap, diskVars, writer, globalId, cpVars, inMemory, ghosts, exposed>>

\* A compaction moves the rows behind the first one it removes.
AlignedAfterCompact(t) ==
    Min({aligned[t]} \cup {i - 1 : i \in {j \in DOMAIN heap[t] : ~Visible(SeeAll(TxnIdStart), heap[t][j])}})

\* maybe_cleanup_inner for one table: more than 30% dead rows.
Cleanup(s, t) ==
    LET dead    == Len(heap[t]) - Cardinality({i \in DOMAIN heap[t] : heap[t][i].del >= TxnIdStart})
        compact == 10 * dead > 3 * Len(heap[t]) /\ ~HasVersionAbove(heap[t], op[s].watermark)
    IN
    /\ pc[s] = "cleanup" /\ t \in op[s].touched
    /\ heap' = IF compact THEN [heap EXCEPT ![t] = Rebuilt(@)] ELSE heap
    /\ aligned' = IF compact THEN [aligned EXCEPT ![t] = AlignedAfterCompact(t)] ELSE aligned
    /\ IF op[s].touched = {t}
       THEN Goto(s, "idle") /\ op' = [op EXCEPT ![s] = NoOp]
       ELSE op' = [op EXCEPT ![s].touched = @ \ {t}] /\ UNCHANGED pc
    /\ UNCHANGED <<tmVars, diskVars, writer, globalId, cpVars, inMemory, truth, boots, rounds, exposed>>

\* ROLLBACK, or a COMMIT with nothing to do: the marks go, appended rows stay pending.
Rollback(s) ==
    /\ pc[s] = "open"
    /\ Abort(s)
    /\ heap' = [t \in Tab |-> RevertAllDeletes(heap[t], op[s].txnId)]
    /\ Goto(s, "idle")
    /\ op' = [op EXCEPT ![s] = NoOp]
    /\ UNCHANGED <<diskVars, writer, globalId, cpVars, inMemory, ghosts, exposed>>

-----------------------------------------------------------------------------
(* A checkpoint: run_auto_checkpoint or operator_checkpoint.               *)

\* The id that the files will stand for.
CpBegin(c) ==
    /\ cp[c].pc = "idle" /\ boots + rounds < MaxEvent
    /\ rounds' = rounds + 1
    /\ cp' = [cp EXCEPT ![c].pc = "watermark", ![c].boundary = globalId]
    /\ UNCHANGED <<tmVars, heap, diskVars, writer, globalId, cpId, inMemory, pc, op, truth, aligned, boots, exposed>>

CpWatermark(c) ==
    /\ cp[c].pc = "watermark"
    /\ cp' = [cp EXCEPT ![c].pc = "tables", ![c].watermark = CompactWatermark]
    /\ UNCHANGED <<tmVars, heap, diskVars, writer, globalId, cpId, inMemory, pc, op, ghosts, exposed>>

\* Mutant: pending and recent versions do not keep a table from its checkpoint.
CpGateOpen_Always(c, t) == TRUE

\* data_table_t::compact refuses when a stamp is above the watermark.
CpGateOpen(c, t) == ~HasVersionAbove(heap[t], cp[c].watermark)

KeysOf(rows) == [i \in DOMAIN rows |-> rows[i].key]

\* The file holds rows whose records are above its id, or lacks the mark of a DELETE
\* whose record is below it.
Ahead(c, t) ==
    \E i \in DOMAIN wal : wal[i].tab = t /\ wal[i].id > cp[c].boundary /\ wal[i].txn \in CommittedTxns(wal)

Straddled(t) == \E s \in Session : pc[s] = "delete" /\ op[s].tab = t

MetAtCheckpoint(c, tabs) ==
    Met(\E t \in tabs : Ahead(c, t), "ahead") \cup Met(\E t \in tabs : Straddled(t), "straddled")

\* The files after the tables of `written` got a new one, the ids after those of
\* `sealed` got their sidecar.
FilesAfter(written) == [t \in Tab |-> IF t \in written THEN KeysOf(Rebuilt(heap[t])) ELSE image[t]]

IdsAfter(c, sealed) == [t \in Tab |-> IF t \in sealed THEN cp[c].boundary ELSE sidecar[t]]

\* checkpoint_inner of the agent that owns the tables.  A table in memory is passed
\* over, one whose gate is closed is left for a later round.  The others are compacted
\* and written: file with header swap, sidecar by rename, ids; or out of memory
\* (failed), which leaves file and ids as they were.  The floor is the minimum of
\* prev_checkpoint_wal_id_ over all files, -1 the max() sentinel.
CpTables(c, failed) ==
    LET open == {t \in Disk : CpGateOpen(c, t)}
        done == open \ failed
        ids  == [t \in Tab |-> IF t \in done THEN [current |-> cp[c].boundary, prev |-> cpId[t].current]
                               ELSE cpId[t]]
    IN
    /\ cp[c].pc = "tables" /\ failed \subseteq open
    /\ heap' = [t \in Tab |-> IF t \in open THEN Rebuilt(heap[t]) ELSE heap[t]]
    /\ image' = FilesAfter(done) /\ headed' = headed \cup done
    /\ sidecar' = IdsAfter(c, done)
    /\ cpId' = ids
    /\ cp' = [cp EXCEPT ![c].pc = "truncate",
                        ![c].floor = IF Disk = {} THEN -1 ELSE Min({ids[t].prev : t \in Disk})]
    /\ aligned' = [t \in Tab |-> CASE t \in done   -> Len(Rebuilt(heap[t]))
                                   [] t \in failed -> AlignedAfterCompact(t)
                                   [] OTHER       -> aligned[t]]
    /\ exposed' = exposed \cup MetAtCheckpoint(c, done)
    /\ UNCHANGED <<tmVars, wal, flushed, seg, writer, globalId, inMemory, pc, op, truth, boots, rounds>>

\* Mutant: everything the checkpoint stands for may go.
TruncateFloor_Boundary(c, builds) == cp[c].boundary

\* checkpoint_all: nothing goes while a table lives in memory only, otherwise the
\* minimum of the previous ids; truncate_before clamps it to the start of the oldest
\* CREATE INDEX build (active_build_start_positions_).
TruncateFloor(c, builds) ==
    IF inMemory # {} \/ cp[c].floor = -1 THEN 0 ELSE Min({cp[c].floor} \cup builds)

\* truncate_before of the worker: every segment but the writer's whose last record is
\* at or below the floor.
Truncated(floor) ==
    LET goes(r) == /\ ~(writer /\ r.seg = seg)
                   /\ \A i \in DOMAIN wal : wal[i].seg = r.seg => wal[i].id <= floor
    IN  SelectSeq(wal, LAMBDA r : ~goes(r))

CpTruncate(c, builds) ==
    LET floor == TruncateFloor(c, builds)
        left  == IF floor > 0 THEN Truncated(floor) ELSE wal
    IN
    /\ cp[c].pc = "truncate"
    /\ wal' = left
    /\ flushed' = flushed - (Len(wal) - Len(left))
    /\ cp' = [cp EXCEPT ![c] = NoCp]
    /\ UNCHANGED <<tmVars, heap, seg, image, headed, sidecar, writer, globalId, cpId, inMemory, pc, op, ghosts, exposed>>

-----------------------------------------------------------------------------
(* Crash and start.                                                        *)

\* Everything that is not in a file is lost; the start loads and replays before it
\* takes statements.  The files are given: a crash may hit between two of them.  A file
\* without a checkpoint does not load; its table is rebuilt in memory from the log.
Restart(files, written, ids, n) ==
    LET log      == OnDisk(n)
        rec(t)   == Replay(log, t, files[t], ids[t])
        frontier == MaxCommitIdIn(log)
    IN
    /\ boots + rounds < MaxEvent
    /\ \A t \in Tab : rec(t).ok
    /\ boots' = boots + 1
    /\ wal' = log /\ flushed' = n
    /\ seg' = Max({0} \cup {log[i].seg : i \in DOMAIN log})
    /\ writer' = FALSE /\ globalId' = MaxIdIn(log)
    /\ image' = files /\ headed' = written /\ sidecar' = ids
    /\ inMemory' = Tab \ written
    /\ heap' = [t \in Tab |-> rec(t).rows]
    /\ aligned' = [t \in Tab |-> Len(rec(t).rows)]
    /\ cpId' = [t \in Tab |-> [current |-> ids[t], prev |-> 0]]
    /\ cp' = [c \in Checkpointer |-> NoCp]
    /\ pc' = [s \in Session |-> "idle"] /\ op' = [s \in Session |-> NoOp]
    /\ nextTxnId' = 0 /\ currentTs' = Max({1, frontier + 1}) /\ horizon' = frontier
    /\ active' = [s \in Session |-> NoTxn] /\ inFlight' = {} /\ phase' = "serving"
    /\ UNCHANGED <<truth, rounds>>

Crash(n) ==
    /\ Restart(image, headed, sidecar, n)
    /\ exposed' = exposed \cup Met(Overtaken(OnDisk(n), sidecar), "overtaken")

\* The crash hits checkpoint_inner: some tables have file and sidecar, and the next
\* one has its new file but not yet the sidecar.
CrashInCheckpoint(c, sealed, t, n) ==
    /\ cp[c].pc = "tables"
    /\ sealed \cup {t} \subseteq Disk /\ t \notin sealed
    /\ \A u \in sealed \cup {t} : CpGateOpen(c, u)
    /\ Restart(FilesAfter(sealed \cup {t}), headed \cup sealed \cup {t}, IdsAfter(c, sealed), n)
    /\ exposed' = exposed \cup Met(Overtaken(OnDisk(n), IdsAfter(c, sealed)), "overtaken")
                          \cup MetAtCheckpoint(c, sealed)
                          \cup Met(RecordsToReplay(OnDisk(n), t, sidecar[t]) # <<>>, "window")

-----------------------------------------------------------------------------
Statement(s) ==
    \/ Begin(s)
    \/ \E t \in Tab : \E k \in Key[t] : Insert(s, t, k)
    \/ \E t \in Tab : \E p \in DOMAIN heap[t] : DeleteLog(s, t, p)
    \/ DeleteMark(s)
    \/ \E t \in Tab : \E k \in Key[t], p \in DOMAIN heap[t] : UpdateStore(s, t, p, k)
    \/ UpdateLog(s)

EndOfTxn(s) ==
    \/ CommitStamp(s) \/ Marker(s) \/ PublishCommit(s)
    \/ \E t \in Tab : Cleanup(s, t)
    \/ Rollback(s)

Checkpoint(c) ==
    \/ CpBegin(c) \/ CpWatermark(c)
    \/ \E failed \in SUBSET Tab : CpTables(c, failed)
    \/ \E builds \in {{}} \cup {{b} : b \in 0 .. globalId} : CpTruncate(c, builds)

RecNext ==
    \/ \E s \in Session : Statement(s) \/ EndOfTxn(s)
    \/ \E c \in Checkpointer : Checkpoint(c)
    \/ \E n \in flushed .. Len(wal) :
          \/ Crash(n)
          \/ \E c \in Checkpointer, t \in Tab, sealed \in SUBSET Tab : CrashInCheckpoint(c, sealed, t, n)

RecSpec == RecInit /\ [][RecNext]_vars

\* The runs that meet none of the weaknesses.
TameSpec == RecInit /\ [][RecNext /\ exposed' = {}]_vars

-----------------------------------------------------------------------------
\* Type invariant: ids and flushed records stay within the log and its ids.
RecTypeOK ==
    /\ TypeOK
    /\ flushed \in 0 .. Len(wal)
    /\ globalId \in 0 .. MaxWalId /\ boots + rounds \in 0 .. MaxEvent
    /\ \A t \in Tab : sidecar[t] <= MaxWalId /\ aligned[t] \in 0 .. Len(heap[t])
    /\ \A s \in Session : op[s].touched \subseteq Tab
    /\ exposed \subseteq {"reused", "overtaken", "shifted", "unsettled", "ahead", "straddled", "window"}

\* A crash now and a start give back exactly the committed contents of every table:
\* the rows of every transaction whose marker is durable and of no other.
RecoveryExact ==
    \A t \in Tab, n \in flushed .. Len(wal) :
        Recovered(t, n).ok /\ Contents(Recovered(t, n).rows) = truth[t]
=============================================================================
