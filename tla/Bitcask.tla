------------------------------ MODULE Bitcask ------------------------------
(***************************************************************************)
(* The on-disk hash index (bitcask_index_disk_t): segment files with a     *)
(* record per changed key, a hash table of references into them, the log   *)
(* of transaction frames with its applied mark, the merge of old segments  *)
(* on a thread of its own, power failures and the recovery.                *)
(*                                                                         *)
(* The index agent applies one batch at a time under mutex_; op is the     *)
(* batch.  The merge takes mutex_ at its start and at its end and works    *)
(* without it in between.  A step ends where a crash makes a difference.   *)
(* Rows are numbered in the order of their insertion and inserted once.    *)
(* Transaction ids start again at every boot: a frame and a commit marker  *)
(* carry the boot that wrote them as a ghost, the code sees the id only.   *)
(***************************************************************************)
EXTENDS Integers, FiniteSetsExt, SequencesExt

CONSTANTS
    Key,           \* indexed values
    SegmentLimit,  \* segment_record_limit_
    SegWord,       \* number of segment ids, 2^64 in the code
    RefWord,       \* number of segment ids a hash entry can hold, 2^32 in the code
    MaxSegment,    \* bound on segment ids
    MaxRow,        \* bound on rows
    MaxFrame,      \* bound on frames
    MaxCrash       \* bound on crashes

ASSUME BitcaskAssumption ==
    /\ {SegmentLimit, SegWord, RefWord, MaxSegment, MaxRow, MaxFrame} \subseteq Nat \ {0}
    /\ MaxCrash \in Nat /\ MaxSegment < RefWord /\ RefWord < SegWord

VARIABLES
    segs,      \* segment files: id -> sequence of records
    synced,    \* records of the active segment that an fsync has covered
    hash,      \* hash_index_: key -> place of its record
    active,    \* active_segment_id_
    nextId,    \* next_segment_id_
    current,   \* the file CURRENT
    manifest,  \* the file bitcask.merge
    log,       \* the file bitcask.txn.log
    marks,     \* what bitcask.txn.applied has held, in frames; the file has the largest
    op,        \* the batch the agent is applying
    merge,     \* the merge in progress
    queue,     \* merges enqueued
    open,      \* transactions with frames whose commit is undecided
    markers,   \* commit markers of the WAL, in order
    status,    \* "up", "down" or "damaged" (see Buried)
    leaked,    \* ghost: entries changed for transactions that have not committed
    stray,     \* ghost: keys with a reference to a record that a crash has taken
    crashes

diskVars == <<segs, synced, current, manifest, log, marks>>
memVars  == <<hash, active, nextId>>
vars == <<diskVars, memVars, op, merge, queue, open, markers, status, leaked, stray, crashes>>

NoRef      == [seg |-> 0, off |-> 0]
NoManifest == [merged |-> 0, removed |-> {}]
NoOp       == [pc |-> "idle", txn |-> 0, kind |-> "insert", todo |-> <<>>]
NoMerge    == [phase |-> "none", merged |-> 0, removed |-> {}, refs |-> <<>>, file |-> <<>>]

Torn      == [kind |-> "torn"]
Live(k, rows) == [kind |-> "value", key |-> k, rows |-> rows]
Tombstone(k)  == [kind |-> "tombstone", key |-> k]
TornFrame == [txn |-> 0, boot |-> 0, kind |-> "torn", values |-> <<>>]

-----------------------------------------------------------------------------
(* Reading.                                                                *)

\* read_rows_at, with the references of key k; find and current_rows.
RowsAt(sf, ref) ==
    IF /\ ref # NoRef
       /\ ref.seg \in DOMAIN sf /\ ref.off \in DOMAIN sf[ref.seg]
       /\ sf[ref.seg][ref.off].kind = "value"
    THEN sf[ref.seg][ref.off].rows
    ELSE {}

Find(k) == RowsAt(segs, hash[k])

-----------------------------------------------------------------------------
(* Writing.  A store is the part of the state a record changes.            *)

Store == [segs |-> segs, hash |-> hash, active |-> active, nextId |-> nextId, queue |-> queue]

Records(seg) == Len(SelectSeq(seg, LAMBDA r : r # Torn))

\* The test of rotate_active_segment_if_needed.
Full(st) == Records(st.segs[st.active]) >= SegmentLimit

\* rotate_active_segment.
Rotated(st) ==
    [st EXCEPT !.segs = [id \in DOMAIN @ \cup {st.nextId} |-> IF id = st.nextId THEN <<>> ELSE @[id]],
               !.active = st.nextId,
               !.nextId = (@ + 1) % SegWord,
               !.queue = @ + 1]

\* append_snapshot and append_tombstone, behind the rotation.
Written(st, k, rows) ==
    LET rec == IF rows = {} THEN Tombstone(k) ELSE Live(k, rows)
        ref == [seg |-> st.active % RefWord, off |-> Len(st.segs[st.active]) + 1]
    IN  [st EXCEPT !.segs[st.active] = Append(@, rec),
                   !.hash[k] = IF rows = {} THEN NoRef ELSE ref]

\* The rows of a key after an insert or a delete of row r.
RowsAfter(st, kind, k, r) ==
    LET rows == RowsAt(st.segs, st.hash[k])
    IN  IF kind = "insert" THEN rows \cup {r} ELSE rows \ {r}

\* An insert of a row that is there, a delete of one that is not: no record.
Changes(st, kind, v) == RowsAfter(st, kind, v[1], v[2]) # RowsAt(st.segs, st.hash[v[1]])

\* insert and remove of recovery: all of it at once.
Applied(st, kind, v) ==
    IF Changes(st, kind, v)
    THEN LET into == IF Full(st) THEN Rotated(st) ELSE st
         IN  Written(into, v[1], RowsAfter(st, kind, v[1], v[2]))
    ELSE st

-----------------------------------------------------------------------------
(* The batches of transactions.                                            *)

Range1(s) == {s[i] : i \in DOMAIN s}

FramesOf(kind) == {i \in DOMAIN log : log[i].kind = kind}

\* The boots are told apart by the crashes before them.
Boot == crashes

ThisBoot(i) == log[i].boot = Boot

\* The frames of committed transactions, and the frames that share their id with a
\* committed transaction of another boot.
Committed(i) == [txn |-> log[i].txn, boot |-> log[i].boot] \in Range1(markers)
Mistaken(i)  == \E m \in Range1(markers) : m.txn = log[i].txn /\ m.boot # log[i].boot

\* The entries that a set of frames names.
ValuesOf(frames) == UNION {Range1(log[i].values) : i \in frames}

CommittedValues(kind) == ValuesOf({i \in FramesOf(kind) : Committed(i)})

LastRow == Max({0} \cup {v[2] : v \in ValuesOf(DOMAIN log)})

\* A transaction deletes rows of committed transactions and its own, each once.
Deletable(t) ==
    ValuesOf({i \in FramesOf("insert") : Committed(i) \/ (ThisBoot(i) /\ log[i].txn = t)})
    \ ValuesOf({i \in FramesOf("delete") : Committed(i) \/ (ThisBoot(i) /\ log[i].txn \in open \cup {t})})

Unlocked == op.pc = "idle" /\ merge.phase # "remove"

\* The ids that this boot has not used on the index: next_transaction_id_ starts at the
\* same id in every boot, and transactions that leave the index alone take ids as well.
FreshTxns ==
    (1 .. 1 + Max({0} \cup {log[i].txn : i \in DOMAIN log}))
    \ {log[i].txn : i \in {j \in DOMAIN log : ThisBoot(j)}}

\* append_txn_record_unlocked: the frame is synced before the segments change.
StartBatch(t, kind, values) ==
    /\ status = "up" /\ Unlocked
    /\ Len(log) < MaxFrame
    /\ log' = Append(log, [txn |-> t, boot |-> Boot, kind |-> kind, values |-> values])
    /\ op' = [pc |-> "apply", txn |-> t, kind |-> kind, todo |-> values]
    /\ open' = open \cup {t}
    /\ UNCHANGED <<segs, synced, current, manifest, marks, memVars, merge, queue, markers,
                   status, leaked, stray, crashes>>

\* apply_txn_inserts for one row or for two.
ApplyInserts ==
    \E t \in FreshTxns : \E n \in 1 .. 2 : \E ks \in [1 .. n -> Key] :
        /\ LastRow + n <= MaxRow
        /\ StartBatch(t, "insert", [i \in 1 .. n |-> <<ks[i], LastRow + i>>])

\* apply_txn_deletes; a transaction commits its inserts first, then its deletes.
ApplyDeletes ==
    \E t \in FreshTxns \cup
             {u \in open : \A i \in FramesOf("delete") : ThisBoot(i) => log[i].txn # u} :
    \E v \in Deletable(t) : StartBatch(t, "delete", <<v>>)

\* The next entry needs no record.
SkipValue ==
    /\ op.todo # <<>> /\ ~Changes(Store, op.kind, Head(op.todo))
    /\ op' = [op EXCEPT !.todo = Tail(@)]
    /\ leaked' = leaked \cup {Head(op.todo)}
    /\ UNCHANGED <<diskVars, memVars, merge, queue, open, markers, status, stray, crashes>>

\* Mutant: the count of synced records is the one of the old segment.
Rotate_KeepSynced ==
    LET st == Rotated(Store) IN
    /\ op.todo # <<>> /\ Changes(Store, op.kind, Head(op.todo))
    /\ Full(Store) /\ nextId <= MaxSegment
    /\ segs' = st.segs /\ active' = st.active /\ nextId' = st.nextId /\ queue' = st.queue
    /\ synced' = Len(segs[active])
    /\ UNCHANGED <<hash, current, manifest, log, marks, op, merge, open, markers, status,
                   leaked, stray, crashes>>

\* rotate_active_segment up to the new file: the old segment is synced first.
Rotate ==
    LET st == Rotated(Store) IN
    /\ op.todo # <<>> /\ Changes(Store, op.kind, Head(op.todo))
    /\ Full(Store) /\ nextId <= MaxSegment
    /\ segs' = st.segs /\ active' = st.active /\ nextId' = st.nextId /\ queue' = st.queue
    /\ synced' = 0
    /\ UNCHANGED <<hash, current, manifest, log, marks, op, merge, open, markers, status,
                   leaked, stray, crashes>>

\* The record and its reference; CURRENT names the active segment by now.
WriteValue ==
    LET v  == Head(op.todo)
        st == Written(Store, v[1], RowsAfter(Store, op.kind, v[1], v[2]))
    IN  /\ op.todo # <<>> /\ Changes(Store, op.kind, v)
        /\ ~Full(Store)
        /\ segs' = st.segs /\ hash' = st.hash
        /\ current' = active
        /\ op' = [op EXCEPT !.todo = Tail(@)]
        /\ leaked' = leaked \cup {v}
        /\ UNCHANGED <<synced, active, nextId, manifest, log, marks, merge, queue, open,
                       markers, status, stray, crashes>>

\* force_flush_unlocked and write_applied_log_offset; the latter may fail, which the
\* commit reports, so that the transaction aborts.
FinishBatch ==
    /\ op.pc = "apply" /\ op.todo = <<>>
    /\ op' = NoOp
    /\ synced' = Len(segs[active])
    /\ \/ marks' = marks \cup {Len(log)} /\ UNCHANGED open
       \/ open' = open \ {op.txn} /\ UNCHANGED marks
    /\ UNCHANGED <<segs, current, manifest, log, memVars, merge, queue, markers, status,
                   leaked, stray, crashes>>

\* The WAL marker of a transaction follows its index commits.
WalCommit(t) ==
    /\ status = "up" /\ t \in open /\ t # op.txn
    /\ markers' = Append(markers, [txn |-> t, boot |-> Boot])
    /\ open' = open \ {t}
    /\ leaked' = leaked \ ValuesOf({i \in DOMAIN log : ThisBoot(i) /\ log[i].txn = t})
    /\ UNCHANGED <<diskVars, memVars, op, merge, queue, status, stray, crashes>>

-----------------------------------------------------------------------------
(* merge_immutable_segments.                                               *)

Immutable == {id \in DOMAIN segs : id < active}

\* The part under the first lock: what to merge, and into which segment.
MergeCollect ==
    LET keys == {k \in Key : hash[k] # NoRef /\ hash[k].seg < active % RefWord} IN
    /\ status = "up" /\ Unlocked
    /\ queue > 0 /\ merge = NoMerge
    /\ IF Immutable = {} \/ keys = {}
       THEN queue' = queue - 1 /\ UNCHANGED merge
       ELSE /\ merge' = [phase |-> "build", merged |-> (Min(Immutable) + SegWord - 1) % SegWord,
                         removed |-> Immutable, refs |-> [k \in keys |-> hash[k]], file |-> <<>>]
            /\ UNCHANGED queue
    /\ UNCHANGED <<diskVars, memVars, op, open, markers, status, leaked, stray, crashes>>

\* The keys whose record the merge can still read.
MergeKeys == {k \in DOMAIN merge.refs : RowsAt(segs, merge.refs[k]) # {}}

\* The temporary file is written and synced and the manifest published; the keys come in
\* the order of the hash table, which may be any.
MergeBuild ==
    /\ merge.phase = "build"
    /\ IF MergeKeys = {}
       THEN merge' = NoMerge /\ queue' = queue - 1 /\ UNCHANGED manifest
       ELSE /\ manifest' = [merged |-> merge.merged, removed |-> merge.removed]
            /\ \E keys \in SetToSeqs(MergeKeys) :
                  merge' = [merge EXCEPT !.phase = "rename",
                                !.file = [i \in DOMAIN keys |-> Live(keys[i], RowsAt(segs, merge.refs[keys[i]]))]]
            /\ UNCHANGED queue
    /\ UNCHANGED <<segs, synced, current, log, marks, memVars, op, open, markers, status,
                   leaked, stray, crashes>>

\* The temporary file becomes a segment.
MergeRename ==
    /\ merge.phase = "rename"
    /\ segs' = [id \in DOMAIN segs \cup {merge.merged} |->
                    IF id = merge.merged THEN merge.file ELSE segs[id]]
    /\ merge' = [merge EXCEPT !.phase = "swap"]
    /\ UNCHANGED <<synced, current, manifest, log, marks, memVars, op, queue, open, markers,
                   status, leaked, stray, crashes>>

\* The reference of a key whose record is the i-th of the merged segment.
Swapped(k, i) ==
    IF hash[k] = merge.refs[k] THEN [seg |-> merge.merged % RefWord, off |-> i] ELSE hash[k]

\* The part under the second lock, up to hash_index_->sync.
MergeSwap ==
    /\ status = "up" /\ merge.phase = "swap" /\ op.pc = "idle"
    /\ hash' = [k \in Key |->
                    IF \E i \in DOMAIN merge.file : merge.file[i].key = k
                    THEN Swapped(k, CHOOSE i \in DOMAIN merge.file : merge.file[i].key = k)
                    ELSE hash[k]]
    /\ merge' = [merge EXCEPT !.phase = "remove"]
    /\ UNCHANGED <<diskVars, active, nextId, op, queue, open, markers, status, leaked, stray, crashes>>

\* The merged segments go one by one, oldest first, still under the lock.
MergeRemove ==
    /\ merge.phase = "remove"
    /\ IF merge.removed = {}
       THEN merge' = NoMerge /\ queue' = queue - 1 /\ UNCHANGED segs
       ELSE LET id == Min(merge.removed) IN
            /\ segs' = [d \in DOMAIN segs \ {id} |-> segs[d]]
            /\ merge' = [merge EXCEPT !.removed = @ \ {id}]
            /\ UNCHANGED queue
    /\ UNCHANGED <<synced, current, manifest, log, marks, memVars, op, open, markers, status,
                   leaked, stray, crashes>>

-----------------------------------------------------------------------------
(* Power failure and recovery.                                             *)

\* The places of the records of key k, and the last of them in the order of the load.
Places(sf, k) ==
    UNION {{<<id, i>> : i \in {j \in DOMAIN sf[id] : sf[id][j] # Torn /\ sf[id][j].key = k}} :
               id \in DOMAIN sf}

LastPlace(sf, k) ==
    CHOOSE p \in Places(sf, k) :
        \A q \in Places(sf, k) : q[1] < p[1] \/ (q[1] = p[1] /\ q[2] <= p[2])

\* What a crash leaves of the active segment: the synced records, any of the later
\* ones up to a point, and perhaps a piece of the next.
Survivors ==
    LET seg == segs[active] IN
    {SubSeq(seg, 1, n) : n \in synced .. Len(seg)} \cup
    {Append(SubSeq(seg, 1, n), Torn) : n \in synced .. Len(seg) - 1}

EndsTorn == log # <<>> /\ Last(log) = TornFrame

\* The directory is not synced after a rename: an older applied mark may come back.
Crash ==
    /\ status = "up" /\ crashes < MaxCrash
    /\ \E left \in Survivors :
          LET sf == [segs EXCEPT ![active] = left] IN
          /\ segs' = sf
          /\ stray' = stray \cup {k \in Key : hash[k].seg = active % RefWord /\ Places(sf, k) = {}}
    /\ \E n \in marks : marks' = {m \in marks : m <= n}
    /\ \/ UNCHANGED log
       \/ /\ Unlocked /\ Len(log) < MaxFrame
          /\ ~EndsTorn
          /\ log' = Append(log, TornFrame)
    /\ status' = "down"
    /\ op' = NoOp /\ merge' = NoMerge /\ queue' = 0 /\ open' = {}
    /\ crashes' = crashes + 1
    /\ UNCHANGED <<synced, current, manifest, memVars, markers, leaked>>

\* Mutant: the merged segment is taken for granted.
Cleaned_Always == [id \in DOMAIN segs \ manifest.removed |-> segs[id]]

\* apply_merge_recovery_cleanup.
Cleaned ==
    IF manifest # NoManifest /\ manifest.merged \in DOMAIN segs
    THEN [id \in DOMAIN segs \ manifest.removed |-> segs[id]]
    ELSE segs

\* The references after load_from_disk.  The table keeps those of keys without a record.
Loaded(sf) ==
    [k \in Key |->
        IF Places(sf, k) = {} THEN hash[k]
        ELSE LET p == LastPlace(sf, k)
             IN  IF sf[p[1]][p[2]].kind = "value"
                 THEN [seg |-> p[1] % RefWord, off |-> p[2]]
                 ELSE NoRef]

\* A piece of a record with more behind it: the checksum fails, or what is behind is taken
\* for the rest of the record and lost.
Buried(s, torn) == \E i \in 1 .. Len(s) - 1 : s[i] = torn

\* Mutant: every frame is replayed.
Gated_All(gate, f) == TRUE

\* The recover gate: it compares ids.
Gated(gate, f) == f.txn \in gate

\* recover_txn_log_unlocked for the frames from applied on.
Recovered(st, gate) ==
    FoldLeft(LAMBDA s, f : IF Gated(gate, f)
                           THEN FoldLeft(LAMBDA u, v : Applied(u, f.kind, v), s, f.values)
                           ELSE s,
             st, SubSeq(log, Max(marks) + 1, Len(log)))

\* committed_txn_ids_: the ids in the markers the WAL still has, of whatever boot;
\* checkpoints drop the oldest.
Gates == {{m.txn : m \in Range1(SubSeq(markers, n, Len(markers)))} : n \in 1 .. Len(markers) + 1}

\* load_from_disk, open_active_segment and recover_txn_log_unlocked.  A load behind the
\* third merge, which would number its segments from 0 again, is past the bound.
Reopen ==
    LET sf   == Cleaned
        act  == IF current \in DOMAIN sf THEN current ELSE Max(DOMAIN sf)
        st   == [segs |-> sf, hash |-> Loaded(sf), active |-> act,
                 nextId |-> (Max(DOMAIN sf) + 1) % SegWord, queue |-> 0]
    IN  /\ status = "down" /\ Max(DOMAIN sf) <= MaxSegment
        /\ manifest' = IF manifest.merged \in DOMAIN segs THEN manifest ELSE NoManifest
        /\ IF Buried(SubSeq(log, Max(marks) + 1, Len(log)), TornFrame) \/ \E id \in DOMAIN sf : Buried(sf[id], Torn)
           THEN /\ status' = "damaged"
                /\ UNCHANGED <<segs, synced, current, log, marks, memVars, queue>>
           ELSE \E gate \in Gates :
                LET rec == Recovered(st, gate) IN
                /\ rec.nextId <= MaxSegment + 1
                /\ status' = "up"
                /\ segs' = rec.segs /\ hash' = rec.hash /\ active' = rec.active
                /\ nextId' = rec.nextId /\ queue' = rec.queue
                /\ current' = rec.active
                /\ synced' = Len(rec.segs[rec.active])
                /\ marks' = marks \cup {IF EndsTorn THEN Len(log) - 1 ELSE Len(log)}
                /\ UNCHANGED log
        /\ UNCHANGED <<op, merge, open, markers, leaked, stray, crashes>>

-----------------------------------------------------------------------------

BitcaskInit ==
    /\ segs = [id \in {2} |-> <<>>] /\ synced = 0
    /\ hash = [k \in Key |-> NoRef]
    /\ active = 2 /\ nextId = 3 /\ current = 2
    /\ manifest = NoManifest
    /\ log = <<>> /\ marks = {0}
    /\ op = NoOp /\ merge = NoMerge /\ queue = 0
    /\ open = {} /\ markers = <<>>
    /\ status = "up" /\ leaked = {} /\ stray = {} /\ crashes = 0

BitcaskNext ==
    \/ ApplyInserts \/ ApplyDeletes
    \/ SkipValue \/ Rotate \/ WriteValue \/ FinishBatch
    \/ \E t \in open : WalCommit(t)
    \/ MergeCollect \/ MergeBuild \/ MergeRename \/ MergeSwap \/ MergeRemove
    \/ Crash \/ Reopen

BitcaskSpec == BitcaskInit /\ [][BitcaskNext]_vars

-----------------------------------------------------------------------------
(* Properties.                                                             *)

Record == [kind : {"value"}, key : Key, rows : SUBSET (1 .. MaxRow)] \cup
          [kind : {"tombstone"}, key : Key] \cup {Torn}

\* Types; the active segment is a file, and what is synced is in it.
BitcaskTypeOK ==
    /\ DOMAIN segs \subseteq 0 .. SegWord - 1
    /\ \A id \in DOMAIN segs : segs[id] \in Seq(Record)
    /\ active \in DOMAIN segs /\ synced \in 0 .. Len(segs[active])
    /\ hash \in [Key -> [seg : 0 .. RefWord - 1, off : Nat]]
    /\ marks \subseteq 0 .. Len(log)
    /\ status \in {"up", "down", "damaged"}

\* The states in which find can take its shared lock.
Readable == status = "up" /\ Unlocked

\* What the index should hold.
Wanted == CommittedValues("insert") \ CommittedValues("delete")

\* What is missing and what is too much, apart from the entries that an uncommitted
\* transaction has changed in the segments (leaked) and from stray keys.
Missing == {v \in Wanted \ leaked : v[1] \notin stray /\ v[2] \notin Find(v[1])}
Surplus == {v \in (Key \ stray) \X (1 .. MaxRow) : v[2] \in Find(v[1])} \ (Wanted \cup leaked)

\* The entries of frames that the recover gate can let pass for a transaction of another
\* boot: an uncommitted frame, or one of which no marker is left to say what followed.
Disputed == ValuesOf({i \in DOMAIN log : Mistaken(i)})

\* Every segment has an id that a hash entry can hold: the first two merges go to the
\* ids 1 and 0, the third to the largest one.
Numbered == DOMAIN segs \subseteq 0 .. RefWord - 1

\* Every row that committed transactions have inserted and not deleted is found under its
\* key, whatever rotations, merges, crashes and recoveries have happened, up to the
\* third merge; left out are leaked, stray and disputed entries.
CommittedRowsFound == Readable /\ Numbered => Missing \subseteq Disputed

\* Nothing else is found: no deleted row, and no row of a transaction whose frame reached
\* the log and whose entries did not reach the segments.  That is what the recover gate
\* is for; left out are leaked, stray and disputed entries.
NothingElseFound == Readable => Surplus \subseteq Disputed
=============================================================================
