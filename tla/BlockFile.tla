----------------------------- MODULE BlockFile -----------------------------
(***************************************************************************)
(* The .otbx file of one table: blocks, free list, metadata and the two    *)
(* headers (single_file_block_manager_t), the column segments that live in *)
(* its blocks, compaction, the checkpoint with its .prev copy, crashes and *)
(* the load at the next start.                                             *)
(*                                                                         *)
(* The agent that owns the table does all of this, one message at a time.  *)
(* A checkpoint is one message; it is cut into steps where a crash or a    *)
(* failure would find the file in another state.                           *)
(*                                                                         *)
(* What a segment holds is a token.  Segments of kind "wide" do not        *)
(* compress and get a block of their own, those of kind "narrow" are       *)
(* compressed and packed, "text" segments have no raw copy and stay in     *)
(* memory until a load finds them in the file.                             *)
(***************************************************************************)
EXTENDS Integers, SequencesExt, FiniteSetsExt

CONSTANTS
    Kind,        \* the kinds of column segments the table has
    Capacity,    \* packed segments that fit in a partial block
    MaxBlock,    \* bound on max_block_
    MaxToken,    \* bound on the segments ever appended
    MaxSegment,  \* bound on the segments of the table
    MaxEvent     \* bound on compactions, checkpoints, failures and crashes

ASSUME BlockFileAssumption ==
    /\ Kind \subseteq {"wide", "narrow", "text"}
    /\ {Capacity, MaxBlock, MaxToken, MaxSegment, MaxEvent} \subseteq Nat \ {0}

VARIABLES
    db,       \* the block manager and its file
    live,     \* the column segments of the current collection
    ck,       \* the running checkpoint: its metadata and partial blocks
    prev,     \* the .prev copy of the file, or NoCopy
    pc,       \* where the agent is
    image,    \* ghost: what the last header stands for
    atRisk,   \* ghost: blocks of that image that a crash may find overwritten
    tokens,   \* ghost: segments appended so far
    events,   \* ghost: compactions, checkpoints, failures and crashes so far
    exposed   \* ghost: which known weakness of the design was met

vars == <<db, live, ck, prev, pc, image, atRisk, tokens, events, exposed>>

Block == 0 .. MaxBlock - 1

None == -1      \* INVALID_INDEX, and the block id of a segment in memory

\* What a block holds: segments by offset, data pointers, or a free list.  Torn stands
\* for a block that a crash hit between write and sync.
Content(kind, toks, ptrs, ids) == [kind |-> kind, toks |-> toks, ptrs |-> ptrs, ids |-> ids]

Torn == Content("torn", <<>>, <<>>, {})

Data(toks) == Content("data", toks, <<>>, {})

\* column_segment_t: its rows, where they are, whether it has its block to itself; and
\* the block of its validity segment.
Managed(tok, kind) ==
    [tok |-> tok, kind |-> kind, block |-> None, off |-> 1, whole |-> TRUE, bits |-> None]

BitsOf(tok) == -tok

NoCheckpoint ==
    [meta |-> None, next |-> 1, bufs |-> <<>>, partial |-> None, ptrs |-> <<>>, freeList |-> None]

NoCopy == [cur |-> <<>>, heads |-> <<>>]

\* database_header_t
Header(iteration, meta, freeList, count) ==
    [iteration |-> iteration, meta |-> meta, freeList |-> freeList, count |-> count]

-----------------------------------------------------------------------------
(* The block manager.  Operators take and give back the whole of it.       *)

\* free_block_id: the smallest free id, or one more block.
FreeBlockId(d) == IF d.free # {} THEN Min(d.free) ELSE d.max

\* Mutant: the end of the file does not move (peek_free_block_id in its place).
Taken_NotCounted(d) == IF d.free # {} THEN [d EXCEPT !.free = @ \ {Min(@)}] ELSE d

Taken(d) == IF d.free # {} THEN [d EXCEPT !.free = @ \ {Min(@)}] ELSE [d EXCEPT !.max = @ + 1]

MarkAsFree(d, ids) == [d EXCEPT !.free = @ \cup ids]

\* checksum_and_write
WriteBlock(d, b, content) == [d EXCEPT !.cur[b] = content, !.dirty = @ \cup {b}]

\* Mutant: no sync of data and metadata ahead of the header.
FileSync_Nothing(d) == d

FileSync(d) == [d EXCEPT !.dirty = {}]

\* load_existing_database: the header with the higher iteration, the first on a tie.
ActiveHeader(heads) == IF heads[1].iteration >= heads[2].iteration THEN heads[1] ELSE heads[2]

\* Mutant: the list is collected before the block that will hold it is taken.
SerializeFreeList_Early(d) ==
    IF d.free = {} THEN [db |-> d, at |-> None]
    ELSE LET b == FreeBlockId(d) IN [db |-> WriteBlock(Taken(d), b, Content("free", <<>>, <<>>, d.free)), at |-> b]

\* serialize_free_list: the metadata block of the list comes off the list first.
SerializeFreeList(d) ==
    IF d.free = {} THEN [db |-> d, at |-> None]
    ELSE LET b    == FreeBlockId(d)
             left == Taken(d)
         IN  [db |-> WriteBlock(left, b, Content("free", <<>>, <<>>, left.free)), at |-> b]

FreeListAt(cur, b) == IF b = None THEN {} ELSE cur[b].ids

-----------------------------------------------------------------------------
(* Segments.                                                               *)

\* A block id for a segment in memory, and its bytes written there.
WriteThrough(d, tok) == WriteBlock(Taken(d), FreeBlockId(d), Data(<<tok>>))

\* transition_segment_to_disk of a column segment, then of its validity segment: nothing
\* for what is in the file already, nor for text.
ColumnToDisk(acc) ==
    IF acc.seg.block # None \/ acc.seg.kind = "text" THEN acc
    ELSE [db |-> WriteThrough(acc.db, acc.seg.tok), seg |-> [acc.seg EXCEPT !.block = FreeBlockId(acc.db)]]

ValidityToDisk(acc) ==
    IF acc.seg.bits # None THEN acc
    ELSE [db |-> WriteThrough(acc.db, BitsOf(acc.seg.tok)), seg |-> [acc.seg EXCEPT !.bits = FreeBlockId(acc.db)]]

SegmentToDisk(d, seg) == ValidityToDisk(ColumnToDisk([db |-> d, seg |-> seg]))

\* transition_to_disk of the first n segments, one after the other.
NextToDisk(acc, k) ==
    LET r == SegmentToDisk(acc.db, acc.segs[k])
    IN  [db |-> r.db, segs |-> [acc.segs EXCEPT ![k] = r.seg]]

TransitionToDisk(d, segs, n) ==
    LET done[k \in 0 .. n] == IF k = 0 THEN [db |-> d, segs |-> segs] ELSE NextToDisk(done[k - 1], k)
    IN  done[n]

\* Out of memory at the pin: the id that was taken goes back to the free list.
ReclaimUnused(d) == MarkAsFree(Taken(d), {FreeBlockId(d)})

\* What a pin of the segment shows.
ReadSegment(d, seg) == IF seg.block = None THEN seg.tok ELSE d.cur[seg.block].toks[seg.off]

\* Mutant: segments in memory are not passed over.
CollectDiskBlockIds_Any(segs) == UNION {{segs[i].block, segs[i].bits} : i \in DOMAIN segs}

\* collect_disk_block_ids: blocks that a segment has for itself.
CollectDiskBlockIds(segs) ==
    (UNION {{b \in {segs[i].block} : segs[i].whole /\ segs[i].off = 1} \cup {segs[i].bits} : i \in DOMAIN segs}) \ {None}

\* flush_segment: into a block of its own when it does not compress, otherwise behind the
\* others in the partial block while that has room.
FlushSegment(d, c, seg) ==
    LET tok    == ReadSegment(d, seg)
        shares == seg.kind = "narrow" /\ c.partial # None /\ Len(c.bufs[c.partial]) < Capacity
        b      == IF shares THEN c.partial ELSE FreeBlockId(d)
        buf    == IF shares THEN Append(c.bufs[b], tok) ELSE <<tok>>
    IN  [db |-> IF shares THEN d ELSE Taken(d),
         ck |-> [c EXCEPT !.bufs = [x \in DOMAIN @ \cup {b} |-> IF x = b THEN buf ELSE @[x]],
                          !.partial = IF seg.kind = "narrow" THEN b ELSE @,
                          !.ptrs = Append(@, [kind |-> seg.kind, block |-> b, off |-> Len(buf)])]]

\* flush_partial_blocks
FlushPartialBlocks(d, c) ==
    [d EXCEPT !.cur = [b \in Block |-> IF b \in DOMAIN c.bufs THEN Data(c.bufs[b]) ELSE @[b]],
              !.dirty = @ \cup DOMAIN c.bufs]

-----------------------------------------------------------------------------
TokensOf(segs) == [i \in DOMAIN segs |-> segs[i].tok]

\* The blocks that a header stands for.
PointersOf(cur, h) == cur[h.meta].ptrs

ImageBlocks(cur, h) ==
    IF h.meta = None THEN {}
    ELSE {h.meta} \cup ({h.freeList} \ {None}) \cup {PointersOf(cur, h)[i].block : i \in DOMAIN PointersOf(cur, h)}

Active == ActiveHeader(db.heads)

Met(cond, name) == IF cond THEN {name} ELSE {}

BoundOK(d) == d.max <= MaxBlock

\* create_new_database, and an empty table over it.
FileInit ==
    /\ db = [free |-> {}, max |-> 0, iteration |-> 0, meta |-> None,
             cur |-> [b \in Block |-> Torn], dirty |-> {},
             heads |-> <<Header(0, None, None, 0), Header(0, None, None, 0)>>]
    /\ live = <<>> /\ ck = NoCheckpoint /\ prev = NoCopy /\ pc = "serving"
    /\ image = <<>> /\ atRisk = {} /\ tokens = 0 /\ events = 0 /\ exposed = {}

\* An append opens a segment in memory; behind a segment in the file it opens a new one.
AppendSegment(kind) ==
    /\ pc = "serving" /\ Len(live) < MaxSegment /\ tokens < MaxToken
    /\ tokens' = tokens + 1
    /\ live' = Append(live, Managed(tokens + 1, kind))
    /\ UNCHANGED <<db, ck, prev, pc, image, atRisk, events, exposed>>

\* The row group is full: its segments are written through.  Out of memory stops this
\* after n of them and fails the statement.
CloseRowGroup(n, oom) ==
    LET r == TransitionToDisk(db, live, n)
        d == IF oom THEN ReclaimUnused(r.db) ELSE r.db
    IN
    /\ pc = "serving" /\ n \in 0 .. Len(live)
    /\ IF oom THEN n < Len(live) /\ (live[n + 1].bits = None) ELSE n = Len(live)
    /\ oom => events < MaxEvent
    /\ <<d, r.segs>> # <<db, live>> /\ BoundOK(d)
    /\ db' = d /\ live' = r.segs
    /\ events' = IF oom THEN events + 1 ELSE events
    /\ UNCHANGED <<ck, prev, pc, image, atRisk, tokens, exposed>>

\* The collection that compact builds from the segments at the places `kept`; the row
\* groups it fills, with the first n segments, are written through.
Rebuilt(kept, n) ==
    TransitionToDisk(db, [i \in DOMAIN kept |-> Managed(live[kept[i]].tok, live[kept[i]].kind)], n)

\* data_table_t::compact: rebuild, swap, then give back the old blocks.
Compacted(kept, n) ==
    LET new == Rebuilt(kept, n)
    IN  [db |-> MarkAsFree(new.db, CollectDiskBlockIds(live)), segs |-> new.segs]

\* Blocks of the image that a compaction frees: after a load the live segments are those
\* of the image.
Reclaimed == CollectDiskBlockIds(live) \cap ImageBlocks(db.cur, Active)

\* compact from VACUUM or after a commit, its version gate open.
Compact(kept, n) ==
    LET r == Compacted(kept, n)
    IN
    /\ pc = "serving" /\ live # <<>> /\ events < MaxEvent
    /\ n \in 0 .. Len(kept) /\ BoundOK(r.db)
    /\ db' = r.db /\ live' = r.segs
    /\ atRisk' = atRisk \cup Reclaimed
    /\ events' = events + 1
    /\ UNCHANGED <<ck, prev, pc, image, tokens, exposed>>

\* Out of memory in the rebuild: the old collection stays, the blocks that the new one
\* had written belong to nobody.
CompactFails(kept, n) ==
    /\ pc = "serving" /\ events < MaxEvent
    /\ n > 0 /\ n \in 0 .. Len(kept) /\ BoundOK(Rebuilt(kept, n).db)
    /\ db' = Rebuilt(kept, n).db
    /\ events' = events + 1
    /\ UNCHANGED <<live, ck, prev, pc, image, atRisk, tokens, exposed>>

-----------------------------------------------------------------------------
(* checkpoint_inner for the table.                                         *)

\* compact, the copy to .prev (which may fail), the first metadata block.
CkBegin(kept, n, copied) ==
    LET r == IF live = <<>> THEN [db |-> db, segs |-> live] ELSE Compacted(kept, n)
    IN
    /\ pc = "serving" /\ events < MaxEvent
    /\ n \in 0 .. Len(kept) /\ BoundOK(Taken(r.db))
    /\ db' = Taken(r.db) /\ live' = r.segs
    /\ ck' = [NoCheckpoint EXCEPT !.meta = FreeBlockId(r.db)]
    /\ prev' = IF copied THEN [cur |-> r.db.cur, heads |-> r.db.heads] ELSE NoCopy
    /\ atRisk' = atRisk \cup Reclaimed
    /\ pc' = "columns" /\ events' = events + 1
    /\ UNCHANGED <<image, tokens, exposed>>

\* column_data_t::checkpoint of one segment: flushed to the buffers of the checkpoint,
\* then the live segment itself written through.
CkColumn ==
    LET f == FlushSegment(db, ck, live[ck.next])
        r == SegmentToDisk(f.db, live[ck.next])
    IN
    /\ pc = "columns" /\ ck.next \in DOMAIN live /\ BoundOK(r.db)
    /\ db' = r.db
    /\ live' = [live EXCEPT ![ck.next] = r.seg]
    /\ ck' = [f.ck EXCEPT !.next = @ + 1]
    /\ UNCHANGED <<prev, pc, image, atRisk, tokens, events, exposed>>

\* Out of memory at the pin of the flush, or at that of the write-through.  The agent
\* opens the file anew to copy .prev over it, which first cuts it to nothing; without a
\* copy it leaves the file as it is.
CkFails(flushed) ==
    LET f == FlushSegment(db, ck, live[ck.next])
    IN
    /\ pc = "columns" /\ ck.next \in DOMAIN live /\ events < MaxEvent
    /\ flushed => live[ck.next].bits = None /\ BoundOK(ReclaimUnused(f.db))
    /\ db' = IF flushed THEN ReclaimUnused(f.db) ELSE db
    /\ pc' = IF prev = NoCopy THEN "serving" ELSE "restore"
    /\ ck' = NoCheckpoint /\ events' = events + 1
    /\ UNCHANGED <<live, prev, image, atRisk, tokens, exposed>>

\* The copy is complete and .prev removed; nothing of it is synced.  Live segments written
\* through since the copy was taken lose their blocks.
Restore ==
    LET back == [db EXCEPT !.cur = prev.cur, !.heads = prev.heads, !.dirty = Block]
        gone == \E i \in DOMAIN live : \E b \in {live[i].block, live[i].bits} \ {None} : prev.cur[b] # db.cur[b]
    IN
    /\ pc = "restore"
    /\ db' = back
    /\ prev' = NoCopy /\ pc' = "serving"
    /\ atRisk' = atRisk \cup ImageBlocks(prev.cur, ActiveHeader(prev.heads))
    /\ exposed' = exposed \cup Met(gone, "rolledback")
    /\ UNCHANGED <<live, ck, image, tokens, events>>

\* flush_partial_blocks, the metadata, the free list.
CkWrite ==
    LET data == FlushPartialBlocks(db, ck)
        meta == WriteBlock(data, ck.meta, Content("meta", <<>>, ck.ptrs, {}))
        list == SerializeFreeList([meta EXCEPT !.meta = ck.meta])
    IN
    /\ pc = "columns" /\ ck.next \notin DOMAIN live /\ BoundOK(list.db)
    /\ db' = list.db
    /\ ck' = [ck EXCEPT !.freeList = list.at]
    /\ pc' = "sync"
    /\ UNCHANGED <<live, prev, image, atRisk, tokens, events, exposed>>

CkSync ==
    /\ pc = "sync"
    /\ db' = FileSync(db)
    /\ pc' = "header"
    /\ UNCHANGED <<live, ck, prev, image, atRisk, tokens, events, exposed>>

\* write_header: odd iterations go to the first slot first; each write is synced.
FirstSlot(iteration) == IF iteration % 2 = 1 THEN 1 ELSE 2

CkHeader ==
    LET it == db.iteration + 1
    IN
    /\ pc = "header"
    /\ db' = [db EXCEPT !.iteration = it,
                        !.heads[FirstSlot(it)] = Header(it, db.meta, ck.freeList, db.max)]
    /\ image' = TokensOf(live) /\ atRisk' = {}
    /\ pc' = "second"
    /\ UNCHANGED <<live, ck, prev, tokens, events, exposed>>

\* The other slot; then the sidecar, which Recovery has, and .prev goes.
CkSecond ==
    /\ pc = "second"
    /\ db' = [db EXCEPT !.heads = <<@[FirstSlot(db.iteration)], @[FirstSlot(db.iteration)]>>]
    /\ ck' = NoCheckpoint /\ prev' = NoCopy /\ pc' = "serving"
    /\ UNCHANGED <<live, image, atRisk, tokens, events, exposed>>

-----------------------------------------------------------------------------
(* Crash and load.                                                         *)

\* What was written and not synced may be anything.  A file that was never checkpointed
\* does not load: its table comes back in memory, out of this module.
Crash ==
    /\ pc # "down" /\ events < MaxEvent /\ Active.meta # None
    /\ db' = [db EXCEPT !.cur = [b \in Block |-> IF b \in db.dirty THEN Torn ELSE @[b]], !.dirty = {}]
    /\ prev' = IF pc = "restore" THEN prev ELSE NoCopy
    /\ exposed' = exposed \cup Met(atRisk # {}, "overwritten")
    /\ pc' = "down" /\ live' = <<>> /\ ck' = NoCheckpoint /\ events' = events + 1
    /\ UNCHANGED <<image, atRisk, tokens>>

\* load_existing_database
LoadedManager(cur, h) ==
    [free |-> FreeListAt(cur, h.freeList), max |-> h.count, iteration |-> h.iteration, meta |-> h.meta]

\* initialize_column: a segment over the blocks of a data pointer, its validity rebuilt.
LoadedSegment(cur, p) ==
    [tok |-> cur[p.block].toks[p.off], kind |-> p.kind, block |-> p.block, off |-> p.off,
     whole |-> p.kind # "narrow", bits |-> None]

\* load_storage_disk_sync.  The probe and the load of the agent do the same to the file.
\* When .otbx is cut to nothing .prev takes its place; otherwise .prev is removed.
Load ==
    LET cur   == IF prev = NoCopy THEN db.cur ELSE prev.cur
        heads == IF prev = NoCopy THEN db.heads ELSE prev.heads
        h     == ActiveHeader(heads)
        mgr   == LoadedManager(cur, h)
        d     == [free |-> mgr.free, max |-> mgr.max, iteration |-> mgr.iteration, meta |-> mgr.meta,
                  cur |-> cur, dirty |-> {}, heads |-> heads]
        ptrs  == PointersOf(cur, h)
        r     == TransitionToDisk(d, [i \in DOMAIN ptrs |-> LoadedSegment(cur, ptrs[i])], Len(ptrs))
    IN
    /\ pc = "down" /\ BoundOK(r.db)
    /\ db' = r.db /\ live' = r.segs
    /\ prev' = NoCopy /\ pc' = "serving"
    /\ UNCHANGED <<ck, image, atRisk, tokens, events, exposed>>

-----------------------------------------------------------------------------
Live == {live[i].tok : i \in DOMAIN live}

\* The places, in their order, of the segments with rows that compaction keeps.
Selections ==
    {kept \in SeqOf(DOMAIN live, Len(live)) : \A i, j \in DOMAIN kept : i < j => kept[i] < kept[j]}

FileNext ==
    \/ \E kind \in Kind : AppendSegment(kind)
    \/ \E n \in 0 .. MaxSegment, oom \in BOOLEAN : CloseRowGroup(n, oom)
    \/ \E kept \in Selections, n \in 0 .. MaxSegment :
          \/ Compact(kept, n) \/ CompactFails(kept, n)
          \/ \E copied \in BOOLEAN : CkBegin(kept, n, copied)
    \/ CkColumn \/ \E flushed \in BOOLEAN : CkFails(flushed)
    \/ Restore \/ CkWrite \/ CkSync \/ CkHeader \/ CkSecond
    \/ Crash \/ Load

FileSpec == FileInit /\ [][FileNext]_vars

\* The runs that meet none of the weaknesses.
TameSpec == FileInit /\ [][FileNext /\ exposed' = {}]_vars

-----------------------------------------------------------------------------
\* Type invariant of the manager and the segment tree; free ids lie below max_block_, as
\* free_block_id and load_existing_database keep them.
FileTypeOK ==
    /\ pc \in {"serving", "columns", "restore", "sync", "header", "second", "down"}
    /\ db.max \in 0 .. MaxBlock
    /\ pc # "down" => db.free \subseteq 0 .. db.max - 1
    /\ db.dirty \subseteq Block
    /\ Len(live) <= MaxSegment /\ Live \subseteq 1 .. tokens
    /\ exposed \subseteq {"rolledback", "overwritten"}

\* Every segment of the table that is in the file reads back as what it was, however often
\* its block was freed, reused or written through before: a pin after an eviction
\* (block_handle_t::load) gives the rows that were evicted.
LiveSegmentsReadBack ==
    \A i \in DOMAIN live :
        /\ ReadSegment(db, live[i]) = live[i].tok
        /\ live[i].bits # None => db.cur[live[i].bits].toks = <<BitsOf(live[i].tok)>>

\* "A partial write never becomes the durable state" (table_storage_t::checkpoint): a crash
\* now and a start find the last complete checkpoint, whole and synced, or the new one as
\* soon as its first header is written.
DurableImageIntact ==
    (atRisk = {} /\ pc # "restore" /\ Active.meta # None) =>
        LET ptrs == PointersOf(db.cur, Active)
        IN  /\ ImageBlocks(db.cur, Active) \cap db.dirty = {}
            /\ image = [i \in DOMAIN ptrs |-> db.cur[ptrs[i].block].toks[ptrs[i].off]]

\* No block has two owners: what free_block_id may hand out is neither under a live segment
\* nor part of the running checkpoint, nor of the last image unless compaction freed it
\* there; nor does the free list of the image name a block of the image.
FreeBlocksUnused ==
    pc # "down" =>
        /\ db.free \cap UNION {{live[i].block, live[i].bits} : i \in DOMAIN live} = {}
        /\ db.free \cap ({ck.meta} \cup DOMAIN ck.bufs) = {}
        /\ (db.free \cap ImageBlocks(db.cur, Active)) \subseteq atRisk
=============================================================================
