----------------------------- MODULE WalPages -----------------------------
(***************************************************************************)
(* One segment file of the write-ahead log, byte by byte: the page writer  *)
(* (wal_page_writer_t), a crash, and the page reader (wal_page_reader_t)   *)
(* that recovery uses.                                                     *)
(*                                                                         *)
(* A record is a size, a body and a checksum.  It is written into pages of *)
(* PageData bytes; a page carries the flags CONT and END for records that  *)
(* span pages.  The reader has the bytes and the flags only.  A byte is    *)
(* modelled by the record it belongs to and its place in it, so the size   *)
(* read at the start of a record is its size, the size read anywhere else  *)
(* is junk, and a decode succeeds exactly when the bytes are one record.   *)
(***************************************************************************)
EXTENDS Integers, SequencesExt

CONSTANTS
    PageData,     \* PAGE_DATA_SIZE, 4064 in the code
    HeaderSize,   \* bytes of the size field, 4 in the code
    Overhead,     \* size field and checksum, 8 in the code
    Sizes,        \* encoded sizes of records
    JunkSizes,    \* what a misplaced size field may hold
    MaxRecords,   \* bound on the appended records
    MaxCrash      \* bound on the crashes

ASSUME PagesAssumption ==
    /\ {PageData, HeaderSize, Overhead, MaxRecords} \subseteq Nat \ {0}
    /\ HeaderSize < Overhead /\ HeaderSize <= PageData
    /\ MaxCrash \in Nat /\ JunkSizes \subseteq Nat
    /\ \A n \in Sizes : n \in Nat /\ n > Overhead

VARIABLES
    file,      \* data pages of the segment
    cur,       \* current_page_ of the writer
    synced,    \* pages that an fsync has covered
    lsns,      \* wal ids of the records appended so far (ghost: their history)
    nextLsn,   \* the next wal id
    junk,      \* the size found where no record starts
    crashes

vars == <<file, cur, synced, lsns, nextLsn, junk, crashes>>

Max0(a) == IF a > 0 THEN a ELSE 0
Least(a, b) == IF a < b THEN a ELSE b

-----------------------------------------------------------------------------
(* wal_page_writer_t.                                                      *)

\* The bytes of record r.
Bytes(r, n) == [k \in 1 .. n |-> [rec |-> r, at |-> k, size |-> n]]

\* wal_page_header_t and the data area; ok stands for a checksum that fits.
Page(data, cont, end, lsn, endLsn) ==
    [data |-> data, cont |-> cont, end |-> end, lsn |-> lsn, endLsn |-> endLsn, ok |-> TRUE]

\* start_new_page.
EmptyPage == Page(<<>>, FALSE, FALSE, 0, 0)

\* Mutant: one byte of the page header is taken for data.
Space_Header(page) == PageData + 1 - Len(page.data)

Space(page) == PageData - Len(page.data)

\* The current page with more bytes and the lsn bookkeeping of append.
Filled(page, bytes, lsn) ==
    [page EXCEPT !.data = @ \o bytes, !.lsn = IF @ = 0 THEN lsn ELSE @, !.endLsn = lsn]

\* append of a record that does not fit: the pages it completes, and the page that
\* takes the rest.  All of them continue a record, the last one ends it.
FullPages(page, bytes, lsn) ==
    LET first == Space(page)
        rest  == Len(bytes) - first
        mid   == (rest - 1) \div PageData
    IN  <<[Filled(page, SubSeq(bytes, 1, first), lsn) EXCEPT !.cont = TRUE]>> \o
        [j \in 1 .. mid |->
            Page(SubSeq(bytes, first + (j - 1) * PageData + 1, first + j * PageData), TRUE, FALSE, lsn, lsn)]

\* Mutant: the page that takes the rest of a record does not note its wal id.
LastPage_NoLsn(page, bytes, lsn) ==
    LET written == Space(page) + ((Len(bytes) - Space(page) - 1) \div PageData) * PageData
    IN  Page(SubSeq(bytes, written + 1, Len(bytes)), TRUE, TRUE, 0, 0)

LastPage(page, bytes, lsn) ==
    LET written == Space(page) + ((Len(bytes) - Space(page) - 1) \div PageData) * PageData
    IN  Page(SubSeq(bytes, written + 1, Len(bytes)), TRUE, TRUE, lsn, lsn)

Fits(page, bytes) == Len(bytes) <= Space(page)

NewLsn == lsns' = Append(lsns, nextLsn) /\ nextLsn' = nextLsn + 1

\* append.
AppendRecord(n) ==
    LET bytes == Bytes(Len(lsns) + 1, n) IN
    /\ Len(lsns) < MaxRecords
    /\ IF Fits(cur, bytes)
       THEN /\ cur' = Filled(cur, bytes, nextLsn)
            /\ UNCHANGED file
       ELSE /\ file' = file \o FullPages(cur, bytes, nextLsn)
            /\ cur' = LastPage(cur, bytes, nextLsn)
    /\ NewLsn
    /\ UNCHANGED <<synced, junk, crashes>>

\* append when the disk refuses the first page: the rest of the record is dropped,
\* the page stays full in memory, and the worker does not look at the result.
AppendDiskFull(n) ==
    LET bytes == Bytes(Len(lsns) + 1, n) IN
    /\ Len(lsns) < MaxRecords
    /\ ~Fits(cur, bytes)
    /\ cur' = Head(FullPages(cur, bytes, nextLsn))
    /\ NewLsn
    /\ UNCHANGED <<file, synced, junk, crashes>>

\* flush.
Flush ==
    /\ cur.data # <<>>
    /\ file' = Append(file, cur)
    /\ cur' = EmptyPage
    /\ UNCHANGED <<synced, lsns, nextLsn, junk, crashes>>

\* flush_and_sync.
FlushAndSync ==
    /\ file' = IF cur.data = <<>> THEN file ELSE Append(file, cur)
    /\ cur' = EmptyPage
    /\ synced' = Len(file')
    /\ UNCHANGED <<lsns, nextLsn, junk, crashes>>

-----------------------------------------------------------------------------
(* wal_page_reader_t.                                                      *)

\* Whether record bytes start at an offset: the whole size field does.
StartsAt(bytes, o) ==
    \A k \in 1 .. HeaderSize :
        bytes[o + k].at = k /\ bytes[o + k].rec = bytes[o + 1].rec

\* The size field at an offset, and the bytes it announces.
BodySize(bytes, o) == IF StartsAt(bytes, o) THEN bytes[o + 1].size - Overhead ELSE junk
Total(bytes, o) == BodySize(bytes, o) + Overhead

\* decode_record: its checksum fits for exactly one whole record.
Decoded(bytes, o, total) ==
    IF /\ StartsAt(bytes, o) /\ total = bytes[o + 1].size
       /\ \A k \in 1 .. total : bytes[o + k] = [bytes[o + 1] EXCEPT !.at = k]
    THEN <<bytes[o + 1].rec>> ELSE <<>>

\* Mutant: a record that ends with the page is taken for the start of a span.
Parse_OffByOne(bytes, from) ==
    LET p[o \in 0 .. Len(bytes)] ==
            IF o + HeaderSize > Len(bytes) \/ BodySize(bytes, o) = 0 \/ o + Total(bytes, o) >= Len(bytes)
            THEN [recs |-> <<>>, end |-> o]
            ELSE LET rest == p[o + Total(bytes, o)]
                 IN  [rest EXCEPT !.recs = Decoded(bytes, o, Total(bytes, o)) \o @]
    IN  p[from]

\* The loop over the complete records of a page: the records, and where it stopped.
Parse(bytes, from) ==
    LET p[o \in 0 .. Len(bytes)] ==
            IF \/ o + HeaderSize > Len(bytes)
               \/ BodySize(bytes, o) = 0
               \/ o + Total(bytes, o) > Len(bytes)
            THEN [recs |-> <<>>, end |-> o]
            ELSE LET rest == p[o + Total(bytes, o)]
                 IN  [rest EXCEPT !.recs = Decoded(bytes, o, Total(bytes, o)) \o @]
    IN  p[from]

\* The reader between two pages: records read, span_buffer, in_span, stopped.
ReaderStart == [recs |-> <<>>, buffer |-> <<>>, inSpan |-> FALSE, stopped |-> FALSE]

\* A page that may hold the end of the record in the span buffer.
ReadSpanEnd(acc, page) ==
    LET needed == IF Len(acc.buffer) >= HeaderSize THEN Max0(Total(acc.buffer, 0) - Len(acc.buffer))
                                                   ELSE Len(page.data)
        taken  == Least(needed, Len(page.data))
        buffer == acc.buffer \o SubSeq(page.data, 1, taken)
    IN  IF Len(buffer) >= HeaderSize /\ Len(buffer) >= Total(buffer, 0)
        THEN [ReaderStart EXCEPT !.recs = acc.recs \o Decoded(buffer, 0, Total(buffer, 0))
                                                   \o Parse(page.data, taken).recs]
        ELSE [acc EXCEPT !.buffer = buffer]

\* A page outside a span: complete records, then perhaps the start of a span.
ReadPlain(acc, page) ==
    LET parsed == Parse(page.data, 0)
    IN  [acc EXCEPT !.recs = @ \o parsed.recs,
                    !.buffer = IF page.cont THEN SubSeq(page.data, parsed.end + 1, Len(page.data)) ELSE <<>>,
                    !.inSpan = page.cont]

\* One round of the loop of read_all_records.
ReadPage(acc, page) ==
    IF acc.stopped \/ ~page.ok THEN [acc EXCEPT !.stopped = TRUE]
    ELSE IF acc.inSpan /\ page.cont /\ ~page.end THEN [acc EXCEPT !.buffer = @ \o page.data]
    ELSE IF acc.inSpan /\ (page.cont \/ page.end) THEN ReadSpanEnd(acc, page)
    ELSE ReadPlain(acc, page)

\* read_all_records(0).
ReadAllRecords(pages) == FoldLeft(ReadPage, ReaderStart, pages).recs

\* seek_to_lsn: the binary search over the page headers.
SeekToLsn(pages, target) ==
    LET seek[lo \in 1 .. Len(pages) + 1, hi \in 0 .. Len(pages), result \in 1 .. Len(pages)] ==
            LET mid == lo + (hi - lo) \div 2
            IN  IF lo > hi THEN result
                ELSE IF pages[mid].lsn > target THEN seek[lo, mid - 1, result]
                ELSE IF pages[mid].endLsn >= target THEN mid
                ELSE seek[mid + 1, hi, mid]
    IN  seek[1, Len(pages), 1]

-----------------------------------------------------------------------------
\* Mutant: recovery takes the first wal id of the last page for the last one.
RecoveredLsn_PageLsn(pages) == IF pages = <<>> THEN 0 ELSE Last(pages).lsn

\* The highest wal id that can be read, 0 if there is none.
RecoveredLsn(pages) ==
    LET read == {lsns[r] : r \in ToSet(ReadAllRecords(pages))}
    IN  IF read = {} THEN 0 ELSE Max(read)

\* A crash loses the current page.  Of the pages written since the last fsync, each
\* may be missing at the end of the file or hold torn data.  recover_from_disk and
\* the constructor of the manager go on after the highest id that can be read, and
\* the writer goes on after the last page of the file, whatever it holds.
Crash(kept, torn) ==
    LET left == [p \in 1 .. kept |-> [file[p] EXCEPT !.ok = @ /\ p \notin torn]]
    IN  /\ crashes < MaxCrash
        /\ file' = left
        /\ cur' = EmptyPage
        /\ synced' = kept
        /\ nextLsn' = RecoveredLsn(left) + 1
        /\ crashes' = crashes + 1
        /\ UNCHANGED <<lsns, junk>>

PagesInit ==
    /\ file = <<>> /\ cur = EmptyPage /\ synced = 0
    /\ lsns = <<>> /\ nextLsn = 1
    /\ junk \in JunkSizes
    /\ crashes = 0

PagesNext ==
    \/ \E n \in Sizes : AppendRecord(n) \/ AppendDiskFull(n)
    \/ Flush \/ FlushAndSync
    \/ \E kept \in synced .. Len(file) : \E torn \in SUBSET (synced + 1 .. kept) : Crash(kept, torn)

PagesSpec == PagesInit /\ [][PagesNext]_vars

-----------------------------------------------------------------------------
\* Type invariant: no page is empty or holds more than PAGE_DATA_SIZE bytes, and wal ids
\* stay in their range.
PagesTypeOK ==
    /\ \A p \in DOMAIN file : file[p].data # <<>> /\ Len(file[p].data) <= PageData
    /\ Len(cur.data) <= PageData /\ cur.ok
    /\ synced \in 0 .. Len(file)
    /\ \A r \in DOMAIN lsns : lsns[r] \in 1 .. MaxRecords
    /\ nextLsn \in 1 .. MaxRecords + 1

\* read_all_records, recover_from_disk: whatever was torn, abandoned or misread, and
\* although wal ids are given out again after a crash, what the reader returns has
\* strictly increasing wal ids, so replay never meets two records under one id.
ReadIdsIncrease ==
    LET read == ReadAllRecords(file)
    IN  \A i, j \in DOMAIN read : i < j => lsns[read[i]] < lsns[read[j]]

\* The record's last byte is on page p.
EndsOn(r, p) == \E b \in DOMAIN file[p].data :
                   file[p].data[b].rec = r /\ file[p].data[b].at = file[p].data[b].size

\* The bytes of page p that begin a record which another page has to finish, and
\* whether there is such a record: it may begin with no byte at all on a full page.
OpenBytes(p) ==
    LET data == file[p].data IN
    {k \in DOMAIN data : \E o \in 1 .. k : /\ data[o].at = 1 /\ data[o].rec = data[k].rec
                                          /\ o - 1 + data[o].size > Len(data)}

Opens(p) == OpenBytes(p) # {} \/ file[p].endLsn # lsns[Last(file[p].data).rec]

\* The pages behind which the reader may lose its place: the page is torn; it ends one
\* spanning record and begins another; the size field of a spanning record does not
\* fit on it; or a record begins on it and never ends, because of a crash or a full disk.
LosesPlace(p) ==
    \/ ~file[p].ok
    \/ /\ Opens(p)
       /\ \/ Head(file[p].data).at # 1
          \/ Cardinality(OpenBytes(p)) < HeaderSize
          \/ \A q \in DOMAIN file : ~EndsOn(Last(file[p].data).rec, q)

\* A record that is in the file up to its last byte is read back, exactly once, unless
\* the reader has lost its place on an earlier page or the page itself is torn:
\* single records, records over many pages, and records that follow the end of one.
RecordsReadBack ==
    \A p \in DOMAIN file : (file[p].ok /\ \A q \in 1 .. p - 1 : ~LosesPlace(q)) =>
        \A r \in DOMAIN lsns : EndsOn(r, p) =>
            Cardinality({i \in DOMAIN ReadAllRecords(file) : ReadAllRecords(file)[i] = r}) = 1

\* seek_to_lsn: in a file without a crash the search ends on a page whose range holds
\* the wal id, for every record of the file.
SeekFindsPage ==
    crashes = 0 => \A p \in DOMAIN file : \A b \in DOMAIN file[p].data :
        LET lsn == lsns[file[p].data[b].rec]
            hit == SeekToLsn(file, lsn)
        IN  file[hit].lsn <= lsn /\ lsn <= file[hit].endLsn
=============================================================================
