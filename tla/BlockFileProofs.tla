-------------------------- MODULE BlockFileProofs --------------------------
(***************************************************************************)
(* What holds of the blocks of a table file, for any number of segments,   *)
(* blocks, checkpoints and crashes, in the runs that meet none of the      *)
(* weaknesses collected in `exposed`.                                      *)
(***************************************************************************)
EXTENDS BlockFile, FiniteSetTheorems, NaturalsInduction, SequenceTheorems, WellFoundedInduction, TLAPS

-----------------------------------------------------------------------------
(* Induction.                                                              *)

\* A non-empty set of numbers has a least member.
LEMMA LeastBlock ==
    ASSUME NEW S \in SUBSET Nat, S # {}
    PROVE  Min(S) \in S /\ \A y \in S : Min(S) <= y
<1> DEFINE Below == {p \in Nat \X Nat : p[1] < p[2]}
<1>1. IsWellFoundedOn(Below, Nat) BY NatLessThanWellFounded, Zenon DEF OpToRel
<1>2. \E x \in S : \A y \in S : ~ (<<y, x>> \in Below)
  <2> HIDE DEF Below
  <2> QED BY <1>1, WFMin, Zenon
<1>3. PICK x \in S : \A y \in S : ~ (<<y, x>> \in Below) BY <1>2
<1>4. ASSUME NEW y \in S PROVE x <= y
  <2>1. <<y, x>> \in Nat \X Nat OBVIOUS
  <2> QED BY <1>3, <2>1
<1> QED BY <1>4 DEF Min

\* Induction up to n, with the property as a set.
LEMMA Induction ==
    ASSUME NEW n \in Nat, NEW S, 0 \in S, \A k \in 1 .. n : k - 1 \in S => k \in S
    PROVE  0 .. n \subseteq S
<1> DEFINE bad == {k \in 0 .. n : k \notin S}
<1>1. SUFFICES ASSUME bad # {} PROVE FALSE
  OBVIOUS
<1>2. Min(bad) \in bad /\ \A y \in bad : Min(bad) <= y
  <2>1. bad \in SUBSET Nat OBVIOUS
  <2> HIDE DEF bad
  <2> QED BY <1>1, <2>1, LeastBlock
<1>3. PICK m \in bad : \A y \in bad : m <= y BY <1>2
<1>4. m \in 1 .. n /\ m - 1 \in 0 .. n BY <1>3
<1>5. m - 1 \in S BY <1>3, <1>4
<1> QED BY <1>3, <1>4, <1>5

-----------------------------------------------------------------------------
(* The loop of transition_to_disk.                                         *)

IsLoop(f, d, segs, m) ==
    f = [k \in 0 .. m |-> IF k = 0 THEN [db |-> d, segs |-> segs] ELSE NextToDisk(f[k - 1], k)]

\* The recursion defines a function: the loop can be run any number of times.
LEMMA LoopExists ==
    ASSUME NEW d, NEW segs, NEW n \in Nat
    PROVE  \E f : IsLoop(f, d, segs, n)
<1> DEFINE S == {m \in 0 .. n : \E f : IsLoop(f, d, segs, m)}
<1>1. 0 \in S
  <2> DEFINE f == [k \in 0 .. 0 |-> [db |-> d, segs |-> segs]]
  <2>1. IsLoop(f, d, segs, 0) BY DEF IsLoop
  <2> QED BY <2>1
<1>2. ASSUME NEW m \in 1 .. n, m - 1 \in S PROVE m \in S
  <2>1. PICK f : IsLoop(f, d, segs, m - 1) BY <1>2
  <2> DEFINE g == [k \in 0 .. m |-> IF k = m THEN NextToDisk(f[m - 1], m) ELSE f[k]]
  <2>2. \A k \in 0 .. m : g[k] = IF k = 0 THEN [db |-> d, segs |-> segs] ELSE NextToDisk(g[k - 1], k)
    <3>1. ASSUME NEW k \in 0 .. m PROVE g[k] = IF k = 0 THEN [db |-> d, segs |-> segs] ELSE NextToDisk(g[k - 1], k)
      <4>1. CASE k = m
        <5>1. g[k - 1] = f[m - 1] BY <4>1
        <5> QED BY <4>1, <5>1
      <4>2. CASE k # m /\ k # 0
        <5>1. g[k - 1] = f[k - 1] /\ g[k] = f[k] BY <4>2
        <5>2. k \in 0 .. m - 1 BY <4>2
        <5>3. f[k] = NextToDisk(f[k - 1], k) BY <2>1, <4>2, <5>2 DEF IsLoop
        <5> QED BY <4>2, <5>1, <5>3
      <4>3. CASE k # m /\ k = 0
        <5>1. f[0] = [db |-> d, segs |-> segs] BY <2>1 DEF IsLoop
        <5> QED BY <4>3, <5>1
      <4> QED BY <4>1, <4>2, <4>3
    <3> QED BY <3>1
  <2>3. g = [k \in 0 .. m |-> g[k]] OBVIOUS
  <2>4. IsLoop(g, d, segs, m)
    <3> HIDE DEF g
    <3> QED BY <2>2, <2>3 DEF IsLoop
  <2> QED BY <2>4
<1>3. 0 .. n \subseteq S
  <2> HIDE DEF S
  <2> QED BY <1>1, <1>2, Induction
<1> QED BY <1>3

\* What n rounds of the loop come to.
LEMMA LoopUnfolds ==
    ASSUME NEW d, NEW segs, NEW n \in Nat
    PROVE  \E f : /\ f[0] = [db |-> d, segs |-> segs]
                  /\ \A k \in 1 .. n : f[k] = NextToDisk(f[k - 1], k)
                  /\ TransitionToDisk(d, segs, n) = f[n]
<1> DEFINE f == CHOOSE f : f = [k \in 0 .. n |-> IF k = 0 THEN [db |-> d, segs |-> segs] ELSE NextToDisk(f[k - 1], k)]
<1>1. f = [k \in 0 .. n |-> IF k = 0 THEN [db |-> d, segs |-> segs] ELSE NextToDisk(f[k - 1], k)]
  <2>1. \E g : g = [k \in 0 .. n |-> IF k = 0 THEN [db |-> d, segs |-> segs] ELSE NextToDisk(g[k - 1], k)]
    <3>1. \E g : IsLoop(g, d, segs, n) BY LoopExists
    <3> QED BY <3>1, Zenon DEF IsLoop
  <2> QED BY <2>1, Zenon
<1>2. TransitionToDisk(d, segs, n) = f[n] BY DEF TransitionToDisk
<1> HIDE DEF f
<1>3. f[0] = [db |-> d, segs |-> segs] BY <1>1
<1>4. \A k \in 1 .. n : f[k] = NextToDisk(f[k - 1], k) BY <1>1
<1> QED BY <1>2, <1>3, <1>4

-----------------------------------------------------------------------------
(* The block manager.                                                      *)

Pointer == [kind : {"wide", "narrow", "text"}, block : Nat, off : Nat]

Contents == [kind : {"torn", "data", "meta", "free"}, toks : Seq(Int), ptrs : Seq(Pointer), ids : SUBSET Nat]

Heading == [iteration : Nat, meta : Int, freeList : Int, count : Nat]

Manager ==
    [free : SUBSET Nat, max : Nat, iteration : Nat, meta : Int,
     cur : [Block -> Contents], dirty : SUBSET Nat, heads : [{1, 2} -> Heading]]

\* Free ids lie below the end of the file.
FreeBelow(d) == d.free \subseteq 0 .. d.max - 1

\* Blocks that are neither free nor beyond the end.
Owned(d) == (0 .. d.max - 1) \ d.free

\* e is d after the blocks in T were taken and, some of them, written.
Grown(d, e, T) ==
    /\ e \in Manager /\ FreeBelow(e)
    /\ d.max <= e.max
    /\ T \subseteq d.free \cup (d.max .. e.max - 1)
    /\ T \subseteq Owned(e)
    /\ e.free = d.free \ T
    /\ \A b \in Block \ T : e.cur[b] = d.cur[b]
    /\ e.dirty \subseteq d.dirty \cup T
    /\ e.heads = d.heads /\ e.iteration = d.iteration /\ e.meta = d.meta

LEMMA GrownNone ==
    ASSUME NEW d \in Manager, FreeBelow(d)
    PROVE  Grown(d, d, {})
BY DEF Grown, Manager, FreeBelow

LEMMA GrownTwice ==
    ASSUME NEW d \in Manager, NEW e, NEW f, NEW T, NEW U, FreeBelow(d),
           Grown(d, e, T), Grown(e, f, U)
    PROVE  Grown(d, f, T \cup U) /\ T \cap U = {}
BY DEF Grown, Manager, FreeBelow, Owned

\* What is owned stays so, and what is taken was not owned.
LEMMA GrownOwned ==
    ASSUME NEW d \in Manager, NEW e, NEW T, FreeBelow(d), Grown(d, e, T)
    PROVE  Owned(d) \subseteq Owned(e) \ T
BY DEF Grown, Manager, FreeBelow, Owned

\* free_block_id
LEMMA TakenGrown ==
    ASSUME NEW d \in Manager, FreeBelow(d)
    PROVE  FreeBlockId(d) \in Nat /\ Grown(d, Taken(d), {FreeBlockId(d)})
<1>1. CASE d.free = {}
  <2>1. Taken(d) = [d EXCEPT !.max = @ + 1] /\ FreeBlockId(d) = d.max BY <1>1 DEF Taken, FreeBlockId
  <2>2. Taken(d) \in Manager BY <2>1 DEF Manager
  <2> QED BY <1>1, <2>1, <2>2 DEF Grown, Manager, FreeBelow, Owned
<1>2. CASE d.free # {}
  <2> DEFINE m == Min(d.free)
  <2>1. m \in d.free BY <1>2, LeastBlock DEF Manager
  <2>2. Taken(d) = [d EXCEPT !.free = @ \ {m}] /\ FreeBlockId(d) = m BY <1>2 DEF Taken, FreeBlockId
  <2> HIDE DEF m
  <2>3. Taken(d) \in Manager BY <2>2 DEF Manager
  <2> QED BY <2>1, <2>2, <2>3 DEF Grown, Manager, FreeBelow, Owned
<1> QED BY <1>1, <1>2

LEMMA WriteGrown ==
    ASSUME NEW d \in Manager, NEW e, NEW T, NEW b \in T, NEW c \in Contents, Grown(d, e, T)
    PROVE  /\ Grown(d, WriteBlock(e, b, c), T)
           /\ b \in Block => WriteBlock(e, b, c).cur[b] = c
<1> DEFINE w == WriteBlock(e, b, c)
<1>1. w = [e EXCEPT !.cur = [e.cur EXCEPT ![b] = c], !.dirty = @ \cup {b}] BY DEF WriteBlock
<1>2. e \in Manager /\ b \in Nat BY DEF Grown, Owned
<1>3. w \in Manager
  <2>1. [e.cur EXCEPT ![b] = c] \in [Block -> Contents] BY <1>2 DEF Manager
  <2>2. e.dirty \cup {b} \in SUBSET Nat BY <1>2 DEF Manager
  <2> QED BY <1>1, <1>2, <2>1, <2>2 DEF Manager
<1>4. /\ w.cur = [e.cur EXCEPT ![b] = c] /\ w.dirty = e.dirty \cup {b} /\ w.free = e.free /\ w.max = e.max
      /\ w.heads = e.heads /\ w.iteration = e.iteration /\ w.meta = e.meta
  BY <1>1, <1>2 DEF Manager
<1>5. \A x \in Block : w.cur[x] = IF x = b THEN c ELSE e.cur[x] BY <1>2, <1>4 DEF Manager
<1> HIDE DEF w
<1>6. Grown(d, w, T) BY <1>2, <1>3, <1>4, <1>5 DEF Grown, FreeBelow, Owned
<1> QED BY <1>5, <1>6 DEF w

LEMMA DataContents == \A toks \in Seq(Int) : Data(toks) \in Contents /\ Data(toks).toks = toks
<1>1. <<>> \in Seq(Pointer) BY EmptySeq
<1> QED BY <1>1 DEF Data, Content, Contents

-----------------------------------------------------------------------------
(* Segments.                                                               *)

Segment ==
    [tok : Nat, kind : {"wide", "narrow", "text"}, block : Int, off : Nat, whole : BOOLEAN, bits : Int]

\* The segment is in memory or in blocks of its own that hold its bytes.
SegOK(d, seg) ==
    /\ seg \in Segment
    /\ seg.block \in {None} \cup Owned(d) /\ seg.bits \in {None} \cup Owned(d)
    /\ seg.block = None => seg.off = 1
    /\ seg.block \in Block => d.cur[seg.block].toks[seg.off] = seg.tok
    /\ seg.bits \in Block => d.cur[seg.bits].toks = <<BitsOf(seg.tok)>>

\* The same segment, perhaps in other blocks.
Same(s, t, T) ==
    /\ t.tok = s.tok /\ t.kind = s.kind /\ t.off = s.off /\ t.whole = s.whole
    /\ t.block \in {s.block} \cup T /\ t.bits \in {s.bits} \cup T

\* Blocks are only taken from what nobody owns.
LEMMA SegKept ==
    ASSUME NEW d \in Manager, NEW e, NEW T, NEW seg, FreeBelow(d), Grown(d, e, T), SegOK(d, seg)
    PROVE  SegOK(e, seg)
<1>1. Owned(d) \subseteq Owned(e) \ T BY GrownOwned
<1>2. \A b \in Owned(d) \cap Block : e.cur[b] = d.cur[b] BY <1>1 DEF Grown
<1>3. None \notin Block BY DEF None, Block
<1> QED BY <1>1, <1>2, <1>3 DEF SegOK

LEMMA WriteThroughGrown ==
    ASSUME NEW d \in Manager, FreeBelow(d), NEW tok \in Int
    PROVE  /\ Grown(d, WriteThrough(d, tok), {FreeBlockId(d)})
           /\ FreeBlockId(d) \in Block => WriteThrough(d, tok).cur[FreeBlockId(d)].toks = <<tok>>
<1>1. <<tok>> \in Seq(Int) OBVIOUS
<1>2. Data(<<tok>>) \in Contents /\ Data(<<tok>>).toks = <<tok>> BY <1>1, DataContents
<1>3. FreeBlockId(d) \in Nat /\ Grown(d, Taken(d), {FreeBlockId(d)}) BY TakenGrown
<1>4. FreeBlockId(d) \in {FreeBlockId(d)} OBVIOUS
<1> QED BY <1>2, <1>3, <1>4, WriteGrown DEF WriteThrough

LEMMA ColumnWritten ==
    ASSUME NEW d \in Manager, FreeBelow(d), NEW seg, SegOK(d, seg)
    PROVE  \E T : /\ Grown(d, ColumnToDisk([db |-> d, seg |-> seg]).db, T)
                  /\ SegOK(ColumnToDisk([db |-> d, seg |-> seg]).db, ColumnToDisk([db |-> d, seg |-> seg]).seg)
                  /\ Same(seg, ColumnToDisk([db |-> d, seg |-> seg]).seg, T)
<1> DEFINE acc == [db |-> d, seg |-> seg]
           r   == ColumnToDisk(acc)
           b   == FreeBlockId(d)
<1>1. CASE seg.block # None \/ seg.kind = "text"
  <2>1. r = acc BY <1>1 DEF ColumnToDisk
  <2>2. r.db = d /\ r.seg = seg BY <2>1
  <2> HIDE DEF r, acc
  <2>3. Grown(d, r.db, {}) /\ SegOK(r.db, r.seg) /\ Same(seg, r.seg, {}) BY <2>2, GrownNone DEF Same
  <2> QED BY <2>3 DEF r, acc
<1>2. CASE ~(seg.block # None \/ seg.kind = "text")
  <2>1. r = [db |-> WriteThrough(d, seg.tok), seg |-> [seg EXCEPT !.block = b]] BY <1>2 DEF ColumnToDisk
  <2>2. r.db = WriteThrough(d, seg.tok) /\ r.seg = [seg EXCEPT !.block = b] BY <2>1
  <2>3. seg \in Segment /\ seg.tok \in Int BY DEF SegOK, Segment
  <2>4. Grown(d, r.db, {b}) /\ (b \in Block => r.db.cur[b].toks = <<seg.tok>>) BY <2>2, <2>3, WriteThroughGrown
  <2>5. b \in Nat BY TakenGrown
  <2> HIDE DEF r, acc, b
  <2>6. SegOK(r.db, seg) BY <2>4, SegKept
  <2>7. /\ r.seg \in Segment /\ r.seg.tok = seg.tok /\ r.seg.kind = seg.kind /\ r.seg.off = seg.off
        /\ r.seg.whole = seg.whole /\ r.seg.block = b /\ r.seg.bits = seg.bits
    BY <2>2, <2>3, <2>5 DEF Segment
  <2>8. seg.off = 1 BY <1>2 DEF SegOK
  <2>9. SegOK(r.db, r.seg)
    <3>1. b \in Owned(r.db) BY <2>4 DEF Grown
    <3>2. b # None BY <2>5 DEF None
    <3>3. b \in Block => r.db.cur[b].toks[1] = seg.tok BY <2>4
    <3> QED BY <2>6, <2>7, <2>8, <3>1, <3>2, <3>3 DEF SegOK
  <2>10. Same(seg, r.seg, {b}) BY <2>7 DEF Same
  <2> QED BY <2>4, <2>9, <2>10 DEF r, acc
<1> QED BY <1>1, <1>2

LEMMA ValidityWritten ==
    ASSUME NEW d \in Manager, FreeBelow(d), NEW seg, SegOK(d, seg), NEW acc, acc.db = d, acc.seg = seg
    PROVE  \E T : /\ Grown(d, ValidityToDisk(acc).db, T)
                  /\ SegOK(ValidityToDisk(acc).db, ValidityToDisk(acc).seg)
                  /\ Same(seg, ValidityToDisk(acc).seg, T)
<1> DEFINE r == ValidityToDisk(acc)
           b == FreeBlockId(d)
<1>1. CASE seg.bits # None
  <2>1. r = acc BY <1>1 DEF ValidityToDisk
  <2>2. r.db = d /\ r.seg = seg BY <2>1
  <2> HIDE DEF r
  <2>3. Grown(d, r.db, {}) /\ SegOK(r.db, r.seg) /\ Same(seg, r.seg, {}) BY <2>2, GrownNone DEF Same
  <2> QED BY <2>3 DEF r
<1>2. CASE seg.bits = None
  <2>1. r = [db |-> WriteThrough(d, BitsOf(seg.tok)), seg |-> [seg EXCEPT !.bits = b]] BY <1>2 DEF ValidityToDisk
  <2>2. r.db = WriteThrough(d, BitsOf(seg.tok)) /\ r.seg = [seg EXCEPT !.bits = b] BY <2>1
  <2>3. seg \in Segment /\ BitsOf(seg.tok) \in Int BY DEF SegOK, Segment, BitsOf
  <2>4. Grown(d, r.db, {b}) /\ (b \in Block => r.db.cur[b].toks = <<BitsOf(seg.tok)>>)
    BY <2>2, <2>3, WriteThroughGrown
  <2>5. b \in Nat BY TakenGrown
  <2> HIDE DEF r, b
  <2>6. SegOK(r.db, seg) BY <2>4, SegKept
  <2>7. /\ r.seg \in Segment /\ r.seg.tok = seg.tok /\ r.seg.kind = seg.kind /\ r.seg.off = seg.off
        /\ r.seg.whole = seg.whole /\ r.seg.block = seg.block /\ r.seg.bits = b
    BY <2>2, <2>3, <2>5 DEF Segment
  <2>9. SegOK(r.db, r.seg)
    <3>1. b \in Owned(r.db) BY <2>4 DEF Grown
    <3> QED BY <2>4, <2>6, <2>7, <3>1 DEF SegOK
  <2>10. Same(seg, r.seg, {b}) BY <2>7 DEF Same
  <2> QED BY <2>4, <2>9, <2>10 DEF r
<1> QED BY <1>1, <1>2

\* transition_to_disk of one column: it ends up in blocks that were nobody's.
LEMMA SegmentWritten ==
    ASSUME NEW d \in Manager, FreeBelow(d), NEW seg, SegOK(d, seg)
    PROVE  \E T : /\ Grown(d, SegmentToDisk(d, seg).db, T)
                  /\ SegOK(SegmentToDisk(d, seg).db, SegmentToDisk(d, seg).seg)
                  /\ Same(seg, SegmentToDisk(d, seg).seg, T)
<1> DEFINE c == ColumnToDisk([db |-> d, seg |-> seg])
           r == ValidityToDisk(c)
<1>1. PICK T : Grown(d, c.db, T) /\ SegOK(c.db, c.seg) /\ Same(seg, c.seg, T) BY ColumnWritten
<1>2. c.db \in Manager /\ FreeBelow(c.db) BY <1>1 DEF Grown
<1>3. SegmentToDisk(d, seg) = r BY DEF SegmentToDisk
<1> HIDE DEF c
<1>4. PICK U : Grown(c.db, r.db, U) /\ SegOK(r.db, r.seg) /\ Same(c.seg, r.seg, U)
  BY <1>1, <1>2, ValidityWritten
<1> HIDE DEF r
<1>5. Grown(d, r.db, T \cup U) BY <1>1, <1>4, GrownTwice
<1>6. Same(seg, r.seg, T \cup U) BY <1>1, <1>4 DEF Same
<1> QED BY <1>3, <1>4, <1>5, <1>6

\* The segments of acc are those of segs, and in blocks that are theirs.
Through(acc, d, segs, m) ==
    \E T : /\ Grown(d, acc.db, T)
           /\ acc.segs \in [1 .. m -> Segment]
           /\ \A i \in 1 .. m : SegOK(acc.db, acc.segs[i]) /\ Same(segs[i], acc.segs[i], T)

LEMMA ThroughNext ==
    ASSUME NEW d \in Manager, FreeBelow(d), NEW m \in Nat, NEW segs, NEW acc, Through(acc, d, segs, m),
           NEW k \in 1 .. m
    PROVE  Through(NextToDisk(acc, k), d, segs, m)
<1> DEFINE r == SegmentToDisk(acc.db, acc.segs[k])
           new == NextToDisk(acc, k)
<1>1. PICK T : /\ Grown(d, acc.db, T)
               /\ acc.segs \in [1 .. m -> Segment]
               /\ \A i \in 1 .. m : SegOK(acc.db, acc.segs[i]) /\ Same(segs[i], acc.segs[i], T)
  BY DEF Through
<1>2. acc.db \in Manager /\ FreeBelow(acc.db) BY <1>1 DEF Grown
<1>3. PICK U : Grown(acc.db, r.db, U) /\ SegOK(r.db, r.seg) /\ Same(acc.segs[k], r.seg, U)
  BY <1>1, <1>2, SegmentWritten
<1>4. new.db = r.db /\ new.segs = [acc.segs EXCEPT ![k] = r.seg] BY DEF NextToDisk
<1> HIDE DEF r, new
<1>5. Grown(d, new.db, T \cup U)
  <2>1. Grown(d, acc.db, T) /\ Grown(acc.db, new.db, U) BY <1>1, <1>3, <1>4
  <2> QED BY ONLY <2>1, d \in Manager, FreeBelow(d), GrownTwice
<1>6. new.segs \in [1 .. m -> Segment] BY <1>1, <1>3, <1>4 DEF SegOK
<1>7. ASSUME NEW i \in 1 .. m PROVE SegOK(new.db, new.segs[i]) /\ Same(segs[i], new.segs[i], T \cup U)
  <2>1. CASE i = k
    <3>1. new.segs[i] = r.seg BY <1>1, <1>4, <2>1
    <3> QED BY <1>1, <1>3, <1>4, <2>1, <3>1 DEF Same
  <2>2. CASE i # k
    <3>1. new.segs[i] = acc.segs[i] BY <1>1, <1>4, <2>2
    <3>2. SegOK(r.db, acc.segs[i]) BY <1>1, <1>2, <1>3, SegKept
    <3> QED BY <1>1, <1>4, <3>1, <3>2 DEF Same
  <2> QED BY <2>1, <2>2
<1>8. Through(new, d, segs, m) BY <1>5, <1>6, <1>7 DEF Through
<1> QED BY <1>8 DEF new

\* transition_to_disk of the first n segments, however many there are.
LEMMA TransitionDone ==
    ASSUME NEW d \in Manager, FreeBelow(d), NEW m \in Nat, NEW segs \in [1 .. m -> Segment],
           \A i \in 1 .. m : SegOK(d, segs[i]), NEW n \in 0 .. m
    PROVE  Through(TransitionToDisk(d, segs, n), d, segs, m)
<1>1. PICK f : /\ f[0] = [db |-> d, segs |-> segs]
               /\ \A k \in 1 .. n : f[k] = NextToDisk(f[k - 1], k)
               /\ TransitionToDisk(d, segs, n) = f[n]
  BY LoopUnfolds
<1> DEFINE S == {k \in 0 .. n : Through(f[k], d, segs, m)}
<1>2. 0 \in S
  <2>1. f[0].db = d /\ f[0].segs = segs BY <1>1
  <2>2. Grown(d, d, {}) BY GrownNone
  <2>3. \A i \in 1 .. m : Same(segs[i], segs[i], {}) BY DEF Same
  <2>4. Through(f[0], d, segs, m) BY <2>1, <2>2, <2>3 DEF Through
  <2> QED BY <2>4
<1>3. ASSUME NEW k \in 1 .. n, k - 1 \in S PROVE k \in S
  <2>1. Through(f[k - 1], d, segs, m) BY <1>3
  <2>2. k \in 1 .. m OBVIOUS
  <2>3. Through(NextToDisk(f[k - 1], k), d, segs, m) BY <2>1, <2>2, ThroughNext
  <2>4. f[k] = NextToDisk(f[k - 1], k) BY <1>1
  <2> QED BY <2>3, <2>4
<1>4. 0 .. n \subseteq S
  <2> HIDE DEF S
  <2> QED BY <1>2, <1>3, Induction
<1> QED BY <1>1, <1>4

-----------------------------------------------------------------------------
(* The inductive invariant.                                                *)

Buffers == UNION {[D -> Seq(Int)] : D \in SUBSET Nat}

Checkpoint ==
    [meta : Int, next : Nat, bufs : Buffers, partial : Int, ptrs : Seq(Pointer), freeList : Int]

Copy == [cur : [Block -> Contents], heads : [{1, 2} -> Heading]]

FileTypes ==
    /\ pc \in {"serving", "columns", "restore", "sync", "header", "second", "down"}
    /\ db \in Manager /\ db.max <= MaxBlock /\ FreeBelow(db) /\ db.dirty \subseteq Block
    /\ tokens \in Nat
    /\ live \in Seq(Segment) /\ Len(live) <= MaxSegment
    /\ image \in Seq(Nat) /\ Len(image) <= MaxSegment /\ \A i \in DOMAIN image : image[i] \in 1 .. tokens
    /\ ck \in Checkpoint
    /\ prev \in {NoCopy} \cup Copy
    /\ exposed = {}

\* The metadata block and the free list of the last image.
HeadBlocks == {Active.meta, Active.freeList} \ {None}

Pointers == PointersOf(db.cur, Active)

BlocksOf(seg) == {seg.block, seg.bits} \ {None}

\* No header is ahead of the manager; between its two writes one is behind.
HeadsOK ==
    /\ \A j \in {1, 2} : db.heads[j].iteration <= db.iteration
    /\ pc = "second" =>
          \A j \in {1, 2} : (db.heads[j].iteration = db.iteration) <=> (j = FirstSlot(db.iteration))

\* Live segments are in blocks of their own, which are not those that find the image.
LiveOK ==
    \A i \in DOMAIN live :
        /\ SegOK(db, live[i]) /\ live[i].tok \in 1 .. tokens
        /\ BlocksOf(live[i]) \cap HeadBlocks = {}

CkBlocks == ({ck.meta, ck.freeList} \ {None}) \cup DOMAIN ck.bufs

\* What a checkpoint has taken is nobody else's, and no part of the last image but what
\* compaction freed of it.
CkApart ==
    /\ CkBlocks \subseteq Owned(db)
    /\ pc \in {"serving", "restore", "down"} => ck = NoCheckpoint
    /\ pc \in {"columns", "sync", "header"} =>
          /\ ck.meta # None /\ ck.meta # ck.freeList
          /\ {ck.meta, ck.freeList} \cap DOMAIN ck.bufs = {}
          /\ CkBlocks \cap HeadBlocks = {}
          /\ \A i \in DOMAIN live : BlocksOf(live[i]) \cap CkBlocks = {}
          /\ CkBlocks \cap ImageBlocks(db.cur, Active) \subseteq atRisk

\* The buffers hold the columns flushed so far.
CkFlushed ==
    pc = "columns" =>
        /\ ck.next \in 1 .. Len(live) + 1 /\ Len(ck.ptrs) = ck.next - 1 /\ ck.freeList = None
        /\ ck.partial \in {None} \cup DOMAIN ck.bufs
        /\ \A i \in 1 .. ck.next - 1 :
              /\ ck.ptrs[i].block \in DOMAIN ck.bufs
              /\ ck.ptrs[i].off \in 1 .. Len(ck.bufs[ck.ptrs[i].block])
              /\ ck.bufs[ck.ptrs[i].block][ck.ptrs[i].off] = live[i].tok

\* The blocks hold what the next header will stand for.
CkWritten ==
    pc \in {"sync", "header"} =>
        /\ Len(ck.ptrs) = Len(live)
        /\ db.meta = ck.meta /\ db.cur[ck.meta].ptrs = ck.ptrs
        /\ \A i \in DOMAIN live :
              /\ ck.ptrs[i].block \in DOMAIN ck.bufs
              /\ db.cur[ck.ptrs[i].block].toks[ck.ptrs[i].off] = live[i].tok
        /\ FreeListAt(db.cur, ck.freeList) = db.free
        /\ pc = "header" => db.dirty = {}

\* The header, its metadata and its free list fit together.
ImageShape ==
    /\ Active.meta = None => Active.freeList = None
    /\ Active.meta # None =>
          /\ Active.count <= db.max
          /\ HeadBlocks \subseteq 0 .. Active.count - 1 /\ Active.meta # Active.freeList
          /\ Len(Pointers) = Len(image)
          /\ \A i \in DOMAIN Pointers : Pointers[i].block \in (0 .. Active.count - 1) \ HeadBlocks
          /\ FreeListAt(db.cur, Active.freeList) \subseteq (0 .. Active.count - 1) \ ImageBlocks(db.cur, Active)

\* Nobody is given a block of the image, but what compaction freed of it.
ImageApart ==
    (Active.meta # None /\ pc # "down") =>
        /\ HeadBlocks \cap db.free = {}
        /\ ImageBlocks(db.cur, Active) \cap db.free \subseteq atRisk

\* As long as nothing of it was freed, the image is whole and synced.
ImageWhole ==
    (Active.meta # None /\ atRisk = {}) =>
        /\ ImageBlocks(db.cur, Active) \cap db.dirty = {}
        /\ \A i \in DOMAIN Pointers : db.cur[Pointers[i].block].toks[Pointers[i].off] = image[i]

\* The copy has the image too.
PrevOK ==
    /\ pc = "restore" => prev # NoCopy
    /\ (prev # NoCopy /\ pc # "second") =>
          /\ pc # "serving" /\ prev.heads = db.heads
          /\ Active.meta # None =>
                \A b \in HeadBlocks \cup (ImageBlocks(db.cur, Active) \ atRisk) : prev.cur[b] = db.cur[b]

\* After a crash there is an image to load.
DownOK == pc = "down" => live = <<>> /\ atRisk = {} /\ Active.meta # None

FileInv ==
    /\ FileTypes /\ HeadsOK /\ LiveOK /\ CkApart /\ CkFlushed /\ CkWritten
    /\ ImageShape /\ ImageApart /\ ImageWhole /\ PrevOK /\ DownOK

-----------------------------------------------------------------------------
(* Steps that leave the headers alone.                                     *)

LEMMA BlockFacts == None \notin Nat /\ Block \subseteq Nat /\ MaxBlock \in Nat /\ \A b \in Nat : b < MaxBlock => b \in Block
BY BlockFileAssumption DEF None, Block

LEMMA ActiveFacts ==
    ASSUME FileInv
    PROVE  /\ Active \in Heading
           /\ HeadBlocks \subseteq Block
           /\ Active.meta = None => ImageBlocks(db.cur, Active) = {} /\ HeadBlocks = {}
           /\ Active.meta # None =>
                 /\ Active.meta \in HeadBlocks /\ Active.freeList \in {None} \cup HeadBlocks
                 /\ ImageBlocks(db.cur, Active) = HeadBlocks \cup {Pointers[i].block : i \in DOMAIN Pointers}
                 /\ ImageBlocks(db.cur, Active) \subseteq 0 .. Active.count - 1
                 /\ ImageBlocks(db.cur, Active) \subseteq Block
<1>1. Active \in Heading BY DEF FileInv, FileTypes, Manager, Active, ActiveHeader
<1>2. Active.meta = None => ImageBlocks(db.cur, Active) = {} /\ HeadBlocks = {}
  BY DEF ImageBlocks, HeadBlocks, FileInv, ImageShape
<1>3. ASSUME Active.meta # None
      PROVE /\ Active.meta \in HeadBlocks /\ Active.freeList \in {None} \cup HeadBlocks
            /\ ImageBlocks(db.cur, Active) = HeadBlocks \cup {Pointers[i].block : i \in DOMAIN Pointers}
  BY <1>3 DEF HeadBlocks, ImageBlocks, Pointers
<1>4. ASSUME Active.meta # None
      PROVE  ImageBlocks(db.cur, Active) \subseteq 0 .. Active.count - 1
  BY <1>3, <1>4 DEF FileInv, ImageShape
<1>5. ASSUME Active.meta # None
      PROVE  0 .. Active.count - 1 \subseteq Block
  <2>1. Active.count \in Nat /\ Active.count <= db.max BY <1>1, <1>5 DEF Heading, FileInv, ImageShape
  <2>2. db.max \in Nat /\ db.max <= MaxBlock BY DEF FileInv, FileTypes, Manager
  <2> QED BY <2>1, <2>2, BlockFacts DEF Block
<1> QED BY <1>1, <1>2, <1>3, <1>4, <1>5

\* The step takes or writes the blocks in W, and frees those in F.
Quiet(W, F) ==
    /\ db' \in Manager /\ db.max <= db'.max /\ db'.dirty \subseteq db.dirty \cup W
    /\ db'.heads = db.heads /\ db'.iteration = db.iteration
    /\ W \subseteq db.free \cup (IF pc = "columns" THEN CkBlocks ELSE {}) \cup (db.max .. db'.max - 1)
    /\ db'.free \subseteq db.free \cup F \cup (db.max .. db'.max - 1)
    /\ F \cap HeadBlocks = {} /\ F \cap ImageBlocks(db.cur, Active) \subseteq atRisk'
    /\ atRisk \subseteq atRisk'
    /\ \A b \in Block \ W : db'.cur[b] = db.cur[b]
    /\ image' = image
    /\ pc # "down" /\ pc' \notin {"down", "second"}

LEMMA QuietImage ==
    ASSUME FileInv, NEW W, NEW F, Quiet(W, F)
    PROVE  /\ Active' = Active /\ HeadBlocks' = HeadBlocks
           /\ ImageBlocks(db.cur, Active)' = ImageBlocks(db.cur, Active)
           /\ \A b \in HeadBlocks \cup (ImageBlocks(db.cur, Active) \ atRisk') : db'.cur[b] = db.cur[b]
           /\ HeadsOK' /\ ImageShape' /\ ImageApart' /\ ImageWhole'
<1> DEFINE img == ImageBlocks(db.cur, Active)
<1>1. Active' = Active BY DEF Active, Quiet
<1>2. HeadBlocks' = HeadBlocks BY <1>1 DEF HeadBlocks
<1>3. HeadsOK' BY DEF HeadsOK, Quiet, FileInv
<1>4. CASE Active.meta = None
  <2>1. img = {} /\ HeadBlocks = {} BY <1>4, ActiveFacts
  <2>2. img' = {} BY <1>1, <1>4 DEF ImageBlocks
  <2>3. ImageShape' /\ ImageApart' /\ ImageWhole'
    BY <1>1, <1>4 DEF FileInv, ImageShape, ImageApart, ImageWhole
  <2> QED BY <1>1, <1>2, <1>3, <2>1, <2>2, <2>3
<1>5. CASE Active.meta # None
  <2>1. /\ Active \in Heading /\ HeadBlocks \subseteq img /\ img \subseteq Block
        /\ Active.meta \in HeadBlocks /\ Active.freeList \in {None} \cup HeadBlocks
        /\ img = HeadBlocks \cup {Pointers[i].block : i \in DOMAIN Pointers}
        /\ img \subseteq 0 .. Active.count - 1 /\ Active.count <= db.max
    BY <1>5, ActiveFacts DEF FileInv, ImageShape
  <2>2. HeadBlocks \cap db.free = {} /\ img \cap db.free \subseteq atRisk
    BY <1>5 DEF FileInv, ImageApart, Quiet
  <2>3. pc = "columns" => CkBlocks \cap HeadBlocks = {} /\ CkBlocks \cap img \subseteq atRisk
    BY DEF FileInv, CkApart
  <2>4. img \cap (db.max .. db'.max - 1) = {}
    <3>1. Active.count \in Nat BY <2>1 DEF Heading
    <3>2. db.max \in Nat /\ db'.max \in Nat BY DEF FileInv, FileTypes, Manager, Quiet
    <3> HIDE DEF img
    <3> QED BY <2>1, <3>1, <3>2
  <2>5. W \cap HeadBlocks = {} /\ W \cap img \subseteq atRisk BY <2>1, <2>2, <2>3, <2>4 DEF Quiet
  <2>6. \A b \in HeadBlocks \cup (img \ atRisk') : b \in Block /\ b \notin W /\ db'.cur[b] = db.cur[b]
    BY <2>1, <2>5 DEF Quiet
  <2>7. Pointers' = Pointers
    <3>1. db'.cur[Active.meta] = db.cur[Active.meta] BY <2>1, <2>6
    <3> QED BY <1>1, <3>1 DEF Pointers, PointersOf
  <2>8. img' = img
    <3>1. img' = HeadBlocks' \cup {Pointers'[i].block : i \in DOMAIN Pointers'}
      BY <1>1, <1>5 DEF HeadBlocks, ImageBlocks, Pointers
    <3> QED BY <1>2, <2>1, <2>7, <3>1
  <2>9. FreeListAt(db.cur, Active.freeList)' = FreeListAt(db.cur, Active.freeList)
    BY <1>1, <2>1, <2>6 DEF FreeListAt
  <2> HIDE DEF img
  <2>10. ImageShape'
    <3>1. /\ HeadBlocks \subseteq 0 .. Active.count - 1 /\ Active.meta # Active.freeList
          /\ Len(Pointers) = Len(image)
          /\ \A i \in DOMAIN Pointers : Pointers[i].block \in (0 .. Active.count - 1) \ HeadBlocks
          /\ FreeListAt(db.cur, Active.freeList) \subseteq (0 .. Active.count - 1) \ img
      BY <1>5 DEF FileInv, ImageShape, img
    <3>2. Active.count <= db'.max
      <4>1. db.max \in Nat /\ db'.max \in Nat /\ db.max <= db'.max /\ Active.count \in Nat /\ Active.count <= db.max
        BY <2>1 DEF Quiet, Heading, FileInv, FileTypes, Manager
      <4> QED BY ONLY <4>1
    <3> QED BY <1>1, <1>2, <1>5, <2>7, <2>8, <2>9, <3>1, <3>2 DEF ImageShape, Quiet, img
  <2>11. ImageApart'
    <3>1. HeadBlocks \cap db'.free = {} /\ img \cap db'.free \subseteq atRisk'
      BY <2>1, <2>2, <2>4 DEF Quiet, img
    <3> QED BY <1>1, <1>2, <2>8, <3>1 DEF ImageApart, img
  <2>12. ImageWhole'
    <3>1. SUFFICES ASSUME atRisk' = {}
                   PROVE  /\ img \cap db'.dirty = {}
                          /\ \A i \in DOMAIN Pointers : db'.cur[Pointers[i].block].toks[Pointers[i].off] = image[i]
      BY <1>1, <2>7, <2>8 DEF ImageWhole, Quiet, img
    <3>2. atRisk = {} BY <3>1 DEF Quiet
    <3>3. /\ img \cap db.dirty = {}
          /\ \A i \in DOMAIN Pointers : db.cur[Pointers[i].block].toks[Pointers[i].off] = image[i]
      BY <1>5, <3>2 DEF FileInv, ImageWhole, img
    <3>4. img \cap W = {} BY <2>5, <3>2
    <3>5. \A i \in DOMAIN Pointers : Pointers[i].block \in img BY <2>1
    <3> QED BY <2>6, <3>1, <3>3, <3>4, <3>5 DEF Quiet
  <2> QED BY <1>1, <1>2, <1>3, <2>6, <2>8, <2>10, <2>11, <2>12 DEF img
<1> QED BY <1>4, <1>5

-----------------------------------------------------------------------------
(* What the actions have in common.                                        *)

\* What d owns, e owns too and has not written.
Keeps(d, e) ==
    /\ Owned(d) \subseteq Owned(e)
    /\ \A b \in Owned(d) \cap Block : e.cur[b] = d.cur[b]

LEMMA GrownKeeps ==
    ASSUME NEW d \in Manager, NEW e, NEW T, FreeBelow(d), Grown(d, e, T)
    PROVE  Keeps(d, e)
BY GrownOwned DEF Keeps, Grown

LEMMA SegSurvives ==
    ASSUME NEW d, NEW e, NEW seg, Keeps(d, e), SegOK(d, seg)
    PROVE  SegOK(e, seg)
<1>1. None \notin Block BY DEF None, Block
<1> QED BY <1>1 DEF SegOK, Keeps

\* free_block_id and, when the pin fails, mark_as_free of it.
LEMMA ReclaimFacts ==
    ASSUME NEW d \in Manager, FreeBelow(d), NEW e, e = ReclaimUnused(d)
    PROVE  /\ e \in Manager /\ FreeBelow(e) /\ d.max <= e.max /\ Keeps(d, e)
           /\ e.free \subseteq d.free \cup (d.max .. e.max - 1)
           /\ e.heads = d.heads /\ e.iteration = d.iteration
           /\ \E b \in d.free \cup (d.max .. e.max - 1) :
                 e.dirty \subseteq d.dirty \cup {b} /\ \A x \in Block \ {b} : e.cur[x] = d.cur[x]
<1> DEFINE b == FreeBlockId(d)
           t == Taken(d)
<1>1. b \in Nat /\ Grown(d, t, {b}) BY TakenGrown
<1>2. e = [t EXCEPT !.free = @ \cup {b}] BY DEF ReclaimUnused, MarkAsFree
<1> HIDE DEF b, t
<1>3. t \in Manager BY <1>1 DEF Grown
<1>4. /\ e \in Manager /\ e.free = t.free \cup {b} /\ e.max = t.max /\ e.cur = t.cur /\ e.dirty = t.dirty
      /\ e.heads = t.heads /\ e.iteration = t.iteration
  BY <1>1, <1>2, <1>3 DEF Manager
<1>5. b \in d.free \cup (d.max .. e.max - 1) /\ b \in 0 .. t.max - 1 BY <1>1, <1>4 DEF Grown, Owned
<1>6. d.max <= e.max /\ e.free \subseteq d.free \cup (d.max .. e.max - 1) BY <1>1, <1>4, <1>5 DEF Grown
<1>7. FreeBelow(e) BY <1>1, <1>3, <1>4, <1>5 DEF Grown, FreeBelow
<1>8. Keeps(d, e)
  <2>1. Owned(d) \subseteq Owned(t) \ {b} BY <1>1, GrownOwned
  <2> QED BY <1>1, <1>4, <2>1 DEF Keeps, Owned, Grown
<1>9. e.dirty \subseteq d.dirty \cup {b} /\ \A x \in Block \ {b} : e.cur[x] = d.cur[x] BY <1>1, <1>4 DEF Grown
<1>10. e.heads = d.heads /\ e.iteration = d.iteration BY <1>1, <1>4 DEF Grown
<1> QED BY <1>4, <1>5, <1>6, <1>7, <1>8, <1>9, <1>10

LEMMA HeadsOwned ==
    ASSUME FileInv, pc # "down"
    PROVE  HeadBlocks \subseteq Owned(db)
<1>1. CASE Active.meta = None BY <1>1, ActiveFacts
<1>2. CASE Active.meta # None
  <2>1. HeadBlocks \subseteq 0 .. Active.count - 1 /\ Active.count <= db.max /\ HeadBlocks \cap db.free = {}
    BY <1>2 DEF FileInv, ImageShape, ImageApart
  <2>2. Active.count \in Nat /\ db.max \in Nat BY ActiveFacts DEF Heading, FileInv, FileTypes, Manager
  <2> QED BY <2>1, <2>2 DEF Owned
<1> QED BY <1>1, <1>2

\* Blocks taken are no heads of the image.
LEMMA ThroughApart ==
    ASSUME FileInv, pc # "down", NEW e, NEW T, Grown(db, e, T), NEW s, NEW t, Same(s, t, T),
           BlocksOf(s) \cap HeadBlocks = {}
    PROVE  BlocksOf(t) \cap HeadBlocks = {}
<1>1. Owned(db) \subseteq Owned(e) \ T BY GrownOwned DEF FileInv, FileTypes
<1>2. T \cap HeadBlocks = {} BY <1>1, HeadsOwned
<1> QED BY <1>2 DEF Same, BlocksOf

LEMMA GrownQuiet ==
    ASSUME FileInv, NEW T, Grown(db, db', T), atRisk' = atRisk, image' = image,
           pc # "down", pc' \notin {"down", "second"}
    PROVE  Quiet(T, {})
BY DEF Quiet, Grown

\* The same behind blocks that were taken before.
LEMMA ReclaimQuiet ==
    ASSUME FileInv, NEW d, NEW T, Grown(db, d, T), db' = ReclaimUnused(d), atRisk' = atRisk, image' = image,
           pc # "down", pc' \notin {"down", "second"}
    PROVE  \E W : Quiet(W, {}) /\ db' \in Manager /\ FreeBelow(db') /\ Keeps(d, db')
<1>1. db \in Manager /\ d \in Manager /\ FreeBelow(d) BY DEF FileInv, FileTypes, Grown
<1>2. /\ db' \in Manager /\ FreeBelow(db') /\ d.max <= db'.max /\ Keeps(d, db')
      /\ db'.free \subseteq d.free \cup (d.max .. db'.max - 1)
      /\ db'.heads = d.heads /\ db'.iteration = d.iteration
      /\ \E b \in d.free \cup (d.max .. db'.max - 1) :
            db'.dirty \subseteq d.dirty \cup {b} /\ \A x \in Block \ {b} : db'.cur[x] = d.cur[x]
  BY <1>1, ReclaimFacts
<1>3. PICK b \in d.free \cup (d.max .. db'.max - 1) :
            db'.dirty \subseteq d.dirty \cup {b} /\ \A x \in Block \ {b} : db'.cur[x] = d.cur[x]
  BY <1>2
<1>4. db.max \in Nat /\ d.max \in Nat /\ db'.max \in Nat BY <1>1, <1>2 DEF Manager
<1>5. /\ db.max <= d.max /\ T \subseteq db.free \cup (db.max .. d.max - 1) /\ d.free = db.free \ T
      /\ (\A x \in Block \ T : d.cur[x] = db.cur[x]) /\ d.dirty \subseteq db.dirty \cup T
      /\ d.heads = db.heads /\ d.iteration = db.iteration
  BY DEF Grown
<1>6. T \cup {b} \subseteq db.free \cup (db.max .. db'.max - 1) BY <1>2, <1>3, <1>4, <1>5
<1>7. db'.free \subseteq db.free \cup (db.max .. db'.max - 1) BY <1>2, <1>4, <1>5
<1>8. Quiet(T \cup {b}, {}) BY <1>2, <1>3, <1>4, <1>5, <1>6, <1>7 DEF Quiet
<1> QED BY <1>2, <1>8

LEMMA QuietTypes ==
    ASSUME FileInv, NEW W, NEW F, Quiet(W, F), db'.max <= MaxBlock
    PROVE  db'.dirty \subseteq Block
<1>1. db.max \in Nat /\ db'.max \in Nat /\ db.max <= db'.max BY DEF Quiet, FileInv, FileTypes, Manager
<1>2. db.free \subseteq 0 .. db.max - 1 /\ CkBlocks \subseteq 0 .. db.max - 1
  BY DEF FileInv, FileTypes, FreeBelow, CkApart, Owned
<1>3. W \subseteq 0 .. db'.max - 1
  <2>1. W \subseteq db.free \cup CkBlocks \cup (db.max .. db'.max - 1) BY DEF Quiet
  <2>2. 0 .. db.max - 1 \subseteq 0 .. db'.max - 1 /\ db.max .. db'.max - 1 \subseteq 0 .. db'.max - 1 BY <1>1
  <2> QED BY <1>2, <2>1, <2>2, Zenon
<1>4. 0 .. db'.max - 1 \subseteq Block BY <1>1, BlockFacts
<1> QED BY <1>3, <1>4 DEF Quiet, FileInv, FileTypes

LEMMA NoCheckpointFacts ==
    /\ NoCheckpoint \in Checkpoint /\ NoCheckpoint.meta = None /\ NoCheckpoint.freeList = None
    /\ DOMAIN NoCheckpoint.bufs = {} /\ NoCheckpoint.ptrs = <<>> /\ NoCheckpoint.next = 1 /\ NoCheckpoint.partial = None
<1>1. <<>> \in Seq(Pointer) /\ <<>> \in Seq(Int) BY EmptySeq
<1>2. <<>> \in [{} -> Seq(Int)] OBVIOUS
<1>3. <<>> \in Buffers BY <1>2, Zenon DEF Buffers
<1>4. None \in Int /\ 1 \in Nat BY DEF None
<1>5. DOMAIN <<>> = {} OBVIOUS
<1> QED BY <1>1, <1>3, <1>4, <1>5 DEF NoCheckpoint, Checkpoint

\* Between checkpoints only types and segments are left to show.
LEMMA ServingStep ==
    ASSUME FileInv, NEW W, NEW F, Quiet(W, F), pc = "serving", pc' = "serving", ck' = ck, prev' = prev,
           FileTypes', LiveOK'
    PROVE  FileInv'
<1>1. HeadsOK' /\ ImageShape' /\ ImageApart' /\ ImageWhole' BY QuietImage
<1>2. ck = NoCheckpoint /\ ck' = NoCheckpoint BY DEF FileInv, CkApart
<1>3. CkBlocks' = {} BY <1>2, NoCheckpointFacts DEF CkBlocks
<1>4. CkApart' BY <1>2, <1>3 DEF CkApart
<1>5. prev = NoCopy BY DEF FileInv, PrevOK
<1>6. CkFlushed' /\ CkWritten' /\ PrevOK' /\ DownOK' BY <1>5 DEF CkFlushed, CkWritten, PrevOK, DownOK
<1> QED BY <1>1, <1>4, <1>6 DEF FileInv

-----------------------------------------------------------------------------
(* A table that is served: appends, full row groups, compaction.           *)

LEMMA AppendSegmentInv ==
    ASSUME FileInv, NEW kind \in Kind, AppendSegment(kind), exposed' = {}
    PROVE  FileInv'
<1> USE DEF AppendSegment
<1> DEFINE new == Managed(tokens + 1, kind)
<1>1. tokens \in Nat /\ live \in Seq(Segment) BY DEF FileInv, FileTypes
<1>2. new \in Segment /\ new.block = None /\ new.bits = None /\ new.off = 1 /\ new.tok = tokens + 1
  BY <1>1, BlockFileAssumption DEF Managed, Segment, None
<1> HIDE DEF new
<1>3. live' = Append(live, new) BY DEF new
<1>4. live' \in Seq(Segment) /\ Len(live') = Len(live) + 1 BY <1>1, <1>2, <1>3
<1>5. FileTypes'
  <2>1. Len(live') <= MaxSegment
    <3>1. Len(live) < MaxSegment /\ Len(live) \in Nat /\ MaxSegment \in Nat BY <1>1, BlockFileAssumption
    <3> QED BY <1>4, <3>1
  <2>2. \A i \in DOMAIN image' : image'[i] \in 1 .. tokens'
    <3>1. \A i \in DOMAIN image : image[i] \in 1 .. tokens BY DEF FileInv, FileTypes
    <3> QED BY <1>1, <3>1
  <2> QED BY <1>1, <1>4, <2>1, <2>2 DEF FileInv, FileTypes, FreeBelow
<1>6. Quiet({}, {})
  <2>1. Grown(db, db, {}) BY GrownNone DEF FileInv, FileTypes
  <2>2. Grown(db, db', {}) BY <2>1 DEF Grown
  <2> QED BY <2>2, GrownQuiet
<1>7. LiveOK'
  <2>1. HeadBlocks' = HeadBlocks BY <1>6, QuietImage
  <2>2. ASSUME NEW i \in DOMAIN live'
        PROVE  SegOK(db, live'[i]) /\ live'[i].tok \in 1 .. tokens' /\ BlocksOf(live'[i]) \cap HeadBlocks = {}
    <3>1. CASE i = Len(live) + 1
      <4>1. live'[i] = new BY <1>1, <1>3, <3>1
      <4>2. SegOK(db, new) BY <1>2 DEF SegOK, None, Block
      <4>3. BlocksOf(new) = {} BY <1>2 DEF BlocksOf
      <4> QED BY <1>1, <1>2, <4>1, <4>2, <4>3
    <3>2. CASE i # Len(live) + 1
      <4>1. i \in DOMAIN live /\ live'[i] = live[i] BY <1>1, <1>3, <1>4, <3>2
      <4>2. SegOK(db, live[i]) /\ live[i].tok \in 1 .. tokens /\ BlocksOf(live[i]) \cap HeadBlocks = {}
        BY <4>1 DEF FileInv, LiveOK
      <4> QED BY <1>1, <4>1, <4>2
    <3> QED BY <3>1, <3>2
  <2>3. \A seg : SegOK(db, seg) <=> SegOK(db', seg) BY DEF SegOK, Owned
  <2> QED BY <2>1, <2>2, <2>3 DEF LiveOK
<1> QED BY <1>5, <1>6, <1>7, ServingStep

\* The segments of the table, as a function.
LEMMA LiveFunction ==
    ASSUME FileInv
    PROVE  /\ Len(live) \in Nat /\ live \in [1 .. Len(live) -> Segment] /\ DOMAIN live = 1 .. Len(live)
           /\ \A i \in 1 .. Len(live) : SegOK(db, live[i]) /\ live[i].tok \in 1 .. tokens
                                        /\ BlocksOf(live[i]) \cap HeadBlocks = {}
<1>1. live \in Seq(Segment) BY DEF FileInv, FileTypes
<1>2. Len(live) \in Nat /\ DOMAIN live = 1 .. Len(live) BY <1>1
<1>3. live \in [1 .. Len(live) -> Segment] BY <1>1, <1>2
<1> QED BY <1>2, <1>3 DEF FileInv, LiveOK

LEMMA CloseRowGroupInv ==
    ASSUME FileInv, NEW n \in 0 .. MaxSegment, NEW oom \in BOOLEAN, CloseRowGroup(n, oom), exposed' = {}
    PROVE  FileInv'
<1> DEFINE r == TransitionToDisk(db, live, n)
           m == Len(live)
<1>1. /\ pc = "serving" /\ n \in 0 .. m /\ db' = (IF oom THEN ReclaimUnused(r.db) ELSE r.db) /\ live' = r.segs
      /\ BoundOK(db') /\ UNCHANGED <<ck, prev, pc, image, atRisk, tokens>>
  BY DEF CloseRowGroup
<1>2. m \in Nat /\ live \in [1 .. m -> Segment] /\ (\A i \in 1 .. m : SegOK(db, live[i])) /\ db \in Manager /\ FreeBelow(db)
  BY LiveFunction DEF FileInv, FileTypes
<1>3. Through(r, db, live, m) BY <1>1, <1>2, TransitionDone
<1>4. PICK T : /\ Grown(db, r.db, T)
               /\ r.segs \in [1 .. m -> Segment]
               /\ \A i \in 1 .. m : SegOK(r.db, r.segs[i]) /\ Same(live[i], r.segs[i], T)
  BY <1>3 DEF Through
<1> HIDE DEF r
<1>5. r.db \in Manager /\ FreeBelow(r.db) BY <1>4 DEF Grown
<1>6. \E W : Quiet(W, {}) /\ db' \in Manager /\ FreeBelow(db') /\ Keeps(r.db, db')
  <2>1. CASE ~oom
    <3>1. db' = r.db BY <1>1, <2>1
    <3>2. Quiet(T, {}) BY <1>1, <1>4, <3>1, GrownQuiet
    <3> QED BY <1>5, <3>1, <3>2 DEF Keeps
  <2>2. CASE oom
    <3>1. db' = ReclaimUnused(r.db) BY <1>1, <2>2
    <3> QED BY <1>1, <1>4, <3>1, ReclaimQuiet
  <2> QED BY <2>1, <2>2
<1>7. PICK W : Quiet(W, {}) /\ db' \in Manager /\ FreeBelow(db') /\ Keeps(r.db, db') BY <1>6
<1>8. FileTypes'
  <2>1. db'.max <= MaxBlock BY <1>1 DEF BoundOK
  <2>2. db'.dirty \subseteq Block BY <1>7, <2>1, QuietTypes
  <2>3. live' \in Seq(Segment) /\ Len(live') = m BY <1>1, <1>2, <1>4
  <2> QED BY <1>1, <1>7, <2>1, <2>2, <2>3 DEF FileInv, FileTypes, FreeBelow
<1>9. LiveOK'
  <2>1. HeadBlocks' = HeadBlocks BY <1>7, QuietImage
  <2>2. DOMAIN live' = 1 .. m BY <1>1, <1>4
  <2>3. ASSUME NEW i \in 1 .. m
        PROVE  SegOK(db', live'[i]) /\ live'[i].tok \in 1 .. tokens /\ BlocksOf(live'[i]) \cap HeadBlocks = {}
    <3>1. SegOK(db', r.segs[i]) BY <1>4, <1>7, SegSurvives
    <3>2. r.segs[i].tok = live[i].tok BY <1>4 DEF Same
    <3>3. BlocksOf(r.segs[i]) \cap HeadBlocks = {} BY <1>1, <1>4, LiveFunction, ThroughApart
    <3> QED BY <1>1, <3>1, <3>2, <3>3, LiveFunction
  <2> QED BY <1>1, <2>1, <2>2, <2>3 DEF LiveOK
<1> QED BY <1>1, <1>7, <1>8, <1>9, ServingStep

\* The blocks that compaction gives back are those of live segments.
LEMMA CollectedFacts ==
    ASSUME FileInv
    PROVE  CollectDiskBlockIds(live) \subseteq Owned(db) /\ CollectDiskBlockIds(live) \cap HeadBlocks = {}
<1>1. ASSUME NEW b \in CollectDiskBlockIds(live)
      PROVE  b \in Owned(db) /\ b \notin HeadBlocks
  <2>1. b # None /\ \E i \in DOMAIN live : b = live[i].block \/ b = live[i].bits
    <3> DEFINE own(i) == {x \in {live[i].block} : live[i].whole /\ live[i].off = 1} \cup {live[i].bits}
    <3>1. b # None /\ b \in UNION {own(i) : i \in DOMAIN live} BY <1>1 DEF CollectDiskBlockIds
    <3>2. \A i : own(i) \subseteq {live[i].block, live[i].bits} OBVIOUS
    <3> HIDE DEF own
    <3>3. \E i \in DOMAIN live : b \in own(i) BY <3>1
    <3> QED BY <3>1, <3>2, <3>3
  <2>2. PICK i \in DOMAIN live : b = live[i].block \/ b = live[i].bits BY <2>1
  <2>3. SegOK(db, live[i]) /\ BlocksOf(live[i]) \cap HeadBlocks = {} BY <2>2, LiveFunction
  <2> QED BY <2>1, <2>2, <2>3 DEF SegOK, BlocksOf
<1> QED BY <1>1

\* The new collection, written to blocks that were nobody's.
LEMMA RebuiltFacts ==
    ASSUME FileInv, NEW kept \in Selections, NEW n \in 0 .. Len(kept), NEW r, r = Rebuilt(kept, n)
    PROVE  \E T : /\ Grown(db, r.db, T)
                  /\ r.segs \in Seq(Segment) /\ Len(r.segs) <= Len(live)
                  /\ \A i \in DOMAIN r.segs : /\ SegOK(r.db, r.segs[i]) /\ r.segs[i].tok \in 1 .. tokens
                                              /\ BlocksOf(r.segs[i]) \subseteq T
<1>1. PICK m \in 0 .. Len(live) : kept \in [1 .. m -> DOMAIN live] BY DEF Selections, SeqOf
<1>2. m \in Nat /\ Len(live) \in Nat /\ DOMAIN kept = 1 .. m /\ Len(kept) = m
  <2>1. Len(live) \in Nat BY LiveFunction
  <2>2. m \in Nat /\ DOMAIN kept = 1 .. m BY <1>1, <2>1
  <2>3. kept \in Seq(DOMAIN live) BY <1>1, <2>2
  <2> QED BY <2>1, <2>2, <2>3
<1> DEFINE segs == [i \in 1 .. m |-> Managed(live[kept[i]].tok, live[kept[i]].kind)]
<1>3. r = TransitionToDisk(db, segs, n) BY <1>2 DEF Rebuilt
<1>4. ASSUME NEW i \in 1 .. m
      PROVE  /\ segs[i] \in Segment /\ segs[i].tok \in 1 .. tokens /\ segs[i].block = None /\ segs[i].bits = None
             /\ SegOK(db, segs[i])
  <2> DEFINE s == live[kept[i]]
  <2>1. kept[i] \in DOMAIN live BY <1>1
  <2>2. s \in Segment /\ s.tok \in 1 .. tokens BY <2>1, LiveFunction
  <2>3. segs[i] = Managed(s.tok, s.kind) OBVIOUS
  <2> HIDE DEF s, segs
  <2>4. segs[i] \in Segment /\ segs[i].tok = s.tok /\ segs[i].block = None /\ segs[i].bits = None /\ segs[i].off = 1
    BY <2>2, <2>3 DEF Managed, Segment, None
  <2>5. SegOK(db, segs[i]) BY <2>4 DEF SegOK, None, Block
  <2> QED BY <2>2, <2>4, <2>5
<1>5. segs \in [1 .. m -> Segment] BY <1>4
<1> HIDE DEF segs
<1>6. Through(r, db, segs, m) BY <1>2, <1>3, <1>4, <1>5, TransitionDone DEF FileInv, FileTypes
<1>7. PICK T : /\ Grown(db, r.db, T)
               /\ r.segs \in [1 .. m -> Segment]
               /\ \A i \in 1 .. m : SegOK(r.db, r.segs[i]) /\ Same(segs[i], r.segs[i], T)
  BY <1>6 DEF Through
<1>8. r.segs \in Seq(Segment) /\ Len(r.segs) = m /\ DOMAIN r.segs = 1 .. m BY <1>2, <1>7
<1>9. ASSUME NEW i \in 1 .. m PROVE r.segs[i].tok \in 1 .. tokens /\ BlocksOf(r.segs[i]) \subseteq T
  BY <1>4, <1>7 DEF Same, BlocksOf
<1> QED BY <1>1, <1>2, <1>7, <1>8, <1>9

\* The table after a compaction, or after none.
Compaction(acc, T, F) ==
    /\ acc.db \in Manager /\ FreeBelow(acc.db) /\ db.max <= acc.db.max
    /\ T \subseteq db.free \cup (db.max .. acc.db.max - 1)
    /\ acc.db.free \subseteq db.free \cup F
    /\ F \cap HeadBlocks = {} /\ F \cap ImageBlocks(db.cur, Active) \subseteq Reclaimed
    /\ HeadBlocks \subseteq Owned(acc.db)
    /\ \A b \in Block \ T : acc.db.cur[b] = db.cur[b]
    /\ acc.db.dirty \subseteq db.dirty \cup T
    /\ acc.db.heads = db.heads /\ acc.db.iteration = db.iteration
    /\ acc.segs \in Seq(Segment) /\ Len(acc.segs) <= Len(live)
    /\ \A i \in DOMAIN acc.segs : /\ SegOK(acc.db, acc.segs[i]) /\ acc.segs[i].tok \in 1 .. tokens
                                  /\ BlocksOf(acc.segs[i]) \cap HeadBlocks = {}

LEMMA CompactedFacts ==
    ASSUME FileInv, pc = "serving", NEW kept \in Selections, NEW n \in 0 .. Len(kept)
    PROVE  \E T, F : Compaction(Compacted(kept, n), T, F)
<1> DEFINE new == Rebuilt(kept, n)
           F   == CollectDiskBlockIds(live)
           r   == Compacted(kept, n)
<1>1. PICK T : /\ Grown(db, new.db, T)
               /\ new.segs \in Seq(Segment) /\ Len(new.segs) <= Len(live)
               /\ \A i \in DOMAIN new.segs : /\ SegOK(new.db, new.segs[i]) /\ new.segs[i].tok \in 1 .. tokens
                                             /\ BlocksOf(new.segs[i]) \subseteq T
  BY RebuiltFacts
<1>2. r.db = MarkAsFree(new.db, F) /\ r.segs = new.segs BY DEF Compacted
<1>3. F \subseteq Owned(db) /\ F \cap HeadBlocks = {} BY CollectedFacts
<1>4. F \cap ImageBlocks(db.cur, Active) \subseteq Reclaimed BY DEF Reclaimed
<1> HIDE DEF new, F, r
<1>5. db \in Manager /\ FreeBelow(db) /\ new.db \in Manager /\ FreeBelow(new.db)
  BY <1>1 DEF FileInv, FileTypes, Grown
<1>6. Owned(db) \subseteq Owned(new.db) \ T BY <1>1, <1>5, GrownOwned
<1>7. F \subseteq Nat BY <1>3, <1>5 DEF Owned, Manager
<1>8. r.db = [new.db EXCEPT !.free = @ \cup F] BY <1>2 DEF MarkAsFree
<1>9. /\ r.db \in Manager /\ r.db.free = new.db.free \cup F /\ r.db.max = new.db.max /\ r.db.cur = new.db.cur
      /\ r.db.dirty = new.db.dirty /\ r.db.heads = new.db.heads /\ r.db.iteration = new.db.iteration
  BY <1>5, <1>7, <1>8 DEF Manager
<1>10. FreeBelow(r.db) BY <1>3, <1>5, <1>6, <1>9 DEF FreeBelow, Owned
<1>11. T \cap HeadBlocks = {} /\ T \cap F = {} BY <1>3, <1>6, HeadsOwned
<1>12. HeadBlocks \subseteq Owned(r.db) BY <1>3, <1>6, <1>9, HeadsOwned DEF Owned
<1>13. ASSUME NEW i \in DOMAIN r.segs
       PROVE  SegOK(r.db, r.segs[i]) /\ r.segs[i].tok \in 1 .. tokens /\ BlocksOf(r.segs[i]) \cap HeadBlocks = {}
  <2>1. SegOK(new.db, r.segs[i]) /\ r.segs[i].tok \in 1 .. tokens /\ BlocksOf(r.segs[i]) \subseteq T
    BY <1>1, <1>2
  <2>2. Owned(new.db) \ F \subseteq Owned(r.db) BY <1>9 DEF Owned
  <2>3. SegOK(r.db, r.segs[i])
    <3> DEFINE g == r.segs[i]
    <3>1. SegOK(new.db, g) /\ BlocksOf(g) \subseteq T /\ r.db.cur = new.db.cur BY <1>9, <2>1
    <3> HIDE DEF g
    <3>2. SegOK(r.db, g) BY <1>11, <2>2, <3>1 DEF SegOK, BlocksOf
    <3> QED BY <3>2 DEF g
  <2> QED BY <1>11, <2>1, <2>3
<1>14. Compaction(r, T, F)
  BY <1>1, <1>2, <1>3, <1>4, <1>9, <1>10, <1>12, <1>13 DEF Compaction, Grown
<1> QED BY <1>14 DEF r

LEMMA CompactInv ==
    ASSUME FileInv, NEW kept \in Selections, NEW n \in 0 .. MaxSegment, Compact(kept, n), exposed' = {}
    PROVE  FileInv'
<1> DEFINE r == Compacted(kept, n)
<1>1. /\ pc = "serving" /\ n \in 0 .. Len(kept) /\ BoundOK(r.db) /\ db' = r.db /\ live' = r.segs
      /\ atRisk' = atRisk \cup Reclaimed /\ UNCHANGED <<ck, prev, pc, image, tokens>>
  BY DEF Compact
<1>2. PICK T, F : Compaction(r, T, F) BY <1>1, CompactedFacts
<1> HIDE DEF r
<1>3. Quiet(T, F) BY <1>1, <1>2 DEF Quiet, Compaction
<1>4. FileTypes'
  <2>1. db'.max <= MaxBlock BY <1>1 DEF BoundOK
  <2>2. db'.dirty \subseteq Block BY <1>3, <2>1, QuietTypes
  <2>3. live' \in Seq(Segment) /\ Len(live') <= Len(live) BY <1>1, <1>2 DEF Compaction
  <2>4. Len(live) \in Nat /\ Len(live') \in Nat /\ Len(live) <= MaxSegment /\ MaxSegment \in Nat
    BY <2>3, LiveFunction, BlockFileAssumption DEF FileInv, FileTypes
  <2>5. Len(live') <= MaxSegment BY <2>3, <2>4
  <2>6. db' \in Manager /\ FreeBelow(db') BY <1>1, <1>2 DEF Compaction
  <2> QED BY <1>1, <2>1, <2>2, <2>3, <2>5, <2>6 DEF FileInv, FileTypes, FreeBelow
<1>5. LiveOK'
  <2>1. HeadBlocks' = HeadBlocks BY <1>3, QuietImage
  <2> QED BY <1>1, <1>2, <2>1 DEF LiveOK, Compaction
<1> QED BY <1>1, <1>3, <1>4, <1>5, ServingStep

LEMMA CompactFailsInv ==
    ASSUME FileInv, NEW kept \in Selections, NEW n \in 0 .. MaxSegment, CompactFails(kept, n), exposed' = {}
    PROVE  FileInv'
<1> DEFINE r == Rebuilt(kept, n)
<1>1. /\ pc = "serving" /\ n \in 0 .. Len(kept) /\ BoundOK(r.db) /\ db' = r.db
      /\ UNCHANGED <<live, ck, prev, pc, image, atRisk, tokens>>
  BY DEF CompactFails
<1>2. PICK T : Grown(db, r.db, T) BY <1>1, RebuiltFacts
<1> HIDE DEF r
<1>3. Quiet(T, {}) BY <1>1, <1>2, GrownQuiet
<1>4. FileTypes'
  <2>1. db'.max <= MaxBlock BY <1>1 DEF BoundOK
  <2>2. db'.dirty \subseteq Block BY <1>3, <2>1, QuietTypes
  <2>3. db' \in Manager /\ FreeBelow(db') BY <1>1, <1>2 DEF Grown
  <2> QED BY <1>1, <2>1, <2>2, <2>3 DEF FileInv, FileTypes, FreeBelow
<1>5. LiveOK'
  <2>1. HeadBlocks' = HeadBlocks BY <1>3, QuietImage
  <2>2. \A i \in DOMAIN live : SegOK(db', live[i])
    BY <1>1, <1>2, LiveFunction, SegKept DEF FileInv, FileTypes
  <2> QED BY <1>1, <2>1, <2>2 DEF FileInv, LiveOK
<1> QED BY <1>1, <1>3, <1>4, <1>5, ServingStep

-----------------------------------------------------------------------------
(* The checkpoint.                                                         *)

\* free_block_id writes nothing.
LEMMA TakenUnwritten ==
    ASSUME NEW d \in Manager
    PROVE  Taken(d).cur = d.cur /\ Taken(d).dirty = d.dirty
BY DEF Taken, Manager

\* One more block is taken behind a compaction; what was taken is nobody's.
LEMMA CkBeginInv ==
    ASSUME FileInv, NEW kept \in Selections, NEW n \in 0 .. MaxSegment, NEW copied \in BOOLEAN,
           CkBegin(kept, n, copied), exposed' = {}
    PROVE  FileInv'
<1> DEFINE r == IF live = <<>> THEN [db |-> db, segs |-> live] ELSE Compacted(kept, n)
           b == FreeBlockId(r.db)
<1>1. /\ pc = "serving" /\ n \in 0 .. Len(kept) /\ BoundOK(Taken(r.db)) /\ db' = Taken(r.db) /\ live' = r.segs
      /\ ck' = [NoCheckpoint EXCEPT !.meta = b]
      /\ prev' = (IF copied THEN [cur |-> r.db.cur, heads |-> r.db.heads] ELSE NoCopy)
      /\ atRisk' = atRisk \cup Reclaimed /\ pc' = "columns" /\ UNCHANGED <<image, tokens>>
  BY DEF CkBegin
<1>2. \E T, F : Compaction(r, T, F)
  <2>1. CASE live # <<>> BY <1>1, <2>1, CompactedFacts
  <2>2. CASE live = <<>>
    <3>1. r.db = db /\ r.segs = <<>> BY <2>2
    <3> HIDE DEF r
    <3>2. <<>> \in Seq(Segment) /\ Len(<<>>) = 0 /\ DOMAIN <<>> = {} BY EmptySeq
    <3>3. Compaction(r, {}, {}) BY <1>1, <2>2, <3>1, <3>2, HeadsOwned DEF Compaction, FileInv, FileTypes, Manager
    <3> QED BY <3>3 DEF r
  <2> QED BY <2>1, <2>2
<1>3. PICK T, F : Compaction(r, T, F) BY <1>2
<1>4. r.db \in Manager /\ FreeBelow(r.db) BY <1>3 DEF Compaction
<1>5. b \in Nat /\ Grown(r.db, db', {b}) BY <1>1, <1>4, TakenGrown
<1> HIDE DEF r, b
<1>6. Owned(r.db) \subseteq Owned(db') \ {b} BY <1>4, <1>5, GrownOwned
<1>7. db.max \in Nat /\ r.db.max \in Nat /\ db'.max \in Nat /\ db.max <= r.db.max /\ r.db.max <= db'.max
  BY <1>3, <1>4, <1>5 DEF FileInv, FileTypes, Manager, Compaction, Grown
<1>8. b \in r.db.free \cup (r.db.max .. db'.max - 1) BY <1>5 DEF Grown
<1>9. db'.cur = r.db.cur /\ db'.dirty = r.db.dirty BY <1>1, <1>4, TakenUnwritten
<1>10. db'.free \subseteq r.db.free /\ db'.heads = r.db.heads /\ db'.iteration = r.db.iteration BY <1>5 DEF Grown
<1>11. Quiet(T, F)
  <2>1. T \subseteq db.free \cup (db.max .. db'.max - 1)
    <3>1. T \subseteq db.free \cup (db.max .. r.db.max - 1) BY <1>3 DEF Compaction
    <3> QED BY <1>7, <3>1
  <2>2. db' \in Manager BY <1>5 DEF Grown
  <2> QED BY <1>1, <1>3, <1>7, <1>9, <1>10, <2>1, <2>2 DEF Quiet, Compaction
<1>12. /\ Active' = Active /\ HeadBlocks' = HeadBlocks
       /\ ImageBlocks(db.cur, Active)' = ImageBlocks(db.cur, Active)
       /\ HeadsOK' /\ ImageShape' /\ ImageApart' /\ ImageWhole'
  BY <1>11, QuietImage
<1>13. /\ ck' \in Checkpoint /\ ck'.meta = b /\ ck'.freeList = None /\ DOMAIN ck'.bufs = {} /\ ck'.ptrs = <<>>
       /\ ck'.next = 1 /\ ck'.partial = None
  <2>1. b \in Int BY <1>5
  <2>2. NoCheckpoint \in [meta : Int, next : Nat, bufs : Buffers, partial : Int, ptrs : Seq(Pointer), freeList : Int]
    BY NoCheckpointFacts DEF Checkpoint
  <2> QED BY <1>1, <2>1, <2>2, NoCheckpointFacts DEF Checkpoint
<1>14. FileTypes'
  <2>1. db'.max <= MaxBlock BY <1>1 DEF BoundOK
  <2>2. db'.dirty \subseteq Block BY <1>11, <2>1, QuietTypes
  <2>3. live' \in Seq(Segment) /\ Len(live') <= Len(live) BY <1>1, <1>3 DEF Compaction
  <2>4. Len(live) \in Nat /\ Len(live') \in Nat /\ Len(live) <= MaxSegment /\ MaxSegment \in Nat
    BY <2>3, LiveFunction, BlockFileAssumption DEF FileInv, FileTypes
  <2>5. Len(live') <= MaxSegment BY <2>3, <2>4
  <2>6. db' \in Manager /\ FreeBelow(db') BY <1>5 DEF Grown
  <2>7. prev' \in {NoCopy} \cup Copy BY <1>1, <1>4 DEF Copy, Manager
  <2> QED BY <1>1, <1>13, <2>1, <2>2, <2>3, <2>5, <2>6, <2>7 DEF FileInv, FileTypes, FreeBelow
<1>15. LiveOK'
  <2>1. \A i \in DOMAIN live' : SegOK(db', live'[i]) BY <1>1, <1>3, <1>4, <1>5, SegKept DEF Compaction
  <2> QED BY <1>1, <1>3, <1>12, <2>1 DEF LiveOK, Compaction
<1>16. CkApart'
  <2>1. b # None BY <1>5, BlockFacts
  <2>2. CkBlocks' = {b} BY <1>13, <2>1 DEF CkBlocks
  <2>3. b \in Owned(db') /\ b \notin Owned(r.db)
    <3>1. {b} \subseteq Owned(db') BY <1>5 DEF Grown
    <3> QED BY ONLY <1>6, <3>1
  <2>4. b \notin HeadBlocks BY <1>3, <2>3 DEF Compaction
  <2>5. \A i \in DOMAIN live' : b \notin BlocksOf(live'[i])
    BY <1>1, <1>3, <2>3 DEF Compaction, SegOK, BlocksOf
  <2>6. b \in ImageBlocks(db.cur, Active) => b \in atRisk'
    <3>1. SUFFICES ASSUME b \in ImageBlocks(db.cur, Active), Active.meta # None PROVE b \in atRisk'
      BY ActiveFacts
    <3>2. b \in 0 .. Active.count - 1 /\ Active.count \in Nat /\ Active.count <= db.max
      BY <3>1, ActiveFacts DEF FileInv, ImageShape, Heading
    <3>3. b \in r.db.free BY <1>7, <1>8, <3>2
    <3>4. b \in db.free \/ b \in F BY <1>3, <3>3 DEF Compaction
    <3>5. CASE b \in db.free BY <1>1, <3>1, <3>5 DEF FileInv, ImageApart
    <3>6. CASE b \in F BY <1>1, <1>3, <3>1, <3>6 DEF Compaction
    <3> QED BY <3>4, <3>5, <3>6
  <2> QED BY <1>1, <1>12, <1>13, <2>1, <2>2, <2>3, <2>4, <2>5, <2>6 DEF CkApart
<1>17. CkFlushed'
  <2>1. Len(live') \in Nat /\ Len(<<>>) = 0 BY <1>14 DEF FileTypes
  <2> QED BY <1>1, <1>13, <2>1 DEF CkFlushed
<1>18. PrevOK'
  <2>1. prev' # NoCopy => prev'.cur = db'.cur /\ prev'.heads = db'.heads BY <1>1, <1>9, <1>10
  <2> QED BY <1>1, <2>1 DEF PrevOK
<1>19. CkWritten' /\ DownOK' BY <1>1 DEF CkWritten, DownOK
<1> QED BY <1>12, <1>14, <1>15, <1>16, <1>17, <1>18, <1>19 DEF FileInv

LEMMA BufferFacts ==
    ASSUME NEW f \in Buffers
    PROVE  DOMAIN f \subseteq Nat /\ \A x \in DOMAIN f : f[x] \in Seq(Int)
<1>1. PICK D \in SUBSET Nat : f \in [D -> Seq(Int)] BY DEF Buffers
<1> QED BY <1>1

LEMMA BufferMade ==
    ASSUME NEW D \in SUBSET Nat, NEW f \in [D -> Seq(Int)]
    PROVE  f \in Buffers
BY Zenon DEF Buffers

\* What is in the file is read as it was written.
LEMMA ReadsBack ==
    ASSUME FileInv, NEW i \in DOMAIN live
    PROVE  /\ ReadSegment(db, live[i]) = live[i].tok
           /\ live[i].bits # None => db.cur[live[i].bits].toks = <<BitsOf(live[i].tok)>>
<1>1. SegOK(db, live[i]) BY LiveFunction
<1>2. Owned(db) \subseteq Block BY BlockFacts DEF FileInv, FileTypes, Owned, Manager
<1> QED BY <1>1, <1>2 DEF SegOK, ReadSegment

\* flush_segment: the segment is behind the others of its partial block, or alone in one
\* that was nobody's.
Flushed(f, T, b, tok) ==
    /\ Grown(db, f.db, T) /\ f.db.cur = db.cur /\ f.db.dirty = db.dirty
    /\ f.ck \in Checkpoint /\ f.ck.meta = ck.meta /\ f.ck.next = ck.next /\ f.ck.freeList = ck.freeList
    /\ DOMAIN f.ck.bufs = DOMAIN ck.bufs \cup {b} /\ b \in DOMAIN ck.bufs \cup T /\ T \subseteq {b}
    /\ f.ck.partial \in {None} \cup DOMAIN f.ck.bufs
    /\ \A x \in DOMAIN ck.bufs : \A k \in 1 .. Len(ck.bufs[x]) :
          k \in 1 .. Len(f.ck.bufs[x]) /\ f.ck.bufs[x][k] = ck.bufs[x][k]
    /\ Len(f.ck.ptrs) = Len(ck.ptrs) + 1 /\ \A j \in 1 .. Len(ck.ptrs) : f.ck.ptrs[j] = ck.ptrs[j]
    /\ LET p == f.ck.ptrs[Len(ck.ptrs) + 1]
       IN  p.block = b /\ p.off \in 1 .. Len(f.ck.bufs[b]) /\ f.ck.bufs[b][p.off] = tok

LEMMA FlushFacts ==
    ASSUME FileInv, pc = "columns", ck.next \in DOMAIN live, NEW f, f = FlushSegment(db, ck, live[ck.next])
    PROVE  \E T, b : Flushed(f, T, b, live[ck.next].tok)
<1> DEFINE seg    == live[ck.next]
           tok    == ReadSegment(db, seg)
           shares == seg.kind = "narrow" /\ ck.partial # None /\ Len(ck.bufs[ck.partial]) < Capacity
           b      == IF shares THEN ck.partial ELSE FreeBlockId(db)
           buf    == IF shares THEN Append(ck.bufs[b], tok) ELSE <<tok>>
           bufs   == [x \in DOMAIN ck.bufs \cup {b} |-> IF x = b THEN buf ELSE ck.bufs[x]]
           p      == [kind |-> seg.kind, block |-> b, off |-> Len(buf)]
           T      == IF shares THEN {} ELSE {b}
<1>1. f.db = (IF shares THEN db ELSE Taken(db)) BY DEF FlushSegment
<1>2. f.ck = [ck EXCEPT !.bufs = bufs, !.partial = IF seg.kind = "narrow" THEN b ELSE @, !.ptrs = Append(@, p)]
  BY DEF FlushSegment
<1>3. seg \in Segment /\ tok = seg.tok /\ tok \in Int BY LiveFunction, ReadsBack DEF Segment
<1>4. db \in Manager /\ FreeBelow(db) /\ ck \in Checkpoint BY DEF FileInv, FileTypes
<1>5. /\ ck.bufs \in Buffers /\ DOMAIN ck.bufs \subseteq Nat /\ ck.ptrs \in Seq(Pointer)
      /\ \A x \in DOMAIN ck.bufs : ck.bufs[x] \in Seq(Int)
  BY <1>4, BufferFacts DEF Checkpoint
<1>6. DOMAIN ck.bufs \subseteq Owned(db) /\ ck.partial \in {None} \cup DOMAIN ck.bufs
  BY DEF FileInv, CkApart, CkBlocks, CkFlushed
<1>7. Grown(db, f.db, T) /\ f.db.cur = db.cur /\ f.db.dirty = db.dirty /\ b \in DOMAIN ck.bufs \cup T /\ b \in Nat
  <2>1. CASE shares
    <3>1. b = ck.partial /\ T = {} /\ f.db = db BY <1>1, <2>1
    <3>2. b \in DOMAIN ck.bufs BY <1>6, <2>1, <3>1
    <3> HIDE DEF shares, b, T
    <3> QED BY <1>4, <1>5, <3>1, <3>2, GrownNone
  <2>2. CASE ~shares
    <3> HIDE DEF shares
    <3>1. b = FreeBlockId(db) /\ T = {b} /\ f.db = Taken(db) BY ONLY <1>1, <2>2, Zenon
    <3> HIDE DEF b, T
    <3> QED BY <1>4, <3>1, TakenGrown, TakenUnwritten
  <2> QED BY <2>1, <2>2
<1>8. /\ buf \in Seq(Int) /\ Len(buf) \in 1 .. Len(buf) /\ buf[Len(buf)] = tok
      /\ b \in DOMAIN ck.bufs => \A k \in 1 .. Len(ck.bufs[b]) : k \in 1 .. Len(buf) /\ buf[k] = ck.bufs[b][k]
  <2>1. CASE shares
    <3>1. b = ck.partial /\ buf = Append(ck.bufs[b], tok) BY <2>1
    <3>2. b \in DOMAIN ck.bufs BY <1>6, <2>1, <3>1
    <3> HIDE DEF shares, b, buf, tok
    <3>3. ck.bufs[b] \in Seq(Int) BY <1>5, <3>2
    <3> QED BY <1>3, <3>1, <3>2, <3>3
  <2>2. CASE ~shares
    <3>1. b = FreeBlockId(db) /\ buf = <<tok>> BY <2>2
    <3>2. b \notin DOMAIN ck.bufs
      <4>1. Grown(db, Taken(db), {b}) BY <1>4, <3>1, TakenGrown
      <4> HIDE DEF b
      <4>2. b \notin Owned(db) BY <1>4, <4>1, GrownOwned
      <4> QED BY <1>6, <4>2
    <3> HIDE DEF shares, b, buf, tok
    <3> QED BY <1>3, <3>1, <3>2
  <2> QED BY <2>1, <2>2
<1> HIDE DEF b, buf, T, shares, tok, seg
<1>9. Len(buf) \in Nat BY <1>8
<1>10. bufs \in Buffers
  <2>1. DOMAIN ck.bufs \cup {b} \in SUBSET Nat BY <1>5, <1>7
  <2>2. bufs \in [DOMAIN ck.bufs \cup {b} -> Seq(Int)] BY <1>5, <1>8
  <2> HIDE DEF bufs
  <2> QED BY <2>1, <2>2, BufferMade
<1>11. p \in Pointer /\ p.block = b /\ p.off = Len(buf) BY <1>3, <1>7, <1>9 DEF Pointer, Segment
<1>12. DOMAIN bufs = DOMAIN ck.bufs \cup {b} /\ bufs[b] = buf /\ \A x \in DOMAIN ck.bufs : x # b => bufs[x] = ck.bufs[x]
  OBVIOUS
<1> HIDE DEF bufs, p
<1>13. /\ f.ck \in Checkpoint /\ f.ck.meta = ck.meta /\ f.ck.next = ck.next /\ f.ck.freeList = ck.freeList
       /\ f.ck.bufs = bufs /\ f.ck.ptrs = Append(ck.ptrs, p)
       /\ f.ck.partial = IF seg.kind = "narrow" THEN b ELSE ck.partial
  <2>1. Append(ck.ptrs, p) \in Seq(Pointer) BY <1>5, <1>11
  <2>2. b \in Int BY <1>7
  <2> QED BY <1>2, <1>4, <1>10, <2>1, <2>2 DEF Checkpoint
<1>14. f.ck.partial \in {None} \cup DOMAIN f.ck.bufs BY <1>6, <1>12, <1>13
<1>15. \A x \in DOMAIN ck.bufs : \A k \in 1 .. Len(ck.bufs[x]) : k \in 1 .. Len(bufs[x]) /\ bufs[x][k] = ck.bufs[x][k]
  BY <1>8, <1>12
<1>16. /\ Len(f.ck.ptrs) = Len(ck.ptrs) + 1 /\ \A j \in 1 .. Len(ck.ptrs) : f.ck.ptrs[j] = ck.ptrs[j]
       /\ f.ck.ptrs[Len(ck.ptrs) + 1] = p
  BY <1>5, <1>11, <1>13
<1>17. T \subseteq {b} BY DEF T
<1>18. Flushed(f, T, b, tok)
  BY <1>7, <1>8, <1>11, <1>12, <1>13, <1>14, <1>15, <1>16, <1>17 DEF Flushed
<1> QED BY <1>3, <1>18 DEF seg

\* The copy stays as it is and what it shares with the file is not written.
LEMMA QuietPrev ==
    ASSUME FileInv, NEW W, NEW F, Quiet(W, F), prev' = prev, pc \notin {"serving", "second"},
           pc' # "serving" \/ prev = NoCopy, pc' = "restore" => prev # NoCopy
    PROVE  PrevOK'
<1>1. SUFFICES ASSUME prev # NoCopy PROVE PrevOK'
  BY DEF PrevOK
<1>2. /\ Active' = Active /\ HeadBlocks' = HeadBlocks
      /\ ImageBlocks(db.cur, Active)' = ImageBlocks(db.cur, Active)
      /\ \A b \in HeadBlocks \cup (ImageBlocks(db.cur, Active) \ atRisk') : db'.cur[b] = db.cur[b]
  BY QuietImage
<1>3. /\ prev.heads = db.heads
      /\ Active.meta # None =>
                \A b \in HeadBlocks \cup (ImageBlocks(db.cur, Active) \ atRisk) : prev.cur[b] = db.cur[b]
  BY <1>1 DEF FileInv, PrevOK
<1>4. atRisk \subseteq atRisk' /\ db'.heads = db.heads BY DEF Quiet
<1> QED BY <1>1, <1>2, <1>3, <1>4 DEF PrevOK

LEMMA CkColumnInv ==
    ASSUME FileInv, CkColumn, exposed' = {}
    PROVE  FileInv'
<1> DEFINE f   == FlushSegment(db, ck, live[ck.next])
           seg == live[ck.next]
           r   == SegmentToDisk(f.db, seg)
<1>1. /\ pc = "columns" /\ pc' = "columns" /\ ck.next \in DOMAIN live /\ BoundOK(r.db) /\ db' = r.db
      /\ live' = [live EXCEPT ![ck.next] = r.seg] /\ ck' = [f.ck EXCEPT !.next = @ + 1]
      /\ UNCHANGED <<prev, image, atRisk, tokens>>
  BY DEF CkColumn
<1>2. PICK T, b : Flushed(f, T, b, seg.tok) BY <1>1, FlushFacts
<1> HIDE DEF f
<1>3. Grown(db, f.db, T) /\ db \in Manager /\ FreeBelow(db) /\ f.db \in Manager /\ FreeBelow(f.db)
  BY <1>2 DEF Flushed, Grown, FileInv, FileTypes
<1>4. SegOK(db, seg) BY <1>1, LiveFunction
<1>5. SegOK(f.db, seg) BY <1>3, <1>4, SegKept
<1>6. PICK U : Grown(f.db, r.db, U) /\ SegOK(r.db, r.seg) /\ Same(seg, r.seg, U) BY <1>3, <1>5, SegmentWritten
<1> HIDE DEF r, seg
<1>7. Grown(db, db', T \cup U) BY <1>1, <1>3, <1>6, GrownTwice
<1>8. Quiet(T \cup U, {}) BY <1>1, <1>7, GrownQuiet
<1>9. /\ Active' = Active /\ HeadBlocks' = HeadBlocks
      /\ ImageBlocks(db.cur, Active)' = ImageBlocks(db.cur, Active)
      /\ HeadsOK' /\ ImageShape' /\ ImageApart' /\ ImageWhole'
  BY <1>8, QuietImage
<1>10. Owned(db) \subseteq Owned(f.db) \ T /\ Owned(f.db) \subseteq Owned(db') \ U
  BY <1>1, <1>3, <1>6, GrownOwned
<1>11. /\ ck' \in Checkpoint /\ ck'.meta = ck.meta /\ ck'.freeList = ck.freeList /\ ck'.bufs = f.ck.bufs
       /\ ck'.ptrs = f.ck.ptrs /\ ck'.partial = f.ck.partial /\ ck'.next = ck.next + 1
  <2>1. f.ck \in Checkpoint /\ f.ck.meta = ck.meta /\ f.ck.next = ck.next /\ f.ck.freeList = ck.freeList
    BY <1>2 DEF Flushed
  <2>2. ck' = [f.ck EXCEPT !.next = @ + 1] BY <1>1
  <2>3. LET c == [f.ck EXCEPT !.next = @ + 1]
        IN  /\ c \in Checkpoint /\ c.meta = f.ck.meta /\ c.freeList = f.ck.freeList /\ c.bufs = f.ck.bufs
            /\ c.ptrs = f.ck.ptrs /\ c.partial = f.ck.partial /\ c.next = f.ck.next + 1
    BY ONLY <2>1 DEF Checkpoint
  <2> QED BY ONLY <2>1, <2>2, <2>3
<1>12. /\ DOMAIN live = 1 .. Len(live) /\ Len(live) \in Nat /\ live' \in [1 .. Len(live) -> Segment]
       /\ live' \in Seq(Segment) /\ Len(live') = Len(live) /\ DOMAIN live' = DOMAIN live
       /\ live'[ck.next] = r.seg /\ \A i \in DOMAIN live : i # ck.next => live'[i] = live[i]
  <2>1. r.seg \in Segment BY <1>6 DEF SegOK
  <2>2. live \in [1 .. Len(live) -> Segment] /\ Len(live) \in Nat /\ DOMAIN live = 1 .. Len(live) BY LiveFunction
  <2>3. live' \in [1 .. Len(live) -> Segment] BY <1>1, <2>1, <2>2
  <2>4. live' \in Seq(Segment) /\ Len(live') = Len(live) /\ DOMAIN live' = 1 .. Len(live) BY <2>2, <2>3
  <2> QED BY <1>1, <2>2, <2>3, <2>4
<1>13. FileTypes'
  <2>1. db'.max <= MaxBlock BY <1>1 DEF BoundOK
  <2>2. db'.dirty \subseteq Block BY <1>8, <2>1, QuietTypes
  <2>3. db' \in Manager /\ FreeBelow(db') BY <1>7 DEF Grown
  <2> QED BY <1>1, <1>11, <1>12, <2>1, <2>2, <2>3 DEF FileInv, FileTypes, FreeBelow
<1>14. \A i \in DOMAIN live : live'[i].tok = live[i].tok
  BY <1>6, <1>12 DEF Same, seg
<1>15. \A i \in DOMAIN live : BlocksOf(live'[i]) \subseteq BlocksOf(live[i]) \cup U
  BY <1>6, <1>12 DEF Same, BlocksOf, seg
<1>16. LiveOK'
  <2>1. ASSUME NEW i \in DOMAIN live PROVE SegOK(db', live'[i]) /\ BlocksOf(live'[i]) \cap HeadBlocks = {}
    <3>1. SegOK(db', live'[i])
      <4>1. CASE i = ck.next BY <1>1, <1>6, <1>12, <4>1
      <4>2. CASE i # ck.next BY <1>3, <1>7, <1>12, <4>2, LiveFunction, SegKept
      <4> QED BY <4>1, <4>2
    <3>2. HeadBlocks \cap U = {} BY <1>1, <1>10, HeadsOwned
    <3> QED BY <1>15, <3>1, <3>2, LiveFunction
  <2> QED BY <1>1, <1>9, <1>12, <1>14, <2>1, LiveFunction DEF LiveOK
<1>17. CkApart'
  <2>1. /\ CkBlocks \subseteq Owned(db) /\ ck.meta # None /\ ck.meta # ck.freeList /\ ck.freeList = None
        /\ {ck.meta, ck.freeList} \cap DOMAIN ck.bufs = {} /\ CkBlocks \cap HeadBlocks = {}
        /\ (\A i \in DOMAIN live : BlocksOf(live[i]) \cap CkBlocks = {})
        /\ CkBlocks \cap ImageBlocks(db.cur, Active) \subseteq atRisk
    BY <1>1 DEF FileInv, CkApart, CkFlushed
  <2>2. DOMAIN f.ck.bufs = DOMAIN ck.bufs \cup {b} /\ b \in DOMAIN ck.bufs \cup T BY <1>2 DEF Flushed
  <2>3. CkBlocks' = CkBlocks \cup {b} BY <1>11, <2>2 DEF CkBlocks
  <2>4. b \in CkBlocks \/ b \in T BY <2>2 DEF CkBlocks
  <2>5. T \subseteq Owned(f.db) BY <1>3 DEF Grown
  <2>6. CkBlocks \cup {b} \subseteq Owned(f.db) BY <1>10, <2>1, <2>4, <2>5
  <2>7. CkBlocks' \subseteq Owned(db') BY <1>10, <2>3, <2>6
  <2>8. b # ck.meta /\ b # None
    <3>1. ck.meta \in Owned(db) BY <2>1 DEF CkBlocks
    <3>2. None \notin Owned(f.db) BY BlockFacts DEF Owned, None
    <3> QED BY <1>10, <2>1, <2>2, <2>6, <3>1, <3>2
  <2>9. {ck'.meta, ck'.freeList} \cap DOMAIN ck'.bufs = {} BY <1>11, <2>1, <2>2, <2>8
  <2>10. CkBlocks' \cap HeadBlocks = {} BY <1>1, <1>10, <2>1, <2>3, <2>4, HeadsOwned
  <2>11. ASSUME NEW i \in DOMAIN live PROVE BlocksOf(live'[i]) \cap CkBlocks' = {}
    <3>1. BlocksOf(live[i]) \subseteq Owned(db) BY LiveFunction DEF SegOK, BlocksOf
    <3>2. b \notin BlocksOf(live[i]) BY <1>10, <2>1, <2>4, <3>1
    <3>3. U \cap CkBlocks' = {} BY <1>10, <2>3, <2>6
    <3> QED BY <1>15, <2>1, <2>3, <3>2, <3>3
  <2>12. CkBlocks' \cap ImageBlocks(db.cur, Active) \subseteq atRisk
    <3>1. SUFFICES ASSUME b \in ImageBlocks(db.cur, Active), b \in T, Active.meta # None PROVE b \in atRisk
      BY <2>1, <2>3, <2>4, ActiveFacts
    <3>2. b \in 0 .. Active.count - 1 /\ Active.count \in Nat /\ Active.count <= db.max
      BY <3>1, ActiveFacts DEF FileInv, ImageShape, Heading
    <3>3. b \in db.free \cup (db.max .. f.db.max - 1) /\ db.max \in Nat BY <1>3, <3>1 DEF Grown, Manager
    <3>4. b \in Int /\ b < db.max BY ONLY <3>2, <3>3
    <3>5. b \in db.free BY ONLY <3>3, <3>4
    <3> QED BY <1>1, <3>1, <3>5 DEF FileInv, ImageApart
  <2> QED BY <1>1, <1>9, <1>11, <1>12, <2>1, <2>7, <2>9, <2>10, <2>11, <2>12 DEF CkApart
<1>18. CkFlushed'
  <2>1. /\ ck.next \in 1 .. Len(live) + 1 /\ Len(ck.ptrs) = ck.next - 1 /\ ck.freeList = None
        /\ \A i \in 1 .. ck.next - 1 :
              /\ ck.ptrs[i].block \in DOMAIN ck.bufs
              /\ ck.ptrs[i].off \in 1 .. Len(ck.bufs[ck.ptrs[i].block])
              /\ ck.bufs[ck.ptrs[i].block][ck.ptrs[i].off] = live[i].tok
    BY <1>1 DEF FileInv, CkFlushed
  <2>2. ck.next \in 1 .. Len(live) /\ ck'.next \in 1 .. Len(live') + 1 BY <1>1, <1>11, <1>12
  <2>3. Len(ck'.ptrs) = ck'.next - 1
    <3>1. Len(ck'.ptrs) = Len(ck.ptrs) + 1 BY <1>2, <1>11 DEF Flushed
    <3> QED BY <1>11, <2>1, <2>2, <3>1
  <2>4. ck'.partial \in {None} \cup DOMAIN ck'.bufs BY <1>2, <1>11 DEF Flushed
  <2>5. ASSUME NEW i \in 1 .. ck'.next - 1
        PROVE  /\ ck'.ptrs[i].block \in DOMAIN ck'.bufs
               /\ ck'.ptrs[i].off \in 1 .. Len(ck'.bufs[ck'.ptrs[i].block])
               /\ ck'.bufs[ck'.ptrs[i].block][ck'.ptrs[i].off] = live'[i].tok
    <3>1. CASE i = ck.next
      <4>1. i = Len(ck.ptrs) + 1 BY <2>1, <2>2, <3>1
      <4> QED BY <1>1, <1>2, <1>11, <1>14, <3>1, <4>1 DEF Flushed, seg
    <3>2. CASE i # ck.next
      <4>1. i \in 1 .. ck.next - 1 /\ i \in 1 .. Len(ck.ptrs) /\ i \in DOMAIN live BY <1>11, <1>12, <2>1, <2>2, <3>2
      <4>2. ck'.ptrs[i] = ck.ptrs[i] BY <1>2, <1>11, <4>1 DEF Flushed
      <4>3. /\ ck.ptrs[i].block \in DOMAIN ck.bufs
            /\ ck.ptrs[i].off \in 1 .. Len(ck.bufs[ck.ptrs[i].block])
            /\ ck.bufs[ck.ptrs[i].block][ck.ptrs[i].off] = live[i].tok
        BY <2>1, <4>1
      <4>4. \A x \in DOMAIN ck.bufs : x \in DOMAIN ck'.bufs /\ \A k \in 1 .. Len(ck.bufs[x]) :
                k \in 1 .. Len(ck'.bufs[x]) /\ ck'.bufs[x][k] = ck.bufs[x][k]
        BY ONLY <1>2, <1>11 DEF Flushed
      <4>5. live'[i].tok = live[i].tok BY <1>14, <4>1
      <4> QED BY ONLY <4>2, <4>3, <4>4, <4>5
    <3> QED BY <3>1, <3>2
  <2> QED BY <1>11, <2>1, <2>2, <2>3, <2>4, <2>5 DEF CkFlushed
<1>19. PrevOK' BY <1>1, <1>8, QuietPrev
<1>20. CkWritten' /\ DownOK' BY <1>1 DEF CkWritten, DownOK
<1> QED BY <1>9, <1>13, <1>16, <1>17, <1>18, <1>19, <1>20 DEF FileInv

LEMMA CkFailsInv ==
    ASSUME FileInv, NEW flushed \in BOOLEAN, CkFails(flushed), exposed' = {}
    PROVE  FileInv'
<1> DEFINE f == FlushSegment(db, ck, live[ck.next])
<1>1. /\ pc = "columns" /\ ck.next \in DOMAIN live /\ db' = (IF flushed THEN ReclaimUnused(f.db) ELSE db)
      /\ (flushed => BoundOK(db')) /\ pc' = (IF prev = NoCopy THEN "serving" ELSE "restore") /\ ck' = NoCheckpoint
      /\ UNCHANGED <<live, prev, image, atRisk, tokens>>
  BY DEF CkFails
<1>2. PICK T, b : Flushed(f, T, b, live[ck.next].tok) BY <1>1, FlushFacts
<1> HIDE DEF f
<1>3. db \in Manager /\ FreeBelow(db) BY DEF FileInv, FileTypes
<1>4. \E W : Quiet(W, {}) /\ db' \in Manager /\ FreeBelow(db') /\ Keeps(db, db') /\ db'.max <= MaxBlock
  <2>1. CASE flushed
    <3>1. Grown(db, f.db, T) BY <1>2 DEF Flushed
    <3>2. PICK W : Quiet(W, {}) /\ db' \in Manager /\ FreeBelow(db') /\ Keeps(f.db, db')
      BY <1>1, <2>1, <3>1, ReclaimQuiet
    <3>3. Keeps(db, f.db) BY <1>3, <3>1, GrownKeeps
    <3>4. Keeps(db, db') BY <3>2, <3>3 DEF Keeps
    <3> QED BY <1>1, <2>1, <3>2, <3>4 DEF BoundOK
  <2>2. CASE ~flushed
    <3>1. db' = db BY <1>1, <2>2
    <3>2. Grown(db, db, {}) BY <1>3, GrownNone
    <3>3. Grown(db, db', {}) BY <3>1, <3>2
    <3>4. Quiet({}, {}) BY <1>1, <3>3, GrownQuiet
    <3>5. Keeps(db, db') BY <3>1 DEF Keeps
    <3> QED BY <1>3, <3>1, <3>4, <3>5 DEF FileInv, FileTypes
  <2> QED BY <2>1, <2>2
<1>5. PICK W : Quiet(W, {}) /\ db' \in Manager /\ FreeBelow(db') /\ Keeps(db, db') /\ db'.max <= MaxBlock BY <1>4
<1>6. HeadBlocks' = HeadBlocks /\ HeadsOK' /\ ImageShape' /\ ImageApart' /\ ImageWhole' BY <1>5, QuietImage
<1>7. FileTypes'
  <2>1. db'.dirty \subseteq Block BY <1>5, QuietTypes
  <2> QED BY <1>1, <1>5, <2>1, NoCheckpointFacts DEF FileInv, FileTypes, FreeBelow
<1>8. LiveOK'
  <2>1. \A i \in DOMAIN live : SegOK(db', live[i]) BY <1>5, LiveFunction, SegSurvives
  <2> QED BY <1>1, <1>6, <2>1 DEF FileInv, LiveOK
<1>9. CkApart'
  <2>1. CkBlocks' = {} BY <1>1, NoCheckpointFacts DEF CkBlocks
  <2> QED BY <1>1, <2>1 DEF CkApart
<1>10. PrevOK' BY <1>1, <1>5, QuietPrev
<1>11. CkFlushed' /\ CkWritten' /\ DownOK' BY <1>1 DEF CkFlushed, CkWritten, DownOK
<1> QED BY <1>6, <1>7, <1>8, <1>9, <1>10, <1>11 DEF FileInv

LEMMA CkSyncInv ==
    ASSUME FileInv, CkSync, exposed' = {}
    PROVE  FileInv'
<1>1. /\ pc = "sync" /\ pc' = "header" /\ db' = [db EXCEPT !.dirty = {}]
      /\ UNCHANGED <<live, ck, prev, image, atRisk, tokens>>
  BY DEF CkSync, FileSync
<1>2. db \in Manager /\ FreeBelow(db) BY DEF FileInv, FileTypes
<1>3. /\ db' \in Manager /\ db'.free = db.free /\ db'.max = db.max /\ db'.cur = db.cur /\ db'.dirty = {}
      /\ db'.heads = db.heads /\ db'.iteration = db.iteration /\ db'.meta = db.meta
  BY <1>1, <1>2 DEF Manager
<1>4. Quiet({}, {}) BY <1>1, <1>2, <1>3 DEF Quiet, Manager
<1>5. /\ Active' = Active /\ HeadBlocks' = HeadBlocks
      /\ ImageBlocks(db.cur, Active)' = ImageBlocks(db.cur, Active)
      /\ HeadsOK' /\ ImageShape' /\ ImageApart' /\ ImageWhole'
  BY <1>4, QuietImage
<1>6. FileTypes' BY <1>1, <1>3 DEF FileInv, FileTypes, FreeBelow
<1>7. Owned(db)' = Owned(db) BY <1>3 DEF Owned
<1>8. LiveOK'
  <2>1. \A seg : SegOK(db, seg) => SegOK(db', seg) BY <1>3 DEF SegOK, Owned
  <2> QED BY <1>1, <1>5, <2>1 DEF FileInv, LiveOK
<1>9. CkApart'
  <2>1. CkBlocks' = CkBlocks BY <1>1 DEF CkBlocks
  <2> QED BY <1>1, <1>5, <1>7, <2>1 DEF FileInv, CkApart
<1>10. CkWritten' BY <1>1, <1>3 DEF FileInv, CkWritten, FreeListAt
<1>11. PrevOK' BY <1>1, <1>4, QuietPrev
<1>12. CkFlushed' /\ DownOK' BY <1>1 DEF CkFlushed, DownOK
<1> QED BY <1>5, <1>6, <1>8, <1>9, <1>10, <1>11, <1>12 DEF FileInv

\* serialize_free_list: what the block says is what is free when it is in place.
LEMMA FreeListWritten ==
    ASSUME NEW d \in Manager, FreeBelow(d), NEW l, l = SerializeFreeList(d), l.db.max <= MaxBlock
    PROVE  \E T : /\ Grown(d, l.db, T) /\ FreeListAt(l.db.cur, l.at) = l.db.free
                  /\ l.at \in Int /\ T = {l.at} \ {None}
<1>1. CASE d.free = {}
  <2>1. l.db = d /\ l.at = None BY <1>1 DEF SerializeFreeList
  <2>2. Grown(d, l.db, {}) BY <2>1, GrownNone
  <2>3. FreeListAt(l.db.cur, l.at) = l.db.free BY <1>1, <2>1 DEF FreeListAt
  <2>4. None \in Int /\ {} = {l.at} \ {None} BY <2>1 DEF None
  <2> QED BY <2>1, <2>2, <2>3, <2>4
<1>2. CASE d.free # {}
  <2> DEFINE b == FreeBlockId(d)
             t == Taken(d)
             c == Content("free", <<>>, <<>>, t.free)
  <2>1. l.db = WriteBlock(t, b, c) /\ l.at = b BY <1>2 DEF SerializeFreeList
  <2>2. b \in Nat /\ Grown(d, t, {b}) BY TakenGrown
  <2>3. t.free \in SUBSET Nat /\ t \in Manager BY <2>2 DEF Grown, Manager
  <2>4. c \in Contents /\ c.ids = t.free
    <3>1. <<>> \in Seq(Pointer) /\ <<>> \in Seq(Int) BY EmptySeq
    <3> HIDE DEF t
    <3> QED BY <2>3, <3>1 DEF Content, Contents
  <2> HIDE DEF b, t, c
  <2>5. Grown(d, l.db, {b}) /\ (b \in Block => l.db.cur[b] = c)
    <3>1. b \in {b} OBVIOUS
    <3> QED BY <2>1, <2>2, <2>4, <3>1, WriteGrown
  <2>6. b \in Block
    <3>1. b \in 0 .. l.db.max - 1 /\ l.db.max \in Nat BY <2>5 DEF Grown, Owned, Manager
    <3> QED BY <3>1, BlockFacts
  <2>7. l.db.free = t.free BY <2>2, <2>5 DEF Grown
  <2>8. b # None BY <2>2, BlockFacts
  <2>9. FreeListAt(l.db.cur, l.at) = l.db.free BY <2>1, <2>4, <2>5, <2>6, <2>7, <2>8 DEF FreeListAt
  <2>10. l.at \in Int /\ {b} = {l.at} \ {None} BY <2>1, <2>2, <2>8
  <2> QED BY <2>5, <2>9, <2>10
<1> QED BY <1>1, <1>2

\* flush_partial_blocks and the metadata: only blocks of the checkpoint are written.
LEMMA MetaWritten ==
    ASSUME FileInv, pc = "columns", NEW e,
           e = [WriteBlock(FlushPartialBlocks(db, ck), ck.meta, Content("meta", <<>>, ck.ptrs, {})) EXCEPT !.meta = ck.meta]
    PROVE  /\ e \in Manager /\ e.free = db.free /\ e.max = db.max /\ e.heads = db.heads /\ e.iteration = db.iteration
           /\ e.meta = ck.meta /\ e.dirty = db.dirty \cup DOMAIN ck.bufs \cup {ck.meta}
           /\ \A x \in Block \ (DOMAIN ck.bufs \cup {ck.meta}) : e.cur[x] = db.cur[x]
           /\ \A x \in DOMAIN ck.bufs : e.cur[x].toks = ck.bufs[x]
           /\ e.cur[ck.meta].ptrs = ck.ptrs
<1> DEFINE c    == Content("meta", <<>>, ck.ptrs, {})
           cur1 == [b \in Block |-> IF b \in DOMAIN ck.bufs THEN Data(ck.bufs[b]) ELSE db.cur[b]]
           d1   == FlushPartialBlocks(db, ck)
           d2   == WriteBlock(d1, ck.meta, c)
           cur2 == [cur1 EXCEPT ![ck.meta] = c]
<1>1. db \in Manager /\ FreeBelow(db) /\ db.max \in Nat /\ db.max <= MaxBlock /\ ck \in Checkpoint
  BY DEF FileInv, FileTypes, Manager
<1>2. /\ ck.ptrs \in Seq(Pointer) /\ DOMAIN ck.bufs \subseteq Nat /\ (\A x \in DOMAIN ck.bufs : ck.bufs[x] \in Seq(Int))
      /\ ck.meta \in Int
  BY <1>1, BufferFacts DEF Checkpoint
<1>3. DOMAIN ck.bufs \subseteq Block /\ ck.meta \in Block /\ ck.meta \notin DOMAIN ck.bufs
  <2>1. CkBlocks \subseteq Owned(db) /\ ck.meta # None /\ ck.meta \notin DOMAIN ck.bufs BY DEF FileInv, CkApart
  <2>2. Owned(db) \subseteq Block BY <1>1, BlockFacts DEF Owned
  <2> QED BY <2>1, <2>2 DEF CkBlocks
<1>4. c \in Contents /\ c.ptrs = ck.ptrs
  <2>1. <<>> \in Seq(Int) BY EmptySeq
  <2> QED BY <1>2, <2>1 DEF Content, Contents
<1>5. cur1 \in [Block -> Contents] /\ \A x \in DOMAIN ck.bufs : cur1[x].toks = ck.bufs[x]
  <2>1. \A x \in DOMAIN ck.bufs : Data(ck.bufs[x]) \in Contents /\ Data(ck.bufs[x]).toks = ck.bufs[x]
    BY <1>2, DataContents
  <2> QED BY <1>1, <1>3, <2>1 DEF Manager
<1>6. cur2 \in [Block -> Contents] /\ cur2[ck.meta] = c /\ \A x \in Block : x # ck.meta => cur2[x] = cur1[x]
  <2> HIDE DEF cur1, c
  <2> QED BY <1>3, <1>4, <1>5
<1>7. d1 = [db EXCEPT !.cur = cur1, !.dirty = @ \cup DOMAIN ck.bufs] BY DEF FlushPartialBlocks
<1>8. \A x \in Block : x \notin DOMAIN ck.bufs => cur1[x] = db.cur[x] OBVIOUS
<1> HIDE DEF cur1, c
<1>9. /\ d1 \in Manager /\ d1.cur = cur1 /\ d1.dirty = db.dirty \cup DOMAIN ck.bufs /\ d1.free = db.free /\ d1.max = db.max
      /\ d1.heads = db.heads /\ d1.iteration = db.iteration
  BY <1>1, <1>2, <1>5, <1>7 DEF Manager
<1>10. d2 = [d1 EXCEPT !.cur = cur2, !.dirty = @ \cup {ck.meta}] BY <1>9 DEF WriteBlock
<1> HIDE DEF d1, cur2
<1>11. /\ d2 \in Manager /\ d2.cur = cur2 /\ d2.dirty = d1.dirty \cup {ck.meta} /\ d2.free = db.free /\ d2.max = db.max
       /\ d2.heads = db.heads /\ d2.iteration = db.iteration
  <2>1. d1.dirty \cup {ck.meta} \in SUBSET Nat BY <1>3, <1>9, BlockFacts DEF Manager
  <2>2. d1 \in Manager /\ cur2 \in [Block -> Contents] BY <1>6, <1>9
  <2>3. /\ d2 \in Manager /\ d2.cur = cur2 /\ d2.dirty = d1.dirty \cup {ck.meta} /\ d2.free = d1.free /\ d2.max = d1.max
        /\ d2.heads = d1.heads /\ d2.iteration = d1.iteration
    BY <1>10, <2>1, <2>2 DEF Manager
  <2> QED BY <1>9, <2>3
<1>12. e = [d2 EXCEPT !.meta = ck.meta] BY DEF d2, d1, c
<1> HIDE DEF d2
<1>13. /\ e \in Manager /\ e.cur = cur2 /\ e.dirty = d1.dirty \cup {ck.meta} /\ e.free = db.free /\ e.max = db.max
       /\ e.heads = db.heads /\ e.iteration = db.iteration /\ e.meta = ck.meta
  BY <1>2, <1>11, <1>12 DEF Manager
<1>14. \A x \in Block \ (DOMAIN ck.bufs \cup {ck.meta}) : e.cur[x] = db.cur[x] BY <1>6, <1>8, <1>13
<1>15. \A x \in DOMAIN ck.bufs : e.cur[x].toks = ck.bufs[x] BY <1>3, <1>5, <1>6, <1>13
<1> QED BY <1>4, <1>6, <1>9, <1>13, <1>14, <1>15

LEMMA CkWriteInv ==
    ASSUME FileInv, CkWrite, exposed' = {}
    PROVE  FileInv'
<1> DEFINE e == [WriteBlock(FlushPartialBlocks(db, ck), ck.meta, Content("meta", <<>>, ck.ptrs, {})) EXCEPT !.meta = ck.meta]
           l == SerializeFreeList(e)
<1>1. /\ pc = "columns" /\ pc' = "sync" /\ ck.next \notin DOMAIN live /\ BoundOK(l.db) /\ db' = l.db
      /\ ck' = [ck EXCEPT !.freeList = l.at] /\ UNCHANGED <<live, prev, image, atRisk, tokens>>
  BY DEF CkWrite
<1>2. /\ e \in Manager /\ e.free = db.free /\ e.max = db.max /\ e.heads = db.heads /\ e.iteration = db.iteration
      /\ e.meta = ck.meta /\ e.dirty = db.dirty \cup DOMAIN ck.bufs \cup {ck.meta}
      /\ \A x \in Block \ (DOMAIN ck.bufs \cup {ck.meta}) : e.cur[x] = db.cur[x]
      /\ \A x \in DOMAIN ck.bufs : e.cur[x].toks = ck.bufs[x]
      /\ e.cur[ck.meta].ptrs = ck.ptrs
  BY <1>1, MetaWritten
<1> HIDE DEF e
<1>3. db \in Manager /\ FreeBelow(db) /\ ck \in Checkpoint BY DEF FileInv, FileTypes
<1>4. FreeBelow(e) /\ Owned(e) = Owned(db) BY <1>2, <1>3 DEF FreeBelow, Owned
<1>5. l.db.max <= MaxBlock BY <1>1 DEF BoundOK
<1>6. PICK T : Grown(e, l.db, T) /\ FreeListAt(l.db.cur, l.at) = l.db.free /\ l.at \in Int /\ T = {l.at} \ {None}
  BY <1>2, <1>4, <1>5, FreeListWritten
<1> HIDE DEF l
<1>7. Grown(e, db', T) BY <1>1, <1>6
<1>8. Owned(db) \subseteq Owned(db') \ T BY <1>2, <1>4, <1>7, GrownOwned
<1>9. /\ CkBlocks \subseteq Owned(db) /\ ck.meta # None /\ ck.freeList = None
      /\ {ck.meta, ck.freeList} \cap DOMAIN ck.bufs = {} /\ CkBlocks \cap HeadBlocks = {}
      /\ (\A i \in DOMAIN live : BlocksOf(live[i]) \cap CkBlocks = {})
      /\ CkBlocks \cap ImageBlocks(db.cur, Active) \subseteq atRisk
  BY <1>1 DEF FileInv, CkApart, CkFlushed
<1>10. CkBlocks = DOMAIN ck.bufs \cup {ck.meta} BY <1>9 DEF CkBlocks
<1>11. Quiet(CkBlocks \cup T, {})
  <2>1. /\ db' \in Manager /\ db.max <= db'.max /\ T \subseteq db.free \cup (db.max .. db'.max - 1)
        /\ db'.free \subseteq db.free /\ db'.heads = db.heads /\ db'.iteration = db.iteration
        /\ db'.dirty \subseteq db.dirty \cup CkBlocks \cup T
    BY <1>2, <1>7, <1>10 DEF Grown
  <2>2. \A x \in Block \ (CkBlocks \cup T) : db'.cur[x] = db.cur[x] BY <1>2, <1>7, <1>10 DEF Grown
  <2> QED BY <1>1, <2>1, <2>2 DEF Quiet
<1>12. /\ Active' = Active /\ HeadBlocks' = HeadBlocks
       /\ ImageBlocks(db.cur, Active)' = ImageBlocks(db.cur, Active)
       /\ HeadsOK' /\ ImageShape' /\ ImageApart' /\ ImageWhole'
  BY <1>11, QuietImage
<1>13. /\ ck' \in Checkpoint /\ ck'.meta = ck.meta /\ ck'.freeList = l.at /\ ck'.bufs = ck.bufs /\ ck'.ptrs = ck.ptrs
  BY <1>1, <1>3, <1>6 DEF Checkpoint
<1>14. FileTypes'
  <2>1. db'.max <= MaxBlock BY <1>1, <1>5
  <2>2. db'.dirty \subseteq Block BY <1>11, <2>1, QuietTypes
  <2>3. db' \in Manager /\ FreeBelow(db') BY <1>7 DEF Grown
  <2> QED BY <1>1, <1>13, <2>1, <2>2, <2>3 DEF FileInv, FileTypes, FreeBelow
<1>15. LiveOK'
  <2>1. ASSUME NEW i \in DOMAIN live PROVE SegOK(db', live[i])
    <3>1. SegOK(db, live[i]) /\ BlocksOf(live[i]) \cap CkBlocks = {} BY <1>9, LiveFunction
    <3>2. None \notin Block BY DEF None, Block
    <3>3. SegOK(e, live[i])
      <4>1. \A x \in BlocksOf(live[i]) : x \in Block => e.cur[x] = db.cur[x] BY <1>2, <1>10, <3>1
      <4> QED BY <1>4, <3>1, <3>2, <4>1 DEF SegOK, BlocksOf
    <3> QED BY <1>2, <1>4, <1>7, <3>3, SegKept
  <2> QED BY <1>1, <1>12, <2>1 DEF FileInv, LiveOK
<1>16. CkApart'
  <2>1. CkBlocks' = CkBlocks \cup T BY <1>6, <1>9, <1>13 DEF CkBlocks
  <2>2. T \subseteq Owned(db') BY <1>7 DEF Grown
  <2>3. CkBlocks' \subseteq Owned(db') BY <1>8, <1>9, <2>1, <2>2
  <2>4. ck.meta # l.at /\ l.at \notin DOMAIN ck.bufs
    <3>1. DOMAIN ck.bufs \cup {ck.meta} \subseteq Owned(db) BY <1>9, <1>10
    <3>2. None \notin Owned(db) BY BlockFacts DEF Owned, None
    <3> QED BY <1>6, <1>8, <3>1, <3>2
  <2>5. CkBlocks' \cap HeadBlocks = {} BY <1>1, <1>8, <1>9, <2>1, HeadsOwned
  <2>6. ASSUME NEW i \in DOMAIN live PROVE BlocksOf(live[i]) \cap CkBlocks' = {}
    <3>1. BlocksOf(live[i]) \subseteq Owned(db) BY LiveFunction DEF SegOK, BlocksOf
    <3> QED BY <1>8, <1>9, <2>1, <3>1
  <2>7. CkBlocks' \cap ImageBlocks(db.cur, Active) \subseteq atRisk
    <3>1. SUFFICES ASSUME NEW b \in ImageBlocks(db.cur, Active), b \in T, Active.meta # None PROVE b \in atRisk
      BY <1>9, <2>1, ActiveFacts
    <3>2. b \in 0 .. Active.count - 1 /\ Active.count \in Nat /\ Active.count <= db.max
      BY <3>1, ActiveFacts DEF FileInv, ImageShape, Heading
    <3>3. b \in db.free \cup (db.max .. db'.max - 1) /\ db.max \in Nat BY <1>2, <1>3, <1>7, <3>1 DEF Grown, Manager
    <3>4. b \in Int /\ b < db.max BY ONLY <3>2, <3>3
    <3>5. b \in db.free BY ONLY <3>3, <3>4
    <3> QED BY <1>1, <3>1, <3>5 DEF FileInv, ImageApart
  <2> QED BY <1>1, <1>9, <1>12, <1>13, <2>3, <2>4, <2>5, <2>6, <2>7 DEF CkApart
<1>17. CkWritten'
  <2>1. /\ ck.next \in 1 .. Len(live) + 1 /\ Len(ck.ptrs) = ck.next - 1
        /\ \A i \in 1 .. ck.next - 1 :
              /\ ck.ptrs[i].block \in DOMAIN ck.bufs
              /\ ck.bufs[ck.ptrs[i].block][ck.ptrs[i].off] = live[i].tok
    BY <1>1 DEF FileInv, CkFlushed
  <2>2. Len(live) \in Nat /\ DOMAIN live = 1 .. Len(live) BY LiveFunction
  <2>3. ck.next = Len(live) + 1 BY <1>1, <2>1, <2>2
  <2>4. Len(ck.ptrs) = Len(live) /\ 1 .. ck.next - 1 = DOMAIN live BY <2>1, <2>2, <2>3
  <2>5. \A x \in CkBlocks : x \in Block /\ db'.cur[x] = e.cur[x]
    <3>1. Owned(db) \subseteq Block BY BlockFacts DEF FileInv, FileTypes, Owned, Manager
    <3> QED BY <1>7, <1>8, <1>9, <3>1 DEF Grown
  <2>6. db'.cur[ck.meta].ptrs = ck.ptrs BY <1>2, <1>10, <2>5
  <2>7. ASSUME NEW i \in DOMAIN live
        PROVE  ck.ptrs[i].block \in DOMAIN ck.bufs /\ db'.cur[ck.ptrs[i].block].toks[ck.ptrs[i].off] = live[i].tok
    <3>1. ck.ptrs[i].block \in DOMAIN ck.bufs /\ ck.bufs[ck.ptrs[i].block][ck.ptrs[i].off] = live[i].tok BY <2>1, <2>4
    <3>2. db'.cur[ck.ptrs[i].block].toks = ck.bufs[ck.ptrs[i].block] BY <1>2, <1>10, <2>5, <3>1
    <3> QED BY <3>1, <3>2
  <2>8. db'.meta = ck.meta BY <1>2, <1>7 DEF Grown
  <2>9. FreeListAt(db'.cur, ck'.freeList) = db'.free BY <1>1, <1>6, <1>13
  <2> QED BY <1>1, <1>13, <2>4, <2>6, <2>7, <2>8, <2>9 DEF CkWritten
<1>18. PrevOK' BY <1>1, <1>11, QuietPrev
<1>19. CkFlushed' /\ DownOK' BY <1>1 DEF CkFlushed, DownOK
<1> QED BY <1>12, <1>14, <1>15, <1>16, <1>17, <1>18, <1>19 DEF FileInv

\* The first of the two writes: from here on the new image is what a start finds.
LEMMA CkHeaderInv ==
    ASSUME FileInv, CkHeader, exposed' = {}
    PROVE  FileInv'
<1> DEFINE it   == db.iteration + 1
           slot == FirstSlot(it)
           h    == Header(it, db.meta, ck.freeList, db.max)
<1>1. /\ pc = "header" /\ pc' = "second" /\ db' = [db EXCEPT !.iteration = it, !.heads = [db.heads EXCEPT ![slot] = h]]
      /\ image' = TokensOf(live) /\ atRisk' = {} /\ UNCHANGED <<live, ck, prev, tokens>>
  BY DEF CkHeader
<1>2. /\ db \in Manager /\ FreeBelow(db) /\ db.max \in Nat /\ db.iteration \in Nat /\ db.meta \in Int
      /\ db.heads \in [{1, 2} -> Heading] /\ ck \in Checkpoint /\ ck.freeList \in Int
  BY DEF FileInv, FileTypes, Manager, Checkpoint
<1>3. slot \in {1, 2} BY DEF FirstSlot
<1>4. /\ h \in Heading /\ h.iteration = it /\ h.meta = db.meta /\ h.freeList = ck.freeList /\ h.count = db.max
      /\ it \in Nat /\ it > db.iteration
  BY <1>2 DEF Header, Heading
<1> HIDE DEF it, slot, h
<1>5. [db.heads EXCEPT ![slot] = h] \in [{1, 2} -> Heading] BY <1>2, <1>3, <1>4
<1>6. /\ db' \in Manager /\ db'.heads = [db.heads EXCEPT ![slot] = h] /\ db'.iteration = it /\ db'.free = db.free
      /\ db'.max = db.max /\ db'.cur = db.cur /\ db'.dirty = db.dirty /\ db'.meta = db.meta
  BY <1>1, <1>2, <1>4, <1>5 DEF Manager
<1>7. \A j \in {1, 2} : /\ db.heads[j].iteration \in Nat /\ db.heads[j].iteration <= db.iteration
                        /\ db'.heads[j] = IF j = slot THEN h ELSE db.heads[j]
  <2>1. \A j \in {1, 2} : db.heads[j].iteration \in Nat BY <1>2 DEF Heading
  <2> QED BY <1>2, <1>3, <1>6, <2>1 DEF FileInv, HeadsOK
<1>8. \A j \in {1, 2} : db'.heads[j].iteration <= it /\ ((db'.heads[j].iteration = it) <=> (j = slot))
  BY <1>2, <1>4, <1>7
<1>9. HeadsOK' BY <1>6, <1>8 DEF HeadsOK, slot
<1>10. Active' = h
  <2>1. Active' = IF db'.heads[1].iteration >= db'.heads[2].iteration THEN db'.heads[1] ELSE db'.heads[2]
    BY DEF Active, ActiveHeader
  <2>2. CASE slot = 1 BY <1>2, <1>4, <1>7, <2>1, <2>2
  <2>3. CASE slot = 2
    <3>1. db'.heads[2] = h /\ db'.heads[1].iteration < it BY <1>2, <1>4, <1>7, <2>3
    <3> QED BY <1>2, <1>4, <1>7, <2>1, <3>1
  <2> QED BY <1>3, <2>2, <2>3
<1>11. /\ CkBlocks \subseteq Owned(db) /\ ck.meta # None /\ ck.meta # ck.freeList
       /\ {ck.meta, ck.freeList} \cap DOMAIN ck.bufs = {}
       /\ \A i \in DOMAIN live : BlocksOf(live[i]) \cap CkBlocks = {}
  BY <1>1 DEF FileInv, CkApart
<1>12. /\ Len(ck.ptrs) = Len(live) /\ db.meta = ck.meta /\ db.cur[ck.meta].ptrs = ck.ptrs
       /\ \A i \in DOMAIN live :
             /\ ck.ptrs[i].block \in DOMAIN ck.bufs
             /\ db.cur[ck.ptrs[i].block].toks[ck.ptrs[i].off] = live[i].tok
       /\ FreeListAt(db.cur, ck.freeList) = db.free /\ db.dirty = {}
  BY <1>1 DEF FileInv, CkWritten
<1>13. Len(live) \in Nat /\ DOMAIN live = 1 .. Len(live) /\ live \in [1 .. Len(live) -> Segment] BY LiveFunction
<1>14. DOMAIN ck.ptrs = DOMAIN live
  <2>1. ck.ptrs \in Seq(Pointer) BY <1>2 DEF Checkpoint
  <2> QED BY <1>12, <1>13, <2>1
<1>15. image' \in Seq(Nat) /\ Len(image') = Len(live) /\ DOMAIN image' = DOMAIN live
       /\ \A i \in DOMAIN live : image'[i] = live[i].tok /\ image'[i] \in 1 .. tokens
  <2>1. image' = [i \in 1 .. Len(live) |-> live[i].tok] BY <1>1, <1>13 DEF TokensOf
  <2>2. \A i \in 1 .. Len(live) : live[i].tok \in Nat /\ live[i].tok \in 1 .. tokens BY <1>13, LiveFunction DEF Segment
  <2>3. image' \in [1 .. Len(live) -> Nat] BY <2>1, <2>2
  <2> QED BY <1>13, <2>1, <2>2, <2>3
<1>16. HeadBlocks' = {ck.meta, ck.freeList} \ {None} BY <1>4, <1>10, <1>12 DEF HeadBlocks
<1>17. Pointers' = ck.ptrs BY <1>4, <1>6, <1>10, <1>12 DEF Pointers, PointersOf
<1>18. /\ ImageBlocks(db.cur, Active)' \subseteq CkBlocks /\ HeadBlocks' \subseteq CkBlocks
       /\ \A i \in DOMAIN live : ck.ptrs[i].block \in CkBlocks \ HeadBlocks'
  <2>1. ImageBlocks(db.cur, Active)' = HeadBlocks' \cup {Pointers'[i].block : i \in DOMAIN Pointers'}
    BY <1>4, <1>10, <1>11, <1>12 DEF ImageBlocks, HeadBlocks, Pointers
  <2> QED BY <1>11, <1>12, <1>14, <1>16, <1>17, <2>1 DEF CkBlocks
<1>19. FileTypes'
  <2>1. \A i \in DOMAIN image' : image'[i] \in 1 .. tokens' BY <1>1, <1>15
  <2> QED BY <1>1, <1>6, <1>15, <2>1 DEF FileInv, FileTypes, FreeBelow
<1>20. LiveOK'
  <2>1. \A seg : SegOK(db, seg) => SegOK(db', seg) BY <1>6 DEF SegOK, Owned
  <2>2. \A i \in DOMAIN live : BlocksOf(live[i]) \cap HeadBlocks' = {} BY <1>11, <1>18
  <2> QED BY <1>1, <2>1, <2>2 DEF FileInv, LiveOK
<1>21. CkApart'
  <2>1. CkBlocks' = CkBlocks /\ Owned(db)' = Owned(db) BY <1>1, <1>6 DEF CkBlocks, Owned
  <2> QED BY <1>1, <1>11, <2>1 DEF CkApart
<1>22. ImageShape'
  <2>1. CkBlocks \subseteq (0 .. db.max - 1) \ db.free BY <1>11 DEF Owned
  <2>2. FreeListAt(db.cur, Active.freeList)' = db.free BY <1>4, <1>6, <1>10, <1>12
  <2>3. db.free \subseteq (0 .. db.max - 1) \ ImageBlocks(db.cur, Active)' BY <1>2, <1>18, <2>1 DEF FreeBelow
  <2>4. /\ Active'.meta # None /\ Active'.count = db.max /\ Active'.meta # Active'.freeList
    BY <1>4, <1>10, <1>11, <1>12
  <2>5. Active'.count <= db'.max BY <1>2, <1>6, <2>4
  <2>6. HeadBlocks' \subseteq 0 .. db.max - 1 BY <1>18, <2>1
  <2>7. \A i \in DOMAIN Pointers' : Pointers'[i].block \in (0 .. db.max - 1) \ HeadBlocks' BY <1>14, <1>17, <1>18, <2>1
  <2>8. Len(Pointers') = Len(image') BY <1>12, <1>15, <1>17
  <2> QED BY <2>2, <2>3, <2>4, <2>5, <2>6, <2>7, <2>8 DEF ImageShape
<1>23. ImageApart' BY <1>6, <1>11, <1>18 DEF ImageApart, Owned
<1>24. ImageWhole' BY <1>6, <1>12, <1>14, <1>15, <1>17 DEF ImageWhole
<1>25. CkFlushed' /\ CkWritten' /\ PrevOK' /\ DownOK' BY <1>1 DEF CkFlushed, CkWritten, PrevOK, DownOK
<1> QED BY <1>9, <1>19, <1>20, <1>21, <1>22, <1>23, <1>24, <1>25 DEF FileInv

\* The other slot: both headers are the new one.
LEMMA CkSecondInv ==
    ASSUME FileInv, CkSecond, exposed' = {}
    PROVE  FileInv'
<1> DEFINE h == db.heads[FirstSlot(db.iteration)]
<1>1. /\ pc = "second" /\ pc' = "serving" /\ db' = [db EXCEPT !.heads = <<h, h>>] /\ ck' = NoCheckpoint /\ prev' = NoCopy
      /\ UNCHANGED <<live, image, atRisk, tokens>>
  BY DEF CkSecond
<1>2. db \in Manager /\ FreeBelow(db) /\ db.iteration \in Nat /\ db.heads \in [{1, 2} -> Heading]
  BY DEF FileInv, FileTypes, Manager
<1>3. FirstSlot(db.iteration) \in {1, 2} BY DEF FirstSlot
<1>4. h \in Heading /\ h.iteration = db.iteration BY <1>1, <1>2, <1>3 DEF FileInv, HeadsOK
<1>5. Active = h
  <2>1. \A j \in {1, 2} : /\ db.heads[j].iteration \in Nat /\ db.heads[j].iteration <= db.iteration
                          /\ (db.heads[j].iteration = db.iteration) <=> (j = FirstSlot(db.iteration))
    BY <1>1, <1>2 DEF FileInv, HeadsOK, Heading
  <2>2. Active = IF db.heads[1].iteration >= db.heads[2].iteration THEN db.heads[1] ELSE db.heads[2]
    BY DEF Active, ActiveHeader
  <2> QED BY <1>2, <1>3, <2>1, <2>2
<1> HIDE DEF h
<1>6. <<h, h>> \in [{1, 2} -> Heading] /\ <<h, h>>[1] = h /\ <<h, h>>[2] = h
  <2>1. DOMAIN <<h, h>> = {1, 2} OBVIOUS
  <2> QED BY <1>4, <2>1
<1>7. /\ db' \in Manager /\ db'.heads = <<h, h>> /\ db'.iteration = db.iteration /\ db'.free = db.free
      /\ db'.max = db.max /\ db'.cur = db.cur /\ db'.dirty = db.dirty
  BY <1>1, <1>2, <1>6 DEF Manager
<1>8. Active' = Active BY <1>5, <1>6, <1>7 DEF Active, ActiveHeader
<1>9. HeadsOK' BY <1>1, <1>2, <1>4, <1>6, <1>7 DEF HeadsOK
<1>10. HeadBlocks' = HeadBlocks /\ Pointers' = Pointers /\ ImageBlocks(db.cur, Active)' = ImageBlocks(db.cur, Active)
  BY <1>7, <1>8 DEF HeadBlocks, Pointers, PointersOf, ImageBlocks
<1>11. FileTypes' BY <1>1, <1>7, NoCheckpointFacts DEF FileInv, FileTypes, FreeBelow
<1>12. LiveOK'
  <2>1. \A seg : SegOK(db, seg) => SegOK(db', seg) BY <1>7 DEF SegOK, Owned
  <2> QED BY <1>1, <1>10, <2>1 DEF FileInv, LiveOK
<1>13. CkApart'
  <2>1. CkBlocks' = {} BY <1>1, NoCheckpointFacts DEF CkBlocks
  <2> QED BY <1>1, <2>1 DEF CkApart
<1>14. ImageShape' BY <1>1, <1>7, <1>8, <1>10 DEF FileInv, ImageShape
<1>15. ImageApart' BY <1>1, <1>7, <1>8, <1>10 DEF FileInv, ImageApart
<1>16. ImageWhole' BY <1>1, <1>7, <1>8, <1>10 DEF FileInv, ImageWhole
<1>17. CkFlushed' /\ CkWritten' /\ PrevOK' /\ DownOK' BY <1>1 DEF CkFlushed, CkWritten, PrevOK, DownOK
<1> QED BY <1>9, <1>11, <1>12, <1>13, <1>14, <1>15, <1>16, <1>17 DEF FileInv

-----------------------------------------------------------------------------
(* The copy, a crash, the next start.                                      *)

\* Who has the metadata block and the free list has the image.
LEMMA SameImage ==
    ASSUME FileInv, NEW cur, \A b \in HeadBlocks : cur[b] = db.cur[b], Active.meta # None
    PROVE  /\ PointersOf(cur, Active) = Pointers
           /\ ImageBlocks(cur, Active) = ImageBlocks(db.cur, Active)
           /\ FreeListAt(cur, Active.freeList) = FreeListAt(db.cur, Active.freeList)
<1>1. Active.meta \in HeadBlocks /\ Active.freeList \in {None} \cup HeadBlocks BY ActiveFacts
<1>2. PointersOf(cur, Active) = Pointers BY <1>1 DEF PointersOf, Pointers
<1>3. ImageBlocks(cur, Active) = ImageBlocks(db.cur, Active) BY <1>2 DEF ImageBlocks, Pointers
<1> QED BY <1>1, <1>2, <1>3 DEF FreeListAt

LEMMA RestoreInv ==
    ASSUME FileInv, Restore, exposed' = {}
    PROVE  FileInv'
<1> DEFINE img == ImageBlocks(db.cur, Active)
<1>1. /\ pc = "restore" /\ pc' = "serving" /\ prev' = NoCopy
      /\ db' = [db EXCEPT !.cur = prev.cur, !.heads = prev.heads, !.dirty = Block]
      /\ atRisk' = atRisk \cup ImageBlocks(prev.cur, ActiveHeader(prev.heads))
      /\ UNCHANGED <<live, ck, image, tokens>>
  BY DEF Restore
<1>2. \A i \in DOMAIN live : \A b \in BlocksOf(live[i]) : prev.cur[b] = db.cur[b] BY DEF Restore, Met, BlocksOf
<1>3. db \in Manager /\ FreeBelow(db) BY DEF FileInv, FileTypes
<1>4. prev # NoCopy /\ prev \in Copy /\ prev.heads = db.heads BY <1>1 DEF FileInv, FileTypes, PrevOK
<1>5. prev.cur \in [Block -> Contents] /\ prev.heads \in [{1, 2} -> Heading] /\ Block \in SUBSET Nat
  BY <1>4, BlockFacts DEF Copy
<1>6. /\ db' \in Manager /\ db'.cur = prev.cur /\ db'.heads = db.heads /\ db'.dirty = Block /\ db'.free = db.free
      /\ db'.max = db.max /\ db'.iteration = db.iteration
  BY <1>1, <1>3, <1>4, <1>5 DEF Manager
<1>7. Active' = Active /\ ActiveHeader(prev.heads) = Active /\ HeadBlocks' = HeadBlocks
  BY <1>4, <1>6 DEF Active, HeadBlocks
<1>8. ck = NoCheckpoint /\ ck' = NoCheckpoint BY <1>1 DEF FileInv, CkApart
<1>9. FileTypes' BY <1>1, <1>3, <1>6, <1>8, NoCheckpointFacts DEF FileInv, FileTypes, FreeBelow
<1>10. HeadsOK' BY <1>1, <1>6 DEF FileInv, HeadsOK
<1>11. LiveOK'
  <2>1. ASSUME NEW i \in DOMAIN live PROVE SegOK(db', live[i])
    <3>1. SegOK(db, live[i]) BY LiveFunction
    <3>2. None \notin Block BY DEF None, Block
    <3> QED BY <1>2, <1>6, <3>1, <3>2 DEF SegOK, Owned, BlocksOf
  <2> QED BY <1>1, <1>7, <2>1 DEF FileInv, LiveOK
<1>12. CkApart'
  <2>1. CkBlocks' = {} BY <1>8, NoCheckpointFacts DEF CkBlocks
  <2> QED BY <1>1, <1>8, <2>1 DEF CkApart
<1>13. ImageShape' /\ ImageApart' /\ ImageWhole'
  <2>1. CASE Active.meta = None BY <1>7, <2>1 DEF FileInv, ImageShape, ImageApart, ImageWhole
  <2>2. CASE Active.meta # None
    <3>1. \A b \in HeadBlocks : prev.cur[b] = db.cur[b] BY <1>1, <1>4, <2>2 DEF FileInv, PrevOK
    <3>2. /\ PointersOf(prev.cur, Active) = Pointers /\ ImageBlocks(prev.cur, Active) = img
          /\ FreeListAt(prev.cur, Active.freeList) = FreeListAt(db.cur, Active.freeList)
      BY <2>2, <3>1, SameImage
    <3>3. Pointers' = Pointers /\ img' = img
      <4>1. Pointers' = PointersOf(db'.cur, Active') /\ img' = ImageBlocks(db'.cur, Active') BY DEF Pointers
      <4> QED BY <1>6, <1>7, <3>2, <4>1
    <3>4. FreeListAt(db.cur, Active.freeList)' = FreeListAt(db.cur, Active.freeList) BY <1>6, <1>7, <3>2
    <3>5. atRisk' = atRisk \cup img /\ img # {} BY <1>1, <1>7, <2>2, <3>2, ActiveFacts
    <3>6. ImageShape' BY <1>1, <1>6, <1>7, <2>2, <3>3, <3>4 DEF FileInv, ImageShape
    <3>7. ImageApart' BY <1>1, <1>6, <1>7, <2>2, <3>3, <3>5 DEF FileInv, ImageApart
    <3>8. ImageWhole' BY <3>5 DEF ImageWhole
    <3> QED BY <3>6, <3>7, <3>8
  <2> QED BY <2>1, <2>2
<1>14. CkFlushed' /\ CkWritten' /\ PrevOK' /\ DownOK' BY <1>1 DEF CkFlushed, CkWritten, PrevOK, DownOK
<1> QED BY <1>9, <1>10, <1>11, <1>12, <1>13, <1>14 DEF FileInv

LEMMA CrashInv ==
    ASSUME FileInv, Crash, exposed' = {}
    PROVE  FileInv'
<1> DEFINE img == ImageBlocks(db.cur, Active)
           cur == [b \in Block |-> IF b \in db.dirty THEN Torn ELSE db.cur[b]]
<1>1. /\ pc # "down" /\ pc' = "down" /\ Active.meta # None /\ db' = [db EXCEPT !.cur = cur, !.dirty = {}]
      /\ prev' = (IF pc = "restore" THEN prev ELSE NoCopy) /\ live' = <<>> /\ ck' = NoCheckpoint
      /\ UNCHANGED <<image, atRisk, tokens>>
  BY DEF Crash
<1>2. atRisk = {} /\ atRisk' = {} BY <1>1 DEF Crash, Met
<1>3. db \in Manager /\ FreeBelow(db) BY DEF FileInv, FileTypes
<1>4. Torn \in Contents
  <2>1. <<>> \in Seq(Pointer) /\ <<>> \in Seq(Int) BY EmptySeq
  <2> QED BY <2>1 DEF Torn, Content, Contents
<1>5. cur \in [Block -> Contents] BY <1>3, <1>4 DEF Manager
<1>6. img \subseteq Block /\ HeadBlocks \subseteq img BY <1>1, ActiveFacts
<1>7. \A b \in img : cur[b] = db.cur[b] BY <1>1, <1>2, <1>6 DEF FileInv, ImageWhole
<1> HIDE DEF cur
<1>8. /\ db' \in Manager /\ db'.cur = cur /\ db'.dirty = {} /\ db'.heads = db.heads /\ db'.free = db.free
      /\ db'.max = db.max /\ db'.iteration = db.iteration
  BY <1>1, <1>3, <1>5 DEF Manager
<1>9. Active' = Active /\ HeadBlocks' = HeadBlocks BY <1>8 DEF Active, HeadBlocks
<1>10. /\ PointersOf(cur, Active) = Pointers /\ ImageBlocks(cur, Active) = img
       /\ FreeListAt(cur, Active.freeList) = FreeListAt(db.cur, Active.freeList)
  BY <1>1, <1>6, <1>7, SameImage
<1>11. Pointers' = Pointers /\ img' = img
  <2>1. Pointers' = PointersOf(db'.cur, Active') /\ img' = ImageBlocks(db'.cur, Active') BY DEF Pointers
  <2> QED BY <1>8, <1>9, <1>10, <2>1
<1>12. FreeListAt(db.cur, Active.freeList)' = FreeListAt(db.cur, Active.freeList) BY <1>8, <1>9, <1>10
<1>13. FileTypes'
  <2>1. live' \in Seq(Segment) /\ Len(live') = 0 BY <1>1
  <2>2. Len(live') <= MaxSegment BY <2>1, BlockFileAssumption
  <2> QED BY <1>1, <1>3, <1>8, <2>1, <2>2, NoCheckpointFacts DEF FileInv, FileTypes, FreeBelow
<1>14. HeadsOK' BY <1>1, <1>8 DEF FileInv, HeadsOK
<1>15. LiveOK' BY <1>1 DEF LiveOK
<1>16. CkApart'
  <2>1. CkBlocks' = {} BY <1>1, NoCheckpointFacts DEF CkBlocks
  <2> QED BY <1>1, <2>1 DEF CkApart
<1>17. ImageShape' BY <1>1, <1>8, <1>9, <1>11, <1>12 DEF FileInv, ImageShape
<1>18. ImageApart' BY <1>1 DEF ImageApart
<1>19. ImageWhole'
  <2>1. \A i \in DOMAIN Pointers : Pointers[i].block \in img BY <1>1, ActiveFacts
  <2> HIDE DEF img
  <2>2. \A i \in DOMAIN Pointers : db'.cur[Pointers[i].block].toks[Pointers[i].off] = image[i]
    BY <1>1, <1>2, <1>7, <1>8, <2>1 DEF FileInv, ImageWhole
  <2> QED BY <1>1, <1>8, <1>11, <2>2 DEF ImageWhole
<1>20. PrevOK'
  <2>1. SUFFICES ASSUME prev' # NoCopy
                 PROVE  prev'.heads = db'.heads /\ \A b \in HeadBlocks \cup img : prev'.cur[b] = db'.cur[b]
    BY <1>1, <1>2, <1>9, <1>11 DEF PrevOK
  <2>2. pc = "restore" /\ prev' = prev BY <1>1, <2>1
  <2>3. prev.heads = db.heads /\ \A b \in HeadBlocks \cup img : prev.cur[b] = db.cur[b]
    BY <1>1, <1>2, <2>1, <2>2 DEF FileInv, PrevOK
  <2> QED BY <1>6, <1>7, <1>8, <2>2, <2>3
<1>21. CkFlushed' /\ CkWritten' /\ DownOK' BY <1>1, <1>2, <1>9 DEF CkFlushed, CkWritten, DownOK
<1> QED BY <1>13, <1>14, <1>15, <1>16, <1>17, <1>18, <1>19, <1>20, <1>21 DEF FileInv

\* The start: the manager of the header, the segments of the data pointers, and their
\* validity written through.
LEMMA LoadInv ==
    ASSUME FileInv, Load, exposed' = {}
    PROVE  FileInv'
<1> DEFINE img   == ImageBlocks(db.cur, Active)
           cur   == IF prev = NoCopy THEN db.cur ELSE prev.cur
           heads == IF prev = NoCopy THEN db.heads ELSE prev.heads
           h     == ActiveHeader(heads)
           mgr   == LoadedManager(cur, h)
           d     == [free |-> mgr.free, max |-> mgr.max, iteration |-> mgr.iteration, meta |-> mgr.meta,
                     cur |-> cur, dirty |-> {}, heads |-> heads]
           ptrs  == PointersOf(cur, h)
           segs  == [i \in DOMAIN ptrs |-> LoadedSegment(cur, ptrs[i])]
           m     == Len(ptrs)
           r     == TransitionToDisk(d, segs, m)
<1>1. /\ pc = "down" /\ pc' = "serving" /\ BoundOK(r.db) /\ db' = r.db /\ live' = r.segs /\ prev' = NoCopy
      /\ UNCHANGED <<ck, image, atRisk, tokens>>
  BY DEF Load
<1>2. Active.meta # None /\ atRisk = {} /\ ck = NoCheckpoint BY <1>1 DEF FileInv, DownOK, CkApart
<1>3. db \in Manager /\ db.cur \in [Block -> Contents] /\ db.heads \in [{1, 2} -> Heading] /\ tokens \in Nat
  BY DEF FileInv, FileTypes, Manager
<1>4. heads = db.heads BY <1>1 DEF FileInv, PrevOK
<1>5. cur \in [Block -> Contents]
  <2>1. prev # NoCopy => prev \in Copy BY DEF FileInv, FileTypes
  <2> QED BY <1>3, <2>1 DEF Copy
<1>6. /\ Active \in Heading /\ HeadBlocks \subseteq img /\ img \subseteq Block
      /\ img = HeadBlocks \cup {Pointers[i].block : i \in DOMAIN Pointers} /\ img \subseteq 0 .. Active.count - 1
  BY <1>2, ActiveFacts
<1>7. \A b \in img : cur[b] = db.cur[b] BY <1>1, <1>2 DEF FileInv, PrevOK
<1>8. /\ PointersOf(cur, Active) = Pointers /\ ImageBlocks(cur, Active) = img
      /\ FreeListAt(cur, Active.freeList) = FreeListAt(db.cur, Active.freeList)
  BY <1>2, <1>6, <1>7, SameImage
<1>9. h = Active BY <1>4 DEF Active
<1>10. ptrs = Pointers BY <1>8, <1>9
<1> HIDE DEF cur, heads
<1>11. /\ Len(Pointers) = Len(image)
       /\ \A i \in DOMAIN Pointers : Pointers[i].block \in (0 .. Active.count - 1) \ HeadBlocks
       /\ FreeListAt(cur, Active.freeList) \subseteq (0 .. Active.count - 1) \ img
  BY <1>2, <1>8 DEF FileInv, ImageShape
<1>12. \A i \in DOMAIN Pointers : db.cur[Pointers[i].block].toks[Pointers[i].off] = image[i]
  BY <1>2 DEF FileInv, ImageWhole
<1>13. Active.count \in Nat /\ Active.iteration \in Nat /\ Active.meta \in Int BY <1>6 DEF Heading
<1>14. /\ d.free = FreeListAt(cur, Active.freeList) /\ d.max = Active.count /\ d.iteration = Active.iteration
       /\ d.cur = cur /\ d.dirty = {} /\ d.heads = db.heads
  BY <1>4, <1>9 DEF LoadedManager
<1>15. d \in Manager /\ FreeBelow(d)
  <2>1. d.free \in SUBSET Nat BY <1>11, <1>13, <1>14
  <2>2. d.meta = Active.meta BY <1>9 DEF LoadedManager
  <2>3. d = [free |-> d.free, max |-> d.max, iteration |-> d.iteration, meta |-> d.meta,
             cur |-> d.cur, dirty |-> d.dirty, heads |-> d.heads]
    OBVIOUS
  <2> HIDE DEF d
  <2>4. d \in Manager BY <1>3, <1>5, <1>13, <1>14, <2>1, <2>2, <2>3 DEF Manager
  <2> QED BY <1>11, <1>14, <2>4 DEF FreeBelow
<1> HIDE DEF d
<1>16. img \subseteq Owned(d) BY <1>6, <1>11, <1>14 DEF Owned
<1>17. ptrs \in Seq(Pointer) /\ m \in Nat /\ DOMAIN ptrs = 1 .. m /\ m = Len(image)
  <2>1. Active.meta \in Block BY <1>2, <1>6, ActiveFacts
  <2>2. Pointers \in Seq(Pointer) BY <1>3, <2>1 DEF Pointers, PointersOf, Contents
  <2> QED BY <1>10, <1>11, <2>2
<1>18. ASSUME NEW i \in 1 .. m
       PROVE  /\ segs[i] \in Segment /\ segs[i].tok \in 1 .. tokens /\ SegOK(d, segs[i])
              /\ BlocksOf(segs[i]) \cap HeadBlocks = {}
  <2> DEFINE p == ptrs[i]
  <2>1. p \in Pointer BY <1>17
  <2>2. p.block \in img \ HeadBlocks /\ cur[p.block].toks[p.off] = image[i]
    <3>1. i \in DOMAIN Pointers /\ p = Pointers[i] BY <1>10, <1>17
    <3>2. p.block \in img BY <1>6, <3>1
    <3> QED BY <1>7, <1>11, <1>12, <3>1, <3>2
  <2>3. image[i] \in 1 .. tokens
    <3>1. image \in Seq(Nat) /\ \A j \in DOMAIN image : image[j] \in 1 .. tokens BY DEF FileInv, FileTypes
    <3> QED BY <1>17, <3>1
  <2>4. segs[i] = LoadedSegment(cur, p) BY <1>17
  <2> HIDE DEF p, segs
  <2>5. /\ segs[i].tok = image[i] /\ segs[i].kind = p.kind /\ segs[i].block = p.block /\ segs[i].off = p.off
        /\ segs[i].whole \in BOOLEAN /\ segs[i].bits = None
        /\ segs[i] \in Segment
    <3>1. p.kind \in {"wide", "narrow", "text"} /\ p.block \in Int /\ p.off \in Nat /\ None \in Int /\ image[i] \in Nat
      BY <1>3, <2>1, <2>3 DEF Pointer, None
    <3> QED BY <2>2, <2>4, <3>1 DEF LoadedSegment, Segment
  <2>6. None \notin Block /\ p.block # None BY <2>1, BlockFacts DEF Pointer
  <2>7. p.block \in Owned(d) BY <1>16, <2>2
  <2>8. SegOK(d, segs[i]) BY <1>14, <2>2, <2>5, <2>6, <2>7 DEF SegOK
  <2>9. BlocksOf(segs[i]) \cap HeadBlocks = {} BY <2>2, <2>5 DEF BlocksOf
  <2> QED BY <2>3, <2>5, <2>8, <2>9
<1>19. segs \in [1 .. m -> Segment] BY <1>17, <1>18
<1> HIDE DEF segs
<1>20. Through(r, d, segs, m)
  <2>1. m \in 0 .. m BY <1>17
  <2> HIDE DEF m, r
  <2> QED BY <1>15, <1>17, <1>18, <1>19, <2>1, TransitionDone DEF r
<1>21. PICK T : /\ Grown(d, r.db, T)
                /\ r.segs \in [1 .. m -> Segment]
                /\ \A i \in 1 .. m : SegOK(r.db, r.segs[i]) /\ Same(segs[i], r.segs[i], T)
  BY <1>20 DEF Through
<1> HIDE DEF r, m
<1>22. Grown(d, db', T) BY <1>1, <1>21
<1>23. Owned(d) \subseteq Owned(db') \ T BY <1>15, <1>22, GrownOwned
<1>24. img \subseteq Owned(db') \ T BY <1>16, <1>23
<1>25. \A b \in img : db'.cur[b] = db.cur[b] BY <1>6, <1>7, <1>14, <1>22, <1>24 DEF Grown
<1>26. db'.heads = db.heads /\ db' \in Manager /\ FreeBelow(db') /\ db'.iteration = Active.iteration /\ Active.count <= db'.max
  BY <1>14, <1>22 DEF Grown
<1>27. Active' = Active /\ HeadBlocks' = HeadBlocks BY <1>26 DEF Active, HeadBlocks
<1>28. /\ Pointers' = Pointers /\ img' = img
       /\ FreeListAt(db.cur, Active.freeList)' = FreeListAt(db.cur, Active.freeList)
  <2>1. /\ PointersOf(db'.cur, Active) = Pointers /\ ImageBlocks(db'.cur, Active) = img
        /\ FreeListAt(db'.cur, Active.freeList) = FreeListAt(db.cur, Active.freeList)
    BY <1>2, <1>6, <1>25, SameImage
  <2>2. Pointers' = PointersOf(db'.cur, Active') /\ img' = ImageBlocks(db'.cur, Active') BY DEF Pointers
  <2> QED BY <1>27, <2>1, <2>2
<1>29. FileTypes'
  <2>1. db'.max <= MaxBlock /\ db'.max \in Nat BY <1>1, <1>26 DEF BoundOK, Manager
  <2>2. db'.dirty \subseteq Block
    <3>1. db'.dirty \subseteq Owned(db') BY <1>14, <1>22 DEF Grown
    <3>2. Owned(db') \subseteq Block BY <2>1, BlockFacts DEF Owned
    <3> QED BY <3>1, <3>2
  <2>3. live' \in Seq(Segment) /\ Len(live') = Len(image) BY <1>1, <1>17, <1>21
  <2> QED BY <1>1, <1>2, <1>26, <2>1, <2>2, <2>3, NoCheckpointFacts DEF FileInv, FileTypes, FreeBelow
<1>30. HeadsOK'
  <2>1. db.heads[1].iteration \in Nat /\ db.heads[2].iteration \in Nat BY <1>3 DEF Heading
  <2>2. \A j \in {1, 2} : db.heads[j].iteration <= Active.iteration BY <2>1 DEF Active, ActiveHeader
  <2> QED BY <1>1, <1>26, <2>2 DEF HeadsOK
<1>31. LiveOK'
  <2>1. T \cap HeadBlocks = {} BY <1>6, <1>24
  <2>2. ASSUME NEW i \in 1 .. m
        PROVE  SegOK(db', live'[i]) /\ live'[i].tok \in 1 .. tokens /\ BlocksOf(live'[i]) \cap HeadBlocks = {}
    <3>1. SegOK(db', live'[i]) /\ Same(segs[i], live'[i], T) BY <1>1, <1>21
    <3> QED BY <1>18, <2>1, <3>1 DEF Same, BlocksOf
  <2>3. DOMAIN live' = 1 .. m BY <1>1, <1>21
  <2> QED BY <1>1, <1>27, <2>2, <2>3 DEF LiveOK
<1>32. CkApart'
  <2>1. CkBlocks' = {} BY <1>1, <1>2, NoCheckpointFacts DEF CkBlocks
  <2> QED BY <1>1, <1>2, <2>1 DEF CkApart
<1>33. ImageShape' BY <1>1, <1>2, <1>26, <1>27, <1>28 DEF FileInv, ImageShape
<1>34. ImageApart' BY <1>6, <1>24, <1>27, <1>28 DEF ImageApart, Owned
<1>35. ImageWhole'
  <2>1. img \cap db'.dirty = {} BY <1>14, <1>22, <1>24 DEF Grown
  <2>2. \A i \in DOMAIN Pointers : Pointers[i].block \in img BY <1>6
  <2> HIDE DEF img
  <2>3. \A i \in DOMAIN Pointers : db'.cur[Pointers[i].block].toks[Pointers[i].off] = image[i] BY <1>12, <1>25, <2>2
  <2> QED BY <1>1, <1>28, <2>1, <2>3 DEF ImageWhole, img
<1>36. CkFlushed' /\ CkWritten' /\ PrevOK' /\ DownOK' BY <1>1 DEF CkFlushed, CkWritten, PrevOK, DownOK
<1> QED BY <1>29, <1>30, <1>31, <1>32, <1>33, <1>34, <1>35, <1>36 DEF FileInv

-----------------------------------------------------------------------------
(* The specification.                                                      *)

LEMMA FileInitInv == FileInit => FileInv
<1> SUFFICES ASSUME FileInit PROVE FileInv OBVIOUS
<1> DEFINE h   == Header(0, None, None, 0)
           cur == [b \in Block |-> Torn]
<1>1. /\ db = [free |-> {}, max |-> 0, iteration |-> 0, meta |-> None, cur |-> cur, dirty |-> {}, heads |-> <<h, h>>]
      /\ live = <<>> /\ ck = NoCheckpoint /\ prev = NoCopy /\ pc = "serving"
      /\ image = <<>> /\ atRisk = {} /\ tokens = 0 /\ exposed = {}
  BY DEF FileInit
<1>2. h \in Heading /\ h.iteration = 0 /\ h.meta = None /\ h.freeList = None BY DEF Header, Heading, None
<1>3. cur \in [Block -> Contents]
  <2>1. <<>> \in Seq(Pointer) /\ <<>> \in Seq(Int) BY EmptySeq
  <2>2. Torn \in Contents BY <2>1 DEF Torn, Content, Contents
  <2> QED BY <2>2
<1> HIDE DEF h, cur
<1>4. <<h, h>> \in [{1, 2} -> Heading] /\ <<h, h>>[1] = h /\ <<h, h>>[2] = h
  <2>1. DOMAIN <<h, h>> = {1, 2} OBVIOUS
  <2> QED BY <1>2, <2>1
<1>5. db \in Manager /\ db.max = 0 /\ db.free = {} /\ db.dirty = {} /\ db.heads = <<h, h>> /\ db.iteration = 0
  BY <1>1, <1>3, <1>4 DEF Manager, None
<1>6. Active = h BY <1>4, <1>5 DEF Active, ActiveHeader
<1>7. FileTypes
  <2>1. <<>> \in Seq(Segment) /\ <<>> \in Seq(Nat) /\ Len(<<>>) = 0 /\ DOMAIN <<>> = {} OBVIOUS
  <2>2. 0 <= MaxSegment /\ 0 <= MaxBlock BY BlockFileAssumption
  <2> QED BY <1>1, <1>5, <2>1, <2>2, NoCheckpointFacts DEF FileTypes, FreeBelow
<1>8. HeadsOK BY <1>1, <1>2, <1>4, <1>5 DEF HeadsOK
<1>9. LiveOK BY <1>1 DEF LiveOK
<1>10. CkApart BY <1>1, NoCheckpointFacts DEF CkApart, CkBlocks
<1>11. CkFlushed /\ CkWritten /\ PrevOK /\ DownOK BY <1>1 DEF CkFlushed, CkWritten, PrevOK, DownOK
<1>12. ImageShape /\ ImageApart /\ ImageWhole BY <1>2, <1>6 DEF ImageShape, ImageApart, ImageWhole
<1> QED BY <1>7, <1>8, <1>9, <1>10, <1>11, <1>12 DEF FileInv

LEMMA FileNextInv == FileInv /\ [FileNext /\ exposed' = {}]_vars => FileInv'
<1> SUFFICES ASSUME FileInv, [FileNext /\ exposed' = {}]_vars PROVE FileInv' OBVIOUS
<1>1. CASE FileNext /\ exposed' = {}
  <2>1. ASSUME NEW kind \in Kind, AppendSegment(kind) PROVE FileInv' BY <1>1, <2>1, AppendSegmentInv
  <2>2. ASSUME NEW n \in 0 .. MaxSegment, NEW oom \in BOOLEAN, CloseRowGroup(n, oom) PROVE FileInv'
    BY <1>1, <2>2, CloseRowGroupInv
  <2>3. ASSUME NEW kept \in Selections, NEW n \in 0 .. MaxSegment, Compact(kept, n) PROVE FileInv'
    BY <1>1, <2>3, CompactInv
  <2>4. ASSUME NEW kept \in Selections, NEW n \in 0 .. MaxSegment, CompactFails(kept, n) PROVE FileInv'
    BY <1>1, <2>4, CompactFailsInv
  <2>5. ASSUME NEW kept \in Selections, NEW n \in 0 .. MaxSegment, NEW copied \in BOOLEAN, CkBegin(kept, n, copied)
        PROVE FileInv'
    BY <1>1, <2>5, CkBeginInv
  <2>6. CASE CkColumn BY <1>1, <2>6, CkColumnInv
  <2>7. ASSUME NEW flushed \in BOOLEAN, CkFails(flushed) PROVE FileInv' BY <1>1, <2>7, CkFailsInv
  <2>8. CASE Restore BY <1>1, <2>8, RestoreInv
  <2>9. CASE CkWrite BY <1>1, <2>9, CkWriteInv
  <2>10. CASE CkSync BY <1>1, <2>10, CkSyncInv
  <2>11. CASE CkHeader BY <1>1, <2>11, CkHeaderInv
  <2>12. CASE CkSecond BY <1>1, <2>12, CkSecondInv
  <2>13. CASE Crash BY <1>1, <2>13, CrashInv
  <2>14. CASE Load BY <1>1, <2>14, LoadInv
  <2> QED
    BY <1>1, <2>1, <2>2, <2>3, <2>4, <2>5, <2>6, <2>7, <2>8, <2>9, <2>10, <2>11, <2>12, <2>13, <2>14 DEF FileNext
<1>2. CASE UNCHANGED vars
  <2> USE <1>2 DEF vars
  <2>1. Active' = Active /\ HeadBlocks' = HeadBlocks /\ Pointers' = Pointers /\ CkBlocks' = CkBlocks
    BY DEF Active, HeadBlocks, Pointers, CkBlocks
  <2>2. FileTypes' /\ HeadsOK' BY DEF FileInv, FileTypes, HeadsOK
  <2>3. LiveOK' /\ CkApart' BY <2>1 DEF FileInv, LiveOK, CkApart
  <2>4. CkFlushed' /\ CkWritten' BY DEF FileInv, CkFlushed, CkWritten
  <2>5. ImageShape' /\ ImageApart' /\ ImageWhole' BY <2>1 DEF FileInv, ImageShape, ImageApart, ImageWhole
  <2>6. PrevOK' /\ DownOK' BY <2>1 DEF FileInv, PrevOK, DownOK
  <2> QED BY <2>2, <2>3, <2>4, <2>5, <2>6 DEF FileInv
<1> QED BY <1>1, <1>2

LEMMA FileInvHolds == TameSpec => []FileInv
<1>1. FileInit => FileInv BY FileInitInv
<1>2. FileInv /\ [FileNext /\ exposed' = {}]_vars => FileInv' BY FileNextInv
<1> QED BY <1>1, <1>2, PTL DEF TameSpec

-----------------------------------------------------------------------------
(* Theorems.                                                               *)

\* The free list of the manager lies inside the file, what is dirty is a block, and the
\* table has no segment that was not appended.
THEOREM FileTypeCorrect == TameSpec => []FileTypeOK
<1>1. FileInv => FileTypeOK
  <2> SUFFICES ASSUME FileInv PROVE FileTypeOK OBVIOUS
  <2>1. FileTypes BY DEF FileInv
  <2>2. db.max \in 0 .. MaxBlock BY <2>1, BlockFacts DEF FileTypes, Manager
  <2>3. Live \subseteq 1 .. tokens BY LiveFunction DEF Live
  <2> QED BY <2>1, <2>2, <2>3 DEF FileTypeOK, FileTypes, FreeBelow
<1> QED BY <1>1, FileInvHolds, PTL

\* A segment that is in the file is read as it was appended, whatever compactions, failed
\* checkpoints and starts have done to the blocks since.
THEOREM SegmentsReadBack == TameSpec => []LiveSegmentsReadBack
<1>1. FileInv => LiveSegmentsReadBack BY ReadsBack DEF LiveSegmentsReadBack
<1> QED BY <1>1, FileInvHolds, PTL

\* At every moment at which nothing of the last image was freed, a crash leaves that image
\* whole: table_storage_t::checkpoint never makes a partial write durable.
THEOREM ImageIntact == TameSpec => []DurableImageIntact
<1>1. FileInv => DurableImageIntact
  <2> SUFFICES ASSUME FileInv, atRisk = {}, Active.meta # None
               PROVE  /\ ImageBlocks(db.cur, Active) \cap db.dirty = {}
                      /\ image = [i \in DOMAIN Pointers |-> db.cur[Pointers[i].block].toks[Pointers[i].off]]
    BY DEF DurableImageIntact, Pointers
  <2>1. /\ ImageBlocks(db.cur, Active) \cap db.dirty = {}
        /\ \A i \in DOMAIN Pointers : db.cur[Pointers[i].block].toks[Pointers[i].off] = image[i]
    BY DEF FileInv, ImageWhole
  <2>2. Len(Pointers) = Len(image) BY DEF FileInv, ImageShape
  <2>3. Pointers \in Seq(Pointer)
    <3>1. Active.meta \in Block BY ActiveFacts
    <3>2. db.cur \in [Block -> Contents] BY DEF FileInv, FileTypes, Manager
    <3> QED BY <3>1, <3>2 DEF Pointers, PointersOf, Contents
  <2>4. image \in Seq(Nat) BY DEF FileInv, FileTypes
  <2>5. DOMAIN image = DOMAIN Pointers BY <2>2, <2>3, <2>4
  <2>6. image = [i \in DOMAIN image |-> image[i]] BY <2>4
  <2> QED BY <2>1, <2>5, <2>6
<1> QED BY <1>1, FileInvHolds, PTL

\* What free_block_id may hand out belongs to nobody: to no live segment, not to the running
\* checkpoint, and to the last image only where compaction gave it back.
THEOREM FreeBlocksAreUnused == TameSpec => []FreeBlocksUnused
<1>1. FileInv => FreeBlocksUnused
  <2> SUFFICES ASSUME FileInv, pc # "down"
               PROVE  /\ db.free \cap UNION {{live[i].block, live[i].bits} : i \in DOMAIN live} = {}
                      /\ db.free \cap ({ck.meta} \cup DOMAIN ck.bufs) = {}
                      /\ db.free \cap ImageBlocks(db.cur, Active) \subseteq atRisk
    BY DEF FreeBlocksUnused
  <2>1. None \notin db.free BY BlockFacts DEF FileInv, FileTypes, Manager
  <2>2. \A i \in DOMAIN live : {live[i].block, live[i].bits} \cap db.free = {}
    BY <2>1, LiveFunction DEF SegOK, Owned
  <2>3. ({ck.meta} \cup DOMAIN ck.bufs) \cap db.free = {} BY <2>1 DEF FileInv, CkApart, CkBlocks, Owned
  <2>4. db.free \cap ImageBlocks(db.cur, Active) \subseteq atRisk
    <3>1. CASE Active.meta = None BY <3>1, ActiveFacts
    <3>2. CASE Active.meta # None BY <3>2 DEF FileInv, ImageApart
    <3> QED BY <3>1, <3>2
  <2> QED BY <2>2, <2>3, <2>4
<1> QED BY <1>1, FileInvHolds, PTL

=============================================================================
