------------------------- MODULE CollectionProofs -------------------------
(***************************************************************************)
(* The row groups and version infos of a collection against the plain rows *)
(* they stand for, for every vector capacity, number of rows and set of    *)
(* writers.                                                                *)
(***************************************************************************)
EXTENDS Collection, RowVersionsProofs

-----------------------------------------------------------------------------
(* The layout.                                                             *)

\* Row groups whose version infos are in I, and collections of them.
GroupOf(I) == [start : Nat, count : Nat, infos : [Vector -> I], vals : Seq(Nat)]

CollectionOf(I) == [groups : Seq(GroupOf(I)), total : Nat]

\* Where the rows of the row groups end.
RowsEnd(groups) ==
    IF groups = <<>> THEN 0 ELSE groups[Len(groups)].start + groups[Len(groups)].count

\* The row groups follow each other; all but the last are full.
Layout(c) ==
    /\ \A k \in 1 .. Len(c.groups) :
          /\ c.groups[k].start = (k - 1) * Capacity
          /\ c.groups[k].count <= Capacity
          /\ k < Len(c.groups) => c.groups[k].count = Capacity
          /\ Len(c.groups[k].vals) = c.groups[k].count
    /\ c.total = RowsEnd(c.groups)
    /\ c.total <= MaxRows

-----------------------------------------------------------------------------
(* The version infos against the rows of a heap h.                         *)

ConstantInfos == [kind : {"constant"}, insertId : Nat, deleteId : Nat]

VectorInfos ==
    [kind : {"vector"}, insertId : Nat, sameInsertedId : BOOLEAN, anyDeleted : BOOLEAN,
     inserted : [Slot -> Nat], deleted : [Slot -> Nat]]

Info == {NoInfo} \cup ConstantInfos \cup VectorInfos

\* A mark is never behind a shortcut that says there is none.
MarksShown(info) ==
    /\ info \in Info
    /\ info.kind = "constant" => info.deleteId = NotDeleted
    /\ info.kind = "vector" /\ ~info.anyDeleted => \A i \in Slot : info.deleted[i] = NotDeleted

\* The first count slots of an info with same_inserted_id carry the shared id.
SharedId(info, count) ==
    info.kind = "vector" /\ info.sameInsertedId =>
        \A i \in 0 .. count - 1 : info.inserted[i] = info.insertId

\* The mark of row id r; there is none behind the last row.
MarkOf(h, r) == IF r < Len(h) THEN h[r + 1].del ELSE NotDeleted

\* The info a scan reads the k-th row group with has the marks of its rows.
MarksTracked(groups, h) ==
    \A k \in 1 .. Len(groups) : k - 1 \in Vector =>
        /\ MarksShown(groups[k].infos[k - 1])
        /\ \A i \in Slot : StampsAt(groups[k].infos[k - 1], i).del = MarkOf(h, (k - 1) * Capacity + i)

\* The first row group has the values and the insert stamps of its rows, too.
FirstTracked(g, h) ==
    /\ SharedId(g.infos[0], g.count)
    /\ g.count = 0 => g.infos[0] = NoInfo
    /\ \A i \in 0 .. g.count - 1 : g.vals[i + 1] = h[i + 1].key /\ StampsAt(g.infos[0], i).ins = h[i + 1].ins

Tracks(c, h) ==
    /\ c.total = Len(h)
    /\ MarksTracked(c.groups, h)
    /\ c.groups # <<>> => FirstTracked(c.groups[1], h)

-----------------------------------------------------------------------------
(* The writers.                                                            *)

Status == {"open", "stamped", "done"}

AppendRange == [start : Nat, count : Nat]

WriterTypes ==
    /\ nextKey \in Nat
    /\ status \in [Writer -> Status]
    /\ ranges \in [Writer -> Seq(AppendRange)]
    /\ commitId \in [Writer -> Nat]
    /\ lastCommit \in Nat
    /\ misread \in BOOLEAN

\* The writers that have left "open".
Closed(st) == {t \in Writer : st[t] # "open"}

\* Commit ids are given out one per writer.
CommitIds ==
    /\ lastCommit <= Cardinality(Closed(status))
    /\ \A t \in Writer : commitId[t] <= lastCommit

\* A stamp is a commit id that was given out or at least a transaction id.
StampsUpTo(h, last) ==
    \A i \in 1 .. Len(h) : /\ h[i].ins <= last \/ h[i].ins >= TxnIdStart
                           /\ h[i].del <= last \/ h[i].del >= TxnIdStart

StampsGiven == StampsUpTo(heap, lastCommit)

\* The ranges of an open writer name exactly the rows that carry its id.
Exact(h, R, own) ==
    /\ R \subseteq 0 .. Len(h) - 1
    /\ \A i \in 1 .. Len(h) : h[i].ins = own <=> i - 1 \in R

RangesExact ==
    \A t \in Writer : status[t] = "open" => Exact(heap, RangeRows(ranges[t]), TxnId(t))

\* Where the rows with the ids R are in a heap.
Positions(R) == {i + 1 : i \in R}

LaidOut(c, h) == (\E I : c \in CollectionOf(I)) /\ Layout(c) /\ h \in Seq(Row)

LayoutInv == LaidOut(coll, heap)

CollectionInv ==
    /\ WriterTypes
    /\ CommitIds
    /\ LayoutInv
    /\ StampsGiven
    /\ ~misread => Tracks(coll, heap) /\ RangesExact

-----------------------------------------------------------------------------
(* Row ids, vectors and slots.                                             *)

\* The smaller of two numbers.
LEMMA MinOfTwo ==
    ASSUME NEW a \in Int, NEW b \in Int
    PROVE  Min({a, b}) = IF a <= b THEN a ELSE b
<1>1. CASE a <= b
  <2>1. a \in {a, b} /\ \A y \in {a, b} : a <= y BY <1>1
  <2>2. \A x \in {a, b} : (\A y \in {a, b} : x <= y) => x = a BY <1>1
  <2> QED BY <1>1, <2>1, <2>2 DEF Min
<1>2. CASE ~(a <= b)
  <2>1. b \in {a, b} /\ \A y \in {a, b} : b <= y BY <1>2
  <2>2. \A x \in {a, b} : (\A y \in {a, b} : x <= y) => x = b BY <1>2
  <2> QED BY <1>2, <2>1, <2>2 DEF Min
<1> QED BY <1>1, <1>2

\* Multiples of the capacity are ordered as their factors.
LEMMA Multiples ==
    ASSUME NEW a \in Int, NEW b \in Int
    PROVE  /\ a * Capacity \in Int
           /\ (a + 1) * Capacity = a * Capacity + Capacity
           /\ (a - 1) * Capacity = a * Capacity - Capacity
           /\ a <= b => a * Capacity <= b * Capacity
           /\ a < b => a * Capacity + Capacity <= b * Capacity
<1>1. Capacity \in Nat \ {0} BY LayoutAssumption
<1>2. a * Capacity \in Int /\ (a + 1) * Capacity = a * Capacity + Capacity BY <1>1
<1>3. (a - 1) * Capacity = a * Capacity - Capacity BY <1>1
<1>4. ASSUME a <= b PROVE a * Capacity <= b * Capacity BY <1>1, <1>4
<1>5. ASSUME a < b PROVE a * Capacity + Capacity <= b * Capacity
  <2>1. a + 1 <= b BY <1>5
  <2>2. (a + 1) * Capacity <= b * Capacity
    <3> PICK d \in Int : d = a + 1 OBVIOUS
    <3> QED BY <1>1, <2>1
  <2> QED BY <1>2, <2>2
<1> QED BY <1>2, <1>3, <1>4, <1>5

\* Division with remainder.
LEMMA DivMod ==
    ASSUME NEW r \in Nat, NEW c \in Nat, c > 0
    PROVE  r = (r \div c) * c + (r % c)
OBVIOUS

\* A row id is a vector number and a slot.
LEMMA VectorAndSlot ==
    ASSUME NEW r \in Nat
    PROVE  /\ r \div Capacity \in Nat
           /\ r % Capacity \in Slot
           /\ r = (r \div Capacity) * Capacity + (r % Capacity)
<1>1. Capacity \in Nat \ {0} BY LayoutAssumption
<1>2. r \div Capacity \in Nat /\ r % Capacity \in 0 .. Capacity - 1 BY <1>1
<1>3. r = (r \div Capacity) * Capacity + (r % Capacity) BY <1>1, DivMod
<1> QED BY <1>2, <1>3 DEF Slot

\* Only one vector number and slot.
LEMMA VectorAndSlotUnique ==
    ASSUME NEW v \in Nat, NEW i \in Slot
    PROVE  /\ (v * Capacity + i) \div Capacity = v
           /\ (v * Capacity + i) % Capacity = i
<1>1. Capacity \in Nat \ {0} /\ i \in Nat /\ i < Capacity BY LayoutAssumption DEF Slot
<1> DEFINE r == v * Capacity + i
           q == r \div Capacity
<1>2. r \in Nat BY <1>1
<1>3. q \in Nat /\ r % Capacity \in Slot /\ r = q * Capacity + (r % Capacity)
  BY <1>2, VectorAndSlot
<1>4. r % Capacity \in Nat /\ r % Capacity < Capacity BY <1>1, <1>3 DEF Slot
<1> HIDE DEF q
<1>5. v * Capacity + i = q * Capacity + (r % Capacity) BY <1>3
<1>6. PICK x \in Int, y \in Int : x = q * Capacity /\ y = v * Capacity BY <1>3, Multiples
<1>7. (q < v => x + Capacity <= y) /\ (v < q => y + Capacity <= x)
  <2>1. q < v => q * Capacity + Capacity <= v * Capacity BY <1>3, Multiples
  <2>2. v < q => v * Capacity + Capacity <= q * Capacity BY <1>3, Multiples
  <2> QED BY ONLY <1>6, <2>1, <2>2
<1>8. PICK m \in Nat : m = r % Capacity BY <1>4
<1>9. m < Capacity /\ y + i = x + m BY <1>4, <1>5, <1>6, <1>8
<1>10. q = v BY ONLY <1>1, <1>3, <1>7, <1>9
<1>11. m = i BY ONLY <1>1, <1>6, <1>9, <1>10
<1> QED BY <1>8, <1>10, <1>11 DEF q

\* The vector numbers are those of the row ids below MaxRows.
LEMMA VectorNumbers ==
    ASSUME NEW v \in Nat
    PROVE  v \in Vector <=> v * Capacity < MaxRows
<1>1. Capacity \in Nat \ {0} /\ MaxRows \in Nat \ {0} /\ MaxRows - 1 \in Nat BY LayoutAssumption
<1> DEFINE q == (MaxRows - 1) \div Capacity
           m == (MaxRows - 1) % Capacity
<1>2. q \in Nat /\ m \in Slot /\ MaxRows - 1 = q * Capacity + m BY <1>1, VectorAndSlot
<1>3. m \in Nat /\ m < Capacity BY <1>1, <1>2 DEF Slot
<1>4. v \in Vector <=> v <= q BY <1>2 DEF Vector
<1> HIDE DEF q, m
<1>5. v * Capacity \in Int /\ q * Capacity \in Int BY <1>2, Multiples
<1>6. v <= q => v * Capacity <= q * Capacity BY <1>2, Multiples
<1>7. q < v => q * Capacity + Capacity <= v * Capacity BY <1>2, Multiples
<1> QED BY <1>1, <1>2, <1>3, <1>4, <1>5, <1>6, <1>7
-----------------------------------------------------------------------------
(* One version info.                                                       *)

\* The three kinds.
LEMMA InfoKinds ==
    ASSUME NEW info \in Info
    PROVE  \/ info = NoInfo /\ info.kind = "none"
           \/ info \in ConstantInfos /\ info.kind = "constant"
           \/ info \in VectorInfos /\ info.kind = "vector"
BY DEF Info, NoInfo, ConstantInfos, VectorInfos

\* The stamps of the three kinds.
LEMMA KindStamps ==
    ASSUME NEW info, NEW i
    PROVE  /\ info.kind = "none" => StampsAt(info, i).ins = 0 /\ StampsAt(info, i).del = NotDeleted
           /\ info.kind = "constant" =>
                 StampsAt(info, i).ins = info.insertId /\ StampsAt(info, i).del = info.deleteId
           /\ info.kind = "vector" =>
                 /\ StampsAt(info, i).ins = IF info.sameInsertedId THEN info.insertId ELSE info.inserted[i]
                 /\ StampsAt(info, i).del = IF info.anyDeleted THEN info.deleted[i] ELSE NotDeleted
<1>1. ASSUME info.kind = "none" PROVE StampsAt(info, i).ins = 0 /\ StampsAt(info, i).del = NotDeleted
  BY <1>1 DEF StampsAt
<1>2. ASSUME info.kind = "constant"
      PROVE  StampsAt(info, i).ins = info.insertId /\ StampsAt(info, i).del = info.deleteId
  BY <1>2 DEF StampsAt
<1>3. ASSUME info.kind = "vector"
      PROVE  /\ StampsAt(info, i).ins = IF info.sameInsertedId THEN info.insertId ELSE info.inserted[i]
             /\ StampsAt(info, i).del = IF info.anyDeleted THEN info.deleted[i] ELSE NotDeleted
  BY <1>3 DEF StampsAt
<1> QED BY <1>1, <1>2, <1>3

\* Stamps are ids.
LEMMA StampNumbers ==
    ASSUME NEW info \in Info, NEW i \in Slot
    PROVE  StampsAt(info, i).ins \in Nat /\ StampsAt(info, i).del \in Nat
<1>1. CASE info = NoInfo /\ info.kind = "none" BY <1>1, KindStamps, StampAssumption
<1>2. CASE info \in ConstantInfos /\ info.kind = "constant"
  BY <1>2, KindStamps DEF ConstantInfos
<1>3. CASE info \in VectorInfos /\ info.kind = "vector"
  BY <1>3, KindStamps, StampAssumption DEF VectorInfos
<1> QED BY <1>1, <1>2, <1>3, InfoKinds

\* Every slot of an info without marks shows none.
LEMMA ShownMarks ==
    ASSUME NEW info, MarksShown(info), NEW i \in Slot
    PROVE  /\ info.kind = "vector" => StampsAt(info, i).del = info.deleted[i]
           /\ info.kind # "vector" => StampsAt(info, i).del = NotDeleted
<1>1. info \in Info BY DEF MarksShown
<1> QED BY <1>1, InfoKinds, KindStamps DEF MarksShown

\* vector_info keeps the stamps and makes them a vector.
LEMMA AsVectorStamps ==
    ASSUME NEW info, MarksShown(info)
    PROVE  /\ AsVector(info) \in VectorInfos
           /\ MarksShown(AsVector(info))
           /\ \A i \in Slot : StampsAt(AsVector(info), i).ins = StampsAt(info, i).ins
                              /\ StampsAt(AsVector(info), i).del = StampsAt(info, i).del
           /\ \A n \in 0 .. Capacity : SharedId(info, n) => SharedId(AsVector(info), n)
<1>0. info \in Info BY DEF MarksShown
<1>1. ASSUME NEW id \in Nat
      PROVE  /\ VectorInfo(id) \in VectorInfos
             /\ VectorInfo(id).kind = "vector"
             /\ VectorInfo(id).sameInsertedId /\ ~VectorInfo(id).anyDeleted
             /\ VectorInfo(id).insertId = id
             /\ \A i \in Slot : VectorInfo(id).deleted[i] = NotDeleted /\ VectorInfo(id).inserted[i] = id
  BY StampAssumption DEF VectorInfo, VectorInfos
<1>2. ASSUME NEW id \in Nat
      PROVE  /\ MarksShown(VectorInfo(id))
             /\ \A i \in Slot : StampsAt(VectorInfo(id), i).ins = id
                                /\ StampsAt(VectorInfo(id), i).del = NotDeleted
             /\ \A n \in 0 .. Capacity : SharedId(VectorInfo(id), n)
  <2>1. MarksShown(VectorInfo(id)) BY <1>1 DEF MarksShown, Info
  <2>2. \A i \in Slot : StampsAt(VectorInfo(id), i).ins = id /\ StampsAt(VectorInfo(id), i).del = NotDeleted
    BY <1>1, KindStamps
  <2>3. \A n \in 0 .. Capacity : \A i \in 0 .. n - 1 : i \in Slot BY LayoutAssumption DEF Slot
  <2>4. \A n \in 0 .. Capacity : SharedId(VectorInfo(id), n) BY <1>1, <2>3 DEF SharedId
  <2> QED BY <2>1, <2>2, <2>4
<1>3. CASE info = NoInfo /\ info.kind = "none"
  <2>1. AsVector(info) = VectorInfo(0) BY <1>3 DEF AsVector
  <2> QED BY <1>1, <1>2, <1>3, <2>1, KindStamps
<1>4. CASE info \in ConstantInfos /\ info.kind = "constant"
  <2>1. AsVector(info) = VectorInfo(info.insertId) /\ info.insertId \in Nat
    BY <1>4 DEF AsVector, ConstantInfos
  <2>2. info.deleteId = NotDeleted BY <1>4 DEF MarksShown
  <2> QED BY <1>1, <1>2, <1>4, <2>1, <2>2, KindStamps
<1>5. CASE info \in VectorInfos /\ info.kind = "vector"
  <2>1. AsVector(info) = info BY <1>5 DEF AsVector
  <2> QED BY <1>5, <2>1
<1> QED BY <1>0, <1>3, <1>4, <1>5, InfoKinds

\* append stamps the new slots and no other.
LEMMA AppendedVector ==
    ASSUME NEW info \in VectorInfos, MarksShown(info),
           NEW from \in Nat, NEW to \in Nat, from <= to, to <= Capacity, NEW id \in Nat,
           SharedId(info, from)
    PROVE  /\ MarksShown(VectorAppend(info, from, to, id))
           /\ SharedId(VectorAppend(info, from, to, id), to)
           /\ \A i \in Slot : StampsAt(VectorAppend(info, from, to, id), i).del = StampsAt(info, i).del
           /\ \A i \in 0 .. from - 1 : StampsAt(VectorAppend(info, from, to, id), i).ins = StampsAt(info, i).ins
           /\ \A i \in from .. to - 1 : StampsAt(VectorAppend(info, from, to, id), i).ins = id
<1> DEFINE same == from = 0 \/ info.insertId = id
           stamps == [i \in Slot |-> IF i \in from .. to - 1 THEN id ELSE info.inserted[i]]
           new == VectorAppend(info, from, to, id)
<1>1. new = [info EXCEPT !.insertId = IF same THEN id ELSE NotDeleted,
                         !.sameInsertedId = info.sameInsertedId /\ same,
                         !.inserted = stamps]
  BY DEF VectorAppend
<1>2. /\ info.kind = "vector" /\ info.insertId \in Nat /\ info.sameInsertedId \in BOOLEAN
      /\ info.anyDeleted \in BOOLEAN /\ info.inserted \in [Slot -> Nat] /\ info.deleted \in [Slot -> Nat]
  BY DEF VectorInfos
<1>3. stamps \in [Slot -> Nat] BY <1>2
<1>4. same \in BOOLEAN OBVIOUS
<1>5. \A i \in 0 .. to - 1 : i \in Slot BY LayoutAssumption DEF Slot
<1>6. /\ \A i \in from .. to - 1 : stamps[i] = id
      /\ \A i \in 0 .. from - 1 : stamps[i] = info.inserted[i]
  BY <1>5
<1> HIDE DEF same, stamps, new
<1>7. /\ new \in VectorInfos /\ new.kind = "vector"
      /\ new.insertId = (IF same THEN id ELSE NotDeleted)
      /\ new.sameInsertedId = (info.sameInsertedId /\ same)
      /\ new.inserted = stamps
      /\ new.anyDeleted = info.anyDeleted /\ new.deleted = info.deleted
  BY ONLY <1>1, <1>2, <1>3, <1>4, info \in VectorInfos, id \in Nat, StampAssumption DEF VectorInfos
<1>8. MarksShown(new) BY <1>2, <1>7 DEF MarksShown, Info
<1>9. \A i \in Slot : StampsAt(new, i).del = StampsAt(info, i).del BY <1>2, <1>7, KindStamps
<1>10. info.sameInsertedId => \A i \in 0 .. from - 1 : info.inserted[i] = info.insertId
  BY <1>2 DEF SharedId
<1>11. \A i \in 0 .. to - 1 : i \in 0 .. from - 1 \/ i \in from .. to - 1 OBVIOUS
<1>12. SharedId(new, to)
  <2>1. SUFFICES ASSUME info.sameInsertedId, same, NEW i \in 0 .. to - 1 PROVE stamps[i] = id
    BY <1>7 DEF SharedId
  <2>2. CASE i \in from .. to - 1 BY <2>2, <1>6
  <2>3. CASE i \in 0 .. from - 1
    <3>1. from # 0 BY <2>3
    <3>2. info.insertId = id BY <2>1, <3>1 DEF same
    <3> QED BY <1>6, <1>10, <2>1, <2>3, <3>2
  <2> QED BY <1>11, <2>2, <2>3
<1>13. ASSUME NEW i \in 0 .. from - 1 PROVE StampsAt(new, i).ins = StampsAt(info, i).ins
  <2>1. from # 0 BY <1>13
  <2>2. StampsAt(info, i).ins = info.inserted[i] BY <1>2, <1>10, <1>13, KindStamps
  <2>3. stamps[i] = info.inserted[i] BY <1>6, <1>13
  <2>4. new.sameInsertedId => stamps[i] = id BY <1>7, <1>10, <1>13, <2>1, <2>3 DEF same
  <2> QED BY <1>7, <2>2, <2>3, <2>4, KindStamps
<1>14. ASSUME NEW i \in from .. to - 1 PROVE StampsAt(new, i).ins = id
  <2>1. StampsAt(new, i).ins = IF new.sameInsertedId THEN new.insertId ELSE new.inserted[i]
    BY <1>7, KindStamps
  <2>2. new.inserted[i] = id BY <1>6, <1>7, <1>14
  <2>3. new.sameInsertedId => new.insertId = id BY <1>7
  <2> QED BY <2>1, <2>2, <2>3
<1> QED BY <1>8, <1>9, <1>12, <1>13, <1>14 DEF new

\* append_version_info does so, too: the constant of a full vector shows the same stamps.
LEMMA AppendedInfo ==
    ASSUME NEW info, MarksShown(info),
           NEW from \in Nat, NEW to \in Nat, from <= to, to <= Capacity, NEW id \in Nat,
           SharedId(info, from),
           from = 0 => \A i \in Slot : StampsAt(info, i).del = NotDeleted
    PROVE  /\ MarksShown(AppendVersionInfo(info, from, to, id))
           /\ SharedId(AppendVersionInfo(info, from, to, id), to)
           /\ from = to => AppendVersionInfo(info, from, to, id) = info
           /\ \A i \in Slot : StampsAt(AppendVersionInfo(info, from, to, id), i).del = StampsAt(info, i).del
           /\ \A i \in 0 .. from - 1 :
                 StampsAt(AppendVersionInfo(info, from, to, id), i).ins = StampsAt(info, i).ins
           /\ \A i \in from .. to - 1 : StampsAt(AppendVersionInfo(info, from, to, id), i).ins = id
<1>0. Capacity \in Nat \ {0} BY LayoutAssumption
<1>1. CASE from = 0 /\ to = Capacity
  <2>1. AppendVersionInfo(info, from, to, id) = ConstantInfo(id, NotDeleted) BY <1>1 DEF AppendVersionInfo
  <2> DEFINE new == ConstantInfo(id, NotDeleted)
  <2>2. new \in ConstantInfos /\ new.kind = "constant" /\ new.insertId = id /\ new.deleteId = NotDeleted
    BY StampAssumption DEF ConstantInfo, ConstantInfos
  <2> HIDE DEF new
  <2>3. MarksShown(new) /\ SharedId(new, to) BY <2>2 DEF MarksShown, SharedId, Info
  <2>4. \A i : StampsAt(new, i).ins = id /\ StampsAt(new, i).del = NotDeleted BY <2>2, KindStamps
  <2>5. from # to BY <1>0, <1>1
  <2>6. \A i \in 0 .. from - 1 : FALSE BY <1>1
  <2> QED BY <1>1, <2>1, <2>3, <2>4, <2>5, <2>6 DEF new
<1>2. CASE ~(from = 0 /\ to = Capacity) /\ from = to
  <2>1. AppendVersionInfo(info, from, to, id) = info BY <1>2 DEF AppendVersionInfo
  <2>2. \A i \in from .. to - 1 : FALSE BY <1>2
  <2> QED BY <1>2, <2>1, <2>2
<1>3. CASE ~(from = 0 /\ to = Capacity) /\ from # to
  <2> DEFINE v == AsVector(info)
  <2>1. AppendVersionInfo(info, from, to, id) = VectorAppend(v, from, to, id) BY <1>3 DEF AppendVersionInfo
  <2>2. /\ v \in VectorInfos /\ MarksShown(v) /\ SharedId(v, from)
        /\ \A i \in Slot : StampsAt(v, i).ins = StampsAt(info, i).ins /\ StampsAt(v, i).del = StampsAt(info, i).del
    <3>1. from \in 0 .. Capacity BY <1>0
    <3> QED BY <3>1, AsVectorStamps
  <2> HIDE DEF v
  <2>3. /\ MarksShown(VectorAppend(v, from, to, id))
        /\ SharedId(VectorAppend(v, from, to, id), to)
        /\ \A i \in Slot : StampsAt(VectorAppend(v, from, to, id), i).del = StampsAt(v, i).del
        /\ \A i \in 0 .. from - 1 : StampsAt(VectorAppend(v, from, to, id), i).ins = StampsAt(v, i).ins
        /\ \A i \in from .. to - 1 : StampsAt(VectorAppend(v, from, to, id), i).ins = id
    BY <2>2, AppendedVector
  <2>4. \A i \in 0 .. from - 1 : i \in Slot BY <1>0 DEF Slot
  <2> QED BY <1>3, <2>1, <2>2, <2>3, <2>4
<1> QED BY <1>1, <1>2, <1>3

\* The slots are those of the first count that the transaction own has appended.
OwnSlots(info, count, slots, own) ==
    /\ MarksShown(info) /\ count \in 0 .. Capacity /\ SharedId(info, count)
    /\ slots \in SUBSET (0 .. count - 1) /\ slots # {}
    /\ \A i \in 0 .. count - 1 : StampsAt(info, i).ins = own <=> i \in slots

\* commit_append stamps the rows of the transaction, which are all that the shortcut
\* id stands for.
LEMMA CommittedInfo ==
    ASSUME NEW info, NEW count, NEW slots, NEW own, own # 0, OwnSlots(info, count, slots, own), NEW id \in Nat
    PROVE  /\ MarksShown(InfoCommitAppend(info, slots, id))
           /\ SharedId(InfoCommitAppend(info, slots, id), count)
           /\ \A i \in Slot : StampsAt(InfoCommitAppend(info, slots, id), i).del = StampsAt(info, i).del
           /\ \A i \in 0 .. count - 1 :
                 StampsAt(InfoCommitAppend(info, slots, id), i).ins
                   = IF i \in slots THEN id ELSE StampsAt(info, i).ins
<1> DEFINE new == InfoCommitAppend(info, slots, id)
<1>f. /\ MarksShown(info) /\ count \in 0 .. Capacity /\ SharedId(info, count)
      /\ slots \in SUBSET (0 .. count - 1) /\ slots # {}
      /\ \A i \in 0 .. count - 1 : StampsAt(info, i).ins = own <=> i \in slots
  BY DEF OwnSlots
<1> USE <1>f
<1>0. info \in Info BY DEF MarksShown
<1>1. PICK s \in slots : s \in 0 .. count - 1 /\ StampsAt(info, s).ins = own OBVIOUS
<1>2. \A i \in 0 .. count - 1 : i \in Slot BY LayoutAssumption DEF Slot
<1>3. CASE info = NoInfo /\ info.kind = "none" BY <1>1, <1>3, KindStamps
<1>4. CASE info \in ConstantInfos /\ info.kind = "constant"
  <2>1. new = [info EXCEPT !.insertId = id] BY <1>4 DEF InfoCommitAppend
  <2> HIDE DEF new
  <2>2. new \in ConstantInfos /\ new.kind = "constant" /\ new.insertId = id /\ new.deleteId = info.deleteId
    BY <1>4, <2>1 DEF ConstantInfos
  <2>3. info.deleteId = NotDeleted BY <1>4 DEF MarksShown
  <2>4. MarksShown(new) /\ SharedId(new, count) BY <2>2, <2>3 DEF MarksShown, SharedId, Info
  <2>5. info.insertId = own BY <1>1, <1>4, KindStamps
  <2>6. \A i \in 0 .. count - 1 : i \in slots BY <1>4, <2>5, KindStamps
  <2> QED BY <1>4, <2>2, <2>4, <2>6, KindStamps DEF new
<1>5. CASE info \in VectorInfos /\ info.kind = "vector"
  <2> DEFINE stamps == [i \in Slot |-> IF i \in slots THEN id ELSE info.inserted[i]]
  <2>1. new = [info EXCEPT !.insertId = IF info.sameInsertedId THEN id ELSE info.insertId, !.inserted = stamps]
    BY <1>5 DEF InfoCommitAppend
  <2>2. stamps \in [Slot -> Nat] /\ \A i \in Slot : stamps[i] = IF i \in slots THEN id ELSE info.inserted[i]
    BY <1>5 DEF VectorInfos
  <2> HIDE DEF new, stamps
  <2>3. /\ new \in VectorInfos /\ new.kind = "vector"
        /\ new.insertId = (IF info.sameInsertedId THEN id ELSE info.insertId)
        /\ new.sameInsertedId = info.sameInsertedId
        /\ new.inserted = stamps /\ new.anyDeleted = info.anyDeleted /\ new.deleted = info.deleted
    BY ONLY <1>5, <2>1, <2>2, id \in Nat DEF VectorInfos
  <2>4. MarksShown(new) BY <1>5, <2>3 DEF MarksShown, Info
  <2>5. info.sameInsertedId => \A i \in 0 .. count - 1 : i \in slots
    <3>1. ASSUME info.sameInsertedId PROVE info.insertId = own BY <1>1, <1>5, <3>1, KindStamps
    <3> QED BY <1>5, <3>1, KindStamps
  <2>6. SharedId(new, count) BY <1>2, <2>2, <2>3, <2>5 DEF SharedId
  <2>7. \A i \in Slot : StampsAt(new, i).del = StampsAt(info, i).del BY <1>5, <2>3, KindStamps
  <2>8. ASSUME NEW i \in 0 .. count - 1
        PROVE  StampsAt(new, i).ins = IF i \in slots THEN id ELSE StampsAt(info, i).ins
    BY <1>2, <1>5, <2>2, <2>3, <2>5, KindStamps
  <2> QED BY <2>4, <2>6, <2>7, <2>8 DEF new
<1> QED BY <1>0, <1>3, <1>4, <1>5, InfoKinds

\* delete_rows marks the free slots among those it is given.
LEMMA DeletedInfo ==
    ASSUME NEW info, MarksShown(info), NEW slots \in SUBSET Slot, NEW id \in Nat
    PROVE  /\ MarksShown(VectorDelete(AsVector(info), slots, id))
           /\ \A n \in 0 .. Capacity : SharedId(info, n) => SharedId(VectorDelete(AsVector(info), slots, id), n)
           /\ \A i \in Slot :
                 /\ StampsAt(VectorDelete(AsVector(info), slots, id), i).ins = StampsAt(info, i).ins
                 /\ StampsAt(VectorDelete(AsVector(info), slots, id), i).del
                      = IF i \in slots /\ StampsAt(info, i).del = NotDeleted THEN id ELSE StampsAt(info, i).del
<1> DEFINE v == AsVector(info)
           marks == [i \in Slot |-> IF i \in slots /\ v.deleted[i] = NotDeleted THEN id ELSE v.deleted[i]]
           new == VectorDelete(v, slots, id)
<1>1. /\ v \in VectorInfos /\ MarksShown(v)
      /\ \A i \in Slot : StampsAt(v, i).ins = StampsAt(info, i).ins /\ StampsAt(v, i).del = StampsAt(info, i).del
      /\ \A n \in 0 .. Capacity : SharedId(info, n) => SharedId(v, n)
  BY AsVectorStamps
<1> HIDE DEF v
<1>2. new = [v EXCEPT !.anyDeleted = TRUE, !.deleted = marks] BY DEF VectorDelete
<1>3. v.kind = "vector" /\ v.deleted \in [Slot -> Nat] BY <1>1 DEF VectorInfos
<1>4. marks \in [Slot -> Nat]
      /\ \A i \in Slot : marks[i] = IF i \in slots /\ v.deleted[i] = NotDeleted THEN id ELSE v.deleted[i]
  BY <1>3
<1> HIDE DEF new, marks
<1>5. /\ new \in VectorInfos /\ new.kind = "vector" /\ new.anyDeleted /\ new.deleted = marks
      /\ new.insertId = v.insertId /\ new.sameInsertedId = v.sameInsertedId /\ new.inserted = v.inserted
  BY ONLY <1>1, <1>2, <1>4 DEF VectorInfos
<1>6. MarksShown(new) BY <1>5 DEF MarksShown, Info
<1>7. \A n \in 0 .. Capacity : SharedId(info, n) => SharedId(new, n) BY <1>1, <1>3, <1>5 DEF SharedId
<1>8. ASSUME NEW i \in Slot
      PROVE  /\ StampsAt(new, i).ins = StampsAt(info, i).ins
             /\ StampsAt(new, i).del
                  = IF i \in slots /\ StampsAt(info, i).del = NotDeleted THEN id ELSE StampsAt(info, i).del
  <2>1. StampsAt(v, i).del = v.deleted[i] BY <1>1, <1>3, ShownMarks
  <2>2. StampsAt(new, i).ins = StampsAt(v, i).ins /\ StampsAt(new, i).del = marks[i]
    BY <1>3, <1>5, KindStamps
  <2> QED BY <1>1, <1>4, <2>1, <2>2
<1> QED BY <1>6, <1>7, <1>8 DEF new, v

\* commit_all_deletes and revert_all_deletes find every mark of a transaction.
LEMMA RestampedInfo ==
    ASSUME NEW info, MarksShown(info), NEW from \in Nat, from # NotDeleted, NEW to \in Nat
    PROVE  /\ MarksShown(InfoRestamp(info, from, to))
           /\ \A n \in 0 .. Capacity : SharedId(info, n) => SharedId(InfoRestamp(info, from, to), n)
           /\ \A i \in Slot :
                 /\ StampsAt(InfoRestamp(info, from, to), i).ins = StampsAt(info, i).ins
                 /\ StampsAt(InfoRestamp(info, from, to), i).del
                      = IF StampsAt(info, i).del = from THEN to ELSE StampsAt(info, i).del
<1> DEFINE new == InfoRestamp(info, from, to)
<1>0. info \in Info BY DEF MarksShown
<1>1. CASE info.kind = "vector" /\ info.anyDeleted
  <2> DEFINE marks == [i \in Slot |-> IF info.deleted[i] = from THEN to ELSE info.deleted[i]]
  <2>1. info \in VectorInfos BY <1>0, <1>1, InfoKinds
  <2>2. new = [info EXCEPT !.deleted = marks] BY <1>1 DEF InfoRestamp
  <2>3. marks \in [Slot -> Nat] /\ \A i \in Slot : marks[i] = IF info.deleted[i] = from THEN to ELSE info.deleted[i]
    BY <2>1 DEF VectorInfos
  <2> HIDE DEF new, marks
  <2>4. /\ new \in VectorInfos /\ new.kind = "vector" /\ new.anyDeleted = info.anyDeleted /\ new.deleted = marks
        /\ new.insertId = info.insertId /\ new.sameInsertedId = info.sameInsertedId /\ new.inserted = info.inserted
    BY ONLY <1>1, <2>1, <2>2, <2>3 DEF VectorInfos
  <2>5. MarksShown(new) BY <1>1, <2>4 DEF MarksShown, Info
  <2>6. \A n \in 0 .. Capacity : SharedId(info, n) => SharedId(new, n) BY <1>1, <2>4 DEF SharedId
  <2>7. \A i \in Slot : /\ StampsAt(new, i).ins = StampsAt(info, i).ins
                        /\ StampsAt(new, i).del = IF StampsAt(info, i).del = from THEN to ELSE StampsAt(info, i).del
    <3>1. ASSUME NEW i \in Slot
          PROVE  StampsAt(new, i).ins = StampsAt(info, i).ins /\ StampsAt(new, i).del = marks[i]
                 /\ StampsAt(info, i).del = info.deleted[i]
      <4>1. /\ StampsAt(new, i).ins = IF new.sameInsertedId THEN new.insertId ELSE new.inserted[i]
            /\ StampsAt(new, i).del = IF new.anyDeleted THEN new.deleted[i] ELSE NotDeleted
        BY <2>4, KindStamps
      <4>2. /\ StampsAt(info, i).ins = IF info.sameInsertedId THEN info.insertId ELSE info.inserted[i]
            /\ StampsAt(info, i).del = IF info.anyDeleted THEN info.deleted[i] ELSE NotDeleted
        BY <1>1, KindStamps
      <4> QED BY ONLY <1>1, <2>4, <4>1, <4>2, Zenon
    <3> QED BY <2>3, <3>1
  <2> QED BY <2>5, <2>6, <2>7 DEF new
<1>2. CASE ~(info.kind = "vector" /\ info.anyDeleted)
  <2>1. InfoRestamp(info, from, to) = info BY <1>2 DEF InfoRestamp
  <2>2. \A i \in Slot : StampsAt(info, i).del = NotDeleted BY <1>0, <1>2, InfoKinds, KindStamps DEF MarksShown
  <2> QED BY <2>1, <2>2
<1> QED BY <1>1, <1>2

\* The gate reads the stamps a scan reads, for an info of at least one row.
LEMMA GateReadsStamps ==
    ASSUME NEW info \in Info, NEW count \in 0 .. Capacity, count = 0 => info = NoInfo, NEW w \in Nat
    PROVE  InfoVersionAbove(info, count, w) <=>
             \E i \in 0 .. count - 1 :
                 \/ StampsAt(info, i).ins > w
                 \/ StampsAt(info, i).del # NotDeleted /\ StampsAt(info, i).del > w
<1>1. CASE info = NoInfo /\ info.kind = "none"
  <2>1. ~InfoVersionAbove(info, count, w) BY <1>1 DEF InfoVersionAbove
  <2>2. \A i : StampsAt(info, i).ins = 0 /\ StampsAt(info, i).del = NotDeleted BY <1>1, KindStamps
  <2>3. ~(0 > w) OBVIOUS
  <2> QED BY <2>1, <2>2, <2>3
<1>2. CASE info.kind = "constant"
  <2>1. 0 \in 0 .. count - 1 BY <1>2, LayoutAssumption DEF NoInfo
  <2>2. InfoVersionAbove(info, count, w) <=> (info.insertId > w \/ (info.deleteId # NotDeleted /\ info.deleteId > w))
    BY <1>2 DEF InfoVersionAbove
  <2>3. \A i : StampsAt(info, i).ins = info.insertId /\ StampsAt(info, i).del = info.deleteId
    BY <1>2, KindStamps
  <2> QED BY <2>1, <2>2, <2>3
<1>3. CASE info \in VectorInfos /\ info.kind = "vector"
  <2>1. 0 \in 0 .. count - 1 BY <1>3, LayoutAssumption DEF NoInfo
  <2>2. InfoVersionAbove(info, count, w) <=>
            (\/ info.sameInsertedId /\ info.insertId > w
             \/ ~info.sameInsertedId /\ \E i \in 0 .. count - 1 : info.inserted[i] > w
             \/ info.anyDeleted /\ \E i \in 0 .. count - 1 : info.deleted[i] # NotDeleted /\ info.deleted[i] > w)
    BY <1>3 DEF InfoVersionAbove
  <2>3. \A i : /\ StampsAt(info, i).ins = IF info.sameInsertedId THEN info.insertId ELSE info.inserted[i]
               /\ StampsAt(info, i).del = IF info.anyDeleted THEN info.deleted[i] ELSE NotDeleted
    BY <1>3, KindStamps
  <2> QED BY <2>1, <2>2, <2>3
<1> QED BY <1>1, <1>2, <1>3, InfoKinds

\* So does committed_deleted_count.
LEMMA CountReadsStamps ==
    ASSUME NEW info \in Info, NEW count \in 0 .. Capacity
    PROVE  InfoDeleted(info, count) = {i \in 0 .. count - 1 : StampsAt(info, i).del < TxnIdStart}
<1>0. ~(NotDeleted < TxnIdStart) BY StampAssumption
<1>1. CASE info.kind = "none"
  <2>1. InfoDeleted(info, count) = {} BY <1>1 DEF InfoDeleted
  <2> QED BY <1>0, <1>1, <2>1, KindStamps
<1>2. CASE info.kind = "constant"
  <2>1. InfoDeleted(info, count) = IF info.deleteId < TxnIdStart THEN 0 .. count - 1 ELSE {}
    BY <1>2 DEF InfoDeleted
  <2> QED BY <1>2, <2>1, KindStamps
<1>3. CASE info.kind = "vector"
  <2>1. InfoDeleted(info, count)
          = IF info.anyDeleted THEN {i \in 0 .. count - 1 : info.deleted[i] < TxnIdStart} ELSE {}
    BY <1>3 DEF InfoDeleted
  <2> QED BY <1>0, <1>3, <2>1, KindStamps
<1> QED BY <1>1, <1>2, <1>3, InfoKinds

-----------------------------------------------------------------------------
(* The operations that visit every row group.                              *)

\* The fields of a collection and of its row groups.
LEMMA CollectionTypes ==
    ASSUME NEW I, NEW c \in CollectionOf(I)
    PROVE  /\ c.groups \in Seq(GroupOf(I)) /\ c.total \in Nat /\ Len(c.groups) \in Nat
           /\ DOMAIN c.groups = 1 .. Len(c.groups)
           /\ \A k \in 1 .. Len(c.groups) :
                 /\ c.groups[k] \in GroupOf(I)
                 /\ c.groups[k].start \in Nat /\ c.groups[k].count \in Nat
                 /\ c.groups[k].infos \in [Vector -> I] /\ c.groups[k].vals \in Seq(Nat)
<1>1. c.groups \in Seq(GroupOf(I)) /\ c.total \in Nat BY DEF CollectionOf
<1>2. /\ Len(c.groups) \in Nat /\ DOMAIN c.groups = 1 .. Len(c.groups)
      /\ \A k \in 1 .. Len(c.groups) : c.groups[k] \in GroupOf(I)
  BY <1>1, LenProperties, ElementOfSeq
<1>3. \A g \in GroupOf(I) : g.start \in Nat /\ g.count \in Nat /\ g.infos \in [Vector -> I] /\ g.vals \in Seq(Nat)
  BY DEF GroupOf
<1> QED BY <1>1, <1>2, <1>3

\* Changing version infos moves no row.
LEMMA SameLayout ==
    ASSUME NEW I, NEW c \in CollectionOf(I), Layout(c),
           NEW J, NEW F \in [1 .. Len(c.groups) -> GroupOf(J)],
           \A k \in 1 .. Len(c.groups) :
               F[k].start = c.groups[k].start /\ F[k].count = c.groups[k].count /\ F[k].vals = c.groups[k].vals,
           NEW d, d = [c EXCEPT !.groups = F]
    PROVE  /\ d \in CollectionOf(J) /\ Layout(d)
           /\ Len(d.groups) = Len(c.groups) /\ d.total = c.total /\ d.groups = F
<1>1. Len(c.groups) \in Nat /\ c.total \in Nat BY CollectionTypes
<1>2. F \in Seq(GroupOf(J)) BY <1>1, SeqDef
<1>3. Len(F) = Len(c.groups) BY <1>1, <1>2, LenProperties
<1>4. d \in CollectionOf(J) /\ d.groups = F /\ d.total = c.total BY <1>1, <1>2 DEF CollectionOf
<1>5. F = <<>> <=> c.groups = <<>>
  <2>1. c.groups \in Seq(GroupOf(I)) BY CollectionTypes
  <2> QED BY <1>2, <1>3, <2>1, EmptySeq
<1>6. RowsEnd(F) = RowsEnd(c.groups)
  <2>1. CASE c.groups = <<>> BY <2>1, <1>5 DEF RowsEnd
  <2>2. CASE c.groups # <<>>
    <3>1. c.groups \in Seq(GroupOf(I)) BY CollectionTypes
    <3>2. Len(c.groups) \in 1 .. Len(c.groups) BY <1>1, <2>2, <3>1, EmptySeq
    <3> QED BY <1>3, <1>5, <2>2, <3>2 DEF RowsEnd
  <2> QED BY <2>1, <2>2
<1>7. Layout(d)
  <2>1. ASSUME NEW k \in 1 .. Len(d.groups)
        PROVE  /\ d.groups[k].start = (k - 1) * Capacity
               /\ d.groups[k].count <= Capacity
               /\ k < Len(d.groups) => d.groups[k].count = Capacity
               /\ Len(d.groups[k].vals) = d.groups[k].count
    BY <1>3, <1>4 DEF Layout
  <2>2. d.total = RowsEnd(d.groups) /\ d.total <= MaxRows BY <1>4, <1>6 DEF Layout
  <2> QED BY <2>1, <2>2 DEF Layout
<1> QED BY <1>3, <1>4, <1>7

\* A row group keeps its rows when its infos change.
LEMMA OtherInfos ==
    ASSUME NEW I, NEW g \in GroupOf(I), NEW J, NEW infos \in [Vector -> J],
           NEW e, e = [g EXCEPT !.infos = infos]
    PROVE  /\ e \in GroupOf(J) /\ e.infos = infos
           /\ e.start = g.start /\ e.count = g.count /\ e.vals = g.vals
BY DEF GroupOf

\* 0 is a vector number and a slot.
LEMMA ZeroIsVector == 0 \in Vector /\ 0 \in Slot /\ Slot \subseteq Nat /\ Vector \subseteq Nat
<1>1. 0 * Capacity = 0 /\ 0 < MaxRows BY LayoutAssumption
<1>2. 0 \in Vector BY <1>1, VectorNumbers
<1> QED BY <1>2, LayoutAssumption DEF Slot, Vector

\* d has the row groups F, those of c with the infos N[k].
NewInfos(c, d, F, N, J) ==
    /\ \A k \in 1 .. Len(c.groups) :
          N[k] \in [Vector -> J] /\ F[k] = [c.groups[k] EXCEPT !.infos = N[k]]
    /\ \E S : F \in [1 .. Len(c.groups) -> S]
    /\ d = [c EXCEPT !.groups = F]

\* Every row group keeps its rows.
LEMMA InfosChanged ==
    ASSUME NEW I, NEW c \in CollectionOf(I), Layout(c),
           NEW d, NEW F, NEW N, NEW J, NewInfos(c, d, F, N, J)
    PROVE  /\ d \in CollectionOf(J) /\ Layout(d) /\ Len(d.groups) = Len(c.groups) /\ d.total = c.total
           /\ \A k \in 1 .. Len(c.groups) :
                 d.groups[k].count = c.groups[k].count /\ d.groups[k].vals = c.groups[k].vals
                 /\ d.groups[k].infos = N[k]
<1>1. ASSUME NEW k \in 1 .. Len(c.groups)
      PROVE  /\ F[k] \in GroupOf(J) /\ F[k].infos = N[k]
             /\ F[k].start = c.groups[k].start /\ F[k].count = c.groups[k].count /\ F[k].vals = c.groups[k].vals
  <2>1. c.groups[k] \in GroupOf(I) BY CollectionTypes
  <2>2. N[k] \in [Vector -> J] /\ F[k] = [c.groups[k] EXCEPT !.infos = N[k]] BY DEF NewInfos
  <2> QED BY ONLY <2>1, <2>2, OtherInfos
<1>2. F \in [1 .. Len(c.groups) -> GroupOf(J)]
  <2>1. PICK S : F \in [1 .. Len(c.groups) -> S] BY DEF NewInfos
  <2> QED BY ONLY <1>1, <2>1
<1>3. d = [c EXCEPT !.groups = F] BY DEF NewInfos
<1>4. /\ d \in CollectionOf(J) /\ Layout(d)
      /\ Len(d.groups) = Len(c.groups) /\ d.total = c.total /\ d.groups = F
  BY <1>1, <1>2, <1>3, SameLayout
<1> QED BY <1>1, <1>4

\* The slots of vector v that delete_rows finds in a row group.
SlotsDeleted(g, ids, v) ==
    {i % Capacity : i \in {j \in ids \cap (g.start .. g.start + g.count - 1) : j \div Capacity = v}}

\* d is c with the marks of a delete.
InfosDeleted(c, d, ids, id) ==
    /\ \E J : d \in CollectionOf(J)
    /\ Layout(d) /\ Len(d.groups) = Len(c.groups) /\ d.total = c.total
    /\ \A k \in 1 .. Len(c.groups) :
          /\ d.groups[k].count = c.groups[k].count /\ d.groups[k].vals = c.groups[k].vals
          /\ \A v \in Vector :
                d.groups[k].infos[v] =
                    IF SlotsDeleted(c.groups[k], ids, v) = {} THEN c.groups[k].infos[v]
                    ELSE VectorDelete(AsVector(c.groups[k].infos[v]), SlotsDeleted(c.groups[k], ids, v), id)

\* delete_rows, row group by row group.
LEMMA DeletedLayout ==
    ASSUME NEW I, NEW c \in CollectionOf(I), Layout(c), NEW ids, NEW id,
           NEW d, d = CollectionDelete(c, ids, id)
    PROVE  InfosDeleted(c, d, ids, id)
<1> USE DEF InfosDeleted
<1> DEFINE New(g, v) == IF SlotsDeleted(g, ids, v) = {} THEN g.infos[v]
                        ELSE VectorDelete(AsVector(g.infos[v]), SlotsDeleted(g, ids, v), id)
           n == Len(c.groups)
           N == [k \in 1 .. n |-> [v \in Vector |-> New(c.groups[k], v)]]
           F == [k \in 1 .. n |-> GroupDelete(c.groups[k], ids, id)]
           S == {GroupDelete(c.groups[k], ids, id) : k \in 1 .. n}
           J == {New(c.groups[k], v) : k \in 1 .. n, v \in Vector}
<1>1. ASSUME NEW g PROVE GroupDelete(g, ids, id) = [g EXCEPT !.infos = [v \in Vector |-> New(g, v)]]
  BY DEF GroupDelete, SlotsDeleted
<1> HIDE DEF New
<1>2. DOMAIN c.groups = 1 .. n BY CollectionTypes
<1>3. d = [c EXCEPT !.groups = F] BY <1>2 DEF CollectionDelete
<1>4. F \in [1 .. n -> S] /\ \A k \in 1 .. n : F[k] = [c.groups[k] EXCEPT !.infos = N[k]] BY <1>1
<1>5. \A k \in 1 .. n : N[k] \in [Vector -> J] /\ \A v \in Vector : N[k][v] = New(c.groups[k], v)
  <2>1. ASSUME NEW k \in 1 .. n, NEW v \in Vector PROVE New(c.groups[k], v) \in J OBVIOUS
  <2> HIDE DEF J
  <2> QED BY <2>1
<1>6. NewInfos(c, d, F, N, J)
  <2> HIDE DEF F, J, N, S
  <2> QED BY ONLY <1>3, <1>4, <1>5 DEF NewInfos
<1> HIDE DEF F, J, N, S
<1>7. /\ d \in CollectionOf(J) /\ Layout(d) /\ Len(d.groups) = Len(c.groups) /\ d.total = c.total
      /\ \A k \in 1 .. Len(c.groups) :
            d.groups[k].count = c.groups[k].count /\ d.groups[k].vals = c.groups[k].vals
            /\ d.groups[k].infos = N[k]
  BY <1>6, InfosChanged
<1>8. \A k \in 1 .. n : \A v \in Vector : d.groups[k].infos[v] = New(c.groups[k], v) BY <1>5, <1>7
<1> QED BY <1>7, <1>8 DEF New

\* d is c with the marks of one transaction restamped.
InfosRestamped(c, d, from, to) ==
    /\ \E J : d \in CollectionOf(J)
    /\ Layout(d) /\ Len(d.groups) = Len(c.groups) /\ d.total = c.total
    /\ \A k \in 1 .. Len(c.groups) :
          /\ d.groups[k].count = c.groups[k].count /\ d.groups[k].vals = c.groups[k].vals
          /\ \A v \in Vector : d.groups[k].infos[v] = InfoRestamp(c.groups[k].infos[v], from, to)

\* commit_all_deletes and revert_all_deletes, row group by row group.
LEMMA RestampedLayout ==
    ASSUME NEW I, NEW c \in CollectionOf(I), Layout(c), NEW from, NEW to,
           NEW d, d = CollectionRestamp(c, from, to)
    PROVE  InfosRestamped(c, d, from, to)
<1> USE DEF InfosRestamped
<1> DEFINE n == Len(c.groups)
           N == [k \in 1 .. n |-> [v \in Vector |-> InfoRestamp(c.groups[k].infos[v], from, to)]]
           F == [k \in 1 .. n |-> GroupRestamp(c.groups[k], from, to)]
           S == {GroupRestamp(c.groups[k], from, to) : k \in 1 .. n}
           J == {InfoRestamp(c.groups[k].infos[v], from, to) : k \in 1 .. n, v \in Vector}
<1>1. DOMAIN c.groups = 1 .. n BY CollectionTypes
<1>2. d = [c EXCEPT !.groups = F] BY <1>1 DEF CollectionRestamp
<1>3. F \in [1 .. n -> S] /\ \A k \in 1 .. n : F[k] = [c.groups[k] EXCEPT !.infos = N[k]]
  BY DEF GroupRestamp
<1>4. \A k \in 1 .. n :
          N[k] \in [Vector -> J] /\ \A v \in Vector : N[k][v] = InfoRestamp(c.groups[k].infos[v], from, to)
  <2>1. ASSUME NEW k \in 1 .. n, NEW v \in Vector PROVE InfoRestamp(c.groups[k].infos[v], from, to) \in J OBVIOUS
  <2> HIDE DEF J
  <2> QED BY <2>1
<1>5. NewInfos(c, d, F, N, J)
  <2> HIDE DEF F, J, N, S
  <2> QED BY ONLY <1>2, <1>3, <1>4 DEF NewInfos
<1> HIDE DEF F, J, N, S
<1>6. /\ d \in CollectionOf(J) /\ Layout(d) /\ Len(d.groups) = Len(c.groups) /\ d.total = c.total
      /\ \A k \in 1 .. Len(c.groups) :
            d.groups[k].count = c.groups[k].count /\ d.groups[k].vals = c.groups[k].vals
            /\ d.groups[k].infos = N[k]
  BY <1>5, InfosChanged
<1>7. \A k \in 1 .. n : \A v \in Vector : d.groups[k].infos[v] = InfoRestamp(c.groups[k].infos[v], from, to)
  BY <1>4, <1>6
<1> QED BY <1>6, <1>7

\* d has the row groups F, those of c with X[k] for the first info where P says so.
NewFirstInfos(c, d, F, P, X) ==
    /\ \A k \in 1 .. Len(c.groups) :
          F[k] = IF k \in P THEN [c.groups[k] EXCEPT !.infos[0] = X[k]] ELSE c.groups[k]
    /\ \E S : F \in [1 .. Len(c.groups) -> S]
    /\ d = [c EXCEPT !.groups = F]

\* Every row group keeps its rows and its other infos.
LEMMA FirstInfosChanged ==
    ASSUME NEW I, NEW c \in CollectionOf(I), Layout(c),
           NEW d, NEW F, NEW P, NEW X, NewFirstInfos(c, d, F, P, X)
    PROVE  /\ \E J : d \in CollectionOf(J)
           /\ Layout(d) /\ Len(d.groups) = Len(c.groups) /\ d.total = c.total
           /\ \A k \in 1 .. Len(c.groups) :
                 /\ d.groups[k].count = c.groups[k].count /\ d.groups[k].vals = c.groups[k].vals
                 /\ \A v \in Vector \ {0} : d.groups[k].infos[v] = c.groups[k].infos[v]
                 /\ d.groups[k].infos[0] = IF k \in P THEN X[k] ELSE c.groups[k].infos[0]
<1> DEFINE n == Len(c.groups)
           J == I \cup {X[k] : k \in 1 .. n}
           N == [k \in 1 .. n |-> IF k \in P THEN [c.groups[k].infos EXCEPT ![0] = X[k]] ELSE c.groups[k].infos]
<1>0. 0 \in Vector BY ZeroIsVector
<1>1. ASSUME NEW k \in 1 .. n
      PROVE  /\ N[k] \in [Vector -> J]
             /\ F[k] = [c.groups[k] EXCEPT !.infos = N[k]]
             /\ \A v \in Vector \ {0} : N[k][v] = c.groups[k].infos[v]
             /\ N[k][0] = IF k \in P THEN X[k] ELSE c.groups[k].infos[0]
  <2>1. c.groups[k] \in GroupOf(I) /\ c.groups[k].infos \in [Vector -> I] BY CollectionTypes
  <2>2. CASE k \in P
    <3>1. N[k] = [c.groups[k].infos EXCEPT ![0] = X[k]] BY <2>2
    <3>2. F[k] = [c.groups[k] EXCEPT !.infos = N[k]] BY <2>2, <3>1 DEF NewFirstInfos
    <3>3. X[k] \in J OBVIOUS
    <3> HIDE DEF N, J
    <3>4. N[k] \in [Vector -> J]
      <4>1. \A x \in I : x \in J BY DEF J
      <4> QED BY <1>0, <2>1, <3>1, <3>3, <4>1
    <3>5. N[k][0] = X[k] /\ \A v \in Vector \ {0} : N[k][v] = c.groups[k].infos[v]
      BY ONLY <1>0, <2>1, <3>1
    <3> QED BY ONLY <2>2, <3>2, <3>4, <3>5
  <2>3. CASE k \notin P
    <3>1. N[k] = c.groups[k].infos /\ F[k] = c.groups[k] BY <2>3 DEF NewFirstInfos
    <3>2. c.groups[k] = [c.groups[k] EXCEPT !.infos = c.groups[k].infos] BY <2>1 DEF GroupOf
    <3> HIDE DEF N
    <3>3. N[k] \in [Vector -> J] BY <2>1, <3>1
    <3> QED BY <1>0, <2>1, <2>3, <3>1, <3>2, <3>3
  <2> QED BY <2>2, <2>3
<1> HIDE DEF J, N
<1>2. NewInfos(c, d, F, N, J) BY <1>1 DEF NewInfos, NewFirstInfos
<1>3. /\ d \in CollectionOf(J) /\ Layout(d) /\ Len(d.groups) = Len(c.groups) /\ d.total = c.total
      /\ \A k \in 1 .. Len(c.groups) :
            d.groups[k].count = c.groups[k].count /\ d.groups[k].vals = c.groups[k].vals
            /\ d.groups[k].infos = N[k]
  BY <1>2, InfosChanged
<1>4. \E K : d \in CollectionOf(K) BY <1>3
<1>5. ASSUME NEW k \in 1 .. n
      PROVE  /\ \A v \in Vector \ {0} : d.groups[k].infos[v] = c.groups[k].infos[v]
             /\ d.groups[k].infos[0] = IF k \in P THEN X[k] ELSE c.groups[k].infos[0]
  <2>1. /\ \A v \in Vector \ {0} : N[k][v] = c.groups[k].infos[v]
        /\ N[k][0] = IF k \in P THEN X[k] ELSE c.groups[k].infos[0]
    BY <1>1
  <2>2. d.groups[k].infos = N[k] BY <1>3
  <2> QED BY ONLY <2>1, <2>2
<1> QED BY <1>3, <1>4, <1>5

\* The slots of a row group that a commit of the ranges rs stamps.
SlotsCommitted(g, rs) == {i \in 0 .. g.count - 1 : g.start + i \in RangeRows(rs)}

\* d is c with the ranges of one transaction committed.
InfosCommitted(c, d, rs, id) ==
    /\ \E J : d \in CollectionOf(J)
    /\ Layout(d) /\ Len(d.groups) = Len(c.groups) /\ d.total = c.total
    /\ \A k \in 1 .. Len(c.groups) :
          /\ d.groups[k].count = c.groups[k].count /\ d.groups[k].vals = c.groups[k].vals
          /\ \A v \in Vector \ {0} : d.groups[k].infos[v] = c.groups[k].infos[v]
          /\ d.groups[k].infos[0] =
                IF SlotsCommitted(c.groups[k], rs) # {}
                THEN InfoCommitAppend(c.groups[k].infos[0], SlotsCommitted(c.groups[k], rs), id)
                ELSE c.groups[k].infos[0]

\* commit_append of all ranges, row group by row group.
LEMMA CommittedLayout ==
    ASSUME NEW I, NEW c \in CollectionOf(I), Layout(c), NEW rs, NEW id,
           NEW d, d = CollectionCommitAppend(c, rs, id)
    PROVE  InfosCommitted(c, d, rs, id)
<1> USE DEF InfosCommitted
<1> DEFINE n == Len(c.groups)
           P == {k \in 1 .. n : SlotsCommitted(c.groups[k], rs) # {}}
           X == [k \in 1 .. n |-> InfoCommitAppend(c.groups[k].infos[0], SlotsCommitted(c.groups[k], rs), id)]
           F == [k \in 1 .. n |-> GroupCommitAppend(c.groups[k], rs, id)]
           S == {GroupCommitAppend(c.groups[k], rs, id) : k \in 1 .. n}
<1>1. DOMAIN c.groups = 1 .. n BY CollectionTypes
<1>2. d = [c EXCEPT !.groups = F] BY <1>1 DEF CollectionCommitAppend
<1>3. \A k \in 1 .. n : F[k] = IF k \in P THEN [c.groups[k] EXCEPT !.infos[0] = X[k]] ELSE c.groups[k]
  BY DEF GroupCommitAppend, SlotsCommitted
<1>4. F \in [1 .. n -> S] OBVIOUS
<1>5. \A k \in 1 .. n : /\ k \in P <=> SlotsCommitted(c.groups[k], rs) # {}
                        /\ X[k] = InfoCommitAppend(c.groups[k].infos[0], SlotsCommitted(c.groups[k], rs), id)
  OBVIOUS
<1>6. NewFirstInfos(c, d, F, P, X)
  <2> HIDE DEF F, P, X, S
  <2> QED BY ONLY <1>2, <1>3, <1>4 DEF NewFirstInfos
<1> HIDE DEF P, X, F, S
<1>7. /\ \E J : d \in CollectionOf(J)
      /\ Layout(d) /\ Len(d.groups) = Len(c.groups) /\ d.total = c.total
      /\ \A k \in 1 .. Len(c.groups) :
            /\ d.groups[k].count = c.groups[k].count /\ d.groups[k].vals = c.groups[k].vals
            /\ \A v \in Vector \ {0} : d.groups[k].infos[v] = c.groups[k].infos[v]
            /\ d.groups[k].infos[0] = IF k \in P THEN X[k] ELSE c.groups[k].infos[0]
  BY <1>6, FirstInfosChanged
<1> QED BY <1>5, <1>7

\* d is c with the infos cleaned up.
InfosCleaned(c, d, lowest) ==
    /\ \E J : d \in CollectionOf(J)
    /\ Layout(d) /\ Len(d.groups) = Len(c.groups) /\ d.total = c.total
    /\ \A k \in 1 .. Len(c.groups) :
          /\ d.groups[k].count = c.groups[k].count /\ d.groups[k].vals = c.groups[k].vals
          /\ d.groups[k].infos[0] =
                IF c.groups[k].count = Capacity THEN InfoCleanup(c.groups[k].infos[0], lowest)
                ELSE c.groups[k].infos[0]

\* cleanup_append, row group by row group.
LEMMA CleanedLayout ==
    ASSUME NEW I, NEW c \in CollectionOf(I), Layout(c), NEW lowest,
           NEW d, d = CollectionCleanup(c, lowest)
    PROVE  InfosCleaned(c, d, lowest)
<1> USE DEF InfosCleaned
<1> DEFINE n == Len(c.groups)
           P == {k \in 1 .. n : c.groups[k].count = Capacity}
           X == [k \in 1 .. n |-> InfoCleanup(c.groups[k].infos[0], lowest)]
           F == [k \in 1 .. n |-> GroupCleanup(c.groups[k], lowest)]
           S == {GroupCleanup(c.groups[k], lowest) : k \in 1 .. n}
<1>1. DOMAIN c.groups = 1 .. n BY CollectionTypes
<1>2. d = [c EXCEPT !.groups = F] BY <1>1 DEF CollectionCleanup
<1>3. \A k \in 1 .. n : F[k] = IF k \in P THEN [c.groups[k] EXCEPT !.infos[0] = X[k]] ELSE c.groups[k]
  BY DEF GroupCleanup
<1>4. F \in [1 .. n -> S] OBVIOUS
<1>5. \A k \in 1 .. n : /\ k \in P <=> c.groups[k].count = Capacity
                        /\ X[k] = InfoCleanup(c.groups[k].infos[0], lowest)
  OBVIOUS
<1>6. NewFirstInfos(c, d, F, P, X)
  <2> HIDE DEF F, P, X, S
  <2> QED BY ONLY <1>2, <1>3, <1>4 DEF NewFirstInfos
<1> HIDE DEF P, X, F, S
<1>7. /\ \E J : d \in CollectionOf(J)
      /\ Layout(d) /\ Len(d.groups) = Len(c.groups) /\ d.total = c.total
      /\ \A k \in 1 .. Len(c.groups) :
            /\ d.groups[k].count = c.groups[k].count /\ d.groups[k].vals = c.groups[k].vals
            /\ \A v \in Vector \ {0} : d.groups[k].infos[v] = c.groups[k].infos[v]
            /\ d.groups[k].infos[0] = IF k \in P THEN X[k] ELSE c.groups[k].infos[0]
  BY <1>6, FirstInfosChanged
<1> QED BY <1>5, <1>7

-----------------------------------------------------------------------------
(* append.                                                                 *)

\* How many row groups r rows need.
LEMMA GroupsNeeded ==
    ASSUME NEW r \in Nat, NEW o, o = (r + Capacity - 1) \div Capacity
    PROVE  /\ o \in Nat /\ o * Capacity \in Int
           /\ r <= o * Capacity /\ o * Capacity < r + Capacity
           /\ r = 0 <=> o = 0
<1>1. Capacity \in Nat \ {0} /\ r + Capacity - 1 \in Nat BY LayoutAssumption
<1>2. PICK s \in Nat : s = r + Capacity - 1 BY <1>1
<1>3. /\ o \in Nat /\ s % Capacity \in Slot
      /\ s = o * Capacity + (s % Capacity)
  BY <1>2, VectorAndSlot
<1>4. PICK m \in Nat : m = s % Capacity /\ m < Capacity BY <1>1, <1>3 DEF Slot
<1>5. PICK p \in Int : p = o * Capacity BY <1>3, Multiples
<1>6. s = p + m BY <1>3, <1>4, <1>5
<1>7. r <= p /\ p < r + Capacity BY ONLY <1>1, <1>2, <1>4, <1>6, r \in Nat
<1>8. o = 0 => p = 0 BY <1>1, <1>5
<1>9. o # 0 => Capacity <= p
  <2>1. 0 < o => 0 * Capacity + Capacity <= o * Capacity BY <1>3, Multiples
  <2>2. 0 * Capacity = 0 BY <1>1
  <2> QED BY <1>1, <1>3, <1>5, <2>1, <2>2
<1>10. r = 0 <=> o = 0 BY ONLY <1>1, <1>7, <1>8, <1>9, r \in Nat
<1> QED BY <1>3, <1>5, <1>7, <1>10

\* The rows that go to the j-th row group an append opens.
Chunk(vals, first, j) ==
    SubSeq(vals, first + (j - 1) * Capacity + 1, Min({Len(vals), first + j * Capacity}))

\* All of the new row groups but the last are filled.
LEMMA ChunkSizes ==
    ASSUME NEW vals \in Seq(Nat), NEW first \in 0 .. Len(vals),
           NEW o, o = (Len(vals) - first + Capacity - 1) \div Capacity, NEW j \in 1 .. o
    PROVE  /\ Chunk(vals, first, j) \in Seq(Nat)
           /\ Len(Chunk(vals, first, j)) \in 1 .. Capacity
           /\ j < o => Len(Chunk(vals, first, j)) = Capacity
           /\ j = o => Len(Chunk(vals, first, j)) = Len(vals) - first - (o * Capacity - Capacity)
<1>1. Capacity \in Nat \ {0} /\ Len(vals) \in Nat BY LayoutAssumption, LenProperties
<1>2. PICK r \in Nat : r = Len(vals) - first
  <2>1. Len(vals) - first \in Nat BY ONLY <1>1, first \in 0 .. Len(vals)
  <2> QED BY ONLY <2>1
<1>3. o = (r + Capacity - 1) \div Capacity BY ONLY <1>2, o = (Len(vals) - first + Capacity - 1) \div Capacity
<1>4. o \in Nat /\ o * Capacity \in Int /\ r <= o * Capacity /\ o * Capacity < r + Capacity
  BY <1>3, GroupsNeeded
<1>5. PICK p \in Int, q \in Int : p = o * Capacity /\ q = j * Capacity
  <2>1. j \in Int /\ j * Capacity \in Int BY <1>4, Multiples
  <2> QED BY <1>4, <2>1
<1>6. (j - 1) * Capacity = q - Capacity
  <2>1. j \in Int BY <1>4
  <2>2. (j - 1) * Capacity = j * Capacity - Capacity BY <2>1, Multiples
  <2> QED BY ONLY <1>5, <2>2
<1>7. p \in Int /\ q \in Int /\ r <= p /\ p < r + Capacity /\ j \in Int /\ o \in Int /\ 1 <= j /\ j <= o
  BY <1>4, <1>5
<1>8. (j < o => q + Capacity <= p) /\ (j = o => q = p) /\ Capacity <= q
  <2>1. j < o => j * Capacity + Capacity <= o * Capacity BY <1>7, Multiples
  <2>2. 0 < j => 0 * Capacity + Capacity <= j * Capacity BY <1>7, Multiples
  <2>3. 0 * Capacity = 0 BY <1>1
  <2>4. j < o => q + Capacity <= p BY ONLY <1>5, <2>1
  <2>5. 0 < j BY ONLY <1>7
  <2>6. Capacity <= q BY ONLY <1>1, <1>5, <2>2, <2>3, <2>5
  <2> QED BY ONLY <1>5, <2>4, <2>6
<1> DEFINE from == first + (q - Capacity) + 1
           to == IF Len(vals) <= first + q THEN Len(vals) ELSE first + q
<1>9. Chunk(vals, first, j) = SubSeq(vals, from, to)
  <2>1. Len(vals) \in Int /\ first + q \in Int BY <1>1, <1>7
  <2>2. Min({Len(vals), first + q}) = to BY <2>1, MinOfTwo
  <2> QED BY <1>5, <1>6, <2>2 DEF Chunk
<1>10. q - Capacity < r BY ONLY <1>1, <1>2, <1>7, <1>8
<1>11. from \in 1 .. Len(vals) + 1 /\ to \in from - 1 .. Len(vals) /\ from <= to
       /\ to - from + 1 = (IF r <= q THEN r - q + Capacity ELSE Capacity)
  BY ONLY <1>1, <1>2, <1>7, <1>8, <1>10, first \in 0 .. Len(vals)
<1> HIDE DEF from, to
<1>12. /\ SubSeq(vals, from, to) \in Seq(Nat)
       /\ Len(SubSeq(vals, from, to)) = to - from + 1
  <2>1. from \in 1 .. Len(vals) + 1 /\ to \in from - 1 .. Len(vals) BY <1>11
  <2>2. /\ SubSeq(vals, from, to) \in Seq(Nat)
        /\ Len(SubSeq(vals, from, to)) = IF from <= to THEN to - from + 1 ELSE 0
    BY <2>1, SubSeqProperties
  <2> QED BY ONLY <1>11, <2>2
<1>13. PICK l : l = Len(Chunk(vals, first, j)) /\ l = (IF r <= q THEN r - q + Capacity ELSE Capacity)
  BY <1>9, <1>11, <1>12
<1>14. l = (IF r <= q THEN r - q + Capacity ELSE Capacity) BY <1>13
<1>15. l \in 1 .. Capacity BY ONLY <1>1, <1>2, <1>7, <1>8, <1>10, <1>14
<1>16. j < o => l = Capacity BY ONLY <1>1, <1>2, <1>7, <1>8, <1>14
<1>17. j = o => l = r - (p - Capacity) BY ONLY <1>1, <1>2, <1>7, <1>8, <1>14
<1> QED BY ONLY <1>2, <1>5, <1>9, <1>12, <1>13, <1>15, <1>16, <1>17

\* e is the row group g with vals appended, its new info in J.
GroupExtended(e, g, vals, id, I, J) ==
    /\ g \in GroupOf(I) /\ vals \in Seq(Nat)
    /\ e = GroupAppend(g, vals, id)
    /\ I \subseteq J /\ AppendVersionInfo(g.infos[0], g.count, g.count + Len(vals), id) \in J

\* One row group of an append.
LEMMA AppendedGroup ==
    ASSUME NEW e, NEW g, NEW vals, NEW id, NEW I, NEW J, GroupExtended(e, g, vals, id, I, J)
    PROVE  /\ e \in GroupOf(J) /\ e.start = g.start /\ e.count = g.count + Len(vals) /\ e.vals = g.vals \o vals
           /\ e.infos[0] = AppendVersionInfo(g.infos[0], g.count, g.count + Len(vals), id)
           /\ \A v \in Vector \ {0} : e.infos[v] = g.infos[v]
<1> DEFINE x == AppendVersionInfo(g.infos[0], g.count, g.count + Len(vals), id)
           infos == [g.infos EXCEPT ![0] = x]
<1>0. g \in GroupOf(I) /\ vals \in Seq(Nat) /\ I \subseteq J BY DEF GroupExtended
<1>1. /\ g.infos \in [Vector -> I] /\ g.count \in Nat /\ g.vals \in Seq(Nat) /\ g.start \in Nat /\ Len(vals) \in Nat
      /\ 0 \in Vector
  BY <1>0, LenProperties, ZeroIsVector DEF GroupOf
<1>2. e = [g EXCEPT !.count = g.count + Len(vals), !.vals = g.vals \o vals, !.infos = infos]
  BY DEF GroupAppend, GroupExtended
<1>3. /\ infos \in [Vector -> J] /\ infos[0] = x
      /\ \A v \in Vector \ {0} : infos[v] = g.infos[v]
  <2> HIDE DEF x
  <2>1. x \in J BY DEF x, GroupExtended
  <2> QED BY <1>0, <1>1, <2>1
<1>4. g.vals \o vals \in Seq(Nat) /\ g.count + Len(vals) \in Nat BY <1>0, <1>1, ConcatProperties
<1> HIDE DEF infos, x
<1>5. /\ e \in GroupOf(J) /\ e.start = g.start /\ e.count = g.count + Len(vals) /\ e.vals = g.vals \o vals
      /\ e.infos = infos
  BY ONLY <1>0, <1>1, <1>2, <1>3, <1>4 DEF GroupOf
<1> QED BY ONLY <1>3, <1>5 DEF x

\* The row groups an append starts from; an empty collection gets one first.
Base(c) == IF c.groups = <<>> THEN <<RowGroup(0)>> ELSE c.groups

LastOf(groups) == groups[Len(groups)]

\* A new row group.
LEMMA NewGroup ==
    ASSUME NEW start \in Nat
    PROVE  /\ RowGroup(start) \in GroupOf({NoInfo}) /\ RowGroup(start).start = start
           /\ RowGroup(start).count = 0 /\ RowGroup(start).vals = <<>>
           /\ \A v \in Vector : RowGroup(start).infos[v] = NoInfo
<1>1. <<>> \in Seq(Nat) BY EmptySeq
<1> QED BY <1>1 DEF RowGroup, GroupOf

\* The row groups b of which last is the last end where c does.
BaseLaidOut(c, b, last, K) ==
    /\ b \in Seq(GroupOf(K)) /\ Len(b) \in Nat \ {0}
    /\ \A k \in 1 .. Len(b) :
          /\ b[k].start = (k - 1) * Capacity
          /\ b[k].count <= Capacity
          /\ k < Len(b) => b[k].count = Capacity
          /\ Len(b[k].vals) = b[k].count
    /\ last \in GroupOf(K) /\ last = b[Len(b)]
    /\ c.total = last.start + last.count
    /\ c.groups # <<>> => b = c.groups
    /\ c.groups = <<>> => Len(b) = 1 /\ b[1] = RowGroup(0)

\* What the append starts from is laid out as the collection is.
LEMMA BaseLayout ==
    ASSUME NEW I, NEW c \in CollectionOf(I), Layout(c), NEW b, b = Base(c), NEW last, last = LastOf(b)
    PROVE  BaseLaidOut(c, b, last, I \cup {NoInfo})
<1> DEFINE J == I \cup {NoInfo}
<1>1. /\ c.groups \in Seq(GroupOf(I)) /\ Len(c.groups) \in Nat
      /\ \A k \in 1 .. Len(c.groups) : c.groups[k] \in GroupOf(I)
  BY CollectionTypes
<1>2. \A g \in GroupOf(I) : g \in GroupOf(J) BY DEF GroupOf
<1>3. \A g \in GroupOf({NoInfo}) : g \in GroupOf(J) BY DEF GroupOf
<1> HIDE DEF J
<1>4. CASE c.groups = <<>>
  <2> DEFINE g == RowGroup(0)
  <2>1. b = <<g>> BY <1>4 DEF Base
  <2>2. g \in GroupOf(J) /\ g.start = 0 /\ g.count = 0 /\ g.vals = <<>> BY <1>3, NewGroup
  <2> HIDE DEF g
  <2>3. b \in Seq(GroupOf(J)) /\ Len(b) = 1 /\ b[1] = g BY <2>1, <2>2
  <2>4. last = g BY <2>3 DEF LastOf
  <2>5. c.total = 0 BY <1>4 DEF Layout, RowsEnd
  <2>6. (1 - 1) * Capacity = 0 /\ 0 <= Capacity BY LayoutAssumption
  <2>7. Len(g.vals) = 0 BY <2>2
  <2> QED BY <1>4, <2>2, <2>3, <2>4, <2>5, <2>6, <2>7 DEF J, g, BaseLaidOut
<1>5. CASE c.groups # <<>>
  <2>1. b = c.groups BY <1>5 DEF Base
  <2>2. Len(b) \in Nat \ {0} BY <1>1, <1>5, <2>1, EmptySeq
  <2>3. last = b[Len(b)] BY DEF LastOf
  <2>4. Len(b) \in 1 .. Len(b) BY <2>2
  <2>5. last \in GroupOf(J) BY <1>1, <1>2, <2>1, <2>3, <2>4
  <2>6. b \in Seq(GroupOf(J))
    <3>1. b \in [1 .. Len(b) -> GroupOf(I)] BY <1>1, <2>1, LenProperties
    <3>2. b \in [1 .. Len(b) -> GroupOf(J)] BY <1>2, <3>1
    <3> QED BY <2>2, <3>2, SeqDef
  <2>7. c.total = last.start + last.count BY <1>5, <2>1, <2>3 DEF Layout, RowsEnd
  <2> QED BY <1>5, <2>1, <2>2, <2>3, <2>5, <2>6, <2>7 DEF J, Layout, BaseLaidOut
<1> QED BY <1>4, <1>5

\* Where an append puts its rows.
FirstPart(vals, last) == Min({Len(vals), Capacity - last.count})

\* append fills the last row group before it opens others, each at the end of the one
\* before it.
LEMMA AppendedLayout ==
    ASSUME NEW I, NEW c \in CollectionOf(I), Layout(c), NEW vals \in Seq(Nat), c.total + Len(vals) <= MaxRows,
           NEW id, NEW d, d = CollectionAppend(c, vals, id),
           NEW b, b = Base(c), NEW last, last = LastOf(b)
    PROVE  /\ \E J : d \in CollectionOf(J)
           /\ Layout(d) /\ d.total = c.total + Len(vals)
           /\ Len(b) <= Len(d.groups)
           /\ \A k \in 1 .. Len(b) - 1 : d.groups[k] = b[k]
           /\ d.groups[Len(b)] = GroupAppend(last, SubSeq(vals, 1, FirstPart(vals, last)), id)
           /\ \A k \in Len(b) + 1 .. Len(d.groups) : \A v \in Vector \ {0} : d.groups[k].infos[v] = NoInfo
<1> DEFINE K == I \cup {NoInfo}
           m == Len(b)
           n == Len(vals)
           first == FirstPart(vals, last)
           o == (n - first + Capacity - 1) \div Capacity
           New(j) == GroupAppend(RowGroup(NextStart(last, j)), Chunk(vals, first, j), id)
           opened == [j \in 1 .. o |-> New(j)]
           filled == GroupAppend(last, SubSeq(vals, 1, first), id)
           x == AppendVersionInfo(last.infos[0], last.count, last.count + Len(SubSeq(vals, 1, first)), id)
           Y(j) == AppendVersionInfo(NoInfo, 0, 0 + Len(Chunk(vals, first, j)), id)
           J == K \cup {x} \cup {Y(j) : j \in 1 .. o}
<1>1. /\ b \in Seq(GroupOf(K)) /\ m \in Nat \ {0}
      /\ \A k \in 1 .. m :
            /\ b[k].start = (k - 1) * Capacity
            /\ b[k].count <= Capacity
            /\ k < m => b[k].count = Capacity
            /\ Len(b[k].vals) = b[k].count
      /\ last \in GroupOf(K) /\ last = b[m]
      /\ c.total = last.start + last.count
  <2>1. BaseLaidOut(c, b, last, I \cup {NoInfo}) BY BaseLayout
  <2> QED BY ONLY <2>1 DEF BaseLaidOut
<1>2. d = [groups |-> [b EXCEPT ![m] = filled] \o opened, total |-> c.total + n]
  BY DEF CollectionAppend, Base, LastOf, FirstPart, Chunk
<1>3. Capacity \in Nat \ {0} /\ n \in Nat /\ c.total \in Nat BY LayoutAssumption, LenProperties, CollectionTypes
<1>4. last.start \in Nat /\ last.count \in Nat /\ last.infos \in [Vector -> K] /\ last.vals \in Seq(Nat)
  BY <1>1 DEF GroupOf
<1>5. last.count <= Capacity /\ last.start = (m - 1) * Capacity /\ Len(last.vals) = last.count
  <2>1. m \in 1 .. m BY <1>1
  <2> QED BY <1>1, <2>1
<1>6. first \in 0 .. n /\ first <= Capacity - last.count /\ (first = n \/ first = Capacity - last.count)
  <2>1. n \in Int /\ Capacity - last.count \in Int BY <1>3, <1>4
  <2>2. first = IF n <= Capacity - last.count THEN n ELSE Capacity - last.count
    BY <2>1, MinOfTwo DEF FirstPart
  <2>3. n \in Nat /\ Capacity \in Nat /\ last.count \in Nat /\ last.count <= Capacity BY <1>3, <1>4, <1>5
  <2> HIDE DEF first, n
  <2> QED BY ONLY <2>2, <2>3
<1> HIDE DEF first, K
<1>7. PICK r \in Nat : r = n - first
  <2>1. n \in Nat /\ first \in 0 .. n BY <1>3, <1>6
  <2>2. n - first \in Nat BY ONLY <2>1
  <2> QED BY <2>2
<1>8. /\ o \in Nat /\ o * Capacity \in Int
      /\ r <= o * Capacity /\ o * Capacity < r + Capacity
      /\ r = 0 <=> o = 0
  <2>1. o = (r + Capacity - 1) \div Capacity BY <1>7
  <2> HIDE DEF o
  <2> QED BY <2>1, GroupsNeeded
<1>9. ASSUME NEW j \in 1 .. o
      PROVE  /\ Chunk(vals, first, j) \in Seq(Nat)
             /\ Len(Chunk(vals, first, j)) \in 1 .. Capacity
             /\ j < o => Len(Chunk(vals, first, j)) = Capacity
             /\ j = o => Len(Chunk(vals, first, j)) = n - first - (o * Capacity - Capacity)
  <2>1. o = (Len(vals) - first + Capacity - 1) \div Capacity OBVIOUS
  <2> HIDE DEF o
  <2> QED BY <1>6, <2>1, ChunkSizes
<1> HIDE DEF o
<1>10. SubSeq(vals, 1, first) \in Seq(Nat) /\ Len(SubSeq(vals, 1, first)) = first
  <2>1. 1 \in 1 .. Len(vals) + 1 /\ first \in 1 - 1 .. Len(vals) BY <1>3, <1>6
  <2>2. /\ SubSeq(vals, 1, first) \in Seq(Nat)
        /\ Len(SubSeq(vals, 1, first)) = IF 1 <= first THEN first - 1 + 1 ELSE 0
    BY <2>1, SubSeqProperties
  <2> QED BY <1>3, <1>6, <2>2
<1>11. /\ filled \in GroupOf(J) /\ filled.start = last.start /\ filled.count = last.count + first
       /\ Len(filled.vals) = last.count + first
  <2>1. K \subseteq J /\ x \in J OBVIOUS
  <2> HIDE DEF J
  <2>2. /\ filled \in GroupOf(J) /\ filled.start = last.start
        /\ filled.count = last.count + Len(SubSeq(vals, 1, first))
        /\ filled.vals = last.vals \o SubSeq(vals, 1, first)
    <3> DEFINE w == SubSeq(vals, 1, first)
    <3>1. last \in GroupOf(K) /\ w \in Seq(Nat) BY <1>1, <1>10
    <3>2. GroupExtended(filled, last, w, id, K, J) BY <2>1, <3>1 DEF GroupExtended
    <3> HIDE DEF filled, w
    <3>3. /\ filled \in GroupOf(J) /\ filled.start = last.start
          /\ filled.count = last.count + Len(w) /\ filled.vals = last.vals \o w
      BY ONLY <3>2, AppendedGroup
    <3> QED BY <3>3 DEF w
  <2>3. Len(last.vals \o SubSeq(vals, 1, first)) = Len(last.vals) + Len(SubSeq(vals, 1, first))
    BY <1>4, <1>10, ConcatProperties
  <2> QED BY <1>5, <1>10, <2>2, <2>3
<1>12. ASSUME NEW j \in 1 .. o
       PROVE  /\ New(j) \in GroupOf(J) /\ New(j).start = last.start + j * Capacity
              /\ New(j).count = Len(Chunk(vals, first, j)) /\ Len(New(j).vals) = New(j).count
              /\ \A v \in Vector \ {0} : New(j).infos[v] = NoInfo
  <2> DEFINE s == NextStart(last, j)
             ch == Chunk(vals, first, j)
  <2>1. s \in Nat /\ s = last.start + j * Capacity
    <3>1. j \in Nat /\ Capacity \in Nat BY <1>3, <1>8
    <3>2. j * Capacity \in Nat BY ONLY <3>1
    <3>3. s = last.start + j * Capacity BY DEF NextStart
    <3> QED BY <1>4, <3>2, <3>3
  <2> HIDE DEF s
  <2>2. /\ RowGroup(s) \in GroupOf({NoInfo}) /\ RowGroup(s).start = s
        /\ RowGroup(s).count = 0 /\ RowGroup(s).vals = <<>>
        /\ \A v \in Vector : RowGroup(s).infos[v] = NoInfo
    BY <2>1, NewGroup
  <2>3. ch \in Seq(Nat) /\ Len(ch) \in Nat BY <1>9, LenProperties
  <2>4. {NoInfo} \subseteq J BY DEF K
  <2>5. Y(j) \in J OBVIOUS
  <2>6. 0 \in Vector BY ZeroIsVector
  <2> HIDE DEF J
  <2>7. AppendVersionInfo(RowGroup(s).infos[0], RowGroup(s).count, RowGroup(s).count + Len(ch), id) \in J
    BY <2>2, <2>5, <2>6
  <2> HIDE DEF ch
  <2>8. /\ GroupAppend(RowGroup(s), ch, id) \in GroupOf(J)
        /\ GroupAppend(RowGroup(s), ch, id).start = RowGroup(s).start
        /\ GroupAppend(RowGroup(s), ch, id).count = RowGroup(s).count + Len(ch)
        /\ GroupAppend(RowGroup(s), ch, id).vals = RowGroup(s).vals \o ch
        /\ \A v \in Vector \ {0} : GroupAppend(RowGroup(s), ch, id).infos[v] = RowGroup(s).infos[v]
    <3> DEFINE e == GroupAppend(RowGroup(s), ch, id)
    <3>1. GroupExtended(e, RowGroup(s), ch, id, {NoInfo}, J) BY <2>2, <2>3, <2>4, <2>7 DEF GroupExtended
    <3> HIDE DEF e
    <3>2. /\ e \in GroupOf(J) /\ e.start = RowGroup(s).start /\ e.count = RowGroup(s).count + Len(ch)
          /\ e.vals = RowGroup(s).vals \o ch
          /\ \A v \in Vector \ {0} : e.infos[v] = RowGroup(s).infos[v]
      BY ONLY <3>1, AppendedGroup
    <3> QED BY <3>2 DEF e
  <2>9. <<>> \o ch = ch BY <2>3, ConcatEmptySeq
  <2>10. New(j) = GroupAppend(RowGroup(s), ch, id) BY DEF s, ch
  <2> HIDE DEF New
  <2>11. New(j).count = Len(ch) /\ New(j).vals = ch BY ONLY <2>2, <2>3, <2>8, <2>9, <2>10
  <2>12. New(j) \in GroupOf(J) /\ New(j).start = last.start + j * Capacity
    BY ONLY <2>1, <2>2, <2>8, <2>10
  <2>13. \A v \in Vector \ {0} : New(j).infos[v] = NoInfo BY ONLY <2>2, <2>8, <2>10
  <2> QED BY <2>11, <2>12, <2>13 DEF ch
<1> HIDE DEF New, filled
<1>13. /\ opened \in Seq(GroupOf(J)) /\ Len(opened) = o /\ \A j \in 1 .. o : opened[j] = New(j)
  <2> HIDE DEF J
  <2>1. opened \in [1 .. o -> GroupOf(J)] BY <1>12
  <2>2. opened \in Seq(GroupOf(J)) BY <1>8, <2>1, SeqDef
  <2>3. \A j \in 1 .. o : opened[j] = New(j) OBVIOUS
  <2>4. DOMAIN opened = 1 .. o OBVIOUS
  <2> HIDE DEF opened
  <2> QED BY <1>8, <2>2, <2>3, <2>4, LenProperties
<1> HIDE DEF opened
<1> DEFINE front == [b EXCEPT ![m] = filled]
<1>14. /\ front \in Seq(GroupOf(J)) /\ Len(front) = m /\ front[m] = filled
       /\ \A k \in 1 .. m - 1 : front[k] = b[k]
  <2>1. \A g \in GroupOf(K) : g \in GroupOf(J) BY DEF GroupOf
  <2> HIDE DEF J
  <2>2. b \in [1 .. m -> GroupOf(K)] BY <1>1, LenProperties
  <2>3. b \in [1 .. m -> GroupOf(J)] BY <2>1, <2>2
  <2>4. b \in Seq(GroupOf(J)) BY <1>1, <2>3, SeqDef
  <2>5. m \in 1 .. Len(b) BY <1>1
  <2>6. /\ front \in Seq(GroupOf(J)) /\ Len(front) = Len(b)
        /\ \A k \in 1 .. Len(b) : front[k] = IF k = m THEN filled ELSE b[k]
    BY <1>11, <2>4, <2>5, ExceptSeq
  <2> QED BY <1>1, <2>5, <2>6
<1> HIDE DEF front, J
<1>15. /\ front \o opened \in Seq(GroupOf(J)) /\ Len(front \o opened) = m + o
       /\ \A k \in 1 .. m + o : (front \o opened)[k] = IF k <= m THEN front[k] ELSE opened[k - m]
  <2>1. /\ front \o opened \in Seq(GroupOf(J))
        /\ Len(front \o opened) = Len(front) + Len(opened)
        /\ \A k \in 1 .. Len(front) + Len(opened) :
              (front \o opened)[k] = IF k <= Len(front) THEN front[k] ELSE opened[k - Len(front)]
    <3>1. front \in Seq(GroupOf(J)) /\ opened \in Seq(GroupOf(J)) BY <1>13, <1>14
    <3> QED BY ONLY <3>1, ConcatProperties, Zenon
  <2> QED BY ONLY <1>13, <1>14, <2>1
<1>16. /\ d.groups = front \o opened /\ d.total = c.total + n
       /\ d \in CollectionOf(J)
  BY <1>2, <1>3, <1>15 DEF front, CollectionOf
<1>17. /\ Len(d.groups) = m + o /\ d.groups[m] = filled
       /\ \A k \in 1 .. m - 1 : d.groups[k] = b[k]
       /\ \A j \in 1 .. o : d.groups[m + j] = New(j)
  <2>1. m \in 1 .. m + o /\ m <= m BY <1>1, <1>8
  <2>2. \A k \in 1 .. m - 1 : k \in 1 .. m + o /\ k <= m BY <1>1, <1>8
  <2>3. m \in Nat /\ o \in Nat BY <1>1, <1>8
  <2> HIDE DEF m
  <2>4. d.groups[m] = filled
    <3>1. (front \o opened)[m] = front[m] BY ONLY <1>15, <2>1
    <3> QED BY ONLY <1>14, <1>16, <3>1
  <2>5. ASSUME NEW k \in 1 .. m - 1 PROVE d.groups[k] = b[k]
    <3>1. k \in 1 .. m + o /\ k <= m BY ONLY <2>2, k \in 1 .. m - 1
    <3>2. (front \o opened)[k] = front[k] BY ONLY <1>15, <3>1
    <3>3. front[k] = b[k] BY ONLY <1>14, k \in 1 .. m - 1
    <3> QED BY ONLY <1>16, <3>2, <3>3
  <2>6. ASSUME NEW j \in 1 .. o PROVE d.groups[m + j] = New(j)
    <3>1. PICK k : k = m + j OBVIOUS
    <3>2. k \in 1 .. m + o /\ ~(k <= m) /\ k - m = j BY ONLY <2>3, <3>1, j \in 1 .. o
    <3>3. (front \o opened)[k] = opened[k - m] BY ONLY <1>15, <3>2
    <3>4. opened[j] = New(j) BY ONLY <1>13, j \in 1 .. o
    <3> QED BY ONLY <1>16, <3>1, <3>2, <3>3, <3>4
  <2> QED BY <1>15, <1>16, <2>4, <2>5, <2>6
<1>18. \A k \in 1 .. Len(d.groups) : k \in 1 .. m - 1 \/ k = m \/ \E j \in 1 .. o : k = m + j
  <2>1. ASSUME NEW k \in 1 .. m + o, k > m PROVE k - m \in 1 .. o /\ k = m + (k - m) BY <1>1, <1>8, <2>1
  <2>2. ASSUME NEW k \in 1 .. m + o, ~(k > m) PROVE k \in 1 .. m - 1 \/ k = m BY <1>1, <1>8, <2>2
  <2> QED BY <1>17, <2>1, <2>2
<1>19. o # 0 => last.count + first = Capacity BY ONLY <1>3, <1>4, <1>6, <1>7, <1>8
<1>20. ASSUME NEW k \in 1 .. Len(d.groups)
       PROVE  /\ d.groups[k].start = (k - 1) * Capacity
              /\ d.groups[k].count <= Capacity
              /\ k < Len(d.groups) => d.groups[k].count = Capacity
              /\ Len(d.groups[k].vals) = d.groups[k].count
  <2>1. CASE k \in 1 .. m - 1
    <3>1. k \in 1 .. m /\ k < m BY <1>1, <2>1
    <3>2. d.groups[k] = b[k] BY <1>17, <2>1
    <3> QED BY <1>1, <1>3, <3>1, <3>2
  <2>2. CASE k = m
    <3>1. d.groups[k] = filled BY <1>17, <2>2
    <3>2. last.count + first <= Capacity BY <1>3, <1>4, <1>6
    <3>3. k < Len(d.groups) => o # 0 BY <1>1, <1>8, <1>17, <2>2
    <3> QED BY <1>5, <1>11, <1>19, <2>2, <3>1, <3>2, <3>3
  <2>3. ASSUME NEW j \in 1 .. o, k = m + j
        PROVE  /\ d.groups[k].start = (k - 1) * Capacity
               /\ d.groups[k].count <= Capacity
               /\ k < Len(d.groups) => d.groups[k].count = Capacity
               /\ Len(d.groups[k].vals) = d.groups[k].count
    <3>1. d.groups[k] = New(j) BY <1>17, <2>3
    <3>2. j \in Nat BY <1>8
    <3>3. last.start + j * Capacity = (k - 1) * Capacity
      <4>1. (m - 1) * Capacity + j * Capacity = (m - 1 + j) * Capacity BY <1>1, <1>3, <3>2
      <4>2. m - 1 + j = k - 1 BY <1>1, <2>3, <3>2
      <4> QED BY <1>5, <4>1, <4>2
    <3>4. New(j).count <= Capacity BY <1>3, <1>9, <1>12
    <3>5. k < Len(d.groups) => j < o BY <1>1, <1>8, <1>17, <2>3
    <3>6. j < o => New(j).count = Capacity BY <1>9, <1>12
    <3> QED BY <1>12, <3>1, <3>3, <3>4, <3>5, <3>6
  <2> QED BY <1>18, <2>1, <2>2, <2>3
<1>21. d.total = RowsEnd(d.groups)
  <2>1. d.groups # <<>>
    <3>1. Len(d.groups) # 0 BY <1>1, <1>8, <1>17
    <3> QED BY <3>1, EmptySeq
  <2>2. RowsEnd(d.groups) = d.groups[m + o].start + d.groups[m + o].count
    BY <1>17, <2>1 DEF RowsEnd
  <2>3. CASE o = 0
    <3>1. first = n BY <1>3, <1>6, <1>7, <1>8, <2>3
    <3>2. m + o = m BY <1>1, <2>3
    <3>3. RowsEnd(d.groups) = last.start + (last.count + first) BY <1>11, <1>17, <2>2, <3>2
    <3>4. d.total = last.start + last.count + n BY <1>1, <1>16
    <3> QED BY <1>3, <1>4, <3>1, <3>3, <3>4
  <2>4. CASE o # 0
    <3>1. o \in 1 .. o BY <1>8, <2>4
    <3>2. /\ d.groups[m + o].start = last.start + o * Capacity
          /\ d.groups[m + o].count = n - first - (o * Capacity - Capacity)
      BY <1>9, <1>12, <1>17, <3>1
    <3>3. PICK p \in Int : p = o * Capacity BY <1>8
    <3>4. RowsEnd(d.groups) = (last.start + p) + (n - first - (p - Capacity)) BY <2>2, <3>2, <3>3
    <3>5. d.total = last.start + last.count + n BY <1>1, <1>16
    <3>6. last.count + first = Capacity BY <1>19, <2>4
    <3>7. first \in Int BY <1>3, <1>6
    <3>8. p \in Int BY <3>3
    <3>9. last.start \in Int /\ last.count \in Int /\ n \in Int /\ Capacity \in Int BY <1>3, <1>4
    <3>10. first = Capacity - last.count BY ONLY <3>6, <3>7, <3>9
    <3>11. RowsEnd(d.groups) = last.start + n - first + Capacity BY ONLY <3>4, <3>7, <3>8, <3>9
    <3> QED BY ONLY <3>5, <3>9, <3>10, <3>11
  <2> QED BY <2>3, <2>4
<1>22. Layout(d)
  <2>1. d.total <= MaxRows BY <1>16
  <2> QED BY <1>20, <1>21, <2>1 DEF Layout
<1>23. m <= Len(d.groups) BY <1>1, <1>8, <1>17
<1>24. ASSUME NEW k \in m + 1 .. Len(d.groups), NEW v \in Vector \ {0} PROVE d.groups[k].infos[v] = NoInfo
  <2>1. k - m \in 1 .. o /\ k = m + (k - m) BY <1>1, <1>8, <1>17
  <2>2. d.groups[k] = New(k - m) BY <1>17, <2>1
  <2> QED BY <1>12, <2>1, <2>2
<1>25. d.groups[m] = GroupAppend(last, SubSeq(vals, 1, FirstPart(vals, last)), id) BY <1>17 DEF filled, first
<1> HIDE DEF m
<1>26. \A k \in 1 .. m - 1 : d.groups[k] = b[k] BY <1>17
<1>27. (\E L : d \in CollectionOf(L)) /\ d.total = c.total + Len(vals) BY <1>16
<1> QED BY ONLY <1>22, <1>23, <1>24, <1>25, <1>26, <1>27 DEF m

-----------------------------------------------------------------------------
(* The scan and the rebuild.                                               *)

\* The i-th row a scan meets lies in a row group, at a slot that is in use.
LEMMA ScannedPlaces ==
    ASSUME NEW I, NEW c \in CollectionOf(I), Layout(c), NEW i \in 1 .. c.total,
           NEW k, k = (i - 1) \div Capacity + 1, NEW s, s = (i - 1) % Capacity
    PROVE  /\ k \in 1 .. Len(c.groups) /\ k - 1 \in Vector /\ s \in Slot
           /\ s + 1 \in 1 .. Len(c.groups[k].vals) /\ s < c.groups[k].count
           /\ i - 1 = (k - 1) * Capacity + s
<1> DEFINE n == Len(c.groups)
<1>1. /\ c.groups \in Seq(GroupOf(I)) /\ c.total \in Nat /\ n \in Nat
      /\ \A j \in 1 .. n : c.groups[j].count \in Nat /\ c.groups[j].start \in Nat
  BY CollectionTypes
<1>2. Capacity \in Nat \ {0} /\ MaxRows \in Nat BY LayoutAssumption
<1>3. PICK r \in Nat : r = i - 1 /\ r < c.total BY <1>1
<1>4. PICK q \in Nat : q = r \div Capacity /\ s \in Slot /\ r = q * Capacity + s
  <2>1. r \div Capacity \in Nat /\ r % Capacity \in Slot /\ r = (r \div Capacity) * Capacity + (r % Capacity)
    BY VectorAndSlot
  <2> QED BY <1>3, <2>1
<1>5. k = q + 1 /\ k - 1 = q BY <1>3, <1>4
<1>6. s \in Nat /\ s < Capacity BY <1>2, <1>4 DEF Slot
<1>7. c.groups # <<>> BY <1>1, <1>3 DEF Layout, RowsEnd
<1>8. n \in Nat \ {0} BY <1>1, <1>7, EmptySeq
<1> DEFINE last == c.groups[n]
<1>9. /\ last.count \in Nat /\ last.count <= Capacity /\ last.start = (n - 1) * Capacity
      /\ c.total = last.start + last.count
  <2>1. n \in 1 .. n BY <1>8
  <2> QED BY <1>1, <1>7, <2>1 DEF Layout, RowsEnd
<1>10. PICK x \in Int, y \in Int : x = q * Capacity /\ y = (n - 1) * Capacity
  <2>1. q \in Int /\ n - 1 \in Int BY <1>1, <1>4
  <2>2. q * Capacity \in Int BY <2>1, Multiples
  <2>3. (n - 1) * Capacity \in Int
    <3>1. PICK a \in Int : a = n - 1 BY <2>1
    <3>2. a * Capacity \in Int BY <3>1, Multiples
    <3> QED BY ONLY <3>1, <3>2
  <2> QED BY ONLY <2>2, <2>3
<1>11. (n - 1 < q => y + Capacity <= x) /\ (q = n - 1 => x = y)
  <2>1. PICK a \in Int : a = n - 1 BY ONLY <1>8
  <2>2. a < q => a * Capacity + Capacity <= q * Capacity BY <1>4, Multiples
  <2>3. q = a => q * Capacity = a * Capacity OBVIOUS
  <2>4. x = q * Capacity /\ y = a * Capacity BY <1>10, <2>1
  <2>5. (a < q => y + Capacity <= x) /\ (q = a => x = y) BY ONLY <2>2, <2>3, <2>4
  <2> QED BY ONLY <2>1, <2>5
<1>12. r = x + s /\ r < y + last.count /\ x \in Int /\ y \in Int
  BY <1>3, <1>4, <1>9, <1>10
<1> HIDE DEF last, n
<1>13. q <= n - 1
  <2>1. last.count \in Nat /\ last.count <= Capacity /\ q \in Nat BY <1>4, <1>9
  <2> QED BY ONLY <1>2, <1>6, <1>8, <1>11, <1>12, <2>1
<1>14. k \in 1 .. n BY ONLY <1>5, <1>8, <1>13, q \in Nat
<1>15. s < c.groups[k].count
  <2>1. CASE k = n
    <3>1. q = n - 1 BY ONLY <1>5, <1>8, <2>1, q \in Nat
    <3>2. s < last.count BY ONLY <1>6, <1>9, <1>11, <1>12, <3>1
    <3> QED BY <2>1, <3>2 DEF last
  <2>2. CASE k # n
    <3>1. k < n BY ONLY <1>8, <1>14, <2>2
    <3>2. c.groups[k].count = Capacity BY <1>14, <3>1 DEF Layout, n
    <3> QED BY <1>6, <3>2
  <2> QED BY <2>1, <2>2
<1>16. s + 1 \in 1 .. Len(c.groups[k].vals)
  <2>1. Len(c.groups[k].vals) = c.groups[k].count /\ c.groups[k].count \in Nat BY <1>1, <1>14 DEF Layout, n
  <2> QED BY <1>6, <1>15, <2>1
<1>17. k - 1 \in Vector
  <2>1. x < MaxRows
    <3>1. c.total <= MaxRows BY DEF Layout
    <3>2. x <= r BY ONLY <1>6, <1>12
    <3> QED BY ONLY <1>1, <1>2, <1>3, <1>12, <3>1, <3>2
  <2>2. q \in Nat /\ q * Capacity < MaxRows BY ONLY <1>10, <2>1, q \in Nat
  <2> QED BY <1>5, <2>2, VectorNumbers
<1> QED BY <1>3, <1>4, <1>5, <1>14, <1>15, <1>16, <1>17 DEF n

\* What the scan meets, by row group and slot.
LEMMA ScannedRow ==
    ASSUME NEW c, NEW i \in 1 .. c.total,
           NEW k, k = (i - 1) \div Capacity + 1, NEW s, s = (i - 1) % Capacity
    PROVE  ScannedRows(c)[i] = [key |-> c.groups[k].vals[s + 1],
                                ins |-> StampsAt(c.groups[k].infos[k - 1], s).ins,
                                del |-> StampsAt(c.groups[k].infos[k - 1], s).del]
BY DEF ScannedRows

\* The values a rebuild appends.
KeysOf(h) == [i \in DOMAIN h |-> h[i].key]

\* A rebuild has at most as many rows as were scanned.
LEMMA RebuiltKeys ==
    ASSUME NEW n \in Nat, NEW h, DOMAIN h = 1 .. n, \A i \in 1 .. n : h[i].key \in Nat
    PROVE  KeysOf(Rebuilt(h)) \in Seq(Nat) /\ Len(KeysOf(Rebuilt(h))) <= n
<1> DEFINE live == LivePositions(h)
           m == Cardinality(live)
           At(k) == CHOOSE i \in live : Rank(live, i) = k
           new == [k \in 1 .. m |-> [key |-> h[At(k)].key, ins |-> 0, del |-> NotDeleted]]
<1>1. Rebuilt(h) = new BY DEF Rebuilt
<1>2. live \in SUBSET (1 .. n) BY DEF LivePositions
<1> HIDE DEF live
<1>3. m \in 0 .. n /\ \A k \in 1 .. m : \E i \in live : Rank(live, i) = k BY <1>2, RankNumbers
<1>4. \A k \in 1 .. m : At(k) \in live BY <1>3
<1> HIDE DEF m, At
<1>5. \A k \in 1 .. m : new[k].key \in Nat BY <1>2, <1>4
<1>6. DOMAIN new = 1 .. m OBVIOUS
<1> HIDE DEF new
<1>7. KeysOf(new) \in [1 .. m -> Nat] BY <1>5, <1>6 DEF KeysOf
<1>8. m \in Nat BY <1>3
<1>9. KeysOf(new) \in Seq(Nat) BY <1>7, <1>8, SeqDef
<1>10. Len(KeysOf(new)) = m BY <1>7, <1>8, <1>9, LenProperties
<1> QED BY <1>1, <1>3, <1>9, <1>10

\* The empty collection.
LEMMA EmptyLayout == EmptyCollection \in CollectionOf({}) /\ Layout(EmptyCollection)
                     /\ EmptyCollection.groups = <<>> /\ EmptyCollection.total = 0
<1>1. <<>> \in Seq(GroupOf({})) BY EmptySeq
<1>2. EmptyCollection.groups = <<>> /\ EmptyCollection.total = 0 BY DEF EmptyCollection
<1>3. EmptyCollection \in CollectionOf({}) BY <1>1 DEF EmptyCollection, CollectionOf
<1>4. Layout(EmptyCollection)
  <2>1. Len(EmptyCollection.groups) = 0 BY <1>2
  <2>2. 0 <= MaxRows BY LayoutAssumption
  <2> QED BY <1>2, <2>1, <2>2 DEF Layout, RowsEnd
<1> QED BY <1>2, <1>3, <1>4

\* The rows that a compaction appends to the new collection.
LEMMA ScannedKeys ==
    ASSUME NEW I, NEW c \in CollectionOf(I), Layout(c), NEW keys, keys = KeysOf(Rebuilt(ScannedRows(c)))
    PROVE  keys \in Seq(Nat) /\ Len(keys) \in Nat /\ Len(keys) <= c.total /\ Len(keys) <= MaxRows
<1>1. c.total \in Nat /\ c.total <= MaxRows /\ MaxRows \in Nat
  <2>1. c.total \in Nat BY CollectionTypes
  <2>2. c.total <= MaxRows BY DEF Layout
  <2>3. MaxRows \in Nat BY LayoutAssumption
  <2> QED BY ONLY <2>1, <2>2, <2>3
<1>2. DOMAIN ScannedRows(c) = 1 .. c.total BY DEF ScannedRows
<1>3. ASSUME NEW i \in 1 .. c.total PROVE ScannedRows(c)[i].key \in Nat
  <2> DEFINE k == (i - 1) \div Capacity + 1
             s == (i - 1) % Capacity
  <2>1. k \in 1 .. Len(c.groups) /\ s + 1 \in 1 .. Len(c.groups[k].vals)
    <3> HIDE DEF k, s
    <3>1. k = (i - 1) \div Capacity + 1 /\ s = (i - 1) % Capacity BY DEF k, s
    <3> QED BY <3>1, ScannedPlaces
  <2>2. ScannedRows(c)[i].key = c.groups[k].vals[s + 1] BY DEF ScannedRows
  <2> HIDE DEF k, s
  <2>3. c.groups[k].vals \in Seq(Nat) BY <2>1, CollectionTypes
  <2>4. PICK seq, p : seq = c.groups[k].vals /\ p = s + 1 OBVIOUS
  <2>5. seq \in Seq(Nat) /\ p \in 1 .. Len(seq) BY ONLY <2>1, <2>3, <2>4
  <2>6. seq[p] \in Nat BY ONLY <2>5, ElementOfSeq
  <2> QED BY ONLY <2>2, <2>4, <2>6
<1>4. keys \in Seq(Nat) /\ Len(keys) <= c.total
  <2>1. PICK h : h = ScannedRows(c) OBVIOUS
  <2>2. DOMAIN h = 1 .. c.total /\ \A i \in 1 .. c.total : h[i].key \in Nat BY <1>2, <1>3, <2>1
  <2>3. KeysOf(Rebuilt(h)) \in Seq(Nat) /\ Len(KeysOf(Rebuilt(h))) <= c.total BY ONLY <1>1, <2>2, RebuiltKeys
  <2> QED BY <2>1, <2>3
<1>5. Len(keys) \in Nat BY <1>4, LenProperties
<1> QED BY <1>1, <1>4, <1>5

\* compact() builds a collection that is laid out alike.
LEMMA CompactedLayout ==
    ASSUME NEW I, NEW c \in CollectionOf(I), Layout(c), NEW w, NEW d, d = CollectionCompact(c, w)
    PROVE  (\E J : d \in CollectionOf(J)) /\ Layout(d)
<1> DEFINE keys == KeysOf(Rebuilt(ScannedRows(c)))
           e == CollectionAppend(EmptyCollection, keys, 0)
<1>1. d = IF c.total = 0 \/ VersionAbove(c, w) THEN c ELSE e BY DEF CollectionCompact, KeysOf
<1>2. keys \in Seq(Nat) /\ Len(keys) \in Nat /\ Len(keys) <= MaxRows BY ScannedKeys
<1> HIDE DEF keys
<1>3. EmptyCollection.total + Len(keys) <= MaxRows BY <1>2, EmptyLayout
<1> HIDE DEF e
<1>4. (\E J : e \in CollectionOf(J)) /\ Layout(e)
  <2>1. e = CollectionAppend(EmptyCollection, keys, 0) BY DEF e
  <2>2. EmptyCollection \in CollectionOf({}) /\ Layout(EmptyCollection) BY EmptyLayout
  <2>3. PICK b, last : b = Base(EmptyCollection) /\ last = LastOf(b) OBVIOUS
  <2> QED BY ONLY <1>2, <1>3, <2>1, <2>2, <2>3, AppendedLayout
<1> QED BY <1>1, <1>4

-----------------------------------------------------------------------------
(* The version infos follow the rows.                                      *)

\* A vector without an info has no marks.
LEMMA NoInfoStamps ==
    /\ MarksShown(NoInfo)
    /\ \A n : SharedId(NoInfo, n)
    /\ \A i : StampsAt(NoInfo, i).ins = 0 /\ StampsAt(NoInfo, i).del = NotDeleted
<1>1. NoInfo.kind = "none" BY DEF NoInfo
<1>2. NoInfo \in Info BY DEF Info
<1> QED BY <1>1, <1>2, KindStamps DEF MarksShown, SharedId

\* An empty collection and an empty heap.
LEMMA EmptyTracks == Tracks(EmptyCollection, <<>>)
<1>1. EmptyCollection.groups = <<>> /\ EmptyCollection.total = 0 /\ Len(<<>>) = 0 BY EmptyLayout
<1> QED BY <1>1 DEF Tracks, MarksTracked

\* The row groups that an append starts from follow the rows as the collection does.
LEMMA BaseTracks ==
    ASSUME NEW I, NEW c \in CollectionOf(I), Layout(c), NEW h \in Seq(Row), Tracks(c, h),
           NEW b, b = Base(c), NEW last, last = LastOf(b)
    PROVE  MarksTracked(b, h) /\ FirstTracked(b[1], h) /\ b[1].count <= Len(h)
<1>1. BaseLaidOut(c, b, last, I \cup {NoInfo}) BY BaseLayout
<1>2. c.total = Len(h) /\ Len(h) \in Nat BY LenProperties DEF Tracks
<1>3. CASE c.groups # <<>>
  <2>1. b = c.groups BY <1>3 DEF Base
  <2> QED
    <3>1. MarksTracked(b, h) /\ FirstTracked(b[1], h) BY <1>3, <2>1 DEF Tracks
    <3>2. b[1].count <= Len(h)
      <4>1. PICK m \in Nat \ {0} : m = Len(b) BY <1>1 DEF BaseLaidOut
      <4>2. /\ b[1].start = (1 - 1) * Capacity /\ b[1].count <= Capacity
            /\ b[m].start = (m - 1) * Capacity
            /\ last = b[m] /\ Len(h) = last.start + last.count /\ b[1] \in GroupOf(I \cup {NoInfo})
            /\ last \in GroupOf(I \cup {NoInfo})
        BY <1>1, <1>2, <4>1, 1 \in 1 .. m, m \in 1 .. m, ElementOfSeq DEF BaseLaidOut
      <4>3. last.count \in Nat /\ last.start \in Nat /\ b[1].count \in Nat BY <4>2 DEF GroupOf
      <4>4. CASE m = 1 BY ONLY <1>2, <4>2, <4>3, <4>4
      <4>5. CASE m # 1
        <5>1. PICK z \in Int : z = m - 1 /\ 0 < z BY ONLY <4>1, <4>5
        <5>2. 0 * Capacity + Capacity <= z * Capacity BY <5>1, Multiples
        <5>3. Capacity \in Nat BY LayoutAssumption
        <5>4. 0 * Capacity = 0 BY <5>3
        <5>5. last.start = z * Capacity BY ONLY <4>2, <5>1
        <5>6. PICK p \in Int : p = z * Capacity
          <6>1. z * Capacity \in Int BY <5>1, Multiples
          <6> QED BY ONLY <6>1
        <5>7. Capacity <= p BY ONLY <5>2, <5>3, <5>4, <5>6
        <5>8. PICK x \in Nat, y \in Nat : x = last.count /\ y = b[1].count BY ONLY <4>3
        <5>9. y <= Capacity /\ Len(h) = p + x BY ONLY <4>2, <5>5, <5>6, <5>8
        <5>10. y <= p + x BY ONLY <5>3, <5>7, <5>9, x \in Nat, y \in Nat, p \in Int
        <5> QED BY ONLY <5>8, <5>9, <5>10
      <4> QED BY <4>4, <4>5
    <3> QED BY <3>1, <3>2
<1>4. CASE c.groups = <<>>
  <2>1. Len(b) = 1 /\ b[1] = RowGroup(0) /\ last = b[1] BY <1>1, <1>4 DEF BaseLaidOut
  <2>2. /\ RowGroup(0).count = 0 /\ RowGroup(0).start = 0
        /\ \A v \in Vector : RowGroup(0).infos[v] = NoInfo
    BY NewGroup
  <2>3. Len(h) = 0 BY <1>2, <1>4 DEF Layout, RowsEnd
  <2>4. b[1].infos[0] = NoInfo /\ b[1].count = 0 BY <2>1, <2>2, ZeroIsVector
  <2>5. \A r \in Nat : MarkOf(h, r) = NotDeleted BY <2>3 DEF MarkOf
  <2>6. MarksTracked(b, h)
    <3> SUFFICES ASSUME NEW i \in Slot PROVE MarkOf(h, (1 - 1) * Capacity + i) = NotDeleted
      BY <2>1, <2>4, NoInfoStamps DEF MarksTracked
    <3>1. (1 - 1) * Capacity + i = i BY LayoutAssumption, ZeroIsVector
    <3> QED BY <2>5, <3>1, ZeroIsVector
  <2>7. FirstTracked(b[1], h) BY <2>4, NoInfoStamps DEF FirstTracked
  <2> QED BY <2>3, <2>4, <2>6, <2>7
<1> QED BY <1>3, <1>4

\* Behind the rows there are no marks, and an append adds none.
RowsAppended(h, g, vals, id) ==
    /\ \A i \in 1 .. Len(h) : g[i] = h[i]
    /\ \A i \in Len(h) + 1 .. Len(h) + Len(vals) : g[i] = [key |-> vals[i - Len(h)], ins |-> id, del |-> NotDeleted]

LEMMA AppendedMarks ==
    ASSUME NEW h \in Seq(Row), NEW vals \in Seq(Nat), NEW id \in Nat, NEW g, g = AppendRows(h, vals, id)
    PROVE  /\ RowsAppended(h, g, vals, id)
           /\ \A r \in Nat : MarkOf(g, r) = MarkOf(h, r) /\ (Len(h) <= r => MarkOf(h, r) = NotDeleted)
<1>1. /\ Len(h) \in Nat /\ Len(vals) \in Nat
      /\ Len(g) = Len(h) + Len(vals)
      /\ \A i \in 1 .. Len(h) : g[i] = h[i]
      /\ \A i \in Len(h) + 1 .. Len(h) + Len(vals) : g[i] = [key |-> vals[i - Len(h)], ins |-> id, del |-> NotDeleted]
  BY AppendedRows, LenProperties
<1>2. ASSUME NEW r \in Nat
      PROVE  MarkOf(g, r) = MarkOf(h, r) /\ (Len(h) <= r => MarkOf(h, r) = NotDeleted)
  <2>1. CASE r < Len(h)
    <3>1. r + 1 \in 1 .. Len(h) /\ r < Len(g) BY <1>1, <2>1
    <3> QED BY <1>1, <2>1, <3>1 DEF MarkOf
  <2>2. CASE Len(h) <= r /\ r < Len(g)
    <3>1. r + 1 \in Len(h) + 1 .. Len(h) + Len(vals) BY <1>1, <2>2
    <3>2. g[r + 1] = [key |-> vals[r + 1 - Len(h)], ins |-> id, del |-> NotDeleted] BY ONLY <1>1, <3>1
    <3>3. g[r + 1].del = NotDeleted BY ONLY <3>2
    <3> QED BY <1>1, <2>2, <3>3 DEF MarkOf
  <2>3. CASE Len(g) <= r
    <3>1. ~(r < Len(h)) /\ ~(r < Len(g)) BY ONLY <1>1, <2>3, r \in Nat
    <3> QED BY ONLY <3>1 DEF MarkOf
  <2> QED BY <1>1, <2>1, <2>2, <2>3
<1>3. RowsAppended(h, g, vals, id) BY <1>1 DEF RowsAppended
<1> QED BY <1>2, <1>3

\* The info of the last row group after its part of an append; only the info of the
\* first vector changes.
LEMMA AppendedTracks ==
    ASSUME NEW I, NEW c \in CollectionOf(I), Layout(c), NEW h \in Seq(Row), Tracks(c, h),
           NEW vals \in Seq(Nat), c.total + Len(vals) <= MaxRows, NEW id \in Nat,
           NEW d, d = CollectionAppend(c, vals, id), NEW g, g = AppendRows(h, vals, id)
    PROVE  Tracks(d, g)
<1>1. PICK b, last : b = Base(c) /\ last = LastOf(b) OBVIOUS
<1>2. BaseLaidOut(c, b, last, I \cup {NoInfo}) BY <1>1, BaseLayout
<1>3. MarksTracked(b, h) /\ FirstTracked(b[1], h) /\ b[1].count <= Len(h) BY <1>1, BaseTracks
<1>4. PICK first : first = FirstPart(vals, last) OBVIOUS
<1>5. PICK part : part = SubSeq(vals, 1, first) OBVIOUS
<1>6. PICK e : e = GroupAppend(last, part, id) OBVIOUS
<1>7. PICK m \in Nat \ {0} : m = Len(b) BY <1>2 DEF BaseLaidOut
<1>8. /\ (\E J : d \in CollectionOf(J)) /\ Layout(d) /\ d.total = c.total + Len(vals)
      /\ m <= Len(d.groups)
      /\ \A k \in 1 .. m - 1 : d.groups[k] = b[k]
      /\ d.groups[m] = e
      /\ \A k \in m + 1 .. Len(d.groups) : \A v \in Vector \ {0} : d.groups[k].infos[v] = NoInfo
  BY <1>1, <1>4, <1>5, <1>6, <1>7, AppendedLayout
<1>9. /\ last \in GroupOf(I \cup {NoInfo}) /\ last = b[m] /\ c.total = last.start + last.count
      /\ last.start = (m - 1) * Capacity /\ last.count <= Capacity /\ Len(last.vals) = last.count
  BY <1>2, <1>7, m \in 1 .. m DEF BaseLaidOut
<1>10. last.count \in Nat /\ last.start \in Nat /\ last.vals \in Seq(Nat) BY <1>9 DEF GroupOf
<1>11. Capacity \in Nat \ {0} /\ Len(vals) \in Nat /\ Len(h) \in Nat BY LayoutAssumption, LenProperties
<1>12. first \in Nat /\ first <= Len(vals) /\ first <= Capacity - last.count
  <2>1. first = IF Len(vals) <= Capacity - last.count THEN Len(vals) ELSE Capacity - last.count
    <3>1. Len(vals) \in Int /\ Capacity - last.count \in Int BY <1>10, <1>11
    <3> QED BY <1>4, <3>1, MinOfTwo DEF FirstPart
  <2>2. last.count <= Capacity BY <1>9
  <2> QED BY ONLY <1>10, <1>11, <2>1, <2>2
<1>13. part \in Seq(Nat) /\ Len(part) = first /\ \A i \in 1 .. first : part[i] = vals[i]
  <2>1. \A i \in 1 .. first : vals[i] \in Nat BY <1>11, <1>12, ElementOfSeq
  <2>2. SubSeq(vals, 1, first) \in Seq(Nat) /\ Len(SubSeq(vals, 1, first)) = first
        /\ \A i \in 1 .. first : SubSeq(vals, 1, first)[i] = vals[i]
    BY <1>11, <1>12, <2>1
  <2> QED BY <1>5, <2>2
<1>14. PICK to \in Nat : to = last.count + first /\ to <= Capacity BY <1>10, <1>11, <1>12
<1>15. /\ e.start = last.start /\ e.count = to /\ e.vals = last.vals \o part
       /\ e.infos[0] = AppendVersionInfo(last.infos[0], last.count, to, id)
       /\ \A v \in Vector \ {0} : e.infos[v] = last.infos[v]
  <2>1. PICK J : J = (I \cup {NoInfo}) \cup {AppendVersionInfo(last.infos[0], last.count, last.count + Len(part), id)}
    OBVIOUS
  <2>2. GroupExtended(e, last, part, id, I \cup {NoInfo}, J) BY <1>6, <1>9, <1>13, <2>1 DEF GroupExtended
  <2>3. /\ e.start = last.start /\ e.count = last.count + Len(part) /\ e.vals = last.vals \o part
        /\ e.infos[0] = AppendVersionInfo(last.infos[0], last.count, last.count + Len(part), id)
        /\ \A v \in Vector \ {0} : e.infos[v] = last.infos[v]
    BY ONLY <2>2, AppendedGroup
  <2> QED BY ONLY <1>13, <1>14, <2>3
<1>16. c.total = Len(h) /\ Len(g) = Len(h) + Len(vals) BY AppendedRows DEF Tracks
<1>17. \A r \in Nat : MarkOf(g, r) = MarkOf(h, r) /\ (Len(h) <= r => MarkOf(h, r) = NotDeleted)
  BY AppendedMarks
<1>18. ASSUME m = 1
       PROVE  /\ MarksShown(e.infos[0]) /\ SharedId(e.infos[0], to)
              /\ \A i \in Slot : StampsAt(e.infos[0], i).del = StampsAt(last.infos[0], i).del
              /\ \A i \in 0 .. last.count - 1 : StampsAt(e.infos[0], i).ins = StampsAt(last.infos[0], i).ins
              /\ \A i \in last.count .. to - 1 : StampsAt(e.infos[0], i).ins = id
              /\ last.count = to => e.infos[0] = last.infos[0]
  <2>1. PICK info : info = last.infos[0] OBVIOUS
  <2>2. FirstTracked(last, h) BY <1>3, <1>9, <1>18
  <2>3. SharedId(info, last.count) /\ (last.count = 0 => info = NoInfo) BY <2>1, <2>2 DEF FirstTracked
  <2>4. MarksShown(info)
    <3>1. 1 - 1 \in Vector /\ 1 \in 1 .. Len(b) BY <1>7, <1>18, ZeroIsVector
    <3>2. MarksShown(b[1].infos[1 - 1]) BY <1>3, <3>1 DEF MarksTracked
    <3> QED BY <1>9, <1>18, <2>1, <3>2
  <2>5. last.count = 0 => \A i \in Slot : StampsAt(info, i).del = NotDeleted BY <2>3, NoInfoStamps
  <2>6. PICK from \in Nat : from = last.count /\ from <= to BY <1>10, <1>12, <1>14
  <2>7. PICK new : new = AppendVersionInfo(info, from, to, id) OBVIOUS
  <2>8. /\ MarksShown(new) /\ SharedId(new, to)
        /\ from = to => new = info
        /\ \A i \in Slot : StampsAt(new, i).del = StampsAt(info, i).del
        /\ \A i \in 0 .. from - 1 : StampsAt(new, i).ins = StampsAt(info, i).ins
        /\ \A i \in from .. to - 1 : StampsAt(new, i).ins = id
    <3>1. MarksShown(info) /\ SharedId(info, from) /\ to <= Capacity /\ from <= to /\ id \in Nat
          /\ (from = 0 => \A i \in Slot : StampsAt(info, i).del = NotDeleted)
      BY <1>14, <2>3, <2>4, <2>5, <2>6
    <3> QED BY ONLY <2>7, <3>1, from \in Nat, to \in Nat, AppendedInfo
  <2>9. new = e.infos[0] BY <1>15, <2>1, <2>6, <2>7
  <2> QED BY ONLY <2>1, <2>6, <2>8, <2>9
<1>19. Len(d.groups) \in Nat BY <1>8, CollectionTypes
<1>20. MarksTracked(d.groups, g)
  <2> SUFFICES ASSUME NEW k \in 1 .. Len(d.groups), k - 1 \in Vector
               PROVE  /\ MarksShown(d.groups[k].infos[k - 1])
                      /\ \A i \in Slot : StampsAt(d.groups[k].infos[k - 1], i).del
                                           = MarkOf(h, (k - 1) * Capacity + i)
    <3>1. \A k \in 1 .. Len(d.groups) : \A i \in Slot : (k - 1) * Capacity + i \in Nat
      <4> SUFFICES ASSUME NEW k \in 1 .. Len(d.groups), NEW i \in Slot PROVE (k - 1) * Capacity + i \in Nat OBVIOUS
      <4>1. PICK z \in Int : z = k - 1 /\ 0 <= z BY ONLY <1>19, k \in 1 .. Len(d.groups)
      <4>2. 0 <= z => 0 * Capacity <= z * Capacity BY <4>1, Multiples
      <4>3. 0 * Capacity = 0 /\ z * Capacity \in Int BY <1>11, Multiples
      <4>4. i \in Nat BY ZeroIsVector
      <4>5. z * Capacity + i \in Nat BY ONLY <4>1, <4>2, <4>3, <4>4
      <4> QED BY ONLY <4>1, <4>5
    <3> QED BY <1>17, <3>1 DEF MarksTracked
  <2>1. CASE k < m
    <3>1. k \in 1 .. m - 1 /\ k \in 1 .. Len(b) BY ONLY <1>7, <1>19, <2>1, k \in 1 .. Len(d.groups)
    <3>2. d.groups[k] = b[k] BY <1>8, <3>1
    <3> QED BY <1>3, <3>1, <3>2 DEF MarksTracked
  <2>2. CASE k = m
    <3>1. k \in 1 .. Len(b) BY ONLY <1>7, <2>2
    <3>2. MarksShown(last.infos[k - 1])
          /\ \A i \in Slot : StampsAt(last.infos[k - 1], i).del = MarkOf(h, (k - 1) * Capacity + i)
      BY <1>3, <1>9, <2>2, <3>1 DEF MarksTracked
    <3>3. d.groups[k] = e BY <1>8, <2>2
    <3>4. CASE k = 1
      <4>1. MarksShown(e.infos[0]) /\ \A i \in Slot : StampsAt(e.infos[0], i).del = StampsAt(last.infos[0], i).del
        BY <1>18, <2>2, <3>4
      <4>2. k - 1 = 0 BY <3>4
      <4> QED BY <3>2, <3>3, <4>1, <4>2
    <3>5. CASE k # 1
      <4>1. k - 1 \in Vector \ {0} BY ONLY <3>5, k - 1 \in Vector, k \in 1 .. Len(d.groups), <1>19
      <4>2. e.infos[k - 1] = last.infos[k - 1] BY <1>15, <4>1
      <4> QED BY <3>2, <3>3, <4>2
    <3> QED BY <3>4, <3>5
  <2>3. CASE m < k
    <3>1. k - 1 \in Vector \ {0} /\ k \in m + 1 .. Len(d.groups)
      BY ONLY <1>7, <1>19, <2>3, k - 1 \in Vector, k \in 1 .. Len(d.groups)
    <3>2. d.groups[k].infos[k - 1] = NoInfo BY <1>8, <3>1
    <3>3. ASSUME NEW i \in Slot PROVE MarkOf(h, (k - 1) * Capacity + i) = NotDeleted
      <4>1. PICK z \in Int, y \in Int : z = k - 1 /\ y = m - 1 /\ y < z
        <5>1. k - 1 \in Int /\ m - 1 \in Int /\ m - 1 < k - 1 BY ONLY <1>7, <1>19, <2>3, k \in 1 .. Len(d.groups)
        <5> QED BY ONLY <5>1
      <4>2. y * Capacity + Capacity <= z * Capacity BY <4>1, Multiples
      <4>3. y * Capacity \in Int /\ z * Capacity \in Int BY Multiples
      <4>4. Len(h) = y * Capacity + last.count BY <1>9, <1>16, <4>1
      <4>5. last.count <= Capacity BY <1>9
      <4>6. i \in Nat BY ZeroIsVector
      <4>7. Len(h) <= z * Capacity + i /\ z * Capacity + i \in Nat
        <5>1. PICK yy, zz : yy = y * Capacity /\ zz = z * Capacity OBVIOUS
        <5>2. yy \in Int /\ zz \in Int /\ yy + Capacity <= zz /\ Len(h) = yy + last.count BY ONLY <4>2, <4>3, <4>4, <5>1
        <5>3. Len(h) <= zz + i /\ zz + i \in Nat BY ONLY <1>10, <1>11, <4>5, <4>6, <5>2
        <5> QED BY ONLY <5>1, <5>3
      <4>8. MarkOf(h, z * Capacity + i) = NotDeleted BY ONLY <1>17, <4>7
      <4> QED BY ONLY <4>1, <4>8
    <3> QED BY <3>2, <3>3, NoInfoStamps
  <2> QED BY ONLY <1>7, <1>19, <2>1, <2>2, <2>3, k \in 1 .. Len(d.groups)
<1>21. /\ \A i \in 1 .. Len(h) : g[i] = h[i]
       /\ \A i \in Len(h) + 1 .. Len(h) + Len(vals) : g[i] = [key |-> vals[i - Len(h)], ins |-> id, del |-> NotDeleted]
  BY AppendedMarks DEF RowsAppended
<1>22. FirstTracked(d.groups[1], g)
  <2>1. CASE m # 1
    <3>1. d.groups[1] = b[1]
      <4>1. 1 \in 1 .. m - 1 BY ONLY <1>7, <2>1
      <4> QED BY <1>8, <4>1
    <3>2. b[1].count \in Nat /\ b[1].count <= Len(h)
      <4>1. b \in Seq(GroupOf(I \cup {NoInfo})) /\ 1 \in 1 .. Len(b) BY <1>2, <1>7 DEF BaseLaidOut
      <4>2. b[1] \in GroupOf(I \cup {NoInfo}) BY <4>1, ElementOfSeq
      <4> QED BY <1>3, <4>2 DEF GroupOf
    <3>3. \A i \in 0 .. b[1].count - 1 : i + 1 \in 1 .. Len(h) BY ONLY <1>11, <3>2
    <3>4. \A i \in 0 .. b[1].count - 1 : g[i + 1] = h[i + 1] BY <1>21, <3>3
    <3> QED BY <1>3, <3>1, <3>4 DEF FirstTracked
  <2>2. CASE m = 1
    <3>1. d.groups[1] = e /\ FirstTracked(last, h) BY <1>3, <1>8, <1>9, <2>2
    <3>2. Len(h) = last.count
      <4>1. (1 - 1) * Capacity = 0 BY <1>11
      <4>2. last.start = 0 BY <1>9, <2>2, <4>1
      <4> QED BY <1>9, <1>10, <1>16, <4>2
    <3>3. SharedId(e.infos[0], e.count) BY <1>15, <1>18, <2>2
    <3>4. e.count = 0 => e.infos[0] = NoInfo
      <4>1. e.count = 0 => last.count = to /\ last.count = 0 BY <1>10, <1>12, <1>14, <1>15
      <4> QED BY <1>18, <2>2, <3>1, <4>1 DEF FirstTracked
    <3>5. ASSUME NEW i \in 0 .. e.count - 1
          PROVE  e.vals[i + 1] = g[i + 1].key /\ StampsAt(e.infos[0], i).ins = g[i + 1].ins
      <4>1. e.count = to /\ e.vals = last.vals \o part /\ Len(last.vals) = last.count BY <1>9, <1>15
      <4>2. i \in Nat /\ i < to BY <1>14, <4>1
      <4>3. e.vals[i + 1] = IF i + 1 <= last.count THEN last.vals[i + 1] ELSE part[(i + 1) - last.count]
        <5>1. i + 1 \in 1 .. Len(last.vals) + Len(part) BY <1>10, <1>12, <1>13, <1>14, <4>1, <4>2
        <5>2. (last.vals \o part)[i + 1] = IF i + 1 <= Len(last.vals) THEN last.vals[i + 1] ELSE part[(i + 1) - Len(last.vals)]
          <6>1. last.vals \in Seq(Nat) /\ part \in Seq(Nat) BY <1>10, <1>13
          <6>2. \A j \in 1 .. Len(last.vals) + Len(part) :
                   (last.vals \o part)[j] = IF j <= Len(last.vals) THEN last.vals[j] ELSE part[j - Len(last.vals)]
            BY ONLY <6>1, ConcatProperties, Zenon
          <6> QED BY ONLY <5>1, <6>2
        <5> QED BY ONLY <4>1, <5>2
      <4>4. CASE i < last.count
        <5>1. i \in 0 .. last.count - 1 /\ i + 1 <= last.count /\ i + 1 \in 1 .. Len(h)
          BY ONLY <1>10, <3>2, <4>2, <4>4
        <5>2. last.vals[i + 1] = h[i + 1].key /\ StampsAt(last.infos[0], i).ins = h[i + 1].ins
          BY <3>1, <5>1 DEF FirstTracked
        <5>3. StampsAt(e.infos[0], i).ins = StampsAt(last.infos[0], i).ins BY <1>18, <2>2, <5>1
        <5>4. g[i + 1] = h[i + 1] BY <1>21, <5>1
        <5> QED BY <4>3, <5>1, <5>2, <5>3, <5>4
      <4>5. CASE ~(i < last.count)
        <5>1. PICK p : p = (i + 1) - last.count OBVIOUS
        <5>2. /\ p \in 1 .. first /\ i \in last.count .. to - 1 /\ ~(i + 1 <= last.count)
              /\ i + 1 \in Len(h) + 1 .. Len(h) + Len(vals) /\ (i + 1) - Len(h) = p
          <6>1. PICK l \in Nat, n \in Nat : l = last.count /\ n = Len(vals) /\ l = Len(h) BY <1>10, <1>11, <3>2
          <6>2. to = l + first /\ first <= n /\ ~(i < l) /\ p = i + 1 - l /\ first \in Nat
            BY ONLY <1>12, <1>14, <4>5, <5>1, <6>1
          <6>3. p \in 1 .. first /\ i \in l .. to - 1 /\ ~(i + 1 <= l) /\ i + 1 \in l + 1 .. l + n
            BY ONLY <4>2, <6>2, l \in Nat, n \in Nat, to \in Nat
          <6> QED BY ONLY <5>1, <6>1, <6>3
        <5>3. e.vals[i + 1] = vals[p] BY <1>13, <4>3, <5>1, <5>2
        <5>4. StampsAt(e.infos[0], i).ins = id BY <1>18, <2>2, <5>2
        <5>5. g[i + 1] = [key |-> vals[p], ins |-> id, del |-> NotDeleted] BY <1>21, <5>2
        <5> QED BY <5>3, <5>4, <5>5
      <4> QED BY <4>4, <4>5
    <3> QED BY <3>1, <3>3, <3>4, <3>5 DEF FirstTracked
  <2> QED BY <2>1, <2>2
<1> QED BY <1>8, <1>16, <1>20, <1>22 DEF Tracks

\* The place of a slot of the k-th row group among the rows.
LEMMA SlotPlace ==
    ASSUME NEW I, NEW c \in CollectionOf(I), Layout(c), NEW k \in 1 .. Len(c.groups), NEW i \in Slot,
           NEW r, r = (k - 1) * Capacity + i
    PROVE  /\ r \in Nat /\ r \div Capacity = k - 1 /\ r % Capacity = i
           /\ r < c.total <=> i < c.groups[k].count
           /\ r \in c.groups[k].start .. c.groups[k].start + c.groups[k].count - 1 <=> i < c.groups[k].count
<1>1. Len(c.groups) \in Nat /\ \A j \in 1 .. Len(c.groups) : c.groups[j].count \in Nat BY CollectionTypes
<1>2. Capacity \in Nat \ {0} BY LayoutAssumption
<1>3. i \in Nat /\ i < Capacity BY <1>2 DEF Slot
<1>4. PICK v \in Nat : v = k - 1 BY <1>1
<1>5. PICK x : x = v * Capacity OBVIOUS
<1>6. x \in Nat
  <2>1. v \in Int /\ 0 <= v /\ 0 \in Int BY <1>4
  <2>2. 0 * Capacity <= v * Capacity /\ v * Capacity \in Int BY ONLY <2>1, Multiples
  <2>3. 0 * Capacity = 0 BY <1>2
  <2> QED BY ONLY <1>5, <2>2, <2>3
<1>7. r = x + i BY <1>4, <1>5
<1>8. (v * Capacity + i) \div Capacity = v /\ (v * Capacity + i) % Capacity = i BY VectorAndSlotUnique
<1>9. r \in Nat /\ r \div Capacity = k - 1 /\ r % Capacity = i
  <2>1. r \in Nat BY ONLY <1>3, <1>6, <1>7
  <2>2. r = v * Capacity + i BY ONLY <1>5, <1>7
  <2> QED BY ONLY <1>4, <1>8, <2>1, <2>2
<1>10. PICK n \in Nat : n = Len(c.groups) BY <1>1
<1>11. PICK l \in Nat : l = c.groups[k].count BY <1>1
<1>12. c.groups[k].start = x /\ l <= Capacity /\ (k < n => l = Capacity)
  BY <1>4, <1>5, <1>10, <1>11 DEF Layout
<1>13. r < c.total <=> i < l
  <2>1. c.groups # <<>> BY <1>1
  <2>2. n \in 1 .. n BY <1>1, <1>10
  <2>3. PICK z \in Nat : z = c.groups[n].count BY <1>1, <1>10, <2>2
  <2>4. c.total = (n - 1) * Capacity + z
    <3>1. c.groups[n].start = (n - 1) * Capacity BY <1>10, <2>2 DEF Layout
    <3>2. c.total = c.groups[n].start + c.groups[n].count BY <1>10, <2>1 DEF Layout, RowsEnd
    <3> QED BY <2>3, <3>1, <3>2
  <2>5. CASE k = n
    <3>1. (n - 1) * Capacity = x BY <1>4, <1>5, <2>5
    <3>2. c.total = x + l BY <1>11, <2>3, <2>4, <2>5, <3>1
    <3> QED BY ONLY <1>3, <1>6, <1>7, <3>2, l \in Nat
  <2>6. CASE k # n
    <3>1. k < n BY <1>1, <1>10, <2>6
    <3>2. PICK u \in Int : u = n - 1 /\ v < u BY ONLY <1>4, <1>10, <3>1, k \in 1 .. Len(c.groups), v \in Nat
    <3>3. v \in Int BY ONLY v \in Nat
    <3>4. v * Capacity + Capacity <= u * Capacity /\ u * Capacity \in Int BY ONLY <3>2, <3>3, u \in Int, Multiples
    <3>5. PICK y : y = u * Capacity OBVIOUS
    <3>6. y \in Int /\ x + Capacity <= y /\ c.total = y + z BY ONLY <1>5, <2>4, <3>2, <3>4, <3>5
    <3>7. r < c.total BY ONLY <1>2, <1>3, <1>6, <1>7, <3>6, z \in Nat
    <3>8. i < l BY <1>3, <1>12, <3>1
    <3> QED BY <3>7, <3>8
  <2> QED BY <2>5, <2>6
<1>14. r \in c.groups[k].start .. c.groups[k].start + c.groups[k].count - 1 <=> i < l
  <2>1. r \in x .. x + l - 1 <=> i < l BY ONLY <1>3, <1>6, <1>7, l \in Nat
  <2> QED BY ONLY <1>11, <1>12, <2>1
<1> QED BY ONLY <1>9, <1>11, <1>13, <1>14

\* g is h with the marks of a delete.
RowsMarked(h, g, ids, id) ==
    /\ g \in Seq(Row) /\ Len(g) = Len(h)
    /\ \A i \in 1 .. Len(h) : g[i].key = h[i].key /\ g[i].ins = h[i].ins
                              /\ g[i].del = IF i - 1 \in ids /\ h[i].del = NotDeleted THEN id ELSE h[i].del
    /\ \A r \in Nat : MarkOf(g, r) = IF r \in ids /\ MarkOf(h, r) = NotDeleted THEN id ELSE MarkOf(h, r)

\* delete_rows row by row.
LEMMA MarkedRows ==
    ASSUME NEW h \in Seq(Row), NEW ids, ids \subseteq 0 .. Len(h) - 1, NEW id \in Nat,
           NEW g, g = MarkDeleted(h, {i + 1 : i \in ids}, id)
    PROVE  RowsMarked(h, g, ids, id)
<1> USE DEF RowsMarked
<1>1. g \in Seq(Row) /\ Len(g) = Len(h) BY StampedRows
<1>2. Len(h) \in Nat /\ DOMAIN h = 1 .. Len(h) BY LenProperties
<1>3. ASSUME NEW i \in 1 .. Len(h)
      PROVE  g[i].key = h[i].key /\ g[i].ins = h[i].ins
             /\ g[i].del = IF i - 1 \in ids /\ h[i].del = NotDeleted THEN id ELSE h[i].del
  <2>1. h[i] \in Row BY ElementOfSeq
  <2>2. i \in {j + 1 : j \in ids} <=> i - 1 \in ids BY <1>2
  <2>3. g[i] = IF i \in {j + 1 : j \in ids} /\ h[i].del = NotDeleted THEN [h[i] EXCEPT !.del = id] ELSE h[i]
    BY <1>2 DEF MarkDeleted
  <2> QED BY ONLY <2>1, <2>2, <2>3 DEF Row
<1>4. ASSUME NEW r \in Nat
      PROVE  MarkOf(g, r) = IF r \in ids /\ MarkOf(h, r) = NotDeleted THEN id ELSE MarkOf(h, r)
  <2>1. CASE r < Len(h)
    <3>1. r + 1 \in 1 .. Len(h) /\ (r + 1) - 1 = r BY <1>2, <2>1
    <3> QED BY <1>1, <1>3, <2>1, <3>1 DEF MarkOf
  <2>2. CASE ~(r < Len(h))
    <3>1. r \notin ids BY <1>2, <2>2
    <3> QED BY <1>1, <2>2, <3>1 DEF MarkOf
  <2> QED BY <2>1, <2>2
<1> QED BY <1>1, <1>3, <1>4

\* The first row group holds the first rows.
LEMMA FirstCount ==
    ASSUME NEW I, NEW c \in CollectionOf(I), Layout(c), c.groups # <<>>
    PROVE  /\ 1 \in 1 .. Len(c.groups) /\ 1 - 1 = 0 /\ 1 - 1 \in Vector
           /\ c.groups[1].count \in 0 .. Capacity /\ c.groups[1].count \in Nat /\ c.groups[1].count <= c.total
           /\ Len(c.groups) = 1 => c.groups[1].count = c.total
<1>1. PICK n \in Nat : n = Len(c.groups) BY CollectionTypes
<1>2. n # 0 /\ 1 \in 1 .. n BY <1>1, CollectionTypes, EmptySeq
<1>3. PICK r \in Nat : r = c.groups[1].count /\ r <= Capacity BY <1>1, <1>2, CollectionTypes DEF Layout
<1>4. c.total \in Nat /\ Capacity \in Nat BY CollectionTypes, LayoutAssumption
<1>5. r <= c.total
  <2>1. CASE r = 0 BY <1>4, <2>1
  <2>2. CASE r # 0
    <3>1. r - 1 \in Slot BY <1>3, <1>4, <2>2 DEF Slot
    <3>2. PICK q : q = (1 - 1) * Capacity + (r - 1) OBVIOUS
    <3>3. q < c.total <=> r - 1 < c.groups[1].count
      BY ONLY <1>1, <1>2, <3>1, <3>2, c \in CollectionOf(I), Layout(c), SlotPlace
    <3>4. q = r - 1
      <4>1. (1 - 1) * Capacity = 0 BY <1>4
      <4> QED BY ONLY <3>2, <4>1, r \in Nat
    <3> QED BY ONLY <1>3, <1>4, <3>3, <3>4, r \in Nat
  <2> QED BY <2>1, <2>2
<1>6. n = 1 => r = c.total
  <2> SUFFICES ASSUME n = 1 PROVE r = c.total OBVIOUS
  <2>1. c.groups[1].start = (1 - 1) * Capacity BY <1>1, <1>2 DEF Layout
  <2>2. c.groups[1].start = 0 BY <1>4, <2>1
  <2>3. c.total = c.groups[1].start + c.groups[1].count BY <1>1 DEF Layout, RowsEnd
  <2> QED BY <1>3, <2>2, <2>3
<1> QED BY <1>1, <1>2, <1>3, <1>4, <1>5, <1>6, ZeroIsVector

\* The slots of the vector that a scan reads the k-th row group with.
LEMMA DeletedSlots ==
    ASSUME NEW I, NEW c \in CollectionOf(I), Layout(c), NEW k \in 1 .. Len(c.groups),
           NEW ids, ids \subseteq 0 .. c.total - 1
    PROVE  /\ SlotsDeleted(c.groups[k], ids, k - 1) \in SUBSET Slot
           /\ \A i \in Slot : i \in SlotsDeleted(c.groups[k], ids, k - 1) <=> (k - 1) * Capacity + i \in ids
<1> DEFINE g == c.groups[k]
           mine == {j \in ids \cap (g.start .. g.start + g.count - 1) : j \div Capacity = k - 1}
<1>1. c.total \in Nat BY CollectionTypes
<1>2. SlotsDeleted(g, ids, k - 1) = {j % Capacity : j \in mine} BY DEF SlotsDeleted
<1>3. ASSUME NEW j \in mine
      PROVE  j % Capacity \in Slot /\ j = (k - 1) * Capacity + (j % Capacity)
  <2>1. j \in Nat /\ j \div Capacity = k - 1 BY <1>1
  <2>2. j % Capacity \in Slot /\ j = (j \div Capacity) * Capacity + (j % Capacity) BY ONLY <2>1, VectorAndSlot
  <2> QED BY ONLY <2>1, <2>2
<1>4. ASSUME NEW i \in Slot, NEW r, r = (k - 1) * Capacity + i, r \in ids
      PROVE  r \in mine /\ r % Capacity = i
  <2>1. /\ r \in Nat /\ r \div Capacity = k - 1 /\ r % Capacity = i
        /\ r < c.total <=> i < g.count
        /\ r \in g.start .. g.start + g.count - 1 <=> i < g.count
    BY <1>4, SlotPlace
  <2>2. r < c.total BY <1>1, <1>4
  <2> QED BY <1>4, <2>1, <2>2
<1> HIDE DEF mine
<1>5. \A j \in mine : j \in ids BY DEF mine
<1> QED BY <1>2, <1>3, <1>4, <1>5

\* delete_rows puts the marks where a scan looks for them.
LEMMA DeletedTracks ==
    ASSUME NEW I, NEW c \in CollectionOf(I), Layout(c), NEW h \in Seq(Row), Tracks(c, h),
           NEW ids, ids \subseteq 0 .. c.total - 1, NEW id \in Nat,
           NEW d, d = CollectionDelete(c, ids, id), NEW g, g = MarkDeleted(h, {i + 1 : i \in ids}, id)
    PROVE  Tracks(d, g)
<1>1. PICK n : n = Len(c.groups) OBVIOUS
<1>2. n \in Nat /\ c.groups \in Seq(GroupOf(I)) /\ \A k \in 1 .. n : c.groups[k].count \in Nat BY <1>1, CollectionTypes
<1>3. /\ Len(d.groups) = n /\ d.total = c.total
      /\ \A k \in 1 .. n :
            /\ d.groups[k].count = c.groups[k].count /\ d.groups[k].vals = c.groups[k].vals
            /\ \A v \in Vector :
                  d.groups[k].infos[v] =
                      IF SlotsDeleted(c.groups[k], ids, v) = {} THEN c.groups[k].infos[v]
                      ELSE VectorDelete(AsVector(c.groups[k].infos[v]), SlotsDeleted(c.groups[k], ids, v), id)
  <2>1. /\ Len(d.groups) = Len(c.groups) /\ d.total = c.total
        /\ \A k \in 1 .. Len(c.groups) :
              /\ d.groups[k].count = c.groups[k].count /\ d.groups[k].vals = c.groups[k].vals
              /\ \A v \in Vector :
                    d.groups[k].infos[v] =
                        IF SlotsDeleted(c.groups[k], ids, v) = {} THEN c.groups[k].infos[v]
                        ELSE VectorDelete(AsVector(c.groups[k].infos[v]), SlotsDeleted(c.groups[k], ids, v), id)
    <3>1. InfosDeleted(c, d, ids, id) BY DeletedLayout
    <3> QED BY ONLY <3>1 DEF InfosDeleted
  <2> QED BY ONLY <1>1, <2>1
<1>4. c.total = Len(h) /\ MarksTracked(c.groups, h) BY DEF Tracks
<1>5. /\ Len(g) = Len(h)
      /\ \A i \in 1 .. Len(h) : g[i].key = h[i].key /\ g[i].ins = h[i].ins
      /\ \A r \in Nat : MarkOf(g, r) = IF r \in ids /\ MarkOf(h, r) = NotDeleted THEN id ELSE MarkOf(h, r)
  <2>1. ids \subseteq 0 .. Len(h) - 1 BY <1>4
  <2>2. RowsMarked(h, g, ids, id) BY <2>1, MarkedRows
  <2> QED BY ONLY <2>2 DEF RowsMarked
<1>6. ASSUME NEW k \in 1 .. n, k - 1 \in Vector
      PROVE  LET info == c.groups[k].infos[k - 1]
                 new == d.groups[k].infos[k - 1]
             IN  /\ MarksShown(new)
                 /\ \A i \in Slot : StampsAt(new, i).ins = StampsAt(info, i).ins
                                    /\ StampsAt(new, i).del = MarkOf(g, (k - 1) * Capacity + i)
                 /\ \A m \in 0 .. Capacity : SharedId(info, m) => SharedId(new, m)
  <2>1. PICK info, new, slots :
          info = c.groups[k].infos[k - 1] /\ new = d.groups[k].infos[k - 1]
          /\ slots = SlotsDeleted(c.groups[k], ids, k - 1)
    OBVIOUS
  <2>2. MarksShown(info) /\ \A i \in Slot : StampsAt(info, i).del = MarkOf(h, (k - 1) * Capacity + i)
    BY <1>1, <1>4, <1>6, <2>1 DEF MarksTracked
  <2>3. new = IF slots = {} THEN info ELSE VectorDelete(AsVector(info), slots, id) BY <1>3, <1>6, <2>1
  <2>4. slots \in SUBSET Slot /\ \A i \in Slot : i \in slots <=> (k - 1) * Capacity + i \in ids
    BY <1>1, <2>1, DeletedSlots
  <2>5. \A i \in Slot : (k - 1) * Capacity + i \in Nat BY <1>1, SlotPlace
  <2>6. /\ MarksShown(new)
        /\ \A m \in 0 .. Capacity : SharedId(info, m) => SharedId(new, m)
        /\ \A i \in Slot :
              /\ StampsAt(new, i).ins = StampsAt(info, i).ins
              /\ StampsAt(new, i).del = IF i \in slots /\ StampsAt(info, i).del = NotDeleted THEN id
                                        ELSE StampsAt(info, i).del
    <3>1. CASE slots = {} BY <2>2, <2>3, <3>1
    <3>2. CASE slots # {}
      <4>1. new = VectorDelete(AsVector(info), slots, id) BY <2>3, <3>2
      <4>2. MarksShown(info) /\ slots \in SUBSET Slot /\ id \in Nat BY <2>2, <2>4
      <4> QED BY ONLY <4>1, <4>2, DeletedInfo
    <3> QED BY <3>1, <3>2
  <2>7. \A i \in Slot : StampsAt(new, i).del = MarkOf(g, (k - 1) * Capacity + i)
    BY ONLY <1>5, <2>2, <2>4, <2>5, <2>6
  <2> QED BY ONLY <2>1, <2>6, <2>7
<1>7. MarksTracked(d.groups, g) BY <1>3, <1>6 DEF MarksTracked
<1>8. c.groups # <<>> => FirstTracked(d.groups[1], g)
  <2> SUFFICES ASSUME c.groups # <<>> PROVE FirstTracked(d.groups[1], g) OBVIOUS
  <2>1. 1 \in 1 .. n /\ 1 - 1 \in Vector /\ 1 - 1 = 0 BY <1>1, <1>2, EmptySeq, ZeroIsVector
  <2>2. PICK a, b : a = c.groups[1] /\ b = d.groups[1] OBVIOUS
  <2>3. FirstTracked(a, h) BY <2>2 DEF Tracks
  <2>4. b.count = a.count /\ b.vals = a.vals /\ a.count \in 0 .. Capacity /\ a.count <= Len(h)
    <3>1. a.count \in 0 .. Capacity /\ a.count <= c.total BY <2>2, FirstCount
    <3> QED BY <1>3, <1>4, <2>1, <2>2, <3>1
  <2>5. /\ \A i \in Slot : StampsAt(b.infos[0], i).ins = StampsAt(a.infos[0], i).ins
        /\ \A m \in 0 .. Capacity : SharedId(a.infos[0], m) => SharedId(b.infos[0], m)
    BY <1>6, <2>1, <2>2
  <2>6. a.count = 0 => b.infos[0] = a.infos[0]
    <3> SUFFICES ASSUME a.count = 0 PROVE b.infos[0] = a.infos[0] OBVIOUS
    <3>1. \A i \in Slot : i \notin SlotsDeleted(a, ids, 0)
      <4> SUFFICES ASSUME NEW i \in SlotsDeleted(a, ids, 0) PROVE FALSE OBVIOUS
      <4>1. a.start \in Nat BY <1>1, <2>1, <2>2, CollectionTypes
      <4> QED BY <4>1 DEF SlotsDeleted
    <3>2. SlotsDeleted(a, ids, 0) \in SUBSET Slot BY <1>1, <2>1, <2>2, DeletedSlots
    <3>3. SlotsDeleted(a, ids, 0) = {} BY <3>1, <3>2
    <3> QED BY <1>3, <2>1, <2>2, <3>3
  <2>7. ASSUME NEW i \in 0 .. a.count - 1
        PROVE  b.vals[i + 1] = g[i + 1].key /\ StampsAt(b.infos[0], i).ins = g[i + 1].ins
    <3>1. i \in Slot /\ i + 1 \in 1 .. Len(h) BY <2>4, LayoutAssumption, LenProperties DEF Slot
    <3> QED BY <1>5, <2>3, <2>4, <2>5, <3>1 DEF FirstTracked
  <2>8. SharedId(b.infos[0], b.count) /\ (b.count = 0 => b.infos[0] = NoInfo)
    BY <2>3, <2>4, <2>5, <2>6 DEF FirstTracked
  <2> QED BY <2>2, <2>4, <2>7, <2>8 DEF FirstTracked
<1>9. d.groups # <<>> => c.groups # <<>> BY <1>1, <1>2, <1>3, EmptySeq
<1> QED BY <1>3, <1>4, <1>5, <1>7, <1>8, <1>9 DEF Tracks

\* g is h with the marks of one transaction restamped.
RowsRestamped(h, g, from, to) ==
    /\ g \in Seq(Row) /\ Len(g) = Len(h)
    /\ \A i \in 1 .. Len(h) : g[i].key = h[i].key /\ g[i].ins = h[i].ins
                              /\ g[i].del = IF h[i].del = from THEN to ELSE h[i].del
    /\ \A r \in Nat : MarkOf(g, r) = IF MarkOf(h, r) = from THEN to ELSE MarkOf(h, r)

\* commit_all_deletes and revert_all_deletes row by row.
LEMMA RestampedMarks ==
    ASSUME NEW h \in Seq(Row), NEW from \in Nat, from # NotDeleted, NEW to \in Nat,
           NEW g, g = RestampDeletes(h, from, to)
    PROVE  RowsRestamped(h, g, from, to)
<1> USE DEF RowsRestamped
<1>1. g \in Seq(Row) /\ Len(g) = Len(h) BY RestampedRows
<1>2. Len(h) \in Nat /\ DOMAIN h = 1 .. Len(h) BY LenProperties
<1>3. ASSUME NEW i \in 1 .. Len(h)
      PROVE  g[i].key = h[i].key /\ g[i].ins = h[i].ins /\ g[i].del = IF h[i].del = from THEN to ELSE h[i].del
  <2>1. h[i] \in Row BY ElementOfSeq
  <2>2. g[i] = IF h[i].del = from THEN [h[i] EXCEPT !.del = to] ELSE h[i] BY <1>2 DEF RestampDeletes
  <2> QED BY ONLY <2>1, <2>2 DEF Row
<1>4. ASSUME NEW r \in Nat PROVE MarkOf(g, r) = IF MarkOf(h, r) = from THEN to ELSE MarkOf(h, r)
  <2>1. CASE r < Len(h)
    <3>1. r + 1 \in 1 .. Len(h) BY <1>2, <2>1
    <3> QED BY <1>1, <1>3, <2>1, <3>1 DEF MarkOf
  <2>2. CASE ~(r < Len(h)) BY <1>1, <2>2 DEF MarkOf
  <2> QED BY <2>1, <2>2
<1> QED BY <1>1, <1>3, <1>4

\* commit_all_deletes and revert_all_deletes reach every mark of the transaction.
LEMMA RestampedTracks ==
    ASSUME NEW I, NEW c \in CollectionOf(I), Layout(c), NEW h \in Seq(Row), Tracks(c, h),
           NEW from \in Nat, from # NotDeleted, NEW to \in Nat,
           NEW d, d = CollectionRestamp(c, from, to), NEW g, g = RestampDeletes(h, from, to)
    PROVE  Tracks(d, g)
<1>1. PICK n : n = Len(c.groups) OBVIOUS
<1>2. n \in Nat /\ c.groups \in Seq(GroupOf(I)) BY <1>1, CollectionTypes
<1>3. InfosRestamped(c, d, from, to) BY RestampedLayout
<1>4. c.total = Len(h) /\ MarksTracked(c.groups, h) BY DEF Tracks
<1>5. RowsRestamped(h, g, from, to) BY RestampedMarks
<1>6. ASSUME NEW k \in 1 .. n, k - 1 \in Vector
      PROVE  LET info == c.groups[k].infos[k - 1]
                 new == d.groups[k].infos[k - 1]
             IN  /\ MarksShown(new)
                 /\ \A i \in Slot : StampsAt(new, i).ins = StampsAt(info, i).ins
                                    /\ StampsAt(new, i).del = MarkOf(g, (k - 1) * Capacity + i)
                 /\ \A m \in 0 .. Capacity : SharedId(info, m) => SharedId(new, m)
  <2>1. PICK info, new : info = c.groups[k].infos[k - 1] /\ new = d.groups[k].infos[k - 1] OBVIOUS
  <2>2. MarksShown(info) /\ \A i \in Slot : StampsAt(info, i).del = MarkOf(h, (k - 1) * Capacity + i)
    BY <1>1, <1>4, <1>6, <2>1 DEF MarksTracked
  <2>3. new = InfoRestamp(info, from, to) BY <1>1, <1>3, <1>6, <2>1 DEF InfosRestamped
  <2>4. /\ MarksShown(new)
        /\ \A m \in 0 .. Capacity : SharedId(info, m) => SharedId(new, m)
        /\ \A i \in Slot : /\ StampsAt(new, i).ins = StampsAt(info, i).ins
                           /\ StampsAt(new, i).del = IF StampsAt(info, i).del = from THEN to ELSE StampsAt(info, i).del
    BY ONLY <2>2, <2>3, from \in Nat, from # NotDeleted, to \in Nat, RestampedInfo
  <2>5. \A i \in Slot : (k - 1) * Capacity + i \in Nat BY <1>1, SlotPlace
  <2>6. \A i \in Slot : StampsAt(new, i).del = MarkOf(g, (k - 1) * Capacity + i)
    BY ONLY <1>5, <2>2, <2>4, <2>5 DEF RowsRestamped
  <2> QED BY ONLY <2>1, <2>4, <2>6
<1>7. Len(d.groups) = n /\ d.total = c.total BY <1>1, <1>3 DEF InfosRestamped
<1>8. MarksTracked(d.groups, g) BY <1>6, <1>7 DEF MarksTracked
<1>9. c.groups # <<>> => FirstTracked(d.groups[1], g)
  <2> SUFFICES ASSUME c.groups # <<>> PROVE FirstTracked(d.groups[1], g) OBVIOUS
  <2>1. 1 \in 1 .. n /\ 1 - 1 \in Vector /\ 1 - 1 = 0 BY <1>1, FirstCount
  <2>2. PICK a, b : a = c.groups[1] /\ b = d.groups[1] OBVIOUS
  <2>3. FirstTracked(a, h) BY <2>2 DEF Tracks
  <2>4. b.count = a.count /\ b.vals = a.vals /\ a.count \in 0 .. Capacity /\ a.count <= Len(h)
    <3>1. a.count \in 0 .. Capacity /\ a.count <= c.total BY <2>2, FirstCount
    <3> QED BY <1>1, <1>3, <1>4, <2>1, <2>2, <3>1 DEF InfosRestamped
  <2>5. /\ \A i \in Slot : StampsAt(b.infos[0], i).ins = StampsAt(a.infos[0], i).ins
        /\ \A m \in 0 .. Capacity : SharedId(a.infos[0], m) => SharedId(b.infos[0], m)
    BY <1>6, <2>1, <2>2
  <2>6. b.infos[0] = InfoRestamp(a.infos[0], from, to) BY <1>1, <1>3, <2>1, <2>2 DEF InfosRestamped
  <2>7. InfoRestamp(NoInfo, from, to) = NoInfo BY DEF InfoRestamp, NoInfo
  <2>8. ASSUME NEW i \in 0 .. a.count - 1
        PROVE  b.vals[i + 1] = g[i + 1].key /\ StampsAt(b.infos[0], i).ins = g[i + 1].ins
    <3>1. i \in Slot /\ i + 1 \in 1 .. Len(h) BY <2>4, LayoutAssumption, LenProperties DEF Slot
    <3> QED BY <1>5, <2>3, <2>4, <2>5, <3>1 DEF FirstTracked, RowsRestamped
  <2>9. SharedId(b.infos[0], b.count) /\ (b.count = 0 => b.infos[0] = NoInfo)
    BY <2>3, <2>4, <2>5, <2>6, <2>7 DEF FirstTracked
  <2> QED BY <2>2, <2>4, <2>8, <2>9 DEF FirstTracked
<1>10. d.groups # <<>> => c.groups # <<>> BY <1>1, <1>2, <1>7, EmptySeq
<1>11. Len(g) = Len(h) BY <1>5 DEF RowsRestamped
<1> QED BY <1>4, <1>7, <1>8, <1>9, <1>10, <1>11 DEF Tracks

\* g is h with the rows of R committed.
RowsCommitted(h, g, R, id) ==
    /\ g \in Seq(Row) /\ Len(g) = Len(h)
    /\ \A i \in 1 .. Len(h) : g[i].key = h[i].key /\ g[i].del = h[i].del
                              /\ g[i].ins = IF i - 1 \in R THEN id ELSE h[i].ins
    /\ \A r \in Nat : MarkOf(g, r) = MarkOf(h, r)

\* commit_append row by row.
LEMMA CommittedRows ==
    ASSUME NEW h \in Seq(Row), NEW R, R \subseteq Int, NEW id \in Nat,
           NEW g, g = CommitAppend(h, {i + 1 : i \in R}, id)
    PROVE  RowsCommitted(h, g, R, id)
<1> USE DEF RowsCommitted
<1>1. g \in Seq(Row) /\ Len(g) = Len(h) BY StampedRows
<1>2. Len(h) \in Nat /\ DOMAIN h = 1 .. Len(h) BY LenProperties
<1>3. ASSUME NEW i \in 1 .. Len(h)
      PROVE  g[i].key = h[i].key /\ g[i].del = h[i].del /\ g[i].ins = IF i - 1 \in R THEN id ELSE h[i].ins
  <2>1. h[i] \in Row BY ElementOfSeq
  <2>2. i \in {j + 1 : j \in R} <=> i - 1 \in R BY <1>2
  <2>3. g[i] = IF i \in {j + 1 : j \in R} THEN [h[i] EXCEPT !.ins = id] ELSE h[i] BY <1>2 DEF CommitAppend
  <2> QED BY ONLY <2>1, <2>2, <2>3 DEF Row
<1>4. ASSUME NEW r \in Nat PROVE MarkOf(g, r) = MarkOf(h, r)
  <2>1. CASE r < Len(h)
    <3>1. r + 1 \in 1 .. Len(h) BY <1>2, <2>1
    <3> QED BY <1>1, <1>3, <2>1, <3>1 DEF MarkOf
  <2>2. CASE ~(r < Len(h)) BY <1>1, <2>2 DEF MarkOf
  <2> QED BY <2>1, <2>2
<1> QED BY <1>1, <1>3, <1>4

\* commit_append stamps the rows of the transaction and no others, although with
\* same_inserted_id or a constant info it stamps the whole vector: the ranges name
\* every row that carries the transaction's id.
LEMMA CommittedTracks ==
    ASSUME NEW I, NEW c \in CollectionOf(I), Layout(c), NEW h \in Seq(Row), Tracks(c, h),
           NEW rs, RangeRows(rs) \subseteq 0 .. Len(h) - 1, NEW own, own # 0,
           \A i \in 1 .. Len(h) : h[i].ins = own <=> i - 1 \in RangeRows(rs),
           NEW id \in Nat,
           NEW d, d = CollectionCommitAppend(c, rs, id),
           NEW g, g = CommitAppend(h, {i + 1 : i \in RangeRows(rs)}, id)
    PROVE  Tracks(d, g)
<1>1. PICK n : n = Len(c.groups) OBVIOUS
<1>2. n \in Nat /\ c.groups \in Seq(GroupOf(I)) BY <1>1, CollectionTypes
<1>3. InfosCommitted(c, d, rs, id) BY CommittedLayout
<1>4. c.total = Len(h) /\ MarksTracked(c.groups, h) BY DEF Tracks
<1>5. RowsCommitted(h, g, RangeRows(rs), id)
  <2>1. PICK R : R = RangeRows(rs) OBVIOUS
  <2>2. R \subseteq Int BY <2>1, LenProperties
  <2>3. RowsCommitted(h, g, R, id) BY <2>1, <2>2, CommittedRows
  <2> QED BY <2>1, <2>3
<1>6. Len(d.groups) = n /\ d.total = c.total BY <1>1, <1>3 DEF InfosCommitted
<1>7. ASSUME c.groups # <<>>
      PROVE  /\ MarksShown(d.groups[1].infos[0])
             /\ \A i \in Slot : StampsAt(d.groups[1].infos[0], i).del = StampsAt(c.groups[1].infos[0], i).del
             /\ FirstTracked(d.groups[1], g)
  <2>1. 1 \in 1 .. n /\ 1 - 1 \in Vector /\ 1 - 1 = 0 BY <1>1, <1>7, FirstCount
  <2>2. PICK a, b, info, new, slots :
           a = c.groups[1] /\ b = d.groups[1] /\ info = a.infos[0] /\ new = b.infos[0] /\ slots = SlotsCommitted(a, rs)
    OBVIOUS
  <2>3. FirstTracked(a, h) BY <1>7, <2>2 DEF Tracks
  <2>4. PICK count \in 0 .. Capacity : count = a.count /\ count \in Nat /\ count <= Len(h)
    BY <1>4, <1>7, <2>2, FirstCount
  <2>5. b.count = count /\ b.vals = a.vals /\ new = IF slots # {} THEN InfoCommitAppend(info, slots, id) ELSE info
    BY <1>1, <1>3, <2>1, <2>2, <2>4 DEF InfosCommitted
  <2>6. MarksShown(info) BY <1>1, <1>4, <2>1, <2>2 DEF MarksTracked
  <2>7. /\ SharedId(info, count) /\ (count = 0 => info = NoInfo)
        /\ \A i \in 0 .. count - 1 : a.vals[i + 1] = h[i + 1].key /\ StampsAt(info, i).ins = h[i + 1].ins
    BY <2>2, <2>3, <2>4 DEF FirstTracked
  <2>8. \A i \in 0 .. count - 1 : i \in Slot /\ i + 1 \in 1 .. Len(h) /\ (i + 1) - 1 = i
    BY <2>4, LayoutAssumption, LenProperties DEF Slot
  <2>9. slots = {i \in 0 .. count - 1 : i \in RangeRows(rs)}
    <3>1. a.start = (1 - 1) * Capacity BY <1>1, <2>1, <2>2 DEF Layout
    <3>2. a.start = 0 BY <3>1, LayoutAssumption
    <3>3. \A i \in 0 .. count - 1 : a.start + i = i BY <2>4, <3>2
    <3> QED BY <2>2, <2>4, <3>3 DEF SlotsCommitted
  <2>10. \A i \in 0 .. count - 1 : StampsAt(info, i).ins = own <=> i \in slots BY <2>7, <2>8, <2>9
  <2>11. slots \in SUBSET (0 .. count - 1) BY <2>9
  <2>12. /\ MarksShown(new) /\ SharedId(new, count)
         /\ \A i \in Slot : StampsAt(new, i).del = StampsAt(info, i).del
         /\ \A i \in 0 .. count - 1 : StampsAt(new, i).ins = IF i \in slots THEN id ELSE StampsAt(info, i).ins
    <3>1. CASE slots = {} BY <2>5, <2>6, <2>7, <3>1
    <3>2. CASE slots # {}
      <4>1. new = InfoCommitAppend(info, slots, id) BY <2>5, <3>2
      <4>2. SharedId(info, count) BY <2>7
      <4>3. /\ MarksShown(InfoCommitAppend(info, slots, id))
            /\ SharedId(InfoCommitAppend(info, slots, id), count)
            /\ \A i \in Slot : StampsAt(InfoCommitAppend(info, slots, id), i).del = StampsAt(info, i).del
            /\ \A i \in 0 .. count - 1 :
                  StampsAt(InfoCommitAppend(info, slots, id), i).ins = IF i \in slots THEN id ELSE StampsAt(info, i).ins
        <5>1. OwnSlots(info, count, slots, own) BY <2>6, <2>10, <2>11, <3>2, <4>2 DEF OwnSlots
        <5> QED BY ONLY <5>1, id \in Nat, own # 0, CommittedInfo
      <4> QED BY ONLY <4>1, <4>3
    <3> QED BY <3>1, <3>2
  <2>13. count = 0 => new = NoInfo
    <3>1. count = 0 => slots = {} BY <2>11
    <3> QED BY <2>5, <2>7, <3>1
  <2>14. ASSUME NEW i \in 0 .. count - 1
         PROVE  b.vals[i + 1] = g[i + 1].key /\ StampsAt(new, i).ins = g[i + 1].ins
    <3>1. i + 1 \in 1 .. Len(h) /\ (i + 1) - 1 = i BY <2>8
    <3>2. g[i + 1].key = h[i + 1].key /\ g[i + 1].ins = IF (i + 1) - 1 \in RangeRows(rs) THEN id ELSE h[i + 1].ins
      BY <1>5, <3>1 DEF RowsCommitted
    <3>3. i \in slots <=> i \in RangeRows(rs) BY <2>9
    <3>4. a.vals[i + 1] = h[i + 1].key /\ StampsAt(info, i).ins = h[i + 1].ins BY ONLY <2>7, i \in 0 .. count - 1
    <3>5. StampsAt(new, i).ins = IF i \in slots THEN id ELSE StampsAt(info, i).ins BY ONLY <2>12, i \in 0 .. count - 1
    <3> QED BY ONLY <2>5, <3>1, <3>2, <3>3, <3>4, <3>5
  <2>15. FirstTracked(b, g)
    <3>1. b.infos[0] = new /\ b.count = count BY <2>2, <2>5
    <3> QED BY ONLY <2>12, <2>13, <2>14, <3>1 DEF FirstTracked
  <2> QED BY <2>2, <2>12, <2>15
<1>8. MarksTracked(d.groups, g)
  <2> SUFFICES ASSUME NEW k \in 1 .. n, k - 1 \in Vector
               PROVE  /\ MarksShown(d.groups[k].infos[k - 1])
                      /\ \A i \in Slot : StampsAt(d.groups[k].infos[k - 1], i).del
                                           = MarkOf(g, (k - 1) * Capacity + i)
    BY <1>6 DEF MarksTracked
  <2>1. MarksShown(c.groups[k].infos[k - 1])
        /\ \A i \in Slot : StampsAt(c.groups[k].infos[k - 1], i).del = MarkOf(h, (k - 1) * Capacity + i)
    BY <1>1, <1>4 DEF MarksTracked
  <2>2. \A i \in Slot : MarkOf(g, (k - 1) * Capacity + i) = MarkOf(h, (k - 1) * Capacity + i)
    <3>1. \A i \in Slot : (k - 1) * Capacity + i \in Nat BY <1>1, SlotPlace
    <3> QED BY <1>5, <3>1 DEF RowsCommitted
  <2>3. CASE k = 1
    <3>1. c.groups # <<>> BY <1>1, <1>2
    <3>2. k - 1 = 0 BY <2>3
    <3> QED BY <1>7, <2>1, <2>2, <2>3, <3>1, <3>2
  <2>4. CASE k # 1
    <3>1. k - 1 \in Vector \ {0} BY <1>2, <2>4
    <3>2. d.groups[k].infos[k - 1] = c.groups[k].infos[k - 1] BY <1>1, <1>3, <3>1 DEF InfosCommitted
    <3> QED BY <2>1, <2>2, <3>2
  <2> QED BY <2>3, <2>4
<1>9. d.groups # <<>> => c.groups # <<>> BY <1>1, <1>2, <1>6, EmptySeq
<1>10. Len(g) = Len(h) BY <1>5 DEF RowsCommitted
<1> QED BY <1>4, <1>6, <1>7, <1>8, <1>9, <1>10 DEF Tracks

-----------------------------------------------------------------------------
(* What the layout answers.                                                *)

\* A scan meets the marks of all rows.
LEMMA ScanMeetsMarks ==
    ASSUME NEW I, NEW c \in CollectionOf(I), Layout(c), NEW h \in Seq(Row), Tracks(c, h), NEW i \in 1 .. Len(h)
    PROVE  ScannedRows(c)[i].del = h[i].del
<1>1. PICK k, s : k = (i - 1) \div Capacity + 1 /\ s = (i - 1) % Capacity OBVIOUS
<1>2. c.total = Len(h) /\ Len(h) \in Nat /\ MarksTracked(c.groups, h) BY LenProperties DEF Tracks
<1>3. i \in 1 .. c.total BY <1>2
<1>4. k \in 1 .. Len(c.groups) /\ k - 1 \in Vector /\ s \in Slot /\ i - 1 = (k - 1) * Capacity + s
  BY <1>1, <1>3, ScannedPlaces
<1>5. ScannedRows(c)[i] = [key |-> c.groups[k].vals[s + 1],
                           ins |-> StampsAt(c.groups[k].infos[k - 1], s).ins,
                           del |-> StampsAt(c.groups[k].infos[k - 1], s).del]
  BY ONLY <1>1, <1>3, ScannedRow
<1>6. StampsAt(c.groups[k].infos[k - 1], s).del = MarkOf(h, i - 1)
  <2>1. StampsAt(c.groups[k].infos[k - 1], s).del = MarkOf(h, (k - 1) * Capacity + s) BY <1>2, <1>4 DEF MarksTracked
  <2> QED BY ONLY <1>4, <2>1
<1>7. i - 1 < Len(h) /\ (i - 1) + 1 = i BY <1>2
<1>8. MarkOf(h, i - 1) = h[i].del BY <1>7 DEF MarkOf
<1> QED BY ONLY <1>5, <1>6, <1>8

\* The only row group is read with its first info.
LEMMA OnlyGroupScan ==
    ASSUME NEW I, NEW c \in CollectionOf(I), Layout(c), Len(c.groups) <= 1, NEW i \in 1 .. c.total
    PROVE  /\ Len(c.groups) = 1 /\ c.groups # <<>> /\ i - 1 \in 0 .. c.groups[1].count - 1 /\ (i - 1) + 1 = i
           /\ ScannedRows(c)[i] = [key |-> c.groups[1].vals[i],
                                   ins |-> StampsAt(c.groups[1].infos[0], i - 1).ins,
                                   del |-> StampsAt(c.groups[1].infos[0], i - 1).del]
<1>1. PICK n \in Nat : n = c.total BY CollectionTypes
<1>2. Len(c.groups) \in Nat BY CollectionTypes
<1>3. PICK k, s : k = (i - 1) \div Capacity + 1 /\ s = (i - 1) % Capacity OBVIOUS
<1>4. k \in 1 .. Len(c.groups) /\ s \in Slot /\ s < c.groups[k].count /\ i - 1 = (k - 1) * Capacity + s
  BY <1>3, ScannedPlaces
<1>5. ScannedRows(c)[i] = [key |-> c.groups[k].vals[s + 1],
                           ins |-> StampsAt(c.groups[k].infos[k - 1], s).ins,
                           del |-> StampsAt(c.groups[k].infos[k - 1], s).del]
  BY ONLY <1>3, i \in 1 .. c.total, ScannedRow
<1>6. k = 1 /\ Len(c.groups) = 1
  <2>1. k \in 1 .. Len(c.groups) BY <1>4
  <2>2. PICK m \in Nat : m = Len(c.groups) /\ m <= 1 BY ONLY <1>2, Len(c.groups) <= 1
  <2>3. k \in 1 .. m /\ m <= 1 BY ONLY <2>1, <2>2, Zenon
  <2>4. k = 1 /\ m = 1 BY ONLY <2>3, m \in Nat
  <2> QED BY ONLY <2>2, <2>4, Zenon
<1>7. s \in Nat /\ k - 1 = 0 /\ i - 1 = s /\ s + 1 = i
  <2>1. (k - 1) * Capacity = 0
    <3>1. Capacity \in Nat /\ (1 - 1) * Capacity = 0 BY ONLY LayoutAssumption
    <3> QED BY ONLY <1>6, <3>1
  <2>2. s \in Nat BY <1>4, ZeroIsVector
  <2>3. i - 1 = 0 + s BY ONLY <1>4, <2>1
  <2>4. i \in 1 .. n BY <1>1
  <2> QED BY ONLY <1>6, <2>2, <2>3, <2>4, n \in Nat
<1>8. c.groups # <<>>
  <2>1. Len(<<>>) = 0 /\ 0 # 1 OBVIOUS
  <2> QED BY ONLY <1>6, <2>1, Zenon
<1>9. c.groups[1].count \in Nat BY <1>8, FirstCount
<1>10. s \in 0 .. c.groups[1].count - 1
  <2>1. s < c.groups[1].count /\ s \in Nat BY ONLY <1>4, <1>6, <1>7, Zenon
  <2> QED BY ONLY <1>9, <2>1
<1> QED BY ONLY <1>5, <1>6, <1>7, <1>8, <1>10

\* A scan of the only row group meets the rows.
LEMMA ScanMeetsRows ==
    ASSUME NEW I, NEW c \in CollectionOf(I), Layout(c), NEW h \in Seq(Row), Tracks(c, h), Len(c.groups) <= 1
    PROVE  /\ ScannedRows(c) = h
           /\ \A i \in 1 .. Len(h) : /\ Len(c.groups) = 1 /\ i - 1 \in 0 .. c.groups[1].count - 1
                                     /\ StampsAt(c.groups[1].infos[0], i - 1).ins = h[i].ins
                                     /\ StampsAt(c.groups[1].infos[0], i - 1).del = h[i].del
<1>1. PICK n \in Nat : n = Len(h) BY LenProperties
<1>2. c.total = n /\ MarksTracked(c.groups, h) BY <1>1 DEF Tracks
<1>3. Len(c.groups) \in Nat BY CollectionTypes
<1>4. ASSUME NEW i \in 1 .. n
      PROVE  /\ Len(c.groups) = 1 /\ i - 1 \in 0 .. c.groups[1].count - 1
             /\ ScannedRows(c)[i].key = h[i].key
             /\ ScannedRows(c)[i] = [key |-> ScannedRows(c)[i].key,
                                     ins |-> StampsAt(c.groups[1].infos[0], i - 1).ins,
                                     del |-> StampsAt(c.groups[1].infos[0], i - 1).del]
             /\ StampsAt(c.groups[1].infos[0], i - 1).ins = h[i].ins
             /\ StampsAt(c.groups[1].infos[0], i - 1).del = h[i].del
  <2>1. i \in 1 .. c.total BY <1>2
  <2>2. /\ Len(c.groups) = 1 /\ c.groups # <<>> /\ i - 1 \in 0 .. c.groups[1].count - 1 /\ (i - 1) + 1 = i
        /\ ScannedRows(c)[i] = [key |-> c.groups[1].vals[i],
                                ins |-> StampsAt(c.groups[1].infos[0], i - 1).ins,
                                del |-> StampsAt(c.groups[1].infos[0], i - 1).del]
    BY <2>1, OnlyGroupScan
  <2>3. FirstTracked(c.groups[1], h) BY <2>2 DEF Tracks
  <2>4. PICK s : s = i - 1 OBVIOUS
  <2>5. c.groups[1].vals[s + 1] = h[s + 1].key /\ StampsAt(c.groups[1].infos[0], s).ins = h[s + 1].ins
    BY ONLY <2>2, <2>3, <2>4 DEF FirstTracked
  <2>6. ScannedRows(c)[i].del = h[i].del BY <1>1, ScanMeetsMarks
  <2> QED BY ONLY <2>2, <2>4, <2>5, <2>6
<1>5. ASSUME NEW i \in 1 .. n PROVE ScannedRows(c)[i] = h[i] /\ ScannedRows(c)[i] \in Row
  <2>1. h[i] \in Row BY <1>1, ElementOfSeq
  <2>2. h[i] = [key |-> h[i].key, ins |-> h[i].ins, del |-> h[i].del] BY ONLY <2>1 DEF Row
  <2> QED BY ONLY <1>4, <2>1, <2>2, i \in 1 .. n
<1>6. ScannedRows(c) \in [1 .. n -> Row]
  <2>1. PICK f : f = ScannedRows(c) OBVIOUS
  <2>2. f = [i \in 1 .. n |-> f[i]] BY <1>2, <2>1 DEF ScannedRows
  <2>3. \A i \in 1 .. n : f[i] \in Row BY <1>5, <2>1
  <2>4. f \in [1 .. n -> Row] BY ONLY <2>2, <2>3
  <2> QED BY <2>1, <2>4
<1>7. ScannedRows(c) \in Seq(Row) /\ Len(ScannedRows(c)) = n
  <2>1. ScannedRows(c) \in Seq(Row) BY <1>6, SeqDef
  <2> QED BY <1>6, <2>1, LenProperties
<1>8. ScannedRows(c) = h
  <2>1. Len(ScannedRows(c)) = Len(h) /\ \A i \in 1 .. Len(ScannedRows(c)) : ScannedRows(c)[i] = h[i] BY <1>1, <1>5, <1>7
  <2> QED BY ONLY <1>7, <2>1, h \in Seq(Row), SeqEqual
<1> QED BY <1>1, <1>4, <1>8

\* The info of the only row group covers exactly the rows.
LEMMA OnlyInfo ==
    ASSUME NEW I, NEW c \in CollectionOf(I), Layout(c), NEW h \in Seq(Row), Tracks(c, h), Len(c.groups) <= 1,
           c.groups # <<>>, NEW info, info = c.groups[1].infos[0]
    PROVE  /\ Len(c.groups) = 1 /\ DOMAIN c.groups = {1} /\ MarksShown(info) /\ info \in Info
           /\ Len(h) \in 0 .. Capacity /\ c.groups[1].count = Len(h) /\ DOMAIN h = 1 .. Len(h)
           /\ SharedId(info, Len(h)) /\ (Len(h) = 0 => info = NoInfo)
           /\ \A i \in 1 .. Len(h) : /\ i - 1 \in 0 .. Len(h) - 1
                                     /\ StampsAt(info, i - 1).ins = h[i].ins
                                     /\ StampsAt(info, i - 1).del = h[i].del
<1>1. /\ 1 \in 1 .. Len(c.groups) /\ 1 - 1 = 0 /\ 1 - 1 \in Vector
      /\ c.groups[1].count \in 0 .. Capacity
      /\ Len(c.groups) = 1 => c.groups[1].count = c.total
  BY FirstCount
<1>2. Len(c.groups) \in Nat /\ DOMAIN c.groups = 1 .. Len(c.groups) BY CollectionTypes
<1>3. Len(c.groups) = 1
  <2>1. PICK m \in Nat : m = Len(c.groups) BY <1>2
  <2>2. m <= 1 /\ 1 \in 1 .. m BY <1>1, <2>1, Zenon
  <2>3. m = 1 BY ONLY <2>2, m \in Nat
  <2> QED BY ONLY <2>1, <2>3, Zenon
<1>4. c.groups[1].count = Len(h) BY <1>1, <1>3 DEF Tracks
<1>5. DOMAIN c.groups = {1} BY <1>2, <1>3
<1>6. MarksShown(info) BY <1>1 DEF Tracks, MarksTracked
<1>7. info \in Info BY <1>6 DEF MarksShown
<1>8. SharedId(info, Len(h)) /\ (Len(h) = 0 => info = NoInfo) BY <1>4 DEF Tracks, FirstTracked
<1>9. \A i \in 1 .. Len(h) : /\ i - 1 \in 0 .. c.groups[1].count - 1
                             /\ StampsAt(info, i - 1).ins = h[i].ins
                             /\ StampsAt(info, i - 1).del = h[i].del
  BY ScanMeetsRows
<1>10. DOMAIN h = 1 .. Len(h) BY LenProperties
<1> QED BY <1>1, <1>3, <1>4, <1>5, <1>6, <1>7, <1>8, <1>9, <1>10

\* No row group, no rows.
LEMMA NoGroups ==
    ASSUME NEW I, NEW c \in CollectionOf(I), Layout(c), NEW h \in Seq(Row), Tracks(c, h), c.groups = <<>>
    PROVE  Len(h) = 0 /\ DOMAIN h = {} /\ DOMAIN c.groups = {} /\ c.total = 0
<1>1. c.total = 0 BY DEF Layout, RowsEnd
<1>2. Len(h) = 0 /\ DOMAIN h = 1 .. Len(h) BY <1>1, LenProperties DEF Tracks
<1>3. DOMAIN c.groups = 1 .. Len(c.groups) /\ Len(c.groups) = 0 BY CollectionTypes
<1> QED BY <1>1, <1>2, <1>3

\* has_version_above of the only row group.
LEMMA GateAgrees ==
    ASSUME NEW I, NEW c \in CollectionOf(I), Layout(c), NEW h \in Seq(Row), Tracks(c, h), Len(c.groups) <= 1,
           NEW w \in Nat
    PROVE  VersionAbove(c, w) <=> HasVersionAbove(h, w)
<1>1. CASE c.groups = <<>> BY <1>1, NoGroups DEF VersionAbove, HasVersionAbove
<1>2. CASE c.groups # <<>>
  <2>1. PICK info : info = c.groups[1].infos[0] OBVIOUS
  <2>2. /\ DOMAIN c.groups = {1} /\ info \in Info
        /\ Len(h) \in 0 .. Capacity /\ c.groups[1].count = Len(h) /\ DOMAIN h = 1 .. Len(h)
        /\ (Len(h) = 0 => info = NoInfo)
        /\ \A i \in 1 .. Len(h) : /\ i - 1 \in 0 .. Len(h) - 1
                                  /\ StampsAt(info, i - 1).ins = h[i].ins
                                  /\ StampsAt(info, i - 1).del = h[i].del
    BY <1>2, <2>1, OnlyInfo
  <2>3. VersionAbove(c, w) <=> InfoVersionAbove(info, Len(h), w) BY <2>1, <2>2 DEF VersionAbove
  <2>4. PICK n \in 0 .. Capacity : n = Len(h) BY <2>2
  <2>5. n \in Nat BY <2>4, LayoutAssumption
  <2>6. InfoVersionAbove(info, n, w) <=>
             \E i \in 0 .. n - 1 :
                 \/ StampsAt(info, i).ins > w
                 \/ StampsAt(info, i).del # NotDeleted /\ StampsAt(info, i).del > w
    BY <2>2, <2>4, GateReadsStamps
  <2>7. \A i \in 0 .. n - 1 : i + 1 \in 1 .. n /\ (i + 1) - 1 = i BY <2>5
  <2>8. HasVersionAbove(h, w) <=>
             \E i \in 1 .. n : h[i].ins > w \/ (h[i].del # NotDeleted /\ h[i].del > w)
    BY ONLY <2>2, <2>4 DEF HasVersionAbove
  <2>9. \A i \in 0 .. n - 1 : StampsAt(info, i).ins = h[i + 1].ins /\ StampsAt(info, i).del = h[i + 1].del
    BY ONLY <2>2, <2>4, <2>7
  <2>10. \A i \in 1 .. n : i - 1 \in 0 .. n - 1 /\ StampsAt(info, i - 1).ins = h[i].ins /\ StampsAt(info, i - 1).del = h[i].del
    BY ONLY <2>2, <2>4
  <2>11. HasVersionAbove(h, w) => InfoVersionAbove(info, n, w) BY ONLY <2>6, <2>8, <2>10
  <2>12. InfoVersionAbove(info, n, w) => HasVersionAbove(h, w) BY ONLY <2>6, <2>7, <2>8, <2>9
  <2> QED BY <2>3, <2>4, <2>11, <2>12
<1> QED BY <1>1, <1>2

\* committed_row_count of the only row group.
LEMMA CountAgrees ==
    ASSUME NEW I, NEW c \in CollectionOf(I), Layout(c), NEW h \in Seq(Row), Tracks(c, h), Len(c.groups) <= 1
    PROVE  DeletedCount(c) = CommittedDeletedCount(h)
<1> DEFINE T == UNION {{k} \X InfoDeleted(c.groups[k].infos[0], c.groups[k].count) : k \in DOMAIN c.groups}
           S == {i \in DOMAIN h : h[i].del < TxnIdStart}
<1>1. CASE c.groups = <<>>
  <2>1. T = {} /\ S = {} BY <1>1, NoGroups
  <2> QED BY <2>1 DEF DeletedCount, CommittedDeletedCount
<1>2. CASE c.groups # <<>>
  <2>1. PICK info : info = c.groups[1].infos[0] OBVIOUS
  <2>2. /\ DOMAIN c.groups = {1} /\ info \in Info
        /\ Len(h) \in 0 .. Capacity /\ c.groups[1].count = Len(h) /\ DOMAIN h = 1 .. Len(h)
        /\ \A i \in 1 .. Len(h) : i - 1 \in 0 .. Len(h) - 1 /\ StampsAt(info, i - 1).del = h[i].del
    BY <1>2, <2>1, OnlyInfo
  <2>3. PICK n \in 0 .. Capacity : n = Len(h) BY <2>2
  <2>4. n \in Nat BY <2>3, LayoutAssumption
  <2> DEFINE D == {i \in 0 .. n - 1 : StampsAt(info, i).del < TxnIdStart}
             f == [i \in S |-> <<1, i - 1>>]
  <2>5. InfoDeleted(info, n) = D BY <2>2, CountReadsStamps
  <2>6. T = {1} \X D BY <2>1, <2>2, <2>3, <2>5
  <2>7. S \subseteq 1 .. n /\ \A i \in S : i - 1 \in D BY <2>2, <2>3
  <2>8. \A i \in D : i + 1 \in S /\ (i + 1) - 1 = i BY <2>2, <2>3, <2>4
  <2> HIDE DEF S, D
  <2>9. f \in [S -> {1} \X D] BY <2>7
  <2>10. \A i, j \in S : f[i] = f[j] => i = j BY <2>4, <2>7
  <2>11. \A t \in {1} \X D : \E i \in S : f[i] = t
    <3> SUFFICES ASSUME NEW t \in {1} \X D PROVE \E i \in S : f[i] = t OBVIOUS
    <3>1. PICK x \in D : t = <<1, x>> OBVIOUS
    <3>2. x + 1 \in S /\ f[x + 1] = <<1, x>> BY <2>8
    <3> QED BY <3>1, <3>2
  <2> HIDE DEF f
  <2>12. f \in Bijection(S, {1} \X D) BY <2>9, <2>10, <2>11 DEF Bijection, Injection, Surjection, IsInjective
  <2>13. ExistsBijection(S, {1} \X D) BY <2>12 DEF ExistsBijection
  <2>14. IsFiniteSet(S)
    <3>1. IsFiniteSet(1 .. n) BY <2>4, FS_Interval
    <3> QED BY <2>7, <3>1, FS_Subset
  <2>15. Cardinality({1} \X D) = Cardinality(S) BY <2>13, <2>14, FS_Bijection
  <2> QED BY <2>6, <2>15 DEF DeletedCount, CommittedDeletedCount, S
<1> QED BY <1>1, <1>2

-----------------------------------------------------------------------------
(* The rebuild.                                                            *)

\* The collection that a rebuild fills follows the rebuilt rows.
LEMMA RebuiltTracks ==
    ASSUME NEW h \in Seq(Row), Len(h) <= MaxRows, NEW d, d = CollectionAppend(EmptyCollection, KeysOf(Rebuilt(h)), 0)
    PROVE  Tracks(d, Rebuilt(h))
<1>1. PICK new, keys : new = Rebuilt(h) /\ keys = KeysOf(new) OBVIOUS
<1>2. new \in Seq(Row) /\ Len(new) <= Len(h) /\ Len(new) \in Nat /\ DOMAIN new = 1 .. Len(new)
  BY <1>1, RebuiltRows, LenProperties
<1>3. \A k \in 1 .. Len(new) : new[k] \in Row /\ new[k] = [key |-> new[k].key, ins |-> 0, del |-> NotDeleted]
  <2> SUFFICES ASSUME NEW k \in 1 .. Len(new)
               PROVE  new[k] \in Row /\ new[k] = [key |-> new[k].key, ins |-> 0, del |-> NotDeleted]
    OBVIOUS
  <2>1. \A j \in DOMAIN Rebuilt(h) : \E i \in LivePositions(h) :
          Rebuilt(h)[j] = [key |-> h[i].key, ins |-> 0, del |-> NotDeleted]
    BY RebuiltRows
  <2>2. PICK i \in LivePositions(h) : new[k] = [key |-> h[i].key, ins |-> 0, del |-> NotDeleted]
    BY <1>1, <1>2, <2>1
  <2>3. new[k].key = h[i].key BY <2>2
  <2> QED BY <1>2, <2>2, <2>3, ElementOfSeq
<1>4. keys \in [1 .. Len(new) -> Nat] /\ \A k \in 1 .. Len(new) : keys[k] = new[k].key
  <2>1. keys = [k \in 1 .. Len(new) |-> new[k].key] BY <1>1, <1>2 DEF KeysOf
  <2>2. \A k \in 1 .. Len(new) : new[k].key \in Nat BY <1>3 DEF Row
  <2> QED BY ONLY <2>1, <2>2
<1>5. keys \in Seq(Nat) BY <1>2, <1>4, SeqDef
<1>6. Len(keys) = Len(new) BY <1>2, <1>4, <1>5, LenProperties
<1>7. PICK g, z : g = AppendRows(z, keys, 0) /\ z = <<>> OBVIOUS
<1>8. z \in Seq(Row) /\ Len(z) = 0 BY <1>7, EmptySeq
<1>9. g \in Seq(Row) /\ Len(g) = Len(new)
  <2>1. g \in Seq(Row) /\ Len(g) = Len(z) + Len(keys) BY <1>5, <1>7, <1>8, AppendedRows
  <2> QED BY ONLY <1>2, <1>6, <1>8, <2>1
<1>10. ASSUME NEW k \in 1 .. Len(g) PROVE g[k] = new[k]
  <2>1. RowsAppended(z, g, keys, 0) BY <1>5, <1>7, <1>8, AppendedMarks
  <2>2. k \in 1 .. Len(new) /\ k \in Len(z) + 1 .. Len(z) + Len(keys) /\ k - Len(z) = k
    BY ONLY <1>2, <1>6, <1>8, <1>9, k \in 1 .. Len(g)
  <2>3. g[k] = [key |-> keys[k - Len(z)], ins |-> 0, del |-> NotDeleted] BY ONLY <2>1, <2>2 DEF RowsAppended
  <2> QED BY ONLY <1>3, <1>4, <2>2, <2>3
<1>11. g = new BY ONLY <1>2, <1>9, <1>10, SeqEqual
<1>12. Tracks(d, g)
  <2>1. /\ EmptyCollection \in CollectionOf({}) /\ Layout(EmptyCollection) /\ EmptyCollection.total = 0
        /\ Tracks(EmptyCollection, z)
    BY <1>7, EmptyLayout, EmptyTracks
  <2>2. d = CollectionAppend(EmptyCollection, keys, 0) BY <1>1
  <2>3. EmptyCollection.total + Len(keys) <= MaxRows
    <3>1. Len(h) \in Nat /\ MaxRows \in Nat BY LenProperties, LayoutAssumption
    <3>2. Len(keys) <= MaxRows BY <1>2, <1>6, <3>1
    <3> QED BY <1>2, <1>6, <2>1, <3>2
  <2>4. g = AppendRows(z, keys, 0) /\ 0 \in Nat BY <1>7
  <2> QED BY ONLY <1>5, <1>8, <2>1, <2>2, <2>3, <2>4, AppendedTracks
<1> QED BY <1>1, <1>11, <1>12

\* Stamps that the see-all view reads alike give the same rebuild.
LEMMA SameRebuild ==
    ASSUME NEW n \in Nat, NEW f, NEW h, DOMAIN f = 1 .. n, DOMAIN h = 1 .. n,
           \A i \in 1 .. n : /\ f[i].key = h[i].key
                             /\ Visible(SeeAll(TxnIdStart), f[i]) <=> Visible(SeeAll(TxnIdStart), h[i])
    PROVE  Rebuilt(f) = Rebuilt(h)
<1> DEFINE live == LivePositions(h)
           At(k) == CHOOSE i \in live : Rank(live, i) = k
<1>1. LivePositions(f) = live BY DEF LivePositions
<1>2. live \in SUBSET (1 .. n) BY DEF LivePositions
<1>3. Rebuilt(f) = [k \in 1 .. Cardinality(live) |-> [key |-> f[At(k)].key, ins |-> 0, del |-> NotDeleted]]
  BY <1>1 DEF Rebuilt
<1>4. Rebuilt(h) = [k \in 1 .. Cardinality(live) |-> [key |-> h[At(k)].key, ins |-> 0, del |-> NotDeleted]]
  BY DEF Rebuilt
<1> HIDE DEF live
<1>5. \A k \in 1 .. Cardinality(live) : \E i \in live : Rank(live, i) = k BY <1>2, RankNumbers
<1>6. \A k \in 1 .. Cardinality(live) : At(k) \in live BY <1>5
<1>7. \A k \in 1 .. Cardinality(live) : f[At(k)].key = h[At(k)].key BY <1>2, <1>6
<1> HIDE DEF At
<1> QED BY ONLY <1>3, <1>4, <1>7

\* compact() of one row group rebuilds the rows.
LEMMA CompactedTracks ==
    ASSUME NEW I, NEW c \in CollectionOf(I), Layout(c), NEW h \in Seq(Row), Tracks(c, h), Len(c.groups) <= 1,
           NEW w \in Nat, NEW d, d = CollectionCompact(c, w)
    PROVE  Tracks(d, Compact(h, w))
<1>1. ScannedRows(c) = h BY ScanMeetsRows
<1>2. VersionAbove(c, w) <=> HasVersionAbove(h, w) BY GateAgrees
<1>3. c.total = Len(h) /\ Len(h) <= MaxRows BY DEF Tracks, Layout
<1>4. PICK e : e = CollectionAppend(EmptyCollection, KeysOf(Rebuilt(h)), 0) OBVIOUS
<1>5. d = IF Len(h) = 0 \/ HasVersionAbove(h, w) THEN c ELSE e
  BY <1>1, <1>2, <1>3, <1>4 DEF CollectionCompact, KeysOf
<1>6. Tracks(e, Rebuilt(h)) BY <1>3, <1>4, RebuiltTracks
<1> QED BY <1>5, <1>6 DEF Compact

-----------------------------------------------------------------------------
(* VACUUM.                                                                 *)

\* The least of some numbers is one of them.
LEMMA LeastOf ==
    ASSUME NEW n \in Nat, NEW T \in SUBSET (0 .. n), T # {}
    PROVE  Min(T) \in T
<1> DEFINE S == {x + 1 : x \in T}
           Below(i) == {j \in S : j <= i}
<1>1. PICK m \in Nat : m = n + 1 OBVIOUS
<1>2. S \in SUBSET (1 .. m) /\ S # {}
  <2>1. \A x \in T : x + 1 \in 1 .. m BY <1>1
  <2>2. S \in SUBSET (1 .. m) BY <2>1
  <2>3. PICK t : t \in T OBVIOUS
  <2>4. t + 1 \in S BY <2>3
  <2> QED BY <2>2, <2>4
<1>3. \A x \in S : x - 1 \in T BY <1>1
<1>4. \A x \in T : x + 1 \in S OBVIOUS
<1> HIDE DEF S
<1>5. /\ Cardinality(S) \in 0 .. m
      /\ \A i \in S : Rank(S, i) \in 1 .. Cardinality(S)
      /\ \A k \in 1 .. Cardinality(S) : \E i \in S : Rank(S, i) = k
  BY <1>1, <1>2, RankNumbers
<1>6. 1 \in 1 .. Cardinality(S)
  <2>1. PICK t : t \in S BY <1>2
  <2>2. Rank(S, t) \in 1 .. Cardinality(S) BY <1>5, <2>1
  <2>3. Cardinality(S) \in Nat BY <1>1, <1>5
  <2> QED BY ONLY <2>2, <2>3
<1>7. PICK i \in S : Rank(S, i) = 1 BY <1>5, <1>6
<1>8. IsFiniteSet(Below(i))
  <2>1. IsFiniteSet(1 .. m) BY FS_Interval
  <2>2. Below(i) \subseteq 1 .. m BY <1>2
  <2> QED BY <2>1, <2>2, FS_Subset
<1>9. Cardinality(Below(i)) = 1 BY <1>7 DEF Rank
<1>10. PICK x : Below(i) = {x} BY <1>8, <1>9, FS_Singleton
<1>11. i \in Below(i) BY <1>1, <1>2
<1>12. \A j \in S : i <= j BY <1>1, <1>2, <1>10, <1>11
<1>13. i - 1 \in T /\ \A y \in T : i - 1 <= y BY <1>1, <1>2, <1>3, <1>4, <1>12
<1> QED BY <1>13 DEF Min

\* cleanup replaces an info whose stamps are old: by none, or by a constant when all of
\* its rows are deleted.
LEMMA CleanedInfo ==
    ASSUME NEW info, MarksShown(info), NEW lowest \in Nat, NEW new, new = InfoCleanup(info, lowest), new # info
    PROVE  /\ ~InfoVersionAbove(info, Capacity, lowest)
           /\ \/ new = NoInfo
              \/ \E m \in Slot : /\ new = ConstantInfo(StampsAt(info, 0).ins, StampsAt(info, m).del)
                                 /\ \A i \in Slot : StampsAt(info, i).del # NotDeleted
<1>1. info \in Info BY DEF MarksShown
<1>2. CASE info = NoInfo /\ info.kind = "none" BY <1>2 DEF InfoCleanup
<1>3. CASE info \in ConstantInfos /\ info.kind = "constant" BY <1>3 DEF InfoCleanup
<1>4. CASE info \in VectorInfos /\ info.kind = "vector"
  <2> DEFINE all == info.anyDeleted /\ \A i \in Slot : info.deleted[i] # NotDeleted
             T == {info.deleted[i] : i \in Slot}
             const == ConstantInfo(IF info.sameInsertedId THEN info.insertId ELSE info.inserted[0], Min(T))
  <2>1. new = IF InfoVersionAbove(info, Capacity, lowest) THEN info ELSE IF all THEN const ELSE NoInfo
    BY <1>4 DEF InfoCleanup
  <2>2. ~InfoVersionAbove(info, Capacity, lowest) BY <2>1
  <2>3. ASSUME all
        PROVE  \E m \in Slot : /\ new = ConstantInfo(StampsAt(info, 0).ins, StampsAt(info, m).del)
                               /\ \A i \in Slot : StampsAt(info, i).del # NotDeleted
    <3>1. \A i \in Slot : StampsAt(info, i).del = info.deleted[i] BY <1>4, <2>3, KindStamps
    <3>2. StampsAt(info, 0).ins = IF info.sameInsertedId THEN info.insertId ELSE info.inserted[0] BY <1>4, KindStamps
    <3>3. \A i \in Slot : info.deleted[i] \in 0 .. lowest
      <4> SUFFICES ASSUME NEW i \in Slot PROVE info.deleted[i] \in 0 .. lowest OBVIOUS
      <4>1. info.deleted[i] \in Nat BY <1>4 DEF VectorInfos
      <4>2. info.deleted[i] # NotDeleted /\ info.anyDeleted BY <2>3
      <4>3. i \in 0 .. Capacity - 1 BY DEF Slot
      <4>4. ~(info.deleted[i] > lowest) BY <1>4, <2>2, <4>2, <4>3 DEF InfoVersionAbove
      <4> QED BY <4>1, <4>4
    <3>4. T \in SUBSET (0 .. lowest) /\ T # {} BY <3>3, ZeroIsVector
    <3>5. Min(T) \in T BY <3>4, LeastOf
    <3>6. PICK m \in Slot : Min(T) = info.deleted[m] BY <3>5
    <3>7. new = const BY <2>1, <2>2, <2>3
    <3>8. new = ConstantInfo(StampsAt(info, 0).ins, StampsAt(info, m).del) BY <3>1, <3>2, <3>6, <3>7
    <3> QED BY <2>3, <3>1, <3>8
  <2>4. ~all => new = NoInfo BY <2>1, <2>2
  <2> QED BY <2>2, <2>3, <2>4
<1> QED BY <1>1, <1>2, <1>3, <1>4, InfoKinds

\* The see-all view and stamps that are commit ids or above.
LEMMA SeeAllReads ==
    ASSUME NEW id \in Nat
    PROVE  /\ id < TxnIdStart => UseInsertedVersion(SeeAll(TxnIdStart), id)
           /\ id >= TxnIdStart => ~UseInsertedVersion(SeeAll(TxnIdStart), id)
BY StampAssumption DEF UseInsertedVersion, SeeAll

\* VACUUM of one row group: the infos it drops or folds are those the rebuild would
\* read alike, unless it drops marks.
LEMMA VacuumTracks ==
    ASSUME NEW I, NEW c \in CollectionOf(I), Layout(c), NEW h \in Seq(Row), Tracks(c, h), Len(c.groups) <= 1,
           NEW L \in Nat, L + 1 < TxnIdStart, StampsUpTo(h, L),
           \A k \in DOMAIN c.groups : ~DropsMarks(c.groups[k], L + 1),
           NEW e, e = CollectionCleanup(c, L + 1), NEW d, d = CollectionCompact(e, L)
    PROVE  Tracks(d, Compact(h, L))
<1>1. InfosCleaned(c, e, L + 1) BY CleanedLayout
<1>2. PICK J : e \in CollectionOf(J) BY <1>1 DEF InfosCleaned
<1>3. Layout(e) /\ Len(e.groups) = Len(c.groups) /\ e.total = c.total /\ e.groups \in Seq(GroupOf(J))
      /\ Len(c.groups) \in Nat
  BY <1>1, <1>2, CollectionTypes DEF InfosCleaned
<1>4. ASSUME Tracks(e, h) PROVE Tracks(d, Compact(h, L))
  <2>1. Len(e.groups) <= 1 BY <1>3
  <2> QED BY ONLY <1>2, <1>3, <1>4, <2>1, h \in Seq(Row), L \in Nat, d = CollectionCompact(e, L), CompactedTracks
<1>5. CASE c.groups = <<>>
  <2>1. Len(e.groups) = 0 /\ e.total = 0 /\ Len(h) = 0 BY <1>3, <1>5, NoGroups
  <2>2. e.groups = <<>> BY <1>3, <2>1, EmptySeq
  <2>3. Tracks(e, h) BY <2>1, <2>2 DEF Tracks, MarksTracked
  <2> QED BY <1>4, <2>3
<1>6. CASE c.groups # <<>>
  <2>1. PICK info, new : info = c.groups[1].infos[0] /\ new = e.groups[1].infos[0] OBVIOUS
  <2>2. /\ Len(c.groups) = 1 /\ DOMAIN c.groups = {1} /\ MarksShown(info) /\ info \in Info
        /\ Len(h) \in 0 .. Capacity /\ c.groups[1].count = Len(h) /\ DOMAIN h = 1 .. Len(h)
        /\ (Len(h) = 0 => info = NoInfo)
        /\ \A i \in 1 .. Len(h) : /\ i - 1 \in 0 .. Len(h) - 1
                                  /\ StampsAt(info, i - 1).ins = h[i].ins
                                  /\ StampsAt(info, i - 1).del = h[i].del
    BY <1>6, <2>1, OnlyInfo
  <2>3. Len(c.groups) = 1 /\ 1 \in 1 .. Len(c.groups) /\ Len(e.groups) = 1
    <3>1. 1 \in 1 .. 1 OBVIOUS
    <3> QED BY ONLY <1>3, <2>2, <3>1, Zenon
  <2>4. /\ e.groups[1].count = Len(h) /\ e.groups[1].vals = c.groups[1].vals
        /\ new = IF Len(h) = Capacity THEN InfoCleanup(info, L + 1) ELSE info
    BY <1>1, <2>1, <2>2, <2>3 DEF InfosCleaned
  <2>5. CASE new = info
    <3>1. MarksTracked(e.groups, h)
      <4>1. \A k \in 1 .. Len(e.groups) : k = 1 /\ k - 1 = 0
        <5>1. \A k \in 1 .. 1 : k = 1 /\ k - 1 = 0 OBVIOUS
        <5> QED BY ONLY <2>3, <5>1, Zenon
      <4>2. 1 - 1 \in Vector /\ 1 - 1 = 0 BY ZeroIsVector
      <4>3. \A i \in Slot : StampsAt(info, i).del = MarkOf(h, (1 - 1) * Capacity + i)
        BY <2>1, <2>3, <4>2 DEF Tracks, MarksTracked
      <4> QED BY ONLY <2>1, <2>2, <2>5, <4>1, <4>3 DEF MarksTracked
    <3>2. FirstTracked(e.groups[1], h)
      <4>1. FirstTracked(c.groups[1], h) BY <1>6 DEF Tracks
      <4> QED BY ONLY <2>1, <2>2, <2>4, <2>5, <4>1 DEF FirstTracked
    <3>3. Tracks(e, h) BY <1>3, <3>1, <3>2 DEF Tracks
    <3> QED BY <1>4, <3>3
  <2>6. CASE new # info
    <3>1. Len(h) = Capacity /\ new = InfoCleanup(info, L + 1) /\ L + 1 \in Nat BY <2>4, <2>6
    <3>2. /\ ~InfoVersionAbove(info, Capacity, L + 1)
          /\ \/ new = NoInfo
             \/ \E m \in Slot : /\ new = ConstantInfo(StampsAt(info, 0).ins, StampsAt(info, m).del)
                                /\ \A i \in Slot : StampsAt(info, i).del # NotDeleted
      BY ONLY <2>2, <2>6, <3>1, CleanedInfo
    <3>3. PICK n \in Nat \ {0} : n = Capacity BY LayoutAssumption
    <3>4. \A i \in 1 .. n : i - 1 \in Slot /\ (i - 1) + 1 = i /\ i - 1 \in 0 .. Capacity - 1 BY <3>3 DEF Slot
    <3>5. \A s \in Slot : s + 1 \in 1 .. n /\ (s + 1) - 1 = s BY <3>3 DEF Slot
    <3>6. ASSUME NEW i \in 1 .. n
          PROVE  /\ h[i] \in Row /\ h[i].ins \in Nat /\ h[i].del \in Nat
                 /\ h[i].ins <= L /\ (h[i].del = NotDeleted \/ h[i].del <= L)
      <4>1. h[i] \in Row BY <3>1, <3>3, ElementOfSeq
      <4>2. h[i].ins \in Nat /\ h[i].del \in Nat BY <4>1 DEF Row
      <4>3. ~(h[i].ins > L + 1) /\ ~(h[i].del # NotDeleted /\ h[i].del > L + 1)
        <5>1. ~\E s \in 0 .. Capacity - 1 :
                 \/ StampsAt(info, s).ins > L + 1
                 \/ StampsAt(info, s).del # NotDeleted /\ StampsAt(info, s).del > L + 1
          <6>1. n \in 0 .. Capacity /\ n # 0 BY <3>3
          <6>2. InfoVersionAbove(info, n, L + 1) <=>
                   \E s \in 0 .. n - 1 :
                      \/ StampsAt(info, s).ins > L + 1
                      \/ StampsAt(info, s).del # NotDeleted /\ StampsAt(info, s).del > L + 1
            BY <2>2, <3>1, <6>1, GateReadsStamps
          <6> QED BY ONLY <3>2, <3>3, <6>2
        <5>2. StampsAt(info, i - 1).ins = h[i].ins /\ StampsAt(info, i - 1).del = h[i].del BY <2>2, <3>1, <3>3
        <5>3. i - 1 \in 0 .. Capacity - 1 BY <3>4
        <5> QED BY ONLY <5>1, <5>2, <5>3
      <4>4. /\ h[i].ins <= L \/ h[i].ins >= TxnIdStart
            /\ h[i].del <= L \/ h[i].del >= TxnIdStart
        BY <3>1, <3>3 DEF StampsUpTo
      <4>5. TxnIdStart \in Nat BY StampAssumption
      <4> QED BY ONLY <4>1, <4>2, <4>3, <4>4, <4>5, L \in Nat, L + 1 < TxnIdStart
    <3>7. ~HasVersionAbove(h, L)
      <4>1. DOMAIN h = 1 .. n BY <2>2, <3>1, <3>3
      <4>2. \A i \in 1 .. n : ~(h[i].ins > L) /\ ~(h[i].del # NotDeleted /\ h[i].del > L) BY ONLY <3>6, L \in Nat
      <4> QED BY ONLY <4>1, <4>2 DEF HasVersionAbove
    <3>8. Compact(h, L) = Rebuilt(h)
      <4>1. Len(h) # 0 BY <3>1, <3>3
      <4> QED BY <3>7, <4>1 DEF Compact
    <3>9. \A s \in Slot : StampsAt(info, s).ins = h[s + 1].ins /\ StampsAt(info, s).del = h[s + 1].del
      BY ONLY <2>2, <3>1, <3>3, <3>5
    <3>10. ASSUME NEW i \in 1 .. n
           PROVE  ScannedRows(e)[i] = [key |-> h[i].key, ins |-> StampsAt(new, i - 1).ins, del |-> StampsAt(new, i - 1).del]
      <4>1. i \in 1 .. e.total /\ i \in 1 .. c.total /\ Len(e.groups) <= 1 BY <1>3, <3>1, <3>3 DEF Tracks
      <4>2. ScannedRows(e)[i] = [key |-> e.groups[1].vals[i],
                                 ins |-> StampsAt(e.groups[1].infos[0], i - 1).ins,
                                 del |-> StampsAt(e.groups[1].infos[0], i - 1).del]
        BY ONLY <1>2, <1>3, <4>1, OnlyGroupScan
      <4>3. c.groups[1].vals[i] = h[i].key
        <5>1. FirstTracked(c.groups[1], h) BY <1>6 DEF Tracks
        <5>2. i - 1 \in 0 .. c.groups[1].count - 1 /\ (i - 1) + 1 = i BY <2>2, <3>1, <3>4
        <5> QED BY ONLY <5>1, <5>2 DEF FirstTracked
      <4> QED BY ONLY <2>1, <2>4, <4>2, <4>3
    <3>11. /\ ~InfoVersionAbove(new, Capacity, L)
           /\ \A i \in 1 .. n : Visible(SeeAll(TxnIdStart), ScannedRows(e)[i]) <=> Visible(SeeAll(TxnIdStart), h[i])
      <4>1. TxnIdStart \in Nat /\ NotDeleted \in Nat /\ TxnIdStart < NotDeleted BY StampAssumption
      <4>2. CASE new = NoInfo
        <5>1. ~InfoVersionAbove(new, Capacity, L) BY <4>2 DEF InfoVersionAbove, NoInfo
        <5>2. \A s \in Slot : StampsAt(info, s).del = NotDeleted
          <6>1. e.groups[1] = GroupCleanup(c.groups[1], L + 1)
            <7>1. c \in CollectionOf(I) OBVIOUS
            <7> QED BY <2>2, <7>1 DEF CollectionCleanup, CollectionOf
          <6>2. GroupCleanup(c.groups[1], L + 1).infos[0] = NoInfo BY <2>1, <4>2, <6>1
          <6> QED BY <2>1, <2>2, <6>2 DEF DropsMarks
        <5>3. ASSUME NEW i \in 1 .. n
              PROVE  Visible(SeeAll(TxnIdStart), ScannedRows(e)[i]) /\ Visible(SeeAll(TxnIdStart), h[i])
          <6>1. ScannedRows(e)[i].ins = 0 /\ ScannedRows(e)[i].del = NotDeleted
            <7>1. PICK row, key : row = ScannedRows(e)[i] /\ key = h[i].key OBVIOUS
            <7>2. row = [key |-> key, ins |-> StampsAt(new, i - 1).ins, del |-> StampsAt(new, i - 1).del] BY <3>10, <7>1
            <7>3. row.ins = StampsAt(new, i - 1).ins /\ row.del = StampsAt(new, i - 1).del BY ONLY <7>2
            <7>4. StampsAt(new, i - 1).ins = 0 /\ StampsAt(new, i - 1).del = NotDeleted BY ONLY <4>2, NoInfoStamps
            <7> QED BY ONLY <7>1, <7>3, <7>4
          <6>2. h[i].del = NotDeleted BY <2>2, <3>1, <3>3, <3>4, <5>2
          <6>3. h[i].ins \in Nat /\ h[i].ins < TxnIdStart /\ 0 < TxnIdStart /\ 0 \in Nat
            BY <3>6, <4>1
          <6>4. UseInsertedVersion(SeeAll(TxnIdStart), 0) /\ UseInsertedVersion(SeeAll(TxnIdStart), h[i].ins)
                /\ ~UseInsertedVersion(SeeAll(TxnIdStart), NotDeleted)
            BY <4>1, <6>3, SeeAllReads
          <6> QED BY ONLY <6>1, <6>2, <6>4 DEF Visible, UseDeletedVersion
        <5> QED BY <5>1, <5>3
      <4>3. ASSUME NEW m \in Slot, new = ConstantInfo(StampsAt(info, 0).ins, StampsAt(info, m).del),
                   \A s \in Slot : StampsAt(info, s).del # NotDeleted
            PROVE  /\ ~InfoVersionAbove(new, Capacity, L)
                   /\ \A i \in 1 .. n : ~Visible(SeeAll(TxnIdStart), ScannedRows(e)[i]) /\ ~Visible(SeeAll(TxnIdStart), h[i])
        <5>1. PICK x, y : x = StampsAt(info, 0).ins /\ y = StampsAt(info, m).del OBVIOUS
        <5>2. x \in Nat /\ x <= L
          <6>1. 0 + 1 \in 1 .. n /\ x = h[0 + 1].ins BY <3>5, <3>9, <5>1, ZeroIsVector
          <6> QED BY ONLY <3>6, <6>1
        <5>3. y \in Nat /\ y <= L
          <6>1. m + 1 \in 1 .. n /\ y = h[m + 1].del /\ y # NotDeleted BY <3>5, <3>9, <4>3, <5>1
          <6> QED BY ONLY <3>6, <6>1
        <5>4. new.kind = "constant" /\ new.insertId = x /\ new.deleteId = y BY <4>3, <5>1 DEF ConstantInfo
        <5>5. ~InfoVersionAbove(new, Capacity, L) BY <5>2, <5>3, <5>4 DEF InfoVersionAbove
        <5>6. ASSUME NEW i \in 1 .. n
              PROVE  ~Visible(SeeAll(TxnIdStart), ScannedRows(e)[i]) /\ ~Visible(SeeAll(TxnIdStart), h[i])
          <6>1. StampsAt(new, i - 1).del = y BY <5>4, KindStamps
          <6>2. ScannedRows(e)[i].del = y
            <7>1. PICK row, key : row = ScannedRows(e)[i] /\ key = h[i].key OBVIOUS
            <7>2. row = [key |-> key, ins |-> StampsAt(new, i - 1).ins, del |-> StampsAt(new, i - 1).del] BY <3>10, <7>1
            <7>3. row.del = StampsAt(new, i - 1).del BY ONLY <7>2
            <7> QED BY ONLY <6>1, <7>1, <7>3
          <6>3. h[i].del # NotDeleted BY <2>2, <3>1, <3>3, <3>4, <4>3
          <6>4. h[i].del \in Nat /\ h[i].del < TxnIdStart /\ y < TxnIdStart BY <3>6, <4>1, <5>3, <6>3
          <6>5. UseInsertedVersion(SeeAll(TxnIdStart), y) /\ UseInsertedVersion(SeeAll(TxnIdStart), h[i].del)
            BY <5>3, <6>4, SeeAllReads
          <6> QED BY ONLY <6>2, <6>5 DEF Visible, UseDeletedVersion
        <5> QED BY <5>5, <5>6
      <4> QED BY <3>2, <4>2, <4>3
    <3>12. ~VersionAbove(e, L)
      <4>1. DOMAIN e.groups = {1}
        <5>1. DOMAIN e.groups = 1 .. Len(e.groups) BY ONLY <1>2, CollectionTypes
        <5>2. 1 .. 1 = {1} OBVIOUS
        <5> QED BY ONLY <2>3, <5>1, <5>2, Zenon
      <4> QED BY <2>1, <2>4, <3>1, <3>11, <4>1 DEF VersionAbove
    <3>13. Rebuilt(ScannedRows(e)) = Rebuilt(h)
      <4>1. DOMAIN ScannedRows(e) = 1 .. n /\ DOMAIN h = 1 .. n BY <1>3, <2>2, <3>1, <3>3 DEF Tracks, ScannedRows
      <4>2. ASSUME NEW i \in 1 .. n PROVE ScannedRows(e)[i].key = h[i].key
        <5>1. PICK row, key, x, y :
                 row = ScannedRows(e)[i] /\ key = h[i].key /\ x = StampsAt(new, i - 1).ins /\ y = StampsAt(new, i - 1).del
          OBVIOUS
        <5>2. row = [key |-> key, ins |-> x, del |-> y] BY <3>10, <5>1
        <5>3. row.key = key BY ONLY <5>2
        <5> QED BY ONLY <5>1, <5>3
      <4>3. n \in Nat OBVIOUS
      <4> QED BY ONLY <3>11, <4>1, <4>2, <4>3, SameRebuild
    <3>14. d = CollectionAppend(EmptyCollection, KeysOf(Rebuilt(h)), 0)
      <4>1. e.total # 0 BY <1>3, <3>1, <3>3 DEF Tracks
      <4> QED BY <3>12, <3>13, <4>1 DEF CollectionCompact, KeysOf
    <3>15. Len(h) <= MaxRows BY DEF Tracks, Layout
    <3> QED BY ONLY <3>8, <3>14, <3>15, h \in Seq(Row), RebuiltTracks
  <2> QED BY <2>5, <2>6
<1> QED BY <1>5, <1>6

-----------------------------------------------------------------------------
(* The messages on a collection c and its rows h.                          *)

\* The append of one message.
LEMMA AppendStep ==
    ASSUME NEW c, NEW h, LaidOut(c, h), NEW vals \in Seq(Nat), c.total + Len(vals) <= MaxRows, NEW id \in Nat,
           NEW d, d = CollectionAppend(c, vals, id), NEW g, g = AppendRows(h, vals, id)
    PROVE  LaidOut(d, g) /\ (Tracks(c, h) => Tracks(d, g))
<1>1. PICK I : c \in CollectionOf(I) BY DEF LaidOut
<1>2. Layout(c) /\ h \in Seq(Row) BY DEF LaidOut
<1>3. PICK b, last : b = Base(c) /\ last = LastOf(b) OBVIOUS
<1>4. (\E J : d \in CollectionOf(J)) /\ Layout(d) BY <1>1, <1>2, <1>3, AppendedLayout
<1>5. g \in Seq(Row) BY <1>2, AppendedRows
<1>6. Tracks(c, h) => Tracks(d, g) BY <1>1, <1>2, AppendedTracks
<1> QED BY <1>4, <1>5, <1>6 DEF LaidOut

\* The row ids of ids are rows of c.
RowsOf(c, ids) == ids \subseteq 0 .. c.total - 1

\* What a delete keeps.
MarksAdded(c, h, d, g) ==
    LaidOut(d, g) /\ d.total = c.total /\ Len(g) = Len(h) /\ (Tracks(c, h) => Tracks(d, g))

\* The delete of one message.
LEMMA DeleteStep ==
    ASSUME NEW c, NEW h, LaidOut(c, h), NEW ids, RowsOf(c, ids), NEW id \in Nat,
           NEW d, d = CollectionDelete(c, ids, id), NEW g, g = MarkDeleted(h, Positions(ids), id)
    PROVE  MarksAdded(c, h, d, g)
<1>1. PICK I : c \in CollectionOf(I) BY DEF LaidOut
<1>2. Layout(c) /\ h \in Seq(Row) BY DEF LaidOut
<1>3. g = MarkDeleted(h, {i + 1 : i \in ids}, id) BY DEF Positions
<1>4. InfosDeleted(c, d, ids, id) BY <1>1, <1>2, DeletedLayout DEF RowsOf
<1>5. g \in Seq(Row) /\ Len(g) = Len(h) BY <1>2, <1>3, StampedRows
<1>6. Tracks(c, h) => Tracks(d, g)
  <2>1. ids \subseteq 0 .. c.total - 1 BY DEF RowsOf
  <2> QED BY <1>1, <1>2, <1>3, <2>1, DeletedTracks
<1>7. (\E J : d \in CollectionOf(J)) /\ Layout(d) /\ d.total = c.total BY <1>4 DEF InfosDeleted
<1> QED BY <1>5, <1>6, <1>7 DEF LaidOut, MarksAdded

\* What a commit of the rows R with the id own keeps.
RowsStamped(c, h, d, g, R, own) ==
    LaidOut(d, g) /\ (Tracks(c, h) /\ Exact(h, R, own) => Tracks(d, g))

\* The commit of the ranges of one transaction.
LEMMA CommitStep ==
    ASSUME NEW c, NEW h, LaidOut(c, h), NEW rs, NEW id \in Nat,
           NEW d, d = CollectionCommitAppend(c, rs, id), NEW g, g = CommitAppend(h, Positions(RangeRows(rs)), id),
           NEW own, own # 0
    PROVE  RowsStamped(c, h, d, g, RangeRows(rs), own)
<1>1. PICK I : c \in CollectionOf(I) BY DEF LaidOut
<1>2. Layout(c) /\ h \in Seq(Row) BY DEF LaidOut
<1>3. g = CommitAppend(h, {i + 1 : i \in RangeRows(rs)}, id) BY DEF Positions
<1>4. InfosCommitted(c, d, rs, id) BY <1>1, <1>2, CommittedLayout
<1>5. g \in Seq(Row) BY <1>2, <1>3, StampedRows
<1>6. ASSUME Tracks(c, h), Exact(h, RangeRows(rs), own) PROVE Tracks(d, g)
  <2>1. /\ RangeRows(rs) \subseteq 0 .. Len(h) - 1
        /\ \A i \in 1 .. Len(h) : h[i].ins = own <=> i - 1 \in RangeRows(rs)
    BY <1>6 DEF Exact
  <2> QED BY <1>1, <1>2, <1>3, <1>6, <2>1, CommittedTracks
<1>7. (\E J : d \in CollectionOf(J)) /\ Layout(d) BY <1>4 DEF InfosCommitted
<1> QED BY <1>5, <1>6, <1>7 DEF LaidOut, RowsStamped

\* The commit or the revert of the deletes of one transaction.
LEMMA RestampStep ==
    ASSUME NEW c, NEW h, LaidOut(c, h), NEW from \in Nat, from # NotDeleted, NEW to \in Nat,
           NEW d, d = CollectionRestamp(c, from, to), NEW g, g = RestampDeletes(h, from, to)
    PROVE  LaidOut(d, g) /\ (Tracks(c, h) => Tracks(d, g))
<1>1. PICK I : c \in CollectionOf(I) BY DEF LaidOut
<1>2. Layout(c) /\ h \in Seq(Row) BY DEF LaidOut
<1>3. InfosRestamped(c, d, from, to) BY <1>1, <1>2, RestampedLayout
<1>4. g \in Seq(Row) BY <1>2, RestampedRows
<1>5. Tracks(c, h) => Tracks(d, g) BY <1>1, <1>2, RestampedTracks
<1>6. (\E J : d \in CollectionOf(J)) /\ Layout(d) BY <1>3 DEF InfosRestamped
<1> QED BY <1>4, <1>5, <1>6 DEF LaidOut

\* compact().
LEMMA CompactStep ==
    ASSUME NEW c, NEW h, LaidOut(c, h), NEW w \in Nat, NEW d, d = CollectionCompact(c, w), NEW g, g = Compact(h, w)
    PROVE  LaidOut(d, g) /\ (Tracks(c, h) /\ Len(c.groups) <= 1 => Tracks(d, g))
<1>1. PICK I : c \in CollectionOf(I) BY DEF LaidOut
<1>2. Layout(c) /\ h \in Seq(Row) BY DEF LaidOut
<1>3. (\E J : d \in CollectionOf(J)) /\ Layout(d) BY <1>1, <1>2, CompactedLayout
<1>4. g \in Seq(Row) BY <1>2, RebuiltRows DEF Compact
<1>5. Tracks(c, h) /\ Len(c.groups) <= 1 => Tracks(d, g) BY <1>1, <1>2, CompactedTracks
<1> QED BY <1>3, <1>4, <1>5 DEF LaidOut

\* What VACUUM with the last commit id L keeps.
Vacuumed(c, h, d, g, L) ==
    /\ LaidOut(d, g)
    /\ (/\ Tracks(c, h) /\ Len(c.groups) <= 1
        /\ \A k \in DOMAIN c.groups : ~DropsMarks(c.groups[k], L + 1)) => Tracks(d, g)

\* VACUUM.
LEMMA VacuumStep ==
    ASSUME NEW c, NEW h, LaidOut(c, h), NEW L \in Nat, L + 1 < TxnIdStart, StampsUpTo(h, L),
           NEW e, e = CollectionCleanup(c, L + 1), NEW d, d = CollectionCompact(e, L), NEW g, g = Compact(h, L)
    PROVE  Vacuumed(c, h, d, g, L)
<1>1. PICK I : c \in CollectionOf(I) BY DEF LaidOut
<1>2. Layout(c) /\ h \in Seq(Row) BY DEF LaidOut
<1>3. InfosCleaned(c, e, L + 1) BY <1>1, <1>2, CleanedLayout
<1>4. LaidOut(e, h) BY <1>2, <1>3 DEF LaidOut, InfosCleaned
<1>5. LaidOut(d, g) BY <1>4, CompactStep
<1>6. ASSUME Tracks(c, h), Len(c.groups) <= 1, \A k \in DOMAIN c.groups : ~DropsMarks(c.groups[k], L + 1)
      PROVE  Tracks(d, g)
  BY <1>1, <1>2, <1>6, VacuumTracks
<1> QED BY <1>5, <1>6 DEF Vacuumed

-----------------------------------------------------------------------------
(* Stamps and ranges.                                                      *)

\* Pending ids lie between the commit ids and NOT_DELETED_ID.
LEMMA TxnIds ==
    /\ TxnIdStart \in Nat /\ NotDeleted \in Nat /\ TxnIdStart > 0 /\ NotDeleted > TxnIdStart
    /\ \A t \in Writer : TxnId(t) \in Nat /\ TxnId(t) >= TxnIdStart /\ TxnId(t) # NotDeleted /\ TxnId(t) # 0
    /\ \A t, u \in Writer : TxnId(t) = TxnId(u) => t = u
BY StampAssumption, LayoutAssumption DEF TxnId

\* The stamps of rows.
LEMMA RowStamps == ASSUME NEW h \in Seq(Row), NEW i \in 1 .. Len(h) PROVE h[i].ins \in Nat /\ h[i].del \in Nat
<1>1. h[i] \in Row BY ElementOfSeq
<1> QED BY <1>1 DEF Row

\* An append.
LEMMA AppendStamps ==
    ASSUME NEW h \in Seq(Row), NEW vals \in Seq(Nat), NEW id \in Nat, NEW g, g = AppendRows(h, vals, id)
    PROVE  /\ \A L \in Nat : StampsUpTo(h, L) /\ id >= TxnIdStart => StampsUpTo(g, L)
           /\ \A R, own : Exact(h, R, own) /\ own # id => Exact(g, R, own)
           /\ \A R : Exact(h, R, id) => Exact(g, R \cup (Len(h) .. Len(h) + Len(vals) - 1), id)
<1>1. PICK n \in Nat, m \in Nat : n = Len(h) /\ m = Len(vals) BY LenProperties
<1>2. Len(g) = n + m BY <1>1, AppendedRows
<1>3. RowsAppended(h, g, vals, id) BY AppendedMarks
<1>4. \A i \in 1 .. n : g[i] = h[i] BY <1>1, <1>3 DEF RowsAppended
<1>5. \A i \in n + 1 .. n + m : g[i].ins = id /\ g[i].del = NotDeleted
  <2> SUFFICES ASSUME NEW i \in n + 1 .. n + m PROVE g[i].ins = id /\ g[i].del = NotDeleted OBVIOUS
  <2>1. PICK key : key = vals[i - n] OBVIOUS
  <2>2. g[i] = [key |-> key, ins |-> id, del |-> NotDeleted] BY ONLY <1>1, <1>3, <2>1, i \in n + 1 .. n + m DEF RowsAppended
  <2> QED BY ONLY <2>2
<1>6. \A i \in 1 .. n + m : i \in 1 .. n \/ i \in n + 1 .. n + m OBVIOUS
<1>7. ASSUME NEW L \in Nat, StampsUpTo(h, L), id >= TxnIdStart PROVE StampsUpTo(g, L)
  <2>1. \A i \in n + 1 .. n + m : g[i].ins >= TxnIdStart /\ g[i].del >= TxnIdStart BY <1>5, <1>7, TxnIds
  <2>2. \A i \in 1 .. n : (g[i].ins <= L \/ g[i].ins >= TxnIdStart) /\ (g[i].del <= L \/ g[i].del >= TxnIdStart)
    BY ONLY <1>1, <1>4, <1>7 DEF StampsUpTo
  <2> QED BY ONLY <1>2, <1>6, <2>1, <2>2 DEF StampsUpTo
<1>8. ASSUME NEW R, NEW own, Exact(h, R, own), own # id PROVE Exact(g, R, own)
  <2>1. R \subseteq 0 .. n - 1 /\ \A i \in 1 .. n : g[i].ins = own <=> i - 1 \in R BY ONLY <1>1, <1>4, <1>8 DEF Exact
  <2>2. \A i \in n + 1 .. n + m : i - 1 \notin 0 .. n - 1 OBVIOUS
  <2>3. \A i \in n + 1 .. n + m : g[i].ins # own /\ i - 1 \notin R BY ONLY <1>5, <1>8, <2>1, <2>2
  <2>4. R \subseteq 0 .. Len(g) - 1
    <3>1. 0 .. n - 1 \subseteq 0 .. n + m - 1 OBVIOUS
    <3> QED BY ONLY <1>2, <2>1, <3>1
  <2> QED BY ONLY <1>2, <1>6, <2>1, <2>3, <2>4 DEF Exact
<1>9. ASSUME NEW R, Exact(h, R, id) PROVE Exact(g, R \cup (n .. n + m - 1), id)
  <2>1. R \subseteq 0 .. n - 1 /\ \A i \in 1 .. n : g[i].ins = id <=> i - 1 \in R BY ONLY <1>1, <1>4, <1>9 DEF Exact
  <2>2. \A i \in n + 1 .. n + m : i - 1 \in n .. n + m - 1 OBVIOUS
  <2>3. \A i \in 1 .. n : i - 1 \notin n .. n + m - 1 OBVIOUS
  <2>4. R \cup (n .. n + m - 1) \subseteq 0 .. Len(g) - 1
    <3>1. 0 .. n - 1 \subseteq 0 .. n + m - 1 /\ n .. n + m - 1 \subseteq 0 .. n + m - 1 OBVIOUS
    <3> QED BY ONLY <1>2, <2>1, <3>1
  <2>5. ASSUME NEW i \in 1 .. n + m PROVE g[i].ins = id <=> i - 1 \in R \cup (n .. n + m - 1)
    BY ONLY <1>5, <1>6, <2>1, <2>2, <2>3, <2>5
  <2> QED BY ONLY <1>2, <2>4, <2>5 DEF Exact
<1> QED BY <1>1, <1>7, <1>8, <1>9

\* A message that leaves the insert stamps.
LEMMA SameInserts ==
    ASSUME NEW h \in Seq(Row), NEW g, Len(g) = Len(h), \A i \in 1 .. Len(h) : g[i].ins = h[i].ins
    PROVE  \A R, own : Exact(h, R, own) => Exact(g, R, own)
BY DEF Exact

\* A delete.
LEMMA DeleteStamps ==
    ASSUME NEW h \in Seq(Row), NEW P, NEW id \in Nat, id >= TxnIdStart, NEW g, g = MarkDeleted(h, P, id)
    PROVE  /\ \A L \in Nat : StampsUpTo(h, L) => StampsUpTo(g, L)
           /\ \A R, own : Exact(h, R, own) => Exact(g, R, own)
<1>1. g \in Seq(Row) /\ Len(g) = Len(h) /\ DOMAIN h = 1 .. Len(h) BY StampedRows, LenProperties
<1>2. ASSUME NEW i \in 1 .. Len(h) PROVE g[i].ins = h[i].ins /\ (g[i].del = h[i].del \/ g[i].del = id)
  <2>1. h[i] \in Row BY ElementOfSeq
  <2>2. g[i] = IF i \in P /\ h[i].del = NotDeleted THEN [h[i] EXCEPT !.del = id] ELSE h[i] BY <1>1 DEF MarkDeleted
  <2> QED BY ONLY <2>1, <2>2 DEF Row
<1>3. \A R, own : Exact(h, R, own) => Exact(g, R, own) BY <1>1, <1>2, SameInserts
<1>4. \A L \in Nat : StampsUpTo(h, L) => StampsUpTo(g, L) BY <1>1, <1>2 DEF StampsUpTo
<1> QED BY <1>3, <1>4

\* The stamps after a commit that follows the commit id L.
CommitGiven(h, g, R, L) ==
    /\ StampsUpTo(g, L + 1)
    /\ \A own, Q, mine : Exact(h, R, mine) /\ Exact(h, Q, own) /\ own # mine /\ own # L + 1 => Exact(g, Q, own)

\* The commit of the rows of R.
LEMMA CommitStamps ==
    ASSUME NEW h \in Seq(Row), NEW R, R \subseteq Int, NEW L \in Nat, L + 1 < TxnIdStart, StampsUpTo(h, L),
           NEW g, g = CommitAppend(h, Positions(R), L + 1)
    PROVE  CommitGiven(h, g, R, L)
<1>1. RowsCommitted(h, g, R, L + 1)
  <2>1. PICK id \in Nat : id = L + 1 OBVIOUS
  <2>2. g = CommitAppend(h, {i + 1 : i \in R}, id) BY <2>1 DEF Positions
  <2>3. RowsCommitted(h, g, R, id) BY ONLY <2>2, h \in Seq(Row), R \subseteq Int, id \in Nat, CommittedRows
  <2> QED BY <2>1, <2>3
<1>2. /\ Len(g) = Len(h)
      /\ \A i \in 1 .. Len(h) : g[i].del = h[i].del /\ g[i].ins = IF i - 1 \in R THEN L + 1 ELSE h[i].ins
  BY <1>1 DEF RowsCommitted
<1>3. \A i \in 1 .. Len(h) : h[i].ins \in Nat /\ h[i].del \in Nat BY RowStamps
<1>4. StampsUpTo(g, L + 1)
  <2> SUFFICES ASSUME NEW i \in 1 .. Len(h)
               PROVE  /\ g[i].ins <= L + 1 \/ g[i].ins >= TxnIdStart
                      /\ g[i].del <= L + 1 \/ g[i].del >= TxnIdStart
    BY <1>2 DEF StampsUpTo
  <2>1. (h[i].ins <= L \/ h[i].ins >= TxnIdStart) /\ (h[i].del <= L \/ h[i].del >= TxnIdStart) BY DEF StampsUpTo
  <2>2. PICK x \in Nat, y \in Nat : x = h[i].ins /\ y = h[i].del BY <1>3
  <2>3. (x <= L + 1 \/ x >= TxnIdStart) /\ (y <= L + 1 \/ y >= TxnIdStart) BY ONLY <2>1, <2>2, L \in Nat, x \in Nat, y \in Nat
  <2>4. L + 1 <= L + 1 OBVIOUS
  <2> QED BY ONLY <1>2, <2>2, <2>3, <2>4, i \in 1 .. Len(h)
<1>5. ASSUME NEW own, NEW Q, NEW mine, Exact(h, R, mine), Exact(h, Q, own), own # mine, own # L + 1
      PROVE  Exact(g, Q, own)
  <2>1. \A i \in 1 .. Len(h) : (h[i].ins = mine <=> i - 1 \in R) /\ (h[i].ins = own <=> i - 1 \in Q) BY <1>5 DEF Exact
  <2>2. \A i \in 1 .. Len(h) : g[i].ins = own <=> i - 1 \in Q BY ONLY <1>2, <1>5, <2>1
  <2> QED BY <1>2, <1>5, <2>2 DEF Exact
<1> QED BY <1>4, <1>5 DEF CommitGiven

\* The commit or the revert of deletes.
LEMMA RestampStamps ==
    ASSUME NEW h \in Seq(Row), NEW L \in Nat, NEW from \in Nat, from # NotDeleted,
           NEW to \in Nat, to <= L \/ to >= TxnIdStart, NEW g, g = RestampDeletes(h, from, to)
    PROVE  /\ StampsUpTo(h, L) => StampsUpTo(g, L)
           /\ \A R, own : Exact(h, R, own) => Exact(g, R, own)
<1>1. RowsRestamped(h, g, from, to) BY RestampedMarks
<1>2. /\ Len(g) = Len(h)
      /\ \A i \in 1 .. Len(h) : g[i].ins = h[i].ins /\ g[i].del = IF h[i].del = from THEN to ELSE h[i].del
  BY <1>1 DEF RowsRestamped
<1>3. StampsUpTo(h, L) => StampsUpTo(g, L) BY <1>2 DEF StampsUpTo
<1> QED BY <1>2, <1>3, SameInserts

\* compact() runs when no writer has pending rows, and is refused otherwise.
LEMMA CompactStamps ==
    ASSUME NEW h \in Seq(Row), NEW L \in Nat, NEW w \in Nat, w < TxnIdStart, StampsUpTo(h, L), NEW g, g = Compact(h, w)
    PROVE  /\ StampsUpTo(g, L)
           /\ \A R : \A own \in Nat : Exact(h, R, own) /\ own >= TxnIdStart => Exact(g, R, own)
<1>1. CASE Len(h) = 0 \/ HasVersionAbove(h, w) BY <1>1 DEF Compact
<1>2. CASE ~(Len(h) = 0 \/ HasVersionAbove(h, w))
  <2>1. g = Rebuilt(h) BY <1>2 DEF Compact
  <2>2. g \in Seq(Row) /\ Len(g) \in Nat /\ DOMAIN g = 1 .. Len(g) BY <2>1, RebuiltRows, LenProperties
  <2>3. \A k \in 1 .. Len(g) : g[k].ins = 0 /\ g[k].del = NotDeleted
    <3>1. \A k \in DOMAIN Rebuilt(h) : \E i \in LivePositions(h) :
            Rebuilt(h)[k] = [key |-> h[i].key, ins |-> 0, del |-> NotDeleted]
      BY RebuiltRows
    <3> QED BY <2>1, <2>2, <3>1
  <2>4. StampsUpTo(g, L) BY <2>3, TxnIds DEF StampsUpTo
  <2>5. ASSUME NEW R, NEW own \in Nat, Exact(h, R, own), own >= TxnIdStart PROVE Exact(g, R, own)
    <3>1. PICK n \in Nat : n = Len(h) /\ DOMAIN h = 1 .. n BY LenProperties
    <3>2. \A i \in 1 .. n : h[i].ins \in Nat /\ ~(h[i].ins > w)
      <4>1. \A i \in 1 .. n : h[i].ins \in Nat BY <3>1, RowStamps
      <4> QED BY <1>2, <3>1, <4>1 DEF HasVersionAbove
    <3>3. \A i \in 1 .. n : i - 1 \notin R
      <4>1. \A i \in 1 .. n : h[i].ins # own BY <2>5, <3>2, TxnIds
      <4> QED BY <2>5, <3>1, <4>1 DEF Exact
    <3>4. R \subseteq 0 .. n - 1 BY <2>5, <3>1 DEF Exact
    <3>5. R = {}
      <4> SUFFICES ASSUME NEW r \in R PROVE FALSE OBVIOUS
      <4>1. r + 1 \in 1 .. n /\ (r + 1) - 1 = r BY <3>4
      <4> QED BY <3>3, <4>1
    <3>6. own # 0 BY <2>5, TxnIds
    <3> QED BY <2>3, <3>5, <3>6 DEF Exact
  <2> QED BY <2>4, <2>5
<1> QED BY <1>1, <1>2

\* A transaction's ranges after one more append.
LEMMA OneMoreRange ==
    ASSUME NEW rs \in Seq(AppendRange), NEW r \in AppendRange, NEW new, new = Append(rs, r)
    PROVE  new \in Seq(AppendRange) /\ RangeRows(new) = RangeRows(rs) \cup (r.start .. r.start + r.count - 1)
<1>1. PICK start \in Nat, count \in Nat : start = r.start /\ count = r.count BY DEF AppendRange
<1>2. r \in AppendRange /\ r.start = start /\ r.count = count BY <1>1
<1>3. PICK m \in Nat : m = Len(rs) /\ DOMAIN rs = 1 .. m BY LenProperties
<1>4. /\ new \in Seq(AppendRange) /\ Len(new) = m + 1
      /\ \A j \in 1 .. m : new[j] = rs[j]
      /\ new[m + 1] = r
  BY <1>3, AppendProperties
<1>5. DOMAIN new = 1 .. m + 1 BY <1>4, LenProperties
<1>6. \A x : x \in RangeRows(new) <=> \E j \in 1 .. m + 1 : x \in new[j].start .. new[j].start + new[j].count - 1
  BY ONLY <1>5 DEF RangeRows
<1>7. \A x : x \in RangeRows(rs) <=> \E j \in 1 .. m : x \in rs[j].start .. rs[j].start + rs[j].count - 1
  BY ONLY <1>3 DEF RangeRows
<1>8. \A j \in 1 .. m + 1 : j \in 1 .. m \/ j = m + 1 OBVIOUS
<1>9. \A j \in 1 .. m : j \in 1 .. m + 1 OBVIOUS
<1>10. m + 1 \in 1 .. m + 1 OBVIOUS
<1>11. \A x : x \in RangeRows(new) <=> x \in RangeRows(rs) \/ x \in start .. start + count - 1
  BY ONLY <1>2, <1>4, <1>6, <1>7, <1>8, <1>9, <1>10
<1>12. RangeRows(new) = RangeRows(rs) \cup (start .. start + count - 1) BY ONLY <1>11
<1> QED BY <1>1, <1>4, <1>12

\* There are fewer commit ids than writers, all of them below the pending ids.
LEMMA CommitIdsBelow ==
    ASSUME WriterTypes, CommitIds
    PROVE  lastCommit \in Nat /\ lastCommit + 1 < TxnIdStart
<1> DEFINE S == {t \in Writer : status[t] # "open"}
<1>1. IsFiniteSet(Writer) /\ Cardinality(Writer) + 1 < TxnIdStart BY LayoutAssumption
<1>2. S \subseteq Writer OBVIOUS
<1>3. Cardinality(S) <= Cardinality(Writer) /\ Cardinality(S) \in Nat /\ Cardinality(Writer) \in Nat
  <2> HIDE DEF S
  <2>1. IsFiniteSet(S) /\ Cardinality(S) <= Cardinality(Writer) BY <1>1, <1>2, FS_Subset
  <2> QED BY <1>1, <2>1, FS_CardinalityType
<1>4. lastCommit \in Nat /\ lastCommit <= Cardinality(S) BY DEF WriterTypes, CommitIds, Closed
<1> QED BY ONLY <1>1, <1>3, <1>4, TxnIds

\* The rows a statement has scanned are rows of the table.
LEMMA ScannableRows ==
    ASSUME LayoutInv, NEW t \in Writer, NEW ids \in SUBSET ScannableBy(t)
    PROVE  ids \subseteq 0 .. coll.total - 1 /\ coll.total \in Nat /\ IsFiniteSet(ids) /\ Cardinality(ids) \in Nat
<1>1. coll.total \in Nat BY CollectionTypes DEF LayoutInv, LaidOut
<1>2. DOMAIN ScannedRows(coll) = 1 .. coll.total BY DEF ScannedRows
<1>3. ids \subseteq 0 .. coll.total - 1 BY <1>1, <1>2 DEF ScannableBy
<1>4. IsFiniteSet(0 .. coll.total - 1) BY <1>1, FS_Interval
<1>5. IsFiniteSet(ids) BY <1>3, <1>4, FS_Subset
<1> QED BY <1>1, <1>3, <1>5, FS_CardinalityType

\* The values a statement gives to n new rows.
LEMMA NewValues ==
    ASSUME NEW k \in Nat, NEW n \in Nat, NEW vals, vals = [i \in 1 .. n |-> k + i - 1]
    PROVE  vals \in Seq(Nat) /\ Len(vals) = n
<1>1. \A i \in 1 .. n : k + i - 1 \in Nat OBVIOUS
<1>2. vals \in [1 .. n -> Nat] BY <1>1
<1>3. vals \in Seq(Nat) BY <1>2, SeqDef
<1> QED BY <1>2, <1>3, LenProperties

-----------------------------------------------------------------------------
(* The invariant.                                                          *)

\* It holds at the start.
LEMMA CollectionInit == Init => CollectionInv
<1> SUFFICES ASSUME Init PROVE CollectionInv OBVIOUS
<1>1. WriterTypes
  <2>1. <<>> \in Seq(AppendRange) BY EmptySeq
  <2> QED BY <2>1 DEF WriterTypes, Init, Status
<1>2. CommitIds
  <2>1. Closed(status) = {} BY DEF Init, Closed
  <2>2. Cardinality({}) = 0 BY FS_EmptySet
  <2>3. lastCommit = 0 /\ \A t \in Writer : commitId[t] = 0 BY DEF Init
  <2>4. 0 <= 0 OBVIOUS
  <2> QED BY ONLY <2>1, <2>2, <2>3, <2>4 DEF CommitIds
<1>3. <<>> \in Seq(Row) /\ Len(<<>>) = 0 BY EmptySeq
<1>4. LayoutInv BY <1>3, EmptyLayout DEF LayoutInv, LaidOut, Init
<1>5. StampsGiven BY <1>3 DEF StampsGiven, StampsUpTo, Init
<1>6. Tracks(coll, heap) BY EmptyTracks DEF Init
<1>7. RangesExact
  <2> SUFFICES ASSUME NEW t \in Writer PROVE Exact(heap, RangeRows(ranges[t]), TxnId(t)) BY DEF RangesExact
  <2>1. ranges[t] = <<>> /\ heap = <<>> BY DEF Init
  <2>2. DOMAIN <<>> = {} BY EmptySeq
  <2>3. RangeRows(<<>>) = {} BY <2>2 DEF RangeRows
  <2> QED BY <1>3, <2>1, <2>3 DEF Exact
<1> QED BY <1>1, <1>2, <1>4, <1>5, <1>6, <1>7 DEF CollectionInv

\* The writers after an append by t of n rows.
LEMMA AppendedWriters ==
    ASSUME CollectionInv, NEW t \in Writer, NEW n \in Nat, NEW vals \in Seq(Nat), Len(vals) = n, NEW h \in Seq(Row),
           status[t] = "open", nextKey' = nextKey + n,
           ranges' = [ranges EXCEPT ![t] = Append(@, [start |-> coll.total, count |-> n])],
           UNCHANGED <<status, commitId, lastCommit, misread>>,
           heap' = AppendRows(h, vals, TxnId(t)),
           ~misread => Len(h) = coll.total,
           \A R, own : Exact(heap, R, own) => Exact(h, R, own),
           StampsUpTo(h, lastCommit)
    PROVE  WriterTypes' /\ CommitIds' /\ StampsGiven' /\ (~misread => RangesExact')
<1>1. coll.total \in Nat BY CollectionTypes DEF CollectionInv, LayoutInv, LaidOut
<1>2. WriterTypes /\ CommitIds BY DEF CollectionInv
<1>3. ranges[t] \in Seq(AppendRange) /\ ranges \in [Writer -> Seq(AppendRange)] BY <1>2 DEF WriterTypes
<1>4. PICK new : new = Append(ranges[t], [start |-> coll.total, count |-> n]) OBVIOUS
<1>5. new \in Seq(AppendRange) /\ RangeRows(new) = RangeRows(ranges[t]) \cup (coll.total .. coll.total + n - 1)
  <2>1. PICK total \in Nat : total = coll.total BY <1>1
  <2>2. new = Append(ranges[t], [start |-> total, count |-> n]) BY <1>4, <2>1
  <2>3. PICK rs : rs = ranges[t] OBVIOUS
  <2>4. PICK r : r = [start |-> total, count |-> n] OBVIOUS
  <2>5. r \in AppendRange /\ r.start = total /\ r.count = n BY ONLY <2>4, total \in Nat, n \in Nat DEF AppendRange
  <2>6. rs \in Seq(AppendRange) /\ new = Append(rs, r) BY <1>3, <2>2, <2>3, <2>4
  <2>7. new \in Seq(AppendRange) /\ RangeRows(new) = RangeRows(rs) \cup (r.start .. r.start + r.count - 1)
    BY ONLY <2>5, <2>6, OneMoreRange
  <2> QED BY ONLY <2>1, <2>3, <2>5, <2>7
<1>6. ranges' = [ranges EXCEPT ![t] = new] BY <1>4
<1>7. ranges' \in [Writer -> Seq(AppendRange)] /\ ranges'[t] = new /\ \A u \in Writer : u # t => ranges'[u] = ranges[u]
  BY ONLY <1>3, <1>5, <1>6, t \in Writer
<1>8. WriterTypes' BY <1>2, <1>7 DEF WriterTypes
<1>9. CommitIds' BY <1>2 DEF CommitIds
<1>10. lastCommit \in Nat BY <1>2 DEF WriterTypes
<1>11. TxnId(t) \in Nat /\ TxnId(t) >= TxnIdStart BY TxnIds
<1>12. StampsGiven'
  <2>1. StampsUpTo(heap', lastCommit) BY <1>10, <1>11, AppendStamps
  <2> QED BY <2>1 DEF StampsGiven
<1>13. ASSUME ~misread PROVE RangesExact'
  <2>1. RangesExact /\ Len(h) = coll.total BY <1>13 DEF CollectionInv
  <2> SUFFICES ASSUME NEW u \in Writer, status[u] = "open" PROVE Exact(heap', RangeRows(ranges'[u]), TxnId(u))
    BY DEF RangesExact, TxnId
  <2>2. Exact(h, RangeRows(ranges[u]), TxnId(u)) BY <2>1 DEF RangesExact
  <2>3. CASE u = t
    <3>1. Exact(heap', RangeRows(ranges[t]) \cup (Len(h) .. Len(h) + Len(vals) - 1), TxnId(t))
      BY <1>11, <2>2, <2>3, AppendStamps
    <3> QED BY <1>5, <1>7, <2>1, <2>3, <3>1
  <2>4. CASE u # t
    <3>1. TxnId(u) # TxnId(t) BY <2>4, TxnIds
    <3>2. Exact(heap', RangeRows(ranges[u]), TxnId(u)) BY <1>11, <2>2, <3>1, AppendStamps
    <3> QED BY <1>7, <2>4, <3>2
  <2> QED BY <2>3, <2>4
<1> QED BY <1>8, <1>9, <1>12, <1>13

\* An append of n rows.
LEMMA AppendChunkKeeps ==
    ASSUME CollectionInv, NEW t \in Writer, NEW n \in 1 .. MaxRows, AppendChunk(t, n)
    PROVE  CollectionInv'
<1>1. n \in Nat /\ nextKey \in Nat BY LayoutAssumption DEF CollectionInv, WriterTypes
<1>2. PICK vals : vals = [i \in 1 .. n |-> nextKey + i - 1] OBVIOUS
<1>3. vals \in Seq(Nat) /\ Len(vals) = n BY <1>1, <1>2, NewValues
<1>4. /\ status[t] = "open" /\ coll.total + Len(vals) <= MaxRows
      /\ coll' = CollectionAppend(coll, vals, TxnId(t)) /\ heap' = AppendRows(heap, vals, TxnId(t))
      /\ nextKey' = nextKey + n
      /\ ranges' = [ranges EXCEPT ![t] = Append(@, [start |-> coll.total, count |-> n])]
      /\ UNCHANGED <<status, commitId, lastCommit, misread>>
  BY <1>2, <1>3 DEF AppendChunk
<1>5. LaidOut(coll, heap) /\ heap \in Seq(Row) /\ StampsUpTo(heap, lastCommit)
  BY DEF CollectionInv, LayoutInv, LaidOut, StampsGiven
<1>6. TxnId(t) \in Nat BY TxnIds
<1>7. LaidOut(coll', heap') /\ (Tracks(coll, heap) => Tracks(coll', heap'))
  BY ONLY <1>3, <1>4, <1>5, <1>6, AppendStep
<1>8. ~misread => Len(heap) = coll.total BY DEF CollectionInv, Tracks
<1>9. WriterTypes' /\ CommitIds' /\ StampsGiven' /\ (~misread => RangesExact')
  BY <1>1, <1>3, <1>4, <1>5, <1>8, AppendedWriters
<1> QED BY <1>4, <1>7, <1>9 DEF CollectionInv, LayoutInv

\* A delete.
LEMMA DeleteRowsKeeps ==
    ASSUME CollectionInv, NEW t \in Writer, NEW ids \in SUBSET ScannableBy(t), DeleteRows(t, ids)
    PROVE  CollectionInv'
<1>1. /\ coll' = CollectionDelete(coll, ids, TxnId(t))
      /\ heap' = MarkDeleted(heap, Positions(ids), TxnId(t))
      /\ UNCHANGED <<nextKey, status, ranges, commitId, lastCommit, misread>>
  BY DEF DeleteRows, Positions
<1>2. LaidOut(coll, heap) /\ heap \in Seq(Row) /\ StampsUpTo(heap, lastCommit) /\ lastCommit \in Nat
  BY DEF CollectionInv, LayoutInv, LaidOut, StampsGiven, WriterTypes
<1>3. ids \subseteq 0 .. coll.total - 1 BY ScannableRows DEF CollectionInv
<1>4. TxnId(t) \in Nat /\ TxnId(t) >= TxnIdStart BY TxnIds
<1>5. LaidOut(coll', heap') /\ (Tracks(coll, heap) => Tracks(coll', heap'))
  <2>1. RowsOf(coll, ids) BY <1>3 DEF RowsOf
  <2>2. MarksAdded(coll, heap, coll', heap') BY ONLY <1>1, <1>2, <1>4, <2>1, DeleteStep
  <2> QED BY ONLY <2>2 DEF MarksAdded
<1>6. /\ StampsUpTo(heap', lastCommit)
      /\ \A R, own : Exact(heap, R, own) => Exact(heap', R, own)
  BY ONLY <1>1, <1>2, <1>4, DeleteStamps
<1>7. WriterTypes' /\ CommitIds' BY <1>1 DEF CollectionInv, WriterTypes, CommitIds
<1>8. StampsGiven' BY <1>1, <1>6 DEF StampsGiven
<1>9. RangesExact => RangesExact' BY <1>1, <1>6 DEF RangesExact, TxnId
<1> QED BY <1>1, <1>5, <1>7, <1>8, <1>9 DEF CollectionInv, LayoutInv

\* An update: the delete, then the append.
LEMMA UpdateRowsKeeps ==
    ASSUME CollectionInv, NEW t \in Writer, NEW ids \in SUBSET ScannableBy(t), UpdateRows(t, ids)
    PROVE  CollectionInv'
<1>1. ids \subseteq 0 .. coll.total - 1 /\ Cardinality(ids) \in Nat BY ScannableRows DEF CollectionInv
<1>2. PICK n \in Nat : n = Cardinality(ids) BY <1>1
<1>3. nextKey \in Nat /\ lastCommit \in Nat BY DEF CollectionInv, WriterTypes
<1>4. PICK vals : vals = [i \in 1 .. n |-> nextKey + i - 1] OBVIOUS
<1>5. vals \in Seq(Nat) /\ Len(vals) = n BY <1>3, <1>4, NewValues
<1>6. PICK c, h : c = CollectionDelete(coll, ids, TxnId(t)) /\ h = MarkDeleted(heap, Positions(ids), TxnId(t))
  OBVIOUS
<1>7. /\ status[t] = "open" /\ coll.total + Len(vals) <= MaxRows
      /\ coll' = CollectionAppend(c, vals, TxnId(t)) /\ heap' = AppendRows(h, vals, TxnId(t))
      /\ nextKey' = nextKey + n
      /\ ranges' = [ranges EXCEPT ![t] = Append(@, [start |-> coll.total, count |-> n])]
      /\ UNCHANGED <<status, commitId, lastCommit, misread>>
  BY <1>2, <1>4, <1>5, <1>6 DEF UpdateRows, Positions
<1>8. LaidOut(coll, heap) /\ heap \in Seq(Row) /\ StampsUpTo(heap, lastCommit)
  BY DEF CollectionInv, LayoutInv, LaidOut, StampsGiven
<1>9. TxnId(t) \in Nat /\ TxnId(t) >= TxnIdStart BY TxnIds
<1>10. LaidOut(c, h) /\ c.total = coll.total /\ Len(h) = Len(heap) /\ (Tracks(coll, heap) => Tracks(c, h))
  <2>1. RowsOf(coll, ids) BY <1>1 DEF RowsOf
  <2>2. MarksAdded(coll, heap, c, h) BY ONLY <1>6, <1>8, <1>9, <2>1, DeleteStep
  <2> QED BY ONLY <2>2 DEF MarksAdded
<1>11. /\ StampsUpTo(h, lastCommit)
       /\ \A R, own : Exact(heap, R, own) => Exact(h, R, own)
  BY ONLY <1>3, <1>6, <1>8, <1>9, DeleteStamps
<1>12. c.total + Len(vals) <= MaxRows BY <1>7, <1>10
<1>13. LaidOut(coll', heap') /\ (Tracks(c, h) => Tracks(coll', heap'))
  BY ONLY <1>5, <1>7, <1>9, <1>10, <1>12, AppendStep
<1>14. h \in Seq(Row) BY <1>10 DEF LaidOut
<1>15. ~misread => Len(h) = coll.total BY <1>10 DEF CollectionInv, Tracks
<1>16. WriterTypes' /\ CommitIds' /\ StampsGiven' /\ (~misread => RangesExact')
  BY <1>5, <1>7, <1>11, <1>14, <1>15, AppendedWriters
<1> QED BY <1>7, <1>10, <1>13, <1>16 DEF CollectionInv, LayoutInv

\* Writer t, and no other, leaves "open".
Closes(new, t) ==
    /\ status[t] = "open" /\ new[t] # "open"
    /\ \A u \in Writer : u # t => new[u] = status[u]

\* The writers after t has left "open".
LEMMA OneMoreClosed ==
    ASSUME NEW t \in Writer, NEW new, Closes(new, t)
    PROVE  Cardinality(Closed(new)) = Cardinality(Closed(status)) + 1 /\ Cardinality(Closed(status)) \in Nat
<1>1. status[t] = "open" /\ new[t] # "open" /\ \A u \in Writer : u # t => new[u] = status[u] BY DEF Closes
<1>2. PICK S : S = Closed(status) OBVIOUS
<1>3. Closed(new) = S \cup {t} BY <1>1, <1>2 DEF Closed
<1>4. S \subseteq Writer /\ t \notin S BY <1>1, <1>2 DEF Closed
<1>5. IsFiniteSet(S) BY <1>4, LayoutAssumption, FS_Subset
<1>6. Cardinality(S \cup {t}) = Cardinality(S) + 1 /\ Cardinality(S) \in Nat
  BY <1>4, <1>5, FS_AddElement, FS_CardinalityType
<1> QED BY <1>2, <1>3, <1>6

\* The rows of a transaction's ranges are row ids.
LEMMA RangeRowsAreIds == ASSUME NEW rs \in Seq(AppendRange) PROVE RangeRows(rs) \subseteq Int
<1> SUFFICES ASSUME NEW j \in DOMAIN rs PROVE rs[j].start .. rs[j].start + rs[j].count - 1 \subseteq Int
  BY DEF RangeRows
<1>1. rs[j] \in AppendRange BY ElementOfSeq, LenProperties
<1> QED BY <1>1 DEF AppendRange

\* The commit of t's rows.
LEMMA PublishCommitsKeeps ==
    ASSUME CollectionInv, NEW t \in Writer, PublishCommits(t)
    PROVE  CollectionInv'
<1>1. PICK R : R = RangeRows(ranges[t]) OBVIOUS
<1>2. /\ status[t] = "open"
      /\ coll' = CollectionCommitAppend(coll, ranges[t], lastCommit + 1)
      /\ heap' = CommitAppend(heap, Positions(R), lastCommit + 1)
      /\ commitId' = [commitId EXCEPT ![t] = lastCommit + 1] /\ lastCommit' = lastCommit + 1
      /\ status' = [status EXCEPT ![t] = "stamped"]
      /\ UNCHANGED <<nextKey, ranges, misread>>
  BY <1>1 DEF PublishCommits, Positions
<1>3. WriterTypes /\ CommitIds BY DEF CollectionInv
<1>4. LaidOut(coll, heap) /\ heap \in Seq(Row) /\ StampsUpTo(heap, lastCommit)
  BY DEF CollectionInv, LayoutInv, LaidOut, StampsGiven
<1>5. lastCommit \in Nat /\ lastCommit + 1 < TxnIdStart BY <1>3, CommitIdsBelow
<1>6. ranges[t] \in Seq(AppendRange) BY <1>3 DEF WriterTypes
<1>7. R \subseteq Int BY <1>1, <1>6, RangeRowsAreIds
<1>8. /\ status' \in [Writer -> Status] /\ status'[t] = "stamped" /\ \A u \in Writer : u # t => status'[u] = status[u]
      /\ Cardinality(Closed(status')) = Cardinality(Closed(status)) + 1
      /\ Cardinality(Closed(status)) \in Nat
  <2>1. status' \in [Writer -> Status] /\ status'[t] = "stamped" /\ \A u \in Writer : u # t => status'[u] = status[u]
    BY <1>2, <1>3 DEF WriterTypes, Status
  <2>2. Closes(status', t) BY <1>2, <2>1 DEF Closes
  <2>3. Cardinality(Closed(status')) = Cardinality(Closed(status)) + 1 /\ Cardinality(Closed(status)) \in Nat
    BY ONLY <2>2, t \in Writer, OneMoreClosed
  <2> QED BY <2>1, <2>3
<1>9. commitId \in [Writer -> Nat] BY <1>3 DEF WriterTypes
<1>10. WriterTypes'
  <2>1. commitId' \in [Writer -> Nat] /\ lastCommit' \in Nat BY <1>2, <1>5, <1>9
  <2> QED BY <1>2, <1>3, <1>8, <2>1 DEF WriterTypes
<1>11. CommitIds'
  <2>1. lastCommit <= Cardinality(Closed(status)) BY <1>3 DEF CommitIds
  <2>2. lastCommit' <= Cardinality(Closed(status')) BY ONLY <1>2, <1>5, <1>8, <2>1
  <2>3. \A u \in Writer : commitId[u] <= lastCommit BY <1>3 DEF CommitIds
  <2>4. \A u \in Writer : commitId'[u] <= lastCommit' BY ONLY <1>2, <1>5, <1>9, <2>3
  <2> QED BY <2>2, <2>4 DEF CommitIds
<1>12. TxnId(t) # 0 BY TxnIds
<1>13. LaidOut(coll', heap') /\ (Tracks(coll, heap) /\ Exact(heap, R, TxnId(t)) => Tracks(coll', heap'))
  <2>1. PICK rs : rs = ranges[t] OBVIOUS
  <2>2. PICK id \in Nat : id = lastCommit + 1 BY <1>5
  <2>3. coll' = CollectionCommitAppend(coll, rs, id) /\ heap' = CommitAppend(heap, Positions(RangeRows(rs)), id)
    BY <1>1, <1>2, <2>1, <2>2
  <2>4. PICK own : own = TxnId(t) /\ own # 0 BY <1>12
  <2>5. RowsStamped(coll, heap, coll', heap', RangeRows(rs), own)
    BY ONLY <1>4, <2>3, <2>4, id \in Nat, CommitStep
  <2>6. RowsStamped(coll, heap, coll', heap', R, TxnId(t)) BY ONLY <1>1, <2>1, <2>4, <2>5
  <2> QED BY ONLY <2>6 DEF RowsStamped
<1>14. /\ StampsUpTo(heap', lastCommit + 1)
       /\ \A own, Q, mine : Exact(heap, R, mine) /\ Exact(heap, Q, own) /\ own # mine /\ own # lastCommit + 1
             => Exact(heap', Q, own)
  <2>1. CommitGiven(heap, heap', R, lastCommit) BY ONLY <1>2, <1>4, <1>5, <1>7, CommitStamps
  <2> QED BY ONLY <2>1 DEF CommitGiven
<1>15. StampsGiven' BY <1>2, <1>14 DEF StampsGiven
<1>16. ASSUME ~misread PROVE Tracks(coll', heap') /\ RangesExact'
  <2>1. Tracks(coll, heap) /\ RangesExact BY <1>16 DEF CollectionInv
  <2>2. Exact(heap, R, TxnId(t)) BY <1>1, <1>2, <2>1 DEF RangesExact
  <2>3. RangesExact'
    <3> SUFFICES ASSUME NEW u \in Writer, status'[u] = "open" PROVE Exact(heap', RangeRows(ranges[u]), TxnId(u))
      BY <1>2 DEF RangesExact, TxnId
    <3>1. u # t BY <1>8
    <3>2. status[u] = "open" BY <1>8, <3>1
    <3>3. Exact(heap, RangeRows(ranges[u]), TxnId(u)) BY <2>1, <3>2 DEF RangesExact
    <3>4. TxnId(u) # TxnId(t) /\ TxnId(u) # lastCommit + 1 BY <1>5, <3>1, TxnIds
    <3> QED BY <1>14, <2>2, <3>3, <3>4
  <2> QED BY <1>13, <2>1, <2>2, <2>3
<1> QED BY <1>2, <1>10, <1>11, <1>13, <1>15, <1>16 DEF CollectionInv, LayoutInv

\* The deletes of t leave its id, for a commit id or for NOT_DELETED_ID.
LEMMA RestampKeeps ==
    ASSUME CollectionInv, NEW t \in Writer, NEW to \in Nat, to <= lastCommit \/ to >= TxnIdStart,
           coll' = CollectionRestamp(coll, TxnId(t), to), heap' = RestampDeletes(heap, TxnId(t), to),
           \A u \in Writer : status'[u] = "open" => status[u] = "open",
           WriterTypes', CommitIds', UNCHANGED <<ranges, lastCommit, misread>>
    PROVE  CollectionInv'
<1>1. LaidOut(coll, heap) /\ heap \in Seq(Row) /\ StampsUpTo(heap, lastCommit) /\ lastCommit \in Nat
  BY DEF CollectionInv, LayoutInv, LaidOut, StampsGiven, WriterTypes
<1>2. TxnId(t) \in Nat /\ TxnId(t) # NotDeleted BY TxnIds
<1>3. LaidOut(coll', heap') /\ (Tracks(coll, heap) => Tracks(coll', heap')) BY <1>1, <1>2, RestampStep
<1>4. /\ StampsUpTo(heap', lastCommit)
      /\ \A R, own : Exact(heap, R, own) => Exact(heap', R, own)
  BY <1>1, <1>2, RestampStamps
<1>5. StampsGiven' BY <1>4 DEF StampsGiven
<1>6. RangesExact => RangesExact' BY <1>4 DEF RangesExact, TxnId
<1> QED BY <1>3, <1>5, <1>6 DEF CollectionInv, LayoutInv

\* The commit of t's deletes.
LEMMA PublishDeletesKeeps ==
    ASSUME CollectionInv, NEW t \in Writer, PublishDeletes(t)
    PROVE  CollectionInv'
<1>1. WriterTypes /\ CommitIds BY DEF CollectionInv
<1>2. commitId[t] \in Nat /\ commitId[t] <= lastCommit BY <1>1 DEF WriterTypes, CommitIds
<1>3. /\ coll' = CollectionRestamp(coll, TxnId(t), commitId[t]) /\ heap' = RestampDeletes(heap, TxnId(t), commitId[t])
      /\ UNCHANGED <<nextKey, ranges, commitId, lastCommit, misread>>
  BY DEF PublishDeletes, CommitAllDeletes
<1>4. /\ status' \in [Writer -> Status]
      /\ \A u \in Writer : status'[u] = "open" <=> status[u] = "open"
  BY <1>1 DEF PublishDeletes, WriterTypes, Status
<1>5. WriterTypes' BY <1>1, <1>3, <1>4 DEF WriterTypes
<1>6. Closed(status') = Closed(status) BY <1>4 DEF Closed
<1>7. CommitIds' BY <1>1, <1>3, <1>6 DEF CommitIds
<1> QED BY <1>2, <1>3, <1>4, <1>5, <1>7, RestampKeeps

\* The revert of t's deletes.
LEMMA RevertDeletesKeeps ==
    ASSUME CollectionInv, NEW t \in Writer, RevertDeletes(t)
    PROVE  CollectionInv'
<1>1. WriterTypes /\ CommitIds /\ lastCommit \in Nat BY DEF CollectionInv, WriterTypes
<1>2. NotDeleted \in Nat /\ NotDeleted >= TxnIdStart BY TxnIds
<1>3. /\ coll' = CollectionRestamp(coll, TxnId(t), NotDeleted) /\ heap' = RestampDeletes(heap, TxnId(t), NotDeleted)
      /\ status[t] = "open" /\ status' = [status EXCEPT ![t] = "done"]
      /\ UNCHANGED <<nextKey, ranges, commitId, lastCommit, misread>>
  BY DEF RevertDeletes, RevertAllDeletes
<1>4. /\ status' \in [Writer -> Status] /\ status'[t] = "done" /\ \A u \in Writer : u # t => status'[u] = status[u]
      /\ Cardinality(Closed(status')) = Cardinality(Closed(status)) + 1
      /\ Cardinality(Closed(status)) \in Nat
  <2>1. status' \in [Writer -> Status] /\ status'[t] = "done" /\ \A u \in Writer : u # t => status'[u] = status[u]
    BY <1>1, <1>3 DEF WriterTypes, Status
  <2>2. Closes(status', t) BY <1>3, <2>1 DEF Closes
  <2>3. Cardinality(Closed(status')) = Cardinality(Closed(status)) + 1 /\ Cardinality(Closed(status)) \in Nat
    BY ONLY <2>2, t \in Writer, OneMoreClosed
  <2> QED BY <2>1, <2>3
<1>5. WriterTypes' BY <1>1, <1>3, <1>4 DEF WriterTypes
<1>6. CommitIds'
  <2>1. lastCommit <= Cardinality(Closed(status)) BY <1>1 DEF CommitIds
  <2>2. lastCommit' <= Cardinality(Closed(status')) BY ONLY <1>1, <1>3, <1>4, <2>1
  <2> QED BY <1>1, <1>3, <2>2 DEF CommitIds
<1>7. \A u \in Writer : status'[u] = "open" => status[u] = "open" BY <1>3, <1>4
<1> QED BY <1>2, <1>3, <1>5, <1>6, <1>7, RestampKeeps

\* Maintenance leaves the writers alone.
LEMMA MaintenanceKeeps ==
    ASSUME CollectionInv, NEW w \in 0 .. lastCommit, heap' = Compact(heap, w), LaidOut(coll', heap'),
           misread' \in BOOLEAN, ~misread' => ~misread /\ Tracks(coll', heap'),
           UNCHANGED <<nextKey, status, ranges, commitId, lastCommit>>
    PROVE  CollectionInv'
<1>1. WriterTypes /\ CommitIds BY DEF CollectionInv
<1>2. heap \in Seq(Row) /\ StampsUpTo(heap, lastCommit) BY DEF CollectionInv, LayoutInv, LaidOut, StampsGiven
<1>3. lastCommit \in Nat /\ lastCommit + 1 < TxnIdStart BY <1>1, CommitIdsBelow
<1>4. w \in Nat /\ w < TxnIdStart BY <1>3, TxnIds
<1>5. WriterTypes' /\ CommitIds' BY <1>1 DEF WriterTypes, CommitIds
<1>6. /\ StampsUpTo(heap', lastCommit)
      /\ \A R : \A own \in Nat : Exact(heap, R, own) /\ own >= TxnIdStart => Exact(heap', R, own)
  BY ONLY heap' = Compact(heap, w), <1>2, <1>3, <1>4, CompactStamps
<1>7. StampsGiven' BY <1>6 DEF StampsGiven
<1>8. ASSUME ~misread' PROVE RangesExact'
  <2>1. RangesExact BY <1>8 DEF CollectionInv
  <2> SUFFICES ASSUME NEW u \in Writer, status[u] = "open" PROVE Exact(heap', RangeRows(ranges[u]), TxnId(u))
    BY DEF RangesExact, TxnId
  <2>2. Exact(heap, RangeRows(ranges[u]), TxnId(u)) BY <2>1 DEF RangesExact
  <2>3. TxnId(u) \in Nat /\ TxnId(u) >= TxnIdStart BY TxnIds
  <2> QED BY <1>6, <2>2, <2>3
<1> QED BY <1>5, <1>7, <1>8 DEF CollectionInv, LayoutInv

\* compact().
LEMMA CompactionKeeps ==
    ASSUME CollectionInv, NEW w \in 0 .. lastCommit, Compaction(w)
    PROVE  CollectionInv'
<1>1. /\ coll' = CollectionCompact(coll, w) /\ heap' = Compact(heap, w)
      /\ misread' = (misread \/ Len(coll.groups) > 1)
      /\ UNCHANGED <<nextKey, status, ranges, commitId, lastCommit>>
  BY DEF Compaction
<1>2. LaidOut(coll, heap) /\ lastCommit \in Nat /\ misread \in BOOLEAN BY DEF CollectionInv, LayoutInv, WriterTypes
<1>3. w \in Nat BY <1>2
<1>4. LaidOut(coll', heap') /\ (Tracks(coll, heap) /\ Len(coll.groups) <= 1 => Tracks(coll', heap'))
  BY ONLY <1>1, <1>2, <1>3, CompactStep
<1>5. Len(coll.groups) \in Nat BY <1>2, CollectionTypes DEF LaidOut
<1>6. ASSUME ~misread' PROVE ~misread /\ Tracks(coll', heap')
  <2>1. ~misread /\ ~(Len(coll.groups) > 1) BY <1>1, <1>6
  <2>2. PICK m \in Nat : m = Len(coll.groups) BY <1>5
  <2>3. m <= 1 BY ONLY <2>1, <2>2, m \in Nat
  <2> QED BY <1>4, <2>1, <2>2, <2>3 DEF CollectionInv
<1>7. misread' \in BOOLEAN BY <1>1
<1> QED BY <1>1, <1>4, <1>6, <1>7, MaintenanceKeeps

\* VACUUM.
LEMMA VacuumKeeps == ASSUME CollectionInv, Vacuum PROVE CollectionInv'
<1>1. /\ coll' = CollectionCompact(CollectionCleanup(coll, lastCommit + 1), lastCommit)
      /\ heap' = Compact(heap, lastCommit)
      /\ misread' = (misread \/ Len(coll.groups) > 1
                             \/ \E k \in DOMAIN coll.groups : DropsMarks(coll.groups[k], lastCommit + 1))
      /\ UNCHANGED <<nextKey, status, ranges, commitId, lastCommit>>
  BY DEF Vacuum
<1>2. LaidOut(coll, heap) /\ StampsUpTo(heap, lastCommit) BY DEF CollectionInv, LayoutInv, StampsGiven
<1>3. lastCommit \in Nat /\ lastCommit + 1 < TxnIdStart BY CommitIdsBelow DEF CollectionInv
<1>4. PICK e : e = CollectionCleanup(coll, lastCommit + 1) OBVIOUS
<1>5. coll' = CollectionCompact(e, lastCommit) BY <1>1, <1>4
<1>6. Vacuumed(coll, heap, coll', heap', lastCommit)
  BY ONLY <1>1, <1>2, <1>3, <1>4, <1>5, VacuumStep
<1>7. Len(coll.groups) \in Nat BY <1>2, CollectionTypes DEF LaidOut
<1>8. ASSUME ~misread' PROVE ~misread /\ Tracks(coll', heap')
  <2>1. /\ ~misread /\ ~(Len(coll.groups) > 1)
        /\ \A k \in DOMAIN coll.groups : ~DropsMarks(coll.groups[k], lastCommit + 1)
    BY <1>1, <1>8
  <2>2. PICK m \in Nat : m = Len(coll.groups) BY <1>7
  <2>3. m <= 1 BY ONLY <2>1, <2>2, m \in Nat
  <2>4. Tracks(coll, heap) BY <2>1 DEF CollectionInv
  <2> QED BY ONLY <1>6, <2>1, <2>2, <2>3, <2>4 DEF Vacuumed
<1>9. misread' \in BOOLEAN BY <1>1
<1>10. LaidOut(coll', heap') BY <1>6 DEF Vacuumed
<1>11. lastCommit \in 0 .. lastCommit BY <1>3
<1> QED BY <1>1, <1>8, <1>9, <1>10, <1>11, MaintenanceKeeps

\* Every step keeps the invariant.
LEMMA CollectionNext == CollectionInv /\ [Next]_vars => CollectionInv'
<1> SUFFICES ASSUME CollectionInv, [Next]_vars PROVE CollectionInv' OBVIOUS
<1>1. CASE Writes
  <2>1. PICK t \in Writer :
          \/ \E n \in 1 .. MaxRows : AppendChunk(t, n)
          \/ \E ids \in SUBSET ScannableBy(t) : DeleteRows(t, ids) \/ UpdateRows(t, ids)
          \/ PublishCommits(t) \/ PublishDeletes(t) \/ RevertDeletes(t)
    BY <1>1 DEF Writes
  <2>2. ASSUME NEW n \in 1 .. MaxRows, AppendChunk(t, n) PROVE CollectionInv' BY <2>2, AppendChunkKeeps
  <2>3. ASSUME NEW ids \in SUBSET ScannableBy(t), DeleteRows(t, ids) PROVE CollectionInv' BY <2>3, DeleteRowsKeeps
  <2>4. ASSUME NEW ids \in SUBSET ScannableBy(t), UpdateRows(t, ids) PROVE CollectionInv' BY <2>4, UpdateRowsKeeps
  <2>5. CASE PublishCommits(t) BY <2>5, PublishCommitsKeeps
  <2>6. CASE PublishDeletes(t) BY <2>6, PublishDeletesKeeps
  <2>7. CASE RevertDeletes(t) BY <2>7, RevertDeletesKeeps
  <2> QED BY <2>1, <2>2, <2>3, <2>4, <2>5, <2>6, <2>7
<1>2. ASSUME NEW w \in 0 .. lastCommit, Compaction(w) PROVE CollectionInv' BY <1>2, CompactionKeeps
<1>3. CASE Vacuum BY <1>3, VacuumKeeps
<1>4. CASE UNCHANGED vars
  <2>1. UNCHANGED <<coll, heap, nextKey, status, ranges, commitId, lastCommit, misread>> BY <1>4 DEF vars
  <2>2. WriterTypes' /\ CommitIds' BY <2>1 DEF CollectionInv, WriterTypes, CommitIds
  <2>3. LayoutInv' /\ StampsGiven' BY <2>1 DEF CollectionInv, LayoutInv, StampsGiven
  <2>4. ~misread' => Tracks(coll', heap') BY <2>1 DEF CollectionInv
  <2>5. ~misread' => RangesExact' BY <2>1 DEF CollectionInv, RangesExact, TxnId
  <2> QED BY <2>2, <2>3, <2>4, <2>5 DEF CollectionInv
<1> QED BY <1>1, <1>2, <1>3, <1>4 DEF Next

-----------------------------------------------------------------------------
(* What the invariant says of the messages of the disk agent.              *)

\* The invariant is one of the specification.
THEOREM CollectionCorrect == Spec => []CollectionInv
<1>1. Init => CollectionInv BY CollectionInit
<1>2. CollectionInv /\ [Next]_vars => CollectionInv' BY CollectionNext
<1> QED BY <1>1, <1>2, PTL DEF Spec

\* The rows of a collection, while the maintenance reads infos that are there.
LEMMA CollectionTracks ==
    ASSUME CollectionInv
    PROVE  /\ \E I : coll \in CollectionOf(I)
           /\ Layout(coll) /\ heap \in Seq(Row) /\ lastCommit \in Nat /\ Len(coll.groups) \in Nat
           /\ ~misread => Tracks(coll, heap)
<1>1. LaidOut(coll, heap) BY DEF CollectionInv, LayoutInv
<1>2. Len(coll.groups) \in Nat BY <1>1, CollectionTypes DEF LaidOut
<1> QED BY <1>1, <1>2 DEF CollectionInv, LaidOut, WriterTypes

\* Whatever chunks are appended, rebuilt or cleaned up, the row groups of
\* collection_t follow each other without a gap, all but the last are full, and
\* total_rows_ is where the last one ends: a row id has one place.
THEOREM LayoutCorrect == Spec => []LayoutOK
<1>1. CollectionInv => LayoutOK
  <2> SUFFICES ASSUME CollectionInv PROVE LayoutOK OBVIOUS
  <2>1. PICK I : coll \in CollectionOf(I) BY CollectionTracks
  <2>2. Layout(coll) /\ (~misread => Tracks(coll, heap)) BY CollectionTracks
  <2>3. PICK m \in Nat : m = Len(coll.groups) BY CollectionTracks
  <2>4. DOMAIN coll.groups = 1 .. m BY <2>1, <2>3, CollectionTypes
  <2>5. ASSUME NEW k \in DOMAIN coll.groups
        PROVE  /\ coll.groups[k].start = (k - 1) * Capacity
               /\ coll.groups[k].count \in 0 .. Capacity
               /\ k < Len(coll.groups) => coll.groups[k].count = Capacity
               /\ Len(coll.groups[k].vals) = coll.groups[k].count
    <3>1. k \in 1 .. Len(coll.groups) BY <2>3, <2>4
    <3>2. /\ coll.groups[k].start = (k - 1) * Capacity
          /\ coll.groups[k].count <= Capacity
          /\ k < Len(coll.groups) => coll.groups[k].count = Capacity
          /\ Len(coll.groups[k].vals) = coll.groups[k].count
      BY <2>2, <3>1 DEF Layout
    <3>3. coll.groups[k].count \in Nat BY <2>1, <3>1, CollectionTypes
    <3>4. PICK n \in Nat : n = coll.groups[k].count BY <3>3
    <3>5. n <= Capacity BY <3>2, <3>4
    <3>6. n \in 0 .. Capacity BY <3>5, LayoutAssumption
    <3> QED BY ONLY <3>2, <3>4, <3>6
  <2>6. misread \/ coll.total = Len(heap) BY <2>2 DEF Tracks
  <2>7. coll.total = RowsEnd(coll.groups) BY <2>2 DEF Layout
  <2>8. coll.total = IF coll.groups = <<>> THEN 0
                     ELSE LET last == coll.groups[Len(coll.groups)] IN last.start + last.count
    BY ONLY <2>7 DEF RowsEnd
  <2> QED BY ONLY <2>5, <2>6, <2>8 DEF LayoutOK
<1> QED BY <1>1, CollectionCorrect, PTL

\* What chunk_constant_info and chunk_vector_info answer through their shortcuts and
\* after every conversion is what the messages stamped: a scan of the first row group
\* meets the rows of the heap.
THEOREM ScanCorrect == Spec => []ScanAgreesWithStamps
<1>1. CollectionInv => ScanAgreesWithStamps
  <2> SUFFICES ASSUME CollectionInv, ~misread, ~(Len(coll.groups) > 1) PROVE ScannedRows(coll) = heap
    BY DEF ScanAgreesWithStamps
  <2>1. PICK I : coll \in CollectionOf(I) BY CollectionTracks
  <2>2. Layout(coll) /\ heap \in Seq(Row) /\ Tracks(coll, heap) BY CollectionTracks
  <2>3. PICK m \in Nat : m = Len(coll.groups) BY CollectionTracks
  <2>4. ~(m > 1) BY <2>3
  <2>5. m <= 1 BY ONLY <2>4, m \in Nat
  <2>6. Len(coll.groups) <= 1 BY <2>3, <2>5
  <2> QED BY ONLY <2>1, <2>2, <2>6, ScanMeetsRows
<1> QED BY <1>1, CollectionCorrect, PTL

\* has_version_above and committed_row_count, which decide whether compact() may drop
\* versions, answer from the infos what the stamps of the rows say, for every
\* watermark.
THEOREM GateCorrect == Spec => []GateAgreesWithStamps
<1>1. CollectionInv => GateAgreesWithStamps
  <2> SUFFICES ASSUME CollectionInv, ~misread, ~(Len(coll.groups) > 1)
               PROVE  /\ \A w \in 0 .. lastCommit : VersionAbove(coll, w) = HasVersionAbove(heap, w)
                      /\ DeletedCount(coll) = CommittedDeletedCount(heap)
    BY DEF GateAgreesWithStamps
  <2>1. PICK I : coll \in CollectionOf(I) BY CollectionTracks
  <2>2. Layout(coll) /\ heap \in Seq(Row) /\ Tracks(coll, heap) /\ lastCommit \in Nat BY CollectionTracks
  <2>3. PICK m \in Nat : m = Len(coll.groups) BY CollectionTracks
  <2>4. ~(m > 1) BY <2>3
  <2>5. m <= 1 BY ONLY <2>4, m \in Nat
  <2>6. Len(coll.groups) <= 1 BY <2>3, <2>5
  <2>7. ASSUME NEW w \in 0 .. lastCommit PROVE VersionAbove(coll, w) = HasVersionAbove(heap, w)
    <3>1. w \in Nat BY <2>2
    <3>2. VersionAbove(coll, w) <=> HasVersionAbove(heap, w) BY ONLY <2>1, <2>2, <2>6, <3>1, GateAgrees
    <3>3. VersionAbove(coll, w) \in BOOLEAN BY Zenon DEF VersionAbove
    <3>4. HasVersionAbove(heap, w) \in BOOLEAN BY Zenon DEF HasVersionAbove
    <3> QED BY ONLY <3>2, <3>3, <3>4
  <2>8. DeletedCount(coll) = CommittedDeletedCount(heap) BY ONLY <2>1, <2>2, <2>6, CountAgrees
  <2> QED BY <2>7, <2>8
<1> QED BY <1>1, CollectionCorrect, PTL

\* In every row group a delete mark is where delete_rows put it, because delete and scan
\* both number the vectors through the collection.
THEOREM DeletesCorrect == Spec => []DeletesAgreeWithStamps
<1>1. CollectionInv => DeletesAgreeWithStamps
  <2> SUFFICES ASSUME CollectionInv, ~misread, NEW i \in DOMAIN heap PROVE ScannedRows(coll)[i].del = heap[i].del
    BY DEF DeletesAgreeWithStamps
  <2>1. PICK I : coll \in CollectionOf(I) BY CollectionTracks
  <2>2. Layout(coll) /\ heap \in Seq(Row) /\ Tracks(coll, heap) BY CollectionTracks
  <2>3. i \in 1 .. Len(heap) BY <2>2, LenProperties
  <2> QED BY ONLY <2>1, <2>2, <2>3, ScanMeetsMarks
<1> QED BY <1>1, CollectionCorrect, PTL

=============================================================================
