------------------------- MODULE RowVersionsProofs -------------------------
(***************************************************************************)
(* What the operations on a heap do to its rows, for heaps of any length:  *)
(* the lemmas the proofs about tables rest on.                             *)
(***************************************************************************)
EXTENDS RowVersions, FiniteSetTheorems, SequenceTheorems, TLAPS

\* A row with its two stamps; key is the identity of the row.
Row == [key : Nat, ins : Nat, del : Nat]

-----------------------------------------------------------------------------
(* The rebuild.                                                            *)

\* Ranks number the members of a set of positions without gaps or repeats.
LEMMA RankNumbers ==
    ASSUME NEW n \in Nat, NEW S \in SUBSET (1 .. n)
    PROVE  /\ Cardinality(S) \in 0 .. n
           /\ \A i \in S : Rank(S, i) \in 1 .. Cardinality(S)
           /\ \A k \in 1 .. Cardinality(S) : \E i \in S : Rank(S, i) = k
           /\ \A i, j \in S : Rank(S, i) = Rank(S, j) => i = j
<1> DEFINE Upto(i) == {j \in S : j <= i}
           rank == [i \in S |-> Rank(S, i)]
           C == Cardinality(S)
<1>1. IsFiniteSet(1 .. n) /\ Cardinality(1 .. n) = n
  BY FS_Interval
<1>2. IsFiniteSet(S) /\ C \in Nat /\ C <= n
  BY <1>1, FS_Subset, FS_CardinalityType
<1>3. ASSUME NEW i \in S
      PROVE  IsFiniteSet(Upto(i)) /\ Cardinality(Upto(i)) \in 1 .. C
  <2>1. Upto(i) \in SUBSET S /\ i \in Upto(i)
    OBVIOUS
  <2>2. IsFiniteSet(Upto(i)) /\ Cardinality(Upto(i)) <= C
    BY <1>2, <2>1, FS_Subset
  <2>3. Cardinality(Upto(i)) \in Nat
    BY <2>2, FS_CardinalityType
  <2>4. Cardinality(Upto(i)) # 0
    BY <2>1, <2>2, FS_EmptySet
  <2> QED BY <1>2, <2>2, <2>3, <2>4
<1>4. \A i \in S : Rank(S, i) \in 1 .. C
  BY <1>3 DEF Rank
<1>5. ASSUME NEW i \in S, NEW j \in S, i < j
      PROVE  Rank(S, i) # Rank(S, j)
  <2>1. Upto(i) \in SUBSET Upto(j) /\ j \in Upto(j) /\ j \notin Upto(i)
    <3>1. i \in Int /\ j \in Int /\ \A k \in S : k \in Int OBVIOUS
    <3>2. \A k \in S : k <= i => k <= j BY <1>5, <3>1
    <3>3. j <= j /\ ~(j <= i) BY <1>5, <3>1
    <3> QED BY <3>2, <3>3
  <2>2. IsFiniteSet(Upto(j)) BY <1>3
  <2>3. Cardinality(Upto(j)) # Cardinality(Upto(i))
    BY <2>1, <2>2, FS_Subset
  <2> QED BY <2>3 DEF Rank
<1>6. rank \in Injection(S, 1 .. C)
  <2>1. rank \in [S -> 1 .. C] BY <1>4
  <2>2. ASSUME NEW i \in S, NEW j \in S, i # j PROVE Rank(S, i) # Rank(S, j)
    BY <1>5, <2>2
  <2> QED BY <2>1, <2>2 DEF Injection, IsInjective
<1>7. IsFiniteSet(1 .. C) /\ Cardinality(1 .. C) = C
  BY <1>2, FS_Interval
<1>8. rank \in Surjection(S, 1 .. C)
  <2> HIDE DEF rank
  <2> QED BY <1>6, <1>7, FS_Injection
<1>9. \A k \in 1 .. C : \E i \in S : Rank(S, i) = k
  BY <1>8 DEF Surjection
<1>10. ASSUME NEW i \in S, NEW j \in S, Rank(S, i) = Rank(S, j) PROVE i = j
  BY <1>5, <1>10
<1> QED BY <1>2, <1>4, <1>9, <1>10

\* The rebuild of compact() keeps every live row once, stamped as loaded.
LEMMA RebuiltRows ==
    ASSUME NEW h \in Seq(Row)
    PROVE  /\ Rebuilt(h) \in Seq(Row)
           /\ Len(Rebuilt(h)) <= Len(h)
           /\ \A i \in LivePositions(h) : \E k \in DOMAIN Rebuilt(h) :
                 Rebuilt(h)[k] = [key |-> h[i].key, ins |-> 0, del |-> NotDeleted]
           /\ \A k \in DOMAIN Rebuilt(h) : \E i \in LivePositions(h) :
                 /\ Rank(LivePositions(h), i) = k
                 /\ Rebuilt(h)[k] = [key |-> h[i].key, ins |-> 0, del |-> NotDeleted]
<1> DEFINE live == LivePositions(h)
           C == Cardinality(live)
           At(k) == CHOOSE i \in live : Rank(live, i) = k
           new == [k \in 1 .. C |-> [key |-> h[At(k)].key, ins |-> 0, del |-> NotDeleted]]
<1>1. Rebuilt(h) = new
  BY DEF Rebuilt
<1>2. Len(h) \in Nat /\ live \in SUBSET (1 .. Len(h)) /\ \A i \in live : h[i] \in Row
  BY LenProperties DEF LivePositions
<1> HIDE DEF live
<1>3. /\ C \in 0 .. Len(h)
      /\ \A i \in live : Rank(live, i) \in 1 .. C
      /\ \A k \in 1 .. C : \E i \in live : Rank(live, i) = k
      /\ \A i, j \in live : Rank(live, i) = Rank(live, j) => i = j
  BY <1>2, RankNumbers
<1>4. \A k \in 1 .. C : At(k) \in live /\ Rank(live, At(k)) = k
  BY <1>3
<1>5. \A i \in live : At(Rank(live, i)) = i
  BY <1>3, <1>4
<1> HIDE DEF C, At
<1>6. \A k \in 1 .. C : new[k] \in Row /\ new[k] = [key |-> h[At(k)].key, ins |-> 0, del |-> NotDeleted]
  BY <1>2, <1>4, StampAssumption DEF Row
<1>7. DOMAIN new = 1 .. C /\ C \in Nat /\ C <= Len(h)
  BY <1>2, <1>3
<1> HIDE DEF new
<1>8. new \in Seq(Row) /\ Len(new) = C
  <2>1. new \in [1 .. C -> Row] BY <1>6, <1>7 DEF new
  <2>2. new \in Seq(Row) BY <1>7, <2>1, SeqDef
  <2> QED BY <1>7, <2>2, LenProperties
<1>9. \A i \in live : \E k \in DOMAIN new :
          new[k] = [key |-> h[i].key, ins |-> 0, del |-> NotDeleted]
  BY <1>3, <1>5, <1>6, <1>7
<1>10. \A k \in DOMAIN new : \E i \in live :
          Rank(live, i) = k /\ new[k] = [key |-> h[i].key, ins |-> 0, del |-> NotDeleted]
  BY <1>4, <1>6, <1>7
<1> QED BY <1>1, <1>7, <1>8, <1>9, <1>10 DEF live

-----------------------------------------------------------------------------
(* The operations of a statement and of a commit.                          *)

\* append adds one pending row per key and moves nothing.
LEMMA AppendedRows ==
    ASSUME NEW h \in Seq(Row), NEW keys \in Seq(Nat), NEW id \in Nat
    PROVE  /\ AppendRows(h, keys, id) \in Seq(Row)
           /\ Len(AppendRows(h, keys, id)) = Len(h) + Len(keys)
           /\ \A i \in 1 .. Len(h) : AppendRows(h, keys, id)[i] = h[i]
           /\ \A i \in Len(h) + 1 .. Len(h) + Len(keys) :
                 AppendRows(h, keys, id)[i]
                   = [key |-> keys[i - Len(h)], ins |-> id, del |-> NotDeleted]
<1> DEFINE new == [i \in 1 .. Len(keys) |-> [key |-> keys[i], ins |-> id, del |-> NotDeleted]]
<1>1. Len(h) \in Nat /\ Len(keys) \in Nat /\ \A i \in 1 .. Len(keys) : keys[i] \in Nat
  BY LenProperties, ElementOfSeq
<1>2. new \in [1 .. Len(keys) -> Row]
  BY <1>1, StampAssumption DEF Row
<1>3. \A i \in 1 .. Len(keys) : new[i] = [key |-> keys[i], ins |-> id, del |-> NotDeleted]
  OBVIOUS
<1>4. AppendRows(h, keys, id) = h \o new
  BY DEF AppendRows
<1> HIDE DEF new
<1>5. new \in Seq(Row) BY <1>1, <1>2, SeqDef
<1>6. Len(new) = Len(keys) BY <1>1, <1>2, <1>5, LenProperties
<1>7. /\ h \o new \in Seq(Row)
      /\ Len(h \o new) = Len(h) + Len(keys)
      /\ \A i \in 1 .. Len(h) + Len(keys) :
            (h \o new)[i] = IF i <= Len(h) THEN h[i] ELSE new[i - Len(h)]
  <2>1. /\ h \o new \in Seq(Row)
        /\ Len(h \o new) = Len(h) + Len(new)
        /\ \A i \in 1 .. Len(h) + Len(new) :
              (h \o new)[i] = IF i <= Len(h) THEN h[i] ELSE new[i - Len(h)]
    BY <1>5, ConcatProperties, Zenon
  <2> QED BY ONLY <2>1, <1>6, Zenon
<1>8. \A i \in 1 .. Len(h) : (h \o new)[i] = h[i]
  BY <1>1, <1>7
<1>9. ASSUME NEW i \in Len(h) + 1 .. Len(h) + Len(keys)
      PROVE  (h \o new)[i] = [key |-> keys[i - Len(h)], ins |-> id, del |-> NotDeleted]
  <2>1. i \in 1 .. Len(h) + Len(keys) /\ ~(i <= Len(h)) /\ i - Len(h) \in 1 .. Len(keys)
    BY <1>1
  <2> QED BY <1>3, <1>7, <2>1
<1> QED BY <1>4, <1>7, <1>8, <1>9

\* A function on the positions of a heap is a heap of the same length.
LEMMA SameLength ==
    ASSUME NEW h \in Seq(Row), NEW g, g \in [DOMAIN h -> Row]
    PROVE  g \in Seq(Row) /\ Len(g) = Len(h) /\ DOMAIN g = DOMAIN h
<1>1. Len(h) \in Nat /\ DOMAIN h = 1 .. Len(h) BY LenProperties
<1>2. g \in Seq(Row) BY <1>1, SeqDef
<1> QED BY <1>1, <1>2, LenProperties

\* commit_append and delete_rows keep the positions of the rows.
LEMMA StampedRows ==
    ASSUME NEW h \in Seq(Row), NEW P, NEW id \in Nat
    PROVE  /\ CommitAppend(h, P, id) \in Seq(Row)
           /\ Len(CommitAppend(h, P, id)) = Len(h)
           /\ MarkDeleted(h, P, id) \in Seq(Row)
           /\ Len(MarkDeleted(h, P, id)) = Len(h)
<1>1. \A i \in DOMAIN h : h[i] \in Row BY LenProperties
<1>2. CommitAppend(h, P, id) \in [DOMAIN h -> Row] BY <1>1 DEF CommitAppend, Row
<1>3. MarkDeleted(h, P, id) \in [DOMAIN h -> Row] BY <1>1 DEF MarkDeleted, Row
<1> QED BY <1>2, <1>3, SameLength

\* commit_all_deletes and revert_all_deletes do so, too.
LEMMA RestampedRows ==
    ASSUME NEW h \in Seq(Row), NEW from \in Nat, NEW id \in Nat
    PROVE  /\ RestampDeletes(h, from, id) \in Seq(Row)
           /\ Len(RestampDeletes(h, from, id)) = Len(h)
<1>1. \A i \in DOMAIN h : h[i] \in Row BY LenProperties
<1>2. RestampDeletes(h, from, id) \in [DOMAIN h -> Row] BY <1>1 DEF RestampDeletes, Row
<1> QED BY <1>2, SameLength

-----------------------------------------------------------------------------
(* What a snapshot holds: the keys of the rows it sees.                    *)

ViewKeys(txn, h) == {h[i].key : i \in {j \in DOMAIN h : Visible(txn, h[j])}}

\* A pending stamp is invisible to everybody else, and so is "not deleted".
LEMMA PendingHidden ==
    ASSUME NEW txn, txn.transactionId = 0, NEW id \in Nat, id >= TxnIdStart
    PROVE  ~UseInsertedVersion(txn, id)
BY StampAssumption DEF UseInsertedVersion

\* Restamping rows without changing which of them a snapshot sees leaves what it
\* holds.
LEMMA RestampedView ==
    ASSUME NEW txn, NEW h, NEW g, DOMAIN g = DOMAIN h,
           \A i \in DOMAIN h : g[i].key = h[i].key /\ (Visible(txn, g[i]) <=> Visible(txn, h[i]))
    PROVE  ViewKeys(txn, g) = ViewKeys(txn, h)
BY DEF ViewKeys

\* Appending rows that a snapshot does not see leaves what it holds.
LEMMA AppendedView ==
    ASSUME NEW txn, NEW h \in Seq(Row), NEW g \in Seq(Row), Len(g) >= Len(h),
           \A i \in 1 .. Len(h) : g[i].key = h[i].key /\ (Visible(txn, g[i]) <=> Visible(txn, h[i])),
           \A i \in Len(h) + 1 .. Len(g) : ~Visible(txn, g[i])
    PROVE  ViewKeys(txn, g) = ViewKeys(txn, h)
<1>1. /\ Len(h) \in Nat /\ DOMAIN h = 1 .. Len(h)
      /\ Len(g) \in Nat /\ DOMAIN g = 1 .. Len(g)
  BY LenProperties
<1>2. \A i \in 1 .. Len(g) : i \in 1 .. Len(h) \/ i \in Len(h) + 1 .. Len(g)
  BY <1>1
<1>3. \A i \in 1 .. Len(h) : i \in 1 .. Len(g)
  BY <1>1
<1> QED BY <1>1, <1>2, <1>3 DEF ViewKeys

\* compact() that finds no version above a watermark which a snapshot sees entirely
\* leaves what that snapshot holds.
LEMMA CompactedView ==
    ASSUME NEW txn, txn.transactionId = 0, NEW h \in Seq(Row),
           NEW w \in Nat, w < TxnIdStart,
           \A c \in 0 .. w : UseInsertedVersion(txn, c)
    PROVE  ViewKeys(txn, Compact(h, w)) = ViewKeys(txn, h)
<1>1. CASE Len(h) = 0 \/ HasVersionAbove(h, w)
  BY <1>1 DEF Compact
<1>2. CASE ~(Len(h) = 0 \/ HasVersionAbove(h, w))
  <2>1. ASSUME NEW i \in DOMAIN h
        PROVE  /\ h[i] \in Row
               /\ h[i].ins \in 0 .. w
               /\ h[i].del = NotDeleted \/ h[i].del \in 0 .. w
    <3>1. h[i] \in Row BY LenProperties
    <3> QED BY <1>2, <3>1 DEF HasVersionAbove, Row
  <2>2. ~UseInsertedVersion(txn, NotDeleted)
    BY PendingHidden, StampAssumption
  <2>3. ASSUME NEW i \in DOMAIN h
        PROVE  /\ Visible(txn, h[i]) <=> h[i].del = NotDeleted
               /\ i \in LivePositions(h) <=> h[i].del = NotDeleted
    <3>1. UseInsertedVersion(txn, h[i].ins) BY <2>1
    <3>2. UseInsertedVersion(txn, h[i].del) <=> h[i].del # NotDeleted
      BY <2>1, <2>2, StampAssumption
    <3>3. \A c \in 0 .. w : UseInsertedVersion(SeeAll(TxnIdStart), c)
      BY StampAssumption DEF UseInsertedVersion, SeeAll
    <3>4. ~UseInsertedVersion(SeeAll(TxnIdStart), NotDeleted)
      BY PendingHidden, StampAssumption DEF SeeAll
    <3>5. UseInsertedVersion(SeeAll(TxnIdStart), h[i].del) <=> h[i].del # NotDeleted
      BY <2>1, <3>3, <3>4
    <3>6. UseInsertedVersion(SeeAll(TxnIdStart), h[i].ins) BY <2>1, <3>3
    <3> QED BY <3>1, <3>2, <3>5, <3>6 DEF Visible, UseDeletedVersion, LivePositions
  <2>4. ASSUME NEW k \in DOMAIN Rebuilt(h) PROVE Visible(txn, Rebuilt(h)[k])
    <3>1. Rebuilt(h)[k].ins = 0 /\ Rebuilt(h)[k].del = NotDeleted
      BY RebuiltRows
    <3>2. UseInsertedVersion(txn, 0) OBVIOUS
    <3> QED BY <2>2, <3>1, <3>2 DEF Visible, UseDeletedVersion
  <2>5. \A i \in LivePositions(h) : i \in DOMAIN h BY DEF LivePositions
  <2>6. ViewKeys(txn, Rebuilt(h)) = {Rebuilt(h)[k].key : k \in DOMAIN Rebuilt(h)}
    BY <2>4 DEF ViewKeys
  <2>7. ViewKeys(txn, h) = {h[i].key : i \in LivePositions(h)}
    BY <2>3, <2>5 DEF ViewKeys
  <2>8. {Rebuilt(h)[k].key : k \in DOMAIN Rebuilt(h)} = {h[i].key : i \in LivePositions(h)}
    <3>1. \A i \in LivePositions(h) : \E k \in DOMAIN Rebuilt(h) : Rebuilt(h)[k].key = h[i].key
      BY RebuiltRows
    <3>2. \A k \in DOMAIN Rebuilt(h) : \E i \in LivePositions(h) : Rebuilt(h)[k].key = h[i].key
      BY RebuiltRows
    <3> QED BY <3>1, <3>2
  <2> QED BY <1>2, <2>6, <2>7, <2>8 DEF Compact
<1> QED BY <1>1, <1>2
=============================================================================
