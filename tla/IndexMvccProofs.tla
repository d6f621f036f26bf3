-------------------------- MODULE IndexMvccProofs --------------------------
(***************************************************************************)
(* The index of a table agrees with its heap, for any number of sessions   *)
(* and of CHECKPOINT statements and any length of the heap.                *)
(***************************************************************************)
EXTENDS IndexMvcc, SnapshotIsolationProofs

-----------------------------------------------------------------------------
(* Types, stamps and clocks.                                               *)

IndexEntry == [key : Nat, row : 1 .. MaxRows, ins : Nat, del : Nat]

Step == {"none", "fetch", "mirror", "commit_inserts", "commit_deletes", "revert_insert", "revert_delete"}

\* The row ids that a search of the index has found.
Found == UNION {[1 .. n -> 1 .. MaxRows] : n \in 0 .. MaxHits}

IxType == [step : Step, found : Found, old : SUBSET (Nat \X (1 .. MaxRows))]

IndexTypes ==
    /\ \E n \in Nat : DOMAIN idx \subseteq 0 .. n
    /\ idx \in [DOMAIN idx -> IndexEntry]
    /\ ix \in [Session -> IxType]
    /\ tainted \subseteq 1 .. MaxRows

\* What an active snapshot knows of the clock.
SnapshotsTimed ==
    \A s \in Session : IsActive(s) =>
        /\ active[s].startTime \in Nat \ {0} /\ active[s].startTime < currentTs
        /\ active[s].snapHorizon < active[s].startTime
        /\ \A c \in inFlight : c < active[s].startTime => c \in active[s].snapInFlight

\* A commit id of before a snapshot was published or in flight when it was taken.
KnownTo(s, c) == c < active[s].startTime => c <= active[s].snapHorizon \/ c \in active[s].snapInFlight

Known(id) == id < TxnIdStart => /\ id <= horizon \/ id \in inFlight
                                /\ \A s \in Session : IsActive(s) => KnownTo(s, id)

StampsKnown ==
    /\ \A i \in DOMAIN rows : Known(rows[i].ins) /\ Known(rows[i].del)
    /\ \A j \in DOMAIN idx : Known(idx[j].ins) /\ Known(idx[j].del)

EntriesOK ==
    \A j \in DOMAIN idx : /\ idx[j].key \in 1 .. nextKey - 1
                          /\ StampOK(idx[j].ins)
                          /\ StampOK(idx[j].del) \/ idx[j].del = NotDeleted

-----------------------------------------------------------------------------
(* The chains.                                                             *)

CpOK ==
    /\ cp = [pc |-> cp.pc, watermark |-> cp.watermark, total |-> cp.total, chunk |-> cp.chunk,
             moved |-> cp.moved]
    /\ cp.pc \in {"idle", "compact", "total", "scan", "refill", "commit0"}
    /\ cp.watermark \in 0 .. MaxTs
    /\ cp.moved \in BOOLEAN
    /\ cp.moved => cp.pc \in {"total", "scan", "refill"}
    /\ cp.pc \in {"scan", "refill"} => cp.total \in 0 .. Len(rows)
    /\ cp.pc = "refill" => /\ DOMAIN cp.chunk = 1 .. cp.total
                           /\ \A i \in 1 .. cp.total : cp.chunk[i] = rows[i].key

\* Which message to the index a chain may have to send.
StepOK(s) ==
    /\ ix[s].step = "fetch" => pc[s] = "open"
    /\ ix[s].step = "mirror" => pc[s] = "effect"
    /\ ix[s].step \in {"commit_inserts", "commit_deletes"} => pc[s] = "drained"
    /\ ix[s].step \in {"revert_insert", "revert_delete"} => pc[s] = "abort"
    /\ ix[s].step \in {"commit_deletes", "revert_delete"} => op[s].del

\* The scan output is there while a DELETE or UPDATE needs it.
OldOK(s) ==
    /\ pc[s] \notin {"scanned", "failed"} /\ ix[s].step # "mirror" => ix[s].old = {}
    /\ \A o \in ix[s].old : o[1] < nextKey
    /\ pc[s] = "scanned" => \A o \in ix[s].old : o[2] \in op[s].ids

\* The messages that the index has answered have left no id of the transaction.
Answered(s) ==
    /\ pc[s] = "abort" /\ Quiet(s) /\ op[s].del => \A j \in DOMAIN idx : idx[j].del # op[s].txnId
    /\ pc[s] = "drained" /\ ix[s].step # "commit_inserts" /\ op[s].app # {} =>
          \A j \in DOMAIN idx : idx[j].ins # op[s].txnId
    /\ ((pc[s] = "drained" /\ Quiet(s)) \/ pc[s] = "deletes") /\ op[s].del =>
          \A j \in DOMAIN idx : idx[j].del # op[s].txnId

ChainIx(s) ==
    /\ pc[s] # "cleanup"
    /\ StatementParked(s) /\ AppendsKnown(s)
    /\ StepOK(s) /\ OldOK(s) /\ Answered(s)

-----------------------------------------------------------------------------
(* A row and its entry.                                                    *)

\* The chain of session s runs for the transaction of this id.
Runs(s, t) == Busy(s) /\ op[s].txnId = t

\* The index carries the commit id, the heap still the transaction's: the chain has one
\* more message to send to the heap, or has ended and leaves the id in flight.
Half(t, c, Stage) ==
    /\ t \in Pending /\ c \in inFlight
    /\ \A s \in Session : Runs(s, t) \/ (Committing(s) /\ op[s].commitId = c) =>
          s \in Stage /\ op[s].txnId = t /\ op[s].commitId = c

InsStage == {s \in Session : pc[s] = "drained"}
DelStage == {s \in Session : pc[s] \in {"drained", "deletes"} /\ op[s].del}

\* Everybody sees the stamp.
Settled(id) == Fresh(id) /\ \A s \in Session : IsActive(s) => CommitVisible(active[s], id)

\* A pending row without an entry: the mirror is to come, or a rollback has removed it.
Unmirrored(t, i) ==
    /\ t \in Pending
    /\ \A s \in Session : Runs(s, t) =>
          \/ ix[s].step = "mirror" /\ i \in op[s].stmtApp
          \/ pc[s] = "abort" /\ ix[s].step # "revert_insert"

\* A mark on the heap that the index does not have: the mirror is to come, the
\* statement has failed, or a rollback has taken it back.
Unmarked(t, i) ==
    /\ t \in Pending
    /\ \A s \in Session : Runs(s, t) =>
          \/ ix[s].step = "mirror" /\ <<rows[i].key, i>> \in ix[s].old
          \/ pc[s] = "failed"
          \/ pc[s] = "abort" /\ Quiet(s)

InsAgree(e, h) == e = h \/ Half(h, e, InsStage) \/ (e = 0 /\ Settled(h))

DelAgree(e, h, i) == e = h \/ Half(h, e, DelStage) \/ (e = NotDeleted /\ Unmarked(h, i))

RowAgrees(i) ==
    /\ EntriesOf(i) = {} => Unmirrored(rows[i].ins, i)
    /\ \A j, k \in EntriesOf(i) : j = k
    /\ \A j \in EntriesOf(i) : /\ idx[j].key = rows[i].key
                               /\ InsAgree(idx[j].ins, rows[i].ins)
                               /\ DelAgree(idx[j].del, rows[i].del, i)

\* No mirror to come will add an entry for the row.
Unclaimed(i) == \A t \in Session : ix[t].step = "mirror" => i \notin op[t].stmtApp

\* The rows a mirror will add have no entry, the rows it will mark are marked and have one.
MirrorOK(s) ==
    ix[s].step = "mirror" =>
        /\ \A i \in op[s].stmtApp \ tainted :
              EntriesOf(i) = {} /\ DelAgree(NotDeleted, rows[i].del, i)
        /\ \A i \in DOMAIN rows \ tainted :
              <<rows[i].key, i>> \in ix[s].old => rows[i].del = op[s].txnId /\ Unclaimed(i)

Agreement ==
    ~cp.moved =>
        /\ \A j \in DOMAIN idx : idx[j].row \in DOMAIN rows
        /\ \A s \in Session : MirrorOK(s)
        /\ \A i \in DOMAIN rows \ tainted : RowAgrees(i)

IndexInv ==
    /\ TableInv
    /\ IndexTypes /\ SnapshotsTimed /\ StampsKnown /\ EntriesOK
    /\ CpOK
    /\ \A s \in Session : ChainIx(s)
    /\ Agreement

-----------------------------------------------------------------------------
(* What the operations of the index do to its entries.                     *)

\* The last number of a bounded set of entries.
LEMMA LastNumber ==
    ASSUME NEW n \in Nat, NEW S \in SUBSET (0 .. n)
    PROVE  /\ Max({0} \cup S) \in 0 .. n
           /\ \A x \in S : x <= Max({0} \cup S)
<1> DEFINE A == {0} \cup S
           T == {n - x : x \in A}
<1>1. A \in SUBSET (0 .. n) /\ 0 \in A OBVIOUS
<1>2. T \in SUBSET Nat /\ T # {} BY <1>1
<1>3. Min(T) \in T /\ \A y \in T : Min(T) <= y
  <2> HIDE DEF T
  <2> QED BY <1>2, MinOfNats
<1>4. PICK m \in A : Min(T) = n - m BY <1>3
<1>5. ASSUME NEW x \in A PROVE m >= x
  <2>1. n - x \in T OBVIOUS
  <2>2. n - m <= n - x BY <1>3, <1>4, <2>1
  <2>3. x \in Int /\ m \in Int BY <1>1
  <2> QED BY <2>2, <2>3
<1>6. \E x \in A : \A y \in A : x >= y BY <1>5
<1> HIDE DEF T, A
<1>7. Max(A) \in A /\ \A y \in A : Max(A) >= y BY <1>6 DEF Max
<1>8. \A x \in A : x \in 0 .. n BY <1>1
<1>9. Max(A) \in 0 .. n /\ \A x \in A : x <= Max(A) BY <1>7, <1>8
<1> QED BY <1>9 DEF A

\* insert_txn_impl adds one entry per row behind the others.
LEMMA InsertFacts ==
    ASSUME NEW entries, NEW n \in Nat, DOMAIN entries \subseteq 0 .. n,
           NEW P \in SUBSET (1 .. MaxRows), NEW t
    PROVE  LET g == InsertRows(entries, P, t) IN
           /\ \E m \in Nat : DOMAIN g \subseteq 0 .. m
           /\ g = [j \in DOMAIN g |-> g[j]]
           /\ DOMAIN entries \subseteq DOMAIN g
           /\ \A j \in DOMAIN entries : g[j] = entries[j]
           /\ \A j \in DOMAIN g \ DOMAIN entries :
                 \E p \in P : g[j] = Entry(rows[p].key, p, t)
           /\ \A p \in P : \E j \in DOMAIN g \ DOMAIN entries : g[j] = Entry(rows[p].key, p, t)
           /\ \A j, k \in DOMAIN g \ DOMAIN entries : g[j].row = g[k].row => j = k
<1> DEFINE last == Max({0} \cup DOMAIN entries)
           D == DOMAIN entries \cup {last + p : p \in P}
           g == [j \in D |-> IF j \in DOMAIN entries THEN entries[j]
                             ELSE Entry(rows[j - last].key, j - last, t)]
<1>1. MaxRows \in Nat BY TableAssumption
<1>2. last \in 0 .. n /\ \A x \in DOMAIN entries : x <= last
  <2>1. DOMAIN entries \in SUBSET (0 .. n) OBVIOUS
  <2> QED BY <2>1, LastNumber
<1>3. InsertRows(entries, P, t) = g
  <2> DEFINE added == [p \in P |-> Entry(rows[p].key, p, t)]
  <2>1. InsertRows(entries, P, t) = [j \in D |-> IF j \in DOMAIN entries THEN entries[j] ELSE added[j - last]]
    BY DEF InsertRows, Extended
  <2> HIDE DEF last
  <2>2. \A p \in P : p \in Int /\ (last + p) - last = p BY <1>1, <1>2
  <2>3. ASSUME NEW j \in D, j \notin DOMAIN entries PROVE j - last \in P BY <2>2, <2>3
  <2>4. \A j \in D : j \notin DOMAIN entries => added[j - last] = Entry(rows[j - last].key, j - last, t)
    BY <2>3
  <2> HIDE DEF added, D
  <2> QED BY <2>1, <2>4
<1> HIDE DEF last
<1>4. \A p \in P : p \in Nat /\ p >= 1 /\ p <= MaxRows BY <1>1
<1>5. \A p \in P : last + p \notin DOMAIN entries BY <1>2, <1>4
<1>6. n + MaxRows \in Nat /\ DOMAIN g \subseteq 0 .. n + MaxRows BY <1>1, <1>2, <1>4
<1>7. \A j \in DOMAIN entries : j \in DOMAIN g /\ g[j] = entries[j] OBVIOUS
<1>8. ASSUME NEW p \in P
      PROVE  /\ last + p \in DOMAIN g \ DOMAIN entries
             /\ g[last + p] = Entry(rows[p].key, p, t) /\ g[last + p].row = p
  <2>1. (last + p) - last = p BY <1>2, <1>4
  <2> QED BY <1>5, <2>1 DEF Entry
<1>9. \A j \in DOMAIN g \ DOMAIN entries : \E p \in P : j = last + p OBVIOUS
<1> HIDE DEF g
<1>10. ASSUME NEW j \in DOMAIN g \ DOMAIN entries, NEW k \in DOMAIN g \ DOMAIN entries, g[j].row = g[k].row
       PROVE  j = k
  BY <1>8, <1>9, <1>10
<1>11. \A j \in DOMAIN g \ DOMAIN entries : \E p \in P : g[j] = Entry(rows[p].key, p, t)
  BY <1>8, <1>9
<1>12. g = [j \in DOMAIN g |-> g[j]] BY DEF g
<1> QED BY <1>3, <1>6, <1>7, <1>8, <1>10, <1>11, <1>12

\* mark_delete_impl sets free delete marks of scanned entries, and all that are alone.
LEMMA MarkFacts ==
    ASSUME NEW entries, entries \in [DOMAIN entries -> IndexEntry], DOMAIN entries \subseteq Nat,
           NEW old, NEW t \in Nat
    PROVE  LET g == MarkDelete(entries, old, t) IN
           /\ DOMAIN g = DOMAIN entries /\ g \in [DOMAIN entries -> IndexEntry]
           /\ \A j \in DOMAIN entries :
                 /\ g[j].key = entries[j].key /\ g[j].row = entries[j].row /\ g[j].ins = entries[j].ins
                 /\ \/ g[j].del = entries[j].del
                    \/ /\ <<entries[j].key, entries[j].row>> \in old /\ entries[j].del = NotDeleted
                       /\ g[j].del = t
                 /\ /\ <<entries[j].key, entries[j].row>> \in old /\ entries[j].del = NotDeleted
                    /\ \A k \in DOMAIN entries : entries[k].row = entries[j].row => k = j
                    => g[j].del = t
<1> DEFINE g == MarkDelete(entries, old, t)
           matches(j) == <<entries[j].key, entries[j].row>> \in old /\ entries[j].del = NotDeleted
           first(j) == \A i \in DOMAIN entries : i < j /\ matches(i) => entries[i].row # entries[j].row
<1>1. g = [j \in DOMAIN entries |->
              IF matches(j) /\ first(j) THEN [entries[j] EXCEPT !.del = t] ELSE entries[j]]
  BY DEF MarkDelete
<1> HIDE DEF g
<1>2. DOMAIN g = DOMAIN entries BY <1>1
<1>3. ASSUME NEW j \in DOMAIN entries
      PROVE  /\ g[j] \in IndexEntry
             /\ g[j].key = entries[j].key /\ g[j].row = entries[j].row /\ g[j].ins = entries[j].ins
             /\ g[j].del = entries[j].del \/ (matches(j) /\ g[j].del = t)
             /\ matches(j) /\ first(j) => g[j].del = t
  <2>1. entries[j] \in IndexEntry OBVIOUS
  <2>2. g[j] = entries[j] \/ (matches(j) /\ first(j) /\ g[j] = [entries[j] EXCEPT !.del = t]) BY <1>1
  <2>3. matches(j) /\ first(j) => g[j] = [entries[j] EXCEPT !.del = t] BY <1>1
  <2>4. LET e == [entries[j] EXCEPT !.del = t]
        IN  /\ e \in IndexEntry /\ e.key = entries[j].key /\ e.row = entries[j].row
            /\ e.ins = entries[j].ins /\ e.del = t
    BY ONLY <2>1, t \in Nat DEF IndexEntry
  <2>5. CASE g[j] = entries[j] /\ ~(matches(j) /\ first(j))
    <3> HIDE DEF matches, first
    <3> QED BY <2>1, <2>5
  <2>6. CASE g[j] = [entries[j] EXCEPT !.del = t] /\ matches(j)
    <3> HIDE DEF matches, first
    <3> QED BY <2>4, <2>6
  <2> QED BY <2>2, <2>3, <2>5, <2>6
<1>4. ASSUME NEW j \in DOMAIN entries, \A k \in DOMAIN entries : entries[k].row = entries[j].row => k = j
      PROVE  first(j)
  <2>1. j \in Nat /\ ~(j < j) OBVIOUS
  <2>2. SUFFICES ASSUME NEW i \in DOMAIN entries, i < j, matches(i) PROVE entries[i].row # entries[j].row
    OBVIOUS
  <2> QED BY <1>4, <2>1, <2>2
<1>5. g \in [DOMAIN entries -> IndexEntry] BY <1>1, <1>3
<1> QED BY <1>2, <1>3, <1>4, <1>5 DEF g

-----------------------------------------------------------------------------
(* What a message of a session leaves alone.                               *)

Message(s) == HeapOnly(s) \/ Dml(s) \/ EndOfTxn(s)

\* storage_fetch answers with no row, or with a scan output whose row ids the heap may have.
FetchReply(s) ==
    \/ EmptyStatement(s) /\ ix'[s].old = {}
    \/ \E m \in SUBSET (1 .. MaxRows), h \in 1 .. MaxHits :
          /\ IndexScan(s, m, h)
          /\ \A o \in ix'[s].old : o[2] \in m /\ \E i \in DOMAIN rows : o[1] = rows[i].key

\* The reply names ids of the request, each for one row that is there.
LEMMA FetchFacts ==
    ASSUME IndexInv, NEW s \in Session, IFetch(s)
    PROVE  /\ ix[s].step = "fetch" /\ pc[s] = "open" /\ ix' = [ix EXCEPT ![s] = ix'[s]]
           /\ ix'[s] \in IxType /\ ix'[s].step = "none"
           /\ FetchReply(s)
<1>t. /\ ix \in [Session -> IxType] /\ StepOK(s) /\ MaxHits \in Nat /\ MaxRows \in Nat
      /\ \A i \in DOMAIN rows : rows[i].key \in Nat
  BY TableAssumption, RowStamps DEF IndexInv, IndexTypes, ChainIx, TableInv, HeapOK
<1> DEFINE found == ix[s].found
           present == {p \in DOMAIN found : found[p] \in DOMAIN rows}
           upTo(p) == {q \in present : q <= p}
           named == [p \in present |-> found[Cardinality(upTo(p))]]
           old == {<<rows[found[p]].key, named[p]>> : p \in present}
<1>1. /\ ix[s].step = "fetch"
      /\ IF present = {} THEN EmptyStatement(s) ELSE IndexScan(s, Range(named), Cardinality(present))
      /\ ix' = [ix EXCEPT ![s] = [NoIx EXCEPT !.old = old]]
  BY DEF IFetch
<1>2. PICK n \in 0 .. MaxHits : found \in [1 .. n -> 1 .. MaxRows]
  <2>1. ix[s] \in IxType BY <1>t
  <2>2. ix[s].found \in Found BY ONLY <2>1 DEF IxType
  <2> QED BY <2>2 DEF Found
<1>3. \A S \in SUBSET (1 .. n) : /\ Cardinality(S) \in Nat /\ Cardinality(S) <= n
                                 /\ Cardinality(S) = 0 <=> S = {}
  <2>1. n \in Nat BY <1>t
  <2>2. IsFiniteSet(1 .. n) /\ Cardinality(1 .. n) = n BY <2>1, FS_Interval
  <2>3. ASSUME NEW S \in SUBSET (1 .. n)
        PROVE  Cardinality(S) \in Nat /\ Cardinality(S) <= n /\ (Cardinality(S) = 0 <=> S = {})
    <3>1. IsFiniteSet(S) /\ Cardinality(S) <= Cardinality(1 .. n) BY <2>2, FS_Subset
    <3>2. Cardinality(S) \in Nat BY <3>1, FS_CardinalityType
    <3>3. Cardinality(S) = 0 <=> S = {} BY <3>1, FS_EmptySet
    <3> QED BY <2>2, <3>1, <3>2, <3>3
  <2> QED BY <2>3
<1> HIDE DEF found
<1>4. present \in SUBSET (1 .. n) BY <1>2
<1>5. ASSUME NEW p \in present PROVE named[p] \in 1 .. MaxRows
  <2>1. p \in 1 .. n BY <1>4
  <2>2. p \in upTo(p) /\ upTo(p) \in SUBSET (1 .. n) BY <1>4, <2>1
  <2>3. Cardinality(upTo(p)) \in 1 .. n BY <1>3, <1>t, <2>2
  <2> QED BY <1>2, <2>3
<1>6. ix'[s] = [step |-> "none", found |-> <<>>, old |-> old] BY <1>1, <1>t DEF NoIx
<1>7. old \in SUBSET (Nat \X (1 .. MaxRows))
  <2>1. ASSUME NEW p \in present PROVE rows[found[p]].key \in Nat BY <1>t
  <2> HIDE DEF present, named
  <2> QED BY <1>5, <2>1
<1>8. <<>> \in Found
  <2>1. <<>> \in [1 .. 0 -> 1 .. MaxRows] /\ 0 \in 0 .. MaxHits BY <1>t
  <2> QED BY <2>1 DEF Found
<1>9. ix'[s].step = "none" /\ ix'[s].old = old /\ ix'[s] \in IxType
  <2> HIDE DEF old
  <2> QED BY <1>6, <1>7, <1>8 DEF IxType, Step
<1>10. ASSUME present = {} PROVE FetchReply(s)
  <2>1. old = {} /\ EmptyStatement(s) BY <1>1, <1>10
  <2>2. ix'[s].old = {} BY <1>9, <2>1
  <2> HIDE DEF present, named, old
  <2> QED BY ONLY <2>1, <2>2 DEF FetchReply
<1>11. ASSUME present # {} PROVE FetchReply(s)
  <2>1. Cardinality(present) \in 1 .. MaxHits BY <1>3, <1>4, <1>11, <1>t
  <2>2. Range(named) \in SUBSET (1 .. MaxRows) BY <1>5 DEF Range
  <2>3. ASSUME NEW o \in old PROVE o[2] \in Range(named) /\ \E i \in DOMAIN rows : o[1] = rows[i].key
    <3>1. PICK p \in present : o = <<rows[found[p]].key, named[p]>> OBVIOUS
    <3>2. named[p] \in Range(named) BY DEF Range
    <3>3. found[p] \in DOMAIN rows OBVIOUS
    <3> QED BY <3>1, <3>2, <3>3
  <2>4. IndexScan(s, Range(named), Cardinality(present)) BY <1>1, <1>11
  <2> HIDE DEF present, named, old
  <2>5. /\ IndexScan(s, Range(named), Cardinality(present))
        /\ \A o \in ix'[s].old : o[2] \in Range(named) /\ \E i \in DOMAIN rows : o[1] = rows[i].key
    BY ONLY <1>9, <2>3, <2>4
  <2>6. PICK m \in SUBSET (1 .. MaxRows), h \in 1 .. MaxHits : m = Range(named) /\ h = Cardinality(present)
    BY ONLY <2>1, <2>2
  <2>7. IndexScan(s, m, h) /\ \A o \in ix'[s].old : o[2] \in m /\ \E i \in DOMAIN rows : o[1] = rows[i].key
    BY ONLY <2>5, <2>6
  <2> QED BY ONLY m \in SUBSET (1 .. MaxRows), h \in 1 .. MaxHits, <2>7 DEF FetchReply
<1>12. ix' = [ix EXCEPT ![s] = ix'[s]] BY <1>1, <1>t
<1> QED BY <1>1, <1>9, <1>10, <1>11, <1>12, <1>t DEF StepOK

\* A search changes nothing but what the chain carries.
LEMMA SearchFacts ==
    ASSUME IndexInv, NEW s \in Session, NEW n \in 1 .. MaxHits, NEW hits \in Injection(1 .. n, Search(s)),
           ISearch(s, hits)
    PROVE  /\ Quiet(s) /\ pc[s] = "open" /\ ix' = [ix EXCEPT ![s] = ix'[s]] /\ UNCHANGED vars
           /\ ix'[s] \in IxType /\ ix'[s].step = "fetch" /\ ix'[s].old = ix[s].old
<1>t. /\ ix \in [Session -> IxType] /\ ix[s] \in IxType /\ idx \in [DOMAIN idx -> IndexEntry]
      /\ MaxHits \in Nat /\ hits \in [1 .. n -> Search(s)]
  BY TableAssumption DEF IndexInv, IndexTypes, Injection, IsInjective
<1> DEFINE f == [k \in DOMAIN hits |-> idx[hits[k]].row]
<1>1. ix' = [ix EXCEPT ![s].step = "fetch", ![s].found = f] /\ Quiet(s) /\ pc[s] = "open" /\ UNCHANGED vars
  BY DEF ISearch
<1>2. f \in [1 .. n -> 1 .. MaxRows]
  <2>1. \A k \in 1 .. n : hits[k] \in DOMAIN idx BY <1>t DEF Search
  <2>2. \A j \in DOMAIN idx : idx[j].row \in 1 .. MaxRows BY <1>t DEF IndexEntry
  <2> QED BY <1>t, <2>1, <2>2
<1>3. f \in Found BY <1>t, <1>2 DEF Found
<1> HIDE DEF f
<1>4. ix'[s] = [ix[s] EXCEPT !.step = "fetch", !.found = f] BY <1>t, <1>1
<1>5. ix'[s] \in IxType /\ ix'[s].step = "fetch" /\ ix'[s].old = ix[s].old
  BY ONLY <1>t, <1>3, <1>4 DEF IxType, Step
<1> QED BY <1>1, <1>5, <1>t

\* At most one message to the heap or the transaction manager, and nothing of the
\* CHECKPOINT chain.
LEMMA MessageFrame ==
    ASSUME IndexInv, NEW s \in Session, Message(s)
    PROVE  /\ Client(s) \/ Pipeline(s) \/ UNCHANGED vars
           /\ cp' = cp
           /\ ix' = [ix EXCEPT ![s] = ix'[s]]
<1>t. ix \in [Session -> IxType] BY DEF IndexInv, IndexTypes, IxType
<1>1. CASE HeapOnly(s)
  <2>1. Client(s) \/ Pipeline(s) BY <1>1 DEF HeapOnly, Client, Pipeline, CommitEmpty, AtCommit
  <2> QED BY <1>1, <1>t, <2>1 DEF HeapOnly
<1>2. CASE Dml(s)
  <2>1. CASE Mirror(s) BY <1>t, <2>1 DEF Mirror
  <2>2. CASE IInsert(s) \/ IDelete(s) \/ IUpdate(s) \/ IUpdateFailed(s)
    <3>1. Client(s) BY <2>2 DEF IInsert, IDelete, IUpdate, IUpdateFailed, Client
    <3> QED BY <2>2, <1>t, <3>1 DEF IInsert, IDelete, IUpdate, IUpdateFailed, NextIx
  <2>3. ASSUME NEW m \in SUBSET VisibleRows(Data(s)), IScan(s, m)
        PROVE  Client(s) /\ cp' = cp /\ ix' = [ix EXCEPT ![s] = ix'[s]]
    BY <2>3, <1>t DEF IScan, Client
  <2>4. ASSUME NEW n \in 1 .. MaxHits, NEW hits \in Injection(1 .. n, Search(s)), ISearch(s, hits)
        PROVE  UNCHANGED vars /\ cp' = cp /\ ix' = [ix EXCEPT ![s] = ix'[s]]
    <3>1. cp' = cp BY <2>4 DEF ISearch
    <3> QED BY <2>4, <3>1, SearchFacts
  <2>5. CASE IFetch(s)
    <3>1. cp' = cp BY <2>5 DEF IFetch
    <3>2. Client(s) BY <2>5, FetchFacts DEF FetchReply, Client
    <3> QED BY <2>5, <3>1, <3>2, FetchFacts
  <2> QED BY <1>2, <2>1, <2>2, <2>3, <2>4, <2>5 DEF Dml
<1>3. CASE EndOfTxn(s)
  <2>1. Client(s) \/ Pipeline(s) \/ UNCHANGED vars
    BY <1>3 DEF EndOfTxn, ICommitDrain, IRollbackDrain, IRevertInsert, IRevertDelete, CommitInserts,
           CommitDeletes, Client, Pipeline, CommitDrain, AtCommit
  <2>2. cp' = cp /\ ix' = [ix EXCEPT ![s] = ix'[s]]
    BY <1>3, <1>t DEF EndOfTxn, ICommitDrain, IRollbackDrain, IRevertInsert, IRevertDelete,
           CommitInserts, CommitDeletes, NextIx
  <2> QED BY <2>1, <2>2
<1> QED BY <1>1, <1>2, <1>3 DEF Message

\* The table under the index keeps its invariant.
LEMMA MessageTable ==
    ASSUME IndexInv, NEW s \in Session, Message(s)
    PROVE  /\ TableInv'
           /\ RowsStep(s)
           /\ [Next]_tmVars
           /\ \A r \in Session \ {s} : /\ pc'[r] = pc[r] /\ op'[r] = op[r] /\ active'[r] = active[r]
                                       /\ ix'[r] = ix[r]
<1>1. Client(s) \/ Pipeline(s) \/ UNCHANGED vars BY MessageFrame
<1>2. TableInv /\ pc[s] # "cleanup" /\ ix \in [Session -> IxType]
  BY DEF IndexInv, ChainIx, IndexTypes, IxType
<1>3. \A r \in Session \ {s} : ix'[r] = ix[r] BY <1>2, MessageFrame
<1>4. CASE Client(s) \/ Pipeline(s)
  <2>1. TableInv' BY <1>2, <1>4, NextTableInv DEF TableNext
  <2> QED BY <1>2, <1>3, <1>4, <2>1, RowsSteps, ManagerStep, OthersKept
<1>5. CASE UNCHANGED vars
  <2>1. TableInv' BY <1>2, <1>5, NextTableInv
  <2>2. RowsStep(s) BY <1>5 DEF RowsStep, InsertStep, DeleteStep, vars, tableVars
  <2> QED BY <1>3, <1>5, <2>1, <2>2 DEF vars, tableVars, tmVars
<1> QED BY <1>1, <1>4, <1>5

\* What a chain can do in the states that the agreement depends on.
Shape(s) ==
    /\ pc[s] = "drained" => \/ StampAppends(s)
                            \/ ~Busy(s)'
                            \/ pc'[s] = pc[s] /\ op'[s] = op[s]
    /\ pc[s] = "deletes" => StampDeletes(s)
    /\ pc[s] = "publish" => ~Busy(s)'
    /\ pc[s] = "failed" => ~Busy(s)'
    /\ pc[s] = "abort" => \/ ~Busy(s)'
                          \/ /\ pc'[s] = pc[s] /\ op'[s] = op[s]
                             /\ ~Quiet(s) /\ ix'[s].step # "revert_insert"
    /\ ix[s].step = "mirror" => Mirror(s)

\* Where a message takes the chain of its session and the messages it still owes.
LEMMA Shapes ==
    ASSUME IndexInv, NEW s \in Session, Message(s)
    PROVE  Shape(s)
<1>t. /\ ix \in [Session -> IxType] /\ pc \in [Session -> PC] /\ op \in [Session -> Op] /\ StepOK(s)
  BY DEF IndexInv, IndexTypes, IxType, TableInv, ChainTypes, ChainIx
<1> USE <1>t DEF Shape, Busy, Quiet
<1>1. CASE HeapOnly(s)
  BY <1>1, IndexAssumption DEF HeapOnly, Begin, ReleaseReadOnly, EmptyStatement, StatementOk, StatementFailed,
         CommitEmpty, AtCommit, StampAppends, StampDeletes, PublishCommit, RollbackDeletes
<1>2. CASE Dml(s)
  <2>1. CASE Mirror(s) BY <2>1 DEF Mirror, vars, tableVars, StepOK
  <2>2. CASE IFetch(s) BY <2>2, FetchFacts
  <2>3. ASSUME NEW n \in 1 .. MaxHits, NEW hits \in Injection(1 .. n, Search(s)), ISearch(s, hits)
        PROVE  Shape(s)
    BY <2>3, SearchFacts
  <2>4. ASSUME NEW m \in SUBSET VisibleRows(Data(s)), IScan(s, m) PROVE Shape(s)
    BY <2>4 DEF IScan, Scan, ScanReply
  <2> QED BY <1>2, <2>1, <2>2, <2>3, <2>4
       DEF Dml, IInsert, Insert, IDelete, DeleteRows, IUpdate, UpdateRows, IUpdateFailed, UpdateFailed
<1>3. CASE ICommitDrain(s) \/ IRollbackDrain(s)
  BY <1>3 DEF ICommitDrain, CommitDrain, AtCommit, IRollbackDrain, RollbackDrain
<1>4. CASE IRevertInsert(s) \/ IRevertDelete(s)
  BY <1>4 DEF IRevertInsert, IRevertDelete, NextIx, StepOK, vars, tableVars, IxType
<1>5. ASSUME NEW failed \in BOOLEAN, CommitInserts(s, failed) \/ CommitDeletes(s, failed) PROVE Shape(s)
  BY <1>5 DEF CommitInserts, CommitDeletes, IndexCommitFailed, StepOK, vars, tableVars
<1> QED BY <1>1, <1>2, <1>3, <1>4, <1>5 DEF Message, EndOfTxn

\* The ids a chain runs with are its old ones or fresh ones, and only its own publish
\* takes an id out of flight.
LEMMA FrameIds ==
    ASSUME IndexInv, NEW s \in Session, Message(s)
    PROVE  /\ \A x \in Pending : x \in Pending'
           /\ Busy(s)' => (Busy(s) /\ op'[s].txnId = op[s].txnId) \/ op'[s].txnId \notin Pending
           /\ Committing(s)' => \/ Committing(s) /\ op'[s].commitId = op[s].commitId
                                \/ op'[s].commitId \notin inFlight
           /\ \/ inFlight \subseteq inFlight'
              \/ pc[s] = "publish" /\ inFlight' = inFlight \ {op[s].commitId}
<1>1. TableInv /\ TableInv' /\ [Next]_tmVars BY MessageTable DEF IndexInv
<1>2. IInv /\ IInv' /\ nextTxnId \in Nat BY <1>1 DEF TableInv, IInv, TypeOK
<1>3. \A x \in Pending : x \in Pending'
  <2>1. nextTxnId' \in Nat /\ nextTxnId' >= nextTxnId BY <1>1, <1>2, ClockStep
  <2> QED BY <1>2, <2>1, PendingGrows
<1>4. TxnIdStart + nextTxnId \notin Pending
  BY <1>2, StampAssumption DEF Pending
<1>5. currentTs \notin inFlight BY <1>2 DEF IInv, TypeOK, InFlightBelowClock
<1>6. CASE Client(s) \/ Pipeline(s)
  <2>1. OwnStep(s) BY <1>1, <1>2, <1>6, OwnSteps
  <2>2. \/ inFlight \subseteq inFlight'
        \/ pc[s] = "publish" /\ inFlight' = inFlight \ {op[s].commitId}
    BY <1>6, FreshStep DEF PublishCommit, Publish
  <2> QED BY <1>3, <1>4, <1>5, <2>1, <2>2 DEF OwnStep
<1>7. CASE UNCHANGED vars
  BY <1>3, <1>7 DEF vars, tmVars, tableVars, Busy, Committing
<1> QED BY <1>6, <1>7, MessageFrame

\* A half stamped row or entry stays one until its own chain stamps the heap.
LEMMA HalfKept ==
    ASSUME IndexInv, NEW s \in Session, Message(s), NEW t, NEW c
    PROVE  /\ Half(t, c, InsStage) /\ ~(StampAppends(s) /\ Runs(s, t)) => Half(t, c, InsStage)'
           /\ Half(t, c, DelStage) /\ ~(StampDeletes(s) /\ Runs(s, t)) => Half(t, c, DelStage)'
<1>1. Shape(s) BY Shapes
<1>2. \A r \in Session \ {s} : pc'[r] = pc[r] /\ op'[r] = op[r] BY MessageTable
<1>3. \A r \in Session : Committing(r) => Busy(r) BY DEF Committing, Busy
<1>4. StampAppends(s) => pc[s] = "drained" /\ pc'[s] = "deletes" /\ op'[s] = op[s]
  BY DEF StampAppends, IndexInv, TableInv, ChainTypes
<1>5. StampDeletes(s) => pc[s] = "deletes" BY DEF StampDeletes
<1>a. (Committing(s) => Busy(s)) /\ (Committing(s)' => Busy(s)') BY DEF Committing, Busy
<1>6. ASSUME Half(t, c, InsStage), ~(StampAppends(s) /\ Runs(s, t)) PROVE Half(t, c, InsStage)'
  <2>1. t \in Pending /\ c \in inFlight BY <1>6 DEF Half
  <2>2. Runs(s, t) \/ (Committing(s) /\ op[s].commitId = c) =>
           pc[s] = "drained" /\ op[s].txnId = t /\ op[s].commitId = c
    BY <1>6 DEF Half, InsStage
  <2>3. t \in Pending' /\ c \in inFlight'
    <3>1. ~(pc[s] = "publish" /\ op[s].commitId = c) BY <2>2 DEF Committing
    <3> QED BY <2>1, <3>1, FrameIds
  <2>4. ASSUME (Runs(s, t) \/ (Committing(s) /\ op[s].commitId = c))'
        PROVE  pc'[s] = "drained" /\ op'[s].txnId = t /\ op'[s].commitId = c
    <3>1. Runs(s, t) \/ (Committing(s) /\ op[s].commitId = c)
      BY <2>1, <2>4, FrameIds DEF Runs
    <3>2. pc[s] = "drained" /\ op[s].txnId = t /\ op[s].commitId = c /\ Runs(s, t)
      BY <2>2, <3>1, <1>a DEF Runs
    <3>3. Busy(s)' BY <1>a, <2>4 DEF Runs
    <3> QED BY <1>1, <1>6, <3>2, <3>3 DEF Shape
  <2>5. ASSUME NEW r \in Session \ {s}, (Runs(r, t) \/ (Committing(r) /\ op[r].commitId = c))'
        PROVE  pc'[r] = "drained" /\ op'[r].txnId = t /\ op'[r].commitId = c
    <3>1. Runs(r, t) \/ (Committing(r) /\ op[r].commitId = c)
      BY <1>2, <2>5 DEF Runs, Busy, Committing
    <3> QED BY <1>2, <1>6, <3>1 DEF Half, InsStage
  <2> QED BY <2>3, <2>4, <2>5 DEF Half, InsStage
<1>7. ASSUME Half(t, c, DelStage), ~(StampDeletes(s) /\ Runs(s, t)) PROVE Half(t, c, DelStage)'
  <2>1. t \in Pending /\ c \in inFlight BY <1>7 DEF Half
  <2>2. Runs(s, t) \/ (Committing(s) /\ op[s].commitId = c) =>
           pc[s] \in {"drained", "deletes"} /\ op[s].del /\ op[s].txnId = t /\ op[s].commitId = c
    BY <1>7 DEF Half, DelStage
  <2>3. t \in Pending' /\ c \in inFlight'
    <3>1. ~(pc[s] = "publish" /\ op[s].commitId = c) BY <2>2 DEF Committing
    <3> QED BY <2>1, <3>1, FrameIds
  <2>4. ASSUME (Runs(s, t) \/ (Committing(s) /\ op[s].commitId = c))'
        PROVE  /\ pc'[s] \in {"drained", "deletes"} /\ op'[s].del
               /\ op'[s].txnId = t /\ op'[s].commitId = c
    <3>1. Runs(s, t) \/ (Committing(s) /\ op[s].commitId = c)
      BY <2>1, <2>4, FrameIds DEF Runs
    <3>2. /\ pc[s] \in {"drained", "deletes"} /\ op[s].txnId = t /\ op[s].commitId = c /\ Runs(s, t)
          /\ op[s].del
      BY <2>2, <3>1, <1>a DEF Runs
    <3>3. Busy(s)' BY <1>a, <2>4 DEF Runs
    <3> QED BY <1>1, <1>4, <1>7, <3>2, <3>3 DEF Shape
  <2>5. ASSUME NEW r \in Session \ {s}, (Runs(r, t) \/ (Committing(r) /\ op[r].commitId = c))'
        PROVE  /\ pc'[r] \in {"drained", "deletes"} /\ op'[r].del
               /\ op'[r].txnId = t /\ op'[r].commitId = c
    <3>1. Runs(r, t) \/ (Committing(r) /\ op[r].commitId = c)
      BY <1>2, <2>5 DEF Runs, Busy, Committing
    <3> QED BY <1>2, <1>7, <3>1 DEF Half, DelStage
  <2> QED BY <2>3, <2>4, <2>5 DEF Half, DelStage
<1> QED BY <1>6, <1>7

\* A row without an entry, or a mark without one, stays so until its own mirror.
LEMMA UnmirroredKept ==
    ASSUME IndexInv, NEW s \in Session, Message(s), NEW t, NEW i, ~(Mirror(s) /\ Runs(s, t))
    PROVE  /\ Unmirrored(t, i) => Unmirrored(t, i)'
           /\ Unmarked(t, i) /\ rows'[i].key = rows[i].key => Unmarked(t, i)'
<1>1. Shape(s) BY Shapes
<1>2. \A r \in Session \ {s} : pc'[r] = pc[r] /\ op'[r] = op[r] /\ ix'[r] = ix[r] BY MessageTable
<1>3. t \in Pending => t \in Pending' /\ (Runs(s, t)' => Busy(s)' /\ Runs(s, t))
  BY FrameIds DEF Runs
<1>4. \A r \in Session \ {s} : Runs(r, t)' => Runs(r, t) BY <1>2 DEF Runs, Busy
<1>5. ASSUME Unmirrored(t, i) PROVE Unmirrored(t, i)'
  BY <1>1, <1>2, <1>3, <1>4, <1>5 DEF Unmirrored, Shape
<1>6. ASSUME Unmarked(t, i), rows'[i].key = rows[i].key PROVE Unmarked(t, i)'
  BY <1>1, <1>2, <1>3, <1>4, <1>6 DEF Unmarked, Shape, Quiet
<1> QED BY <1>5, <1>6

\* A snapshot is kept, released, or taken now.
LEMMA ActiveStep ==
    ASSUME TableInv, NEW s \in Session, Client(s) \/ Pipeline(s) \/ UNCHANGED vars, IsActive(s)'
    PROVE  \/ IsActive(s) /\ active'[s] = active[s]
           \/ /\ active'[s].snapHorizon = horizon /\ active'[s].snapInFlight = inFlight
              /\ active'[s].startTime = currentTs /\ currentTs' = currentTs + 1
              /\ UNCHANGED <<horizon, inFlight>>
<1>t. active \in [Session -> Txn \cup {NoTxn}] BY DEF TableInv, IInv, TypeOK
<1> USE <1>t DEF IsActive, NoTxn
<1>1. BeginTransaction(s) \/ Abort(s) \/ Commit(s) \/ UNCHANGED active
  <2>1. CASE Client(s)
    BY ONLY <2>1, Zenon DEF Client, Begin, ReleaseReadOnly, Insert, Scan, IndexScan, ScanReply, EmptyStatement,
           DeleteRows, UpdateRows, UpdateFailed, StatementFailed, CommitDrain, CommitEmpty, IndexCommitFailed, RollbackDrain,
           tmVars
  <2>2. CASE Pipeline(s)
    BY ONLY <2>2, Zenon DEF Pipeline, StatementOk, CommitDrain, CommitEmpty, StampAppends, StampDeletes,
           PublishCommit, Publish, MaybeCleanup, RollbackDeletes, tmVars
  <2>3. CASE UNCHANGED vars BY <2>3 DEF vars, tmVars
  <2> QED BY ONLY <2>1, <2>2, <2>3, Client(s) \/ Pipeline(s) \/ UNCHANGED vars
<1>2. CASE BeginTransaction(s) BY <1>2 DEF BeginTransaction
<1>3. CASE Abort(s) \/ Commit(s) BY <1>3 DEF Abort, Commit
<1> QED BY <1>1, <1>2, <1>3

-----------------------------------------------------------------------------
(* Clocks and stamps.                                                      *)

\* The order of commit ids, transaction ids and "not deleted".
LEMMA Numbers ==
    ASSUME TableInv
    PROVE  /\ horizon \in Nat /\ currentTs \in Nat /\ horizon < currentTs /\ currentTs >= 1
           /\ currentTs <= MaxTs /\ currentTs < TxnIdStart /\ nextTxnId \in Nat
           /\ TxnIdStart \in Nat /\ NotDeleted \in Nat /\ TxnIdStart < NotDeleted
           /\ \A c \in inFlight : c \in Nat /\ c >= 1 /\ c < currentTs /\ c < TxnIdStart
           /\ \A t \in Pending : t \in Nat /\ t >= TxnIdStart /\ t < NotDeleted
           /\ NotDeleted \notin Pending
           /\ \A s \in Session : IsActive(s) => active[s] \in Txn
<1> USE StampAssumption, TableAssumption, MaxTsAssumption
<1>1. /\ horizon \in Nat /\ currentTs \in 1 .. MaxTs /\ horizon + 1 <= currentTs /\ nextTxnId \in Nat
      /\ nextTxnId < currentTs /\ inFlight \in SUBSET (1 .. MaxTs) /\ \A c \in inFlight : c < currentTs
      /\ active \in [Session -> Txn \cup {NoTxn}]
  BY DEF TableInv, IInv, TypeOK, ClockAboveHorizon, InFlightBelowClock, IdsBelowClock
<1>2. \A t \in Pending : t \in Nat /\ t >= TxnIdStart /\ t < NotDeleted BY <1>1 DEF Pending
<1>3. \A s \in Session : IsActive(s) => active[s] \in Txn BY <1>1 DEF IsActive, NoTxn
<1> QED BY <1>1, <1>2, <1>3

\* A stamp that is in flight, pending, 0 or "not deleted" is known.
LEMMA KnownStamps ==
    ASSUME IndexInv, NEW id \in Nat, id \in inFlight \/ id >= TxnIdStart \/ id = 0
    PROVE  Known(id)
<1>1. TableInv /\ SnapshotsTimed BY DEF IndexInv
<1>2. \A s \in Session : IsActive(s) => active[s].snapHorizon \in Nat BY <1>1, Numbers DEF Txn
<1>3. CASE id \in inFlight BY <1>1, <1>3 DEF Known, KnownTo, SnapshotsTimed
<1>4. CASE id >= TxnIdStart BY <1>1, <1>4, Numbers DEF Known
<1>5. CASE id = 0 BY <1>1, <1>2, <1>5, Numbers DEF Known, KnownTo
<1> QED BY <1>3, <1>4, <1>5

\* What is known stays known, and what everybody sees stays visible to everybody.
LEMMA KnownKept ==
    ASSUME IndexInv, NEW s \in Session, Message(s), NEW id \in Nat
    PROVE  /\ Known(id) => Known(id)'
           /\ Settled(id) => Settled(id)'
<1>1. TableInv /\ TableInv' BY MessageTable DEF IndexInv
<1>2. Client(s) \/ Pipeline(s) \/ UNCHANGED vars BY MessageFrame
<1>3. \A r \in Session \ {s} : active'[r] = active[r] BY MessageTable
<1>4. /\ Announced(id) => Announced(id)'
      /\ Fresh(id) => Fresh(id)'
  <2>1. Fresh(id) => Announced(id) BY DEF Fresh, Announced
  <2>2. CASE Client(s) \/ Pipeline(s) BY <1>1, <2>1, <2>2, FreshIds
  <2>3. CASE UNCHANGED vars BY <2>3 DEF vars, tmVars, Announced, Fresh
  <2> QED BY <1>2, <2>2, <2>3
<1>5. IsActive(s)' => \/ IsActive(s) /\ active'[s] = active[s]
                      \/ /\ active'[s].snapHorizon = horizon /\ active'[s].snapInFlight = inFlight
                         /\ active'[s].startTime = currentTs
  BY <1>1, <1>2, ActiveStep
<1>6. ASSUME Known(id) PROVE Known(id)'
  <2>1. Announced(id) BY <1>6 DEF Known, Announced
  <2>2. Announced(id)' BY <1>4, <2>1
  <2>3. ASSUME id < TxnIdStart, NEW r \in Session, IsActive(r)' PROVE KnownTo(r, id)'
    <3>1. CASE r # s BY <1>3, <1>6, <2>3, <3>1 DEF Known, KnownTo, IsActive
    <3>2. CASE r = s BY <1>5, <1>6, <2>1, <2>3, <3>2 DEF Known, KnownTo, Announced
    <3> QED BY <3>1, <3>2
  <2> QED BY <2>2, <2>3 DEF Known, Announced
<1>7. ASSUME Settled(id) PROVE Settled(id)'
  <2>1. Fresh(id) /\ Fresh(id)' BY <1>4, <1>7 DEF Settled
  <2>2. ASSUME NEW r \in Session, IsActive(r)' PROVE CommitVisible(active[r], id)'
    <3>1. CASE r # s BY <1>3, <1>7, <2>2, <3>1 DEF Settled, CommitVisible, IsActive
    <3>2. CASE r = s BY <1>5, <1>7, <2>1, <2>2, <3>2 DEF Settled, CommitVisible, Fresh
    <3> QED BY <3>1, <3>2
  <2> QED BY <2>1, <2>2 DEF Settled
<1> QED BY <1>6, <1>7

\* A new snapshot starts behind the horizon and after every commit in flight.
LEMMA TimedKept ==
    ASSUME IndexInv, NEW s \in Session, Message(s)
    PROVE  SnapshotsTimed'
<1>1. TableInv /\ TableInv' /\ [Next]_tmVars /\ SnapshotsTimed BY MessageTable DEF IndexInv
<1>2. Client(s) \/ Pipeline(s) \/ UNCHANGED vars BY MessageFrame
<1>3. \A r \in Session \ {s} : active'[r] = active[r] BY MessageTable
<1>4. inFlight' \subseteq inFlight \cup {currentTs}
  <2>1. CASE Client(s) \/ Pipeline(s) BY <2>1, FreshStep DEF PublishCommit, Publish
  <2>2. CASE UNCHANGED vars BY <2>2 DEF vars, tmVars
  <2> QED BY <1>2, <2>1, <2>2
<1>5. currentTs' >= currentTs /\ currentTs \in Nat /\ currentTs' \in Nat /\ currentTs >= 1 /\ horizon < currentTs
  BY <1>1, Numbers, ClockStep DEF TableInv
<1>6. \A c \in inFlight : c \in Nat /\ c < currentTs BY <1>1, Numbers
<1>7. ASSUME NEW r \in Session, IsActive(r), active'[r] = active[r]
      PROVE  /\ active'[r].startTime \in Nat \ {0} /\ active'[r].startTime < currentTs'
             /\ active'[r].snapHorizon < active'[r].startTime
             /\ \A c \in inFlight' : c < active'[r].startTime => c \in active'[r].snapInFlight
  <2>1. /\ active[r].startTime \in Nat \ {0} /\ active[r].startTime < currentTs
        /\ active[r].snapHorizon < active[r].startTime
        /\ \A c \in inFlight : c < active[r].startTime => c \in active[r].snapInFlight
    BY <1>1, <1>7 DEF SnapshotsTimed
  <2> QED BY <1>4, <1>5, <1>7, <2>1
<1>8. ASSUME IsActive(s)', ~(IsActive(s) /\ active'[s] = active[s])
      PROVE  /\ active'[s].startTime \in Nat \ {0} /\ active'[s].startTime < currentTs'
             /\ active'[s].snapHorizon < active'[s].startTime
             /\ \A c \in inFlight' : c < active'[s].startTime => c \in active'[s].snapInFlight
  <2>1. /\ active'[s].snapHorizon = horizon /\ active'[s].snapInFlight = inFlight
        /\ active'[s].startTime = currentTs /\ currentTs' = currentTs + 1
        /\ UNCHANGED <<horizon, inFlight>>
    BY <1>1, <1>2, <1>8, ActiveStep
  <2> QED BY <1>5, <2>1
<1>9. \A r \in Session \ {s} : IsActive(r)' => IsActive(r) BY <1>3 DEF IsActive
<1> QED BY <1>3, <1>7, <1>8, <1>9 DEF SnapshotsTimed

-----------------------------------------------------------------------------
(* What a message does to the entries.                                     *)

\* commit_insert_impl and commit_delete_impl change the stamps that match.
LEMMA RestampFacts ==
    ASSUME NEW entries, entries \in [DOMAIN entries -> IndexEntry], NEW t \in Nat, NEW c \in Nat
    PROVE  /\ LET g == CommitInsert(entries, t, c) IN
              /\ DOMAIN g = DOMAIN entries /\ g \in [DOMAIN entries -> IndexEntry]
              /\ \A j \in DOMAIN entries :
                    /\ g[j].key = entries[j].key /\ g[j].row = entries[j].row /\ g[j].del = entries[j].del
                    /\ g[j].ins = IF entries[j].ins = t THEN c ELSE entries[j].ins
           /\ LET g == CommitDelete(entries, t, c) IN
              /\ DOMAIN g = DOMAIN entries /\ g \in [DOMAIN entries -> IndexEntry]
              /\ \A j \in DOMAIN entries :
                    /\ g[j].key = entries[j].key /\ g[j].row = entries[j].row /\ g[j].ins = entries[j].ins
                    /\ g[j].del = IF entries[j].del = t THEN c ELSE entries[j].del
<1>1. ASSUME NEW j \in DOMAIN entries
      PROVE  /\ entries[j] \in IndexEntry
             /\ LET e == [entries[j] EXCEPT !.ins = c] IN
                /\ e \in IndexEntry /\ e.key = entries[j].key /\ e.row = entries[j].row
                /\ e.del = entries[j].del /\ e.ins = c
             /\ LET e == [entries[j] EXCEPT !.del = c] IN
                /\ e \in IndexEntry /\ e.key = entries[j].key /\ e.row = entries[j].row
                /\ e.ins = entries[j].ins /\ e.del = c
  <2>1. entries[j] \in IndexEntry OBVIOUS
  <2> QED BY ONLY <2>1, c \in Nat DEF IndexEntry
<1> DEFINE g == CommitInsert(entries, t, c)
           h == CommitDelete(entries, t, c)
<1>2. /\ g = [j \in DOMAIN entries |-> IF entries[j].ins = t THEN [entries[j] EXCEPT !.ins = c] ELSE entries[j]]
      /\ h = [j \in DOMAIN entries |-> IF entries[j].del = t THEN [entries[j] EXCEPT !.del = c] ELSE entries[j]]
  BY DEF CommitInsert, CommitDelete
<1> HIDE DEF g, h
<1>3. ASSUME NEW j \in DOMAIN entries
      PROVE  /\ g[j] \in IndexEntry
             /\ g[j].key = entries[j].key /\ g[j].row = entries[j].row /\ g[j].del = entries[j].del
             /\ g[j].ins = IF entries[j].ins = t THEN c ELSE entries[j].ins
  <2>1. CASE entries[j].ins = t
    <3>1. g[j] = [entries[j] EXCEPT !.ins = c] BY <1>2, <2>1
    <3> QED BY <1>1, <2>1, <3>1
  <2>2. CASE entries[j].ins # t
    <3>1. g[j] = entries[j] BY <1>2, <2>2
    <3> QED BY <1>1, <2>2, <3>1
  <2> QED BY <2>1, <2>2
<1>4. ASSUME NEW j \in DOMAIN entries
      PROVE  /\ h[j] \in IndexEntry
             /\ h[j].key = entries[j].key /\ h[j].row = entries[j].row /\ h[j].ins = entries[j].ins
             /\ h[j].del = IF entries[j].del = t THEN c ELSE entries[j].del
  <2>1. CASE entries[j].del = t
    <3>1. h[j] = [entries[j] EXCEPT !.del = c] BY <1>2, <2>1
    <3> QED BY <1>1, <2>1, <3>1
  <2>2. CASE entries[j].del # t
    <3>1. h[j] = entries[j] BY <1>2, <2>2
    <3> QED BY <1>1, <2>2, <3>1
  <2> QED BY <2>1, <2>2
<1>5. DOMAIN g = DOMAIN entries /\ DOMAIN h = DOMAIN entries BY <1>2
<1>6. g \in [DOMAIN entries -> IndexEntry] /\ h \in [DOMAIN entries -> IndexEntry]
  BY <1>2, <1>3, <1>4
<1>7. /\ LET f == CommitInsert(entries, t, c) IN
              /\ DOMAIN f = DOMAIN entries /\ f \in [DOMAIN entries -> IndexEntry]
              /\ \A j \in DOMAIN entries :
                    /\ f[j].key = entries[j].key /\ f[j].row = entries[j].row /\ f[j].del = entries[j].del
                    /\ f[j].ins = IF entries[j].ins = t THEN c ELSE entries[j].ins
  BY <1>3, <1>5, <1>6 DEF g
<1>8. /\ LET f == CommitDelete(entries, t, c) IN
              /\ DOMAIN f = DOMAIN entries /\ f \in [DOMAIN entries -> IndexEntry]
              /\ \A j \in DOMAIN entries :
                    /\ f[j].key = entries[j].key /\ f[j].row = entries[j].row /\ f[j].ins = entries[j].ins
                    /\ f[j].del = IF entries[j].del = t THEN c ELSE entries[j].del
  BY <1>4, <1>5, <1>6 DEF h
<1> QED BY <1>7, <1>8

\* The ids a chain sends to the index.
LEMMA ChainIds ==
    ASSUME IndexInv, NEW s \in Session
    PROVE  /\ ix[s] \in IxType
           /\ ix[s].step = "mirror" => pc[s] = "effect" /\ Busy(s) /\ IsActive(s)
           /\ ix[s].step \in {"commit_inserts", "commit_deletes"} => pc[s] = "drained" /\ Busy(s) /\ Committing(s)
           /\ ix[s].step \in {"revert_insert", "revert_delete"} => pc[s] = "abort" /\ Busy(s)
           /\ Busy(s) => op[s].txnId \in Pending /\ op[s].txnId \in Nat /\ op[s].txnId >= TxnIdStart /\ op[s].txnId < NotDeleted
           /\ Committing(s) => /\ op[s].commitId \in inFlight /\ op[s].commitId \in Nat
                               /\ op[s].commitId >= 1 /\ op[s].commitId < TxnIdStart
           /\ op[s] \in Op
<1>1. ix \in [Session -> IxType] /\ TableInv /\ StepOK(s) /\ ChainOK(s) /\ op \in [Session -> Op]
  BY DEF IndexInv, IndexTypes, IxType, ChainIx, TableInv, ChainsOK, ChainTypes
<1>2. Busy(s) => op[s].txnId \in Pending BY <1>1 DEF ChainOK
<1>3. Committing(s) => op[s].commitId \in inFlight BY <1>1 DEF ChainOK
<1> QED BY <1>1, <1>2, <1>3, Numbers DEF StepOK, Busy, Committing, ChainOK

\* The mirror adds one entry per appended row and marks scanned entries that are free.
LEMMA MirrorFacts ==
    ASSUME IndexInv, NEW s \in Session, Mirror(s)
    PROVE  /\ \E n \in Nat : DOMAIN idx' \subseteq 0 .. n
           /\ idx' \in [DOMAIN idx' -> IndexEntry]
           /\ DOMAIN idx \subseteq DOMAIN idx'
           /\ \A j \in DOMAIN idx :
                 /\ idx'[j].key = idx[j].key /\ idx'[j].row = idx[j].row /\ idx'[j].ins = idx[j].ins
                 /\ \/ idx'[j].del = idx[j].del
                    \/ /\ <<idx[j].key, idx[j].row>> \in ix[s].old /\ idx[j].del = NotDeleted
                       /\ idx'[j].del = op[s].txnId
                 /\ /\ <<idx[j].key, idx[j].row>> \in ix[s].old /\ idx[j].del = NotDeleted
                    /\ \A k \in DOMAIN idx : idx[k].row = idx[j].row => k = j
                    => idx'[j].del = op[s].txnId
           /\ \A j \in DOMAIN idx' \ DOMAIN idx :
                 \E p \in op[s].stmtApp : idx'[j] = Entry(rows[p].key, p, op[s].txnId)
           /\ \A p \in op[s].stmtApp :
                 \E j \in DOMAIN idx' \ DOMAIN idx : idx'[j] = Entry(rows[p].key, p, op[s].txnId)
           /\ \A j, k \in DOMAIN idx' \ DOMAIN idx : idx'[j].row = idx'[k].row => j = k
           /\ \A p \in op[s].stmtApp : p \in DOMAIN rows
<1> DEFINE t == op[s].txnId
           P == op[s].stmtApp
           old == ix[s].old
           m == MarkDelete(idx, old, t)
<1>1. ix[s].step = "mirror" /\ idx' = InsertRows(m, P, t) BY DEF Mirror
<1>2. t \in Nat /\ IsActive(s) /\ op[s] \in Op BY <1>1, ChainIds
<1>3. P \in SUBSET (1 .. MaxRows) BY <1>2 DEF Op
<1>4. \A p \in P : p \in DOMAIN rows BY <1>2 DEF IndexInv, TableInv, RangesStillPending
<1>5. PICK n \in Nat : DOMAIN idx \subseteq 0 .. n BY DEF IndexInv, IndexTypes
<1>6. idx \in [DOMAIN idx -> IndexEntry] BY DEF IndexInv, IndexTypes
<1>7. DOMAIN idx \subseteq Nat BY <1>5
<1> HIDE DEF t, P, old
<1>8. /\ DOMAIN m = DOMAIN idx /\ m \in [DOMAIN idx -> IndexEntry]
      /\ \A j \in DOMAIN idx :
            /\ m[j].key = idx[j].key /\ m[j].row = idx[j].row /\ m[j].ins = idx[j].ins
            /\ \/ m[j].del = idx[j].del
               \/ /\ <<idx[j].key, idx[j].row>> \in old /\ idx[j].del = NotDeleted
                  /\ m[j].del = t
            /\ /\ <<idx[j].key, idx[j].row>> \in old /\ idx[j].del = NotDeleted
               /\ \A k \in DOMAIN idx : idx[k].row = idx[j].row => k = j
               => m[j].del = t
  BY ONLY <1>2, <1>6, <1>7, MarkFacts
<1> HIDE DEF m
<1>9. DOMAIN m \subseteq 0 .. n BY <1>5, <1>8
<1>10. LET g == InsertRows(m, P, t) IN
           /\ \E k \in Nat : DOMAIN g \subseteq 0 .. k
           /\ g = [j \in DOMAIN g |-> g[j]]
           /\ DOMAIN m \subseteq DOMAIN g
           /\ \A j \in DOMAIN m : g[j] = m[j]
           /\ \A j \in DOMAIN g \ DOMAIN m :
                 \E p \in P : g[j] = Entry(rows[p].key, p, t)
           /\ \A p \in P : \E j \in DOMAIN g \ DOMAIN m : g[j] = Entry(rows[p].key, p, t)
           /\ \A j, k \in DOMAIN g \ DOMAIN m : g[j].row = g[k].row => j = k
  BY ONLY <1>3, <1>9, n \in Nat, InsertFacts, ZenonT(60)
<1>11. /\ \E k \in Nat : DOMAIN idx' \subseteq 0 .. k
       /\ idx' = [j \in DOMAIN idx' |-> idx'[j]]
       /\ DOMAIN idx \subseteq DOMAIN idx'
       /\ \A j \in DOMAIN idx : idx'[j] = m[j]
       /\ \A j \in DOMAIN idx' \ DOMAIN idx :
             \E p \in P : idx'[j] = Entry(rows[p].key, p, t)
       /\ \A p \in P : \E j \in DOMAIN idx' \ DOMAIN idx : idx'[j] = Entry(rows[p].key, p, t)
       /\ \A j, k \in DOMAIN idx' \ DOMAIN idx : idx'[j].row = idx'[k].row => j = k
  BY ONLY <1>1, <1>8, <1>10
<1>12. ASSUME NEW p \in P PROVE Entry(rows[p].key, p, t) \in IndexEntry
  <2>1. rows[p].key \in Nat BY <1>4, RowStamps DEF IndexInv
  <2> QED BY <1>2, <1>3, <2>1, StampAssumption DEF Entry, IndexEntry, t
<1>13. \A j \in DOMAIN idx' : idx'[j] \in IndexEntry BY <1>8, <1>11, <1>12
<1>14. idx' \in [DOMAIN idx' -> IndexEntry] BY <1>11, <1>13
<1>15. \A j \in DOMAIN idx :
                 /\ idx'[j].key = idx[j].key /\ idx'[j].row = idx[j].row /\ idx'[j].ins = idx[j].ins
                 /\ \/ idx'[j].del = idx[j].del
                    \/ /\ <<idx[j].key, idx[j].row>> \in old /\ idx[j].del = NotDeleted
                       /\ idx'[j].del = t
                 /\ /\ <<idx[j].key, idx[j].row>> \in old /\ idx[j].del = NotDeleted
                    /\ \A k \in DOMAIN idx : idx[k].row = idx[j].row => k = j
                    => idx'[j].del = t
  BY ONLY <1>8, <1>11
<1> QED BY <1>4, <1>11, <1>14, <1>15 DEF t, P, old

\* commit_inserts stamps the transaction's entries and, during a rebuild, those with id 0.
LEMMA CommitInsertsFacts ==
    ASSUME IndexInv, NEW s \in Session, NEW failed, CommitInserts(s, failed)
    PROVE  /\ DOMAIN idx' = DOMAIN idx /\ idx' \in [DOMAIN idx -> IndexEntry]
           /\ \A j \in DOMAIN idx :
                 /\ idx'[j].key = idx[j].key /\ idx'[j].row = idx[j].row /\ idx'[j].del = idx[j].del
                 /\ idx'[j].ins = IF idx[j].ins = op[s].txnId \/ (cp.pc = "commit0" /\ idx[j].ins = 0)
                                  THEN op[s].commitId ELSE idx[j].ins
<1>1. idx' = Flipped(idx, op[s].txnId, op[s].commitId) /\ ix[s].step = "commit_inserts" BY DEF CommitInserts
<1>2. op[s].txnId \in Nat /\ op[s].commitId \in Nat /\ op[s].commitId >= 1 /\ op[s].txnId >= TxnIdStart
  BY <1>1, ChainIds
<1>3. idx \in [DOMAIN idx -> IndexEntry] BY DEF IndexInv, IndexTypes
<1> DEFINE own == CommitInsert(idx, op[s].txnId, op[s].commitId)
<1>4. /\ DOMAIN own = DOMAIN idx /\ own \in [DOMAIN idx -> IndexEntry]
      /\ \A j \in DOMAIN idx :
            /\ own[j].key = idx[j].key /\ own[j].row = idx[j].row /\ own[j].del = idx[j].del
            /\ own[j].ins = IF idx[j].ins = op[s].txnId THEN op[s].commitId ELSE idx[j].ins
  BY ONLY <1>2, <1>3, RestampFacts
<1>5. idx' = IF cp.pc = "commit0" THEN CommitInsert(own, 0, op[s].commitId) ELSE own
  BY <1>1 DEF Flipped
<1> HIDE DEF own
<1>6. CASE cp.pc # "commit0" BY <1>4, <1>5, <1>6
<1>7. CASE cp.pc = "commit0"
  <2>1. own \in [DOMAIN own -> IndexEntry] /\ 0 \in Nat BY <1>4
  <2>2. LET g == CommitInsert(own, 0, op[s].commitId) IN
              /\ DOMAIN g = DOMAIN own /\ g \in [DOMAIN own -> IndexEntry]
              /\ \A j \in DOMAIN own :
                    /\ g[j].key = own[j].key /\ g[j].row = own[j].row /\ g[j].del = own[j].del
                    /\ g[j].ins = IF own[j].ins = 0 THEN op[s].commitId ELSE own[j].ins
    <3> DEFINE c == op[s].commitId
               z == 0
    <3>1. c \in Nat /\ z \in Nat BY <1>2
    <3> HIDE DEF c, z
    <3>2. LET g == CommitInsert(own, z, c) IN
              /\ DOMAIN g = DOMAIN own /\ g \in [DOMAIN own -> IndexEntry]
              /\ \A j \in DOMAIN own :
                    /\ g[j].key = own[j].key /\ g[j].row = own[j].row /\ g[j].del = own[j].del
                    /\ g[j].ins = IF own[j].ins = z THEN c ELSE own[j].ins
      BY ONLY <2>1, <3>1, RestampFacts
    <3> QED BY <3>2 DEF c, z
  <2>3. /\ DOMAIN idx' = DOMAIN own /\ idx' \in [DOMAIN own -> IndexEntry]
        /\ \A j \in DOMAIN own :
              /\ idx'[j].key = own[j].key /\ idx'[j].row = own[j].row /\ idx'[j].del = own[j].del
              /\ idx'[j].ins = IF own[j].ins = 0 THEN op[s].commitId ELSE own[j].ins
    BY ONLY <1>5, <1>7, <2>2
  <2> QED BY <1>2, <1>4, <1>7, <2>3
<1> QED BY <1>6, <1>7

\* commit_deletes, and revert_delete with "not deleted" for the commit id.
LEMMA CommitDeletesFacts ==
    ASSUME IndexInv, NEW s \in Session, Busy(s), NEW c \in Nat,
           idx' = CommitDelete(idx, op[s].txnId, c)
    PROVE  /\ DOMAIN idx' = DOMAIN idx /\ idx' \in [DOMAIN idx -> IndexEntry]
           /\ \A j \in DOMAIN idx :
                 /\ idx'[j].key = idx[j].key /\ idx'[j].row = idx[j].row /\ idx'[j].ins = idx[j].ins
                 /\ idx'[j].del = IF idx[j].del = op[s].txnId THEN c ELSE idx[j].del
<1>2. op[s].txnId \in Nat BY ChainIds
<1>3. idx \in [DOMAIN idx -> IndexEntry] BY DEF IndexInv, IndexTypes
<1>4. LET own == CommitDelete(idx, op[s].txnId, c) IN
      /\ DOMAIN own = DOMAIN idx /\ own \in [DOMAIN idx -> IndexEntry]
      /\ \A j \in DOMAIN idx :
            /\ own[j].key = idx[j].key /\ own[j].row = idx[j].row /\ own[j].ins = idx[j].ins
            /\ own[j].del = IF idx[j].del = op[s].txnId THEN c ELSE idx[j].del
  BY ONLY <1>2, <1>3, c \in Nat, RestampFacts
<1> QED BY ONLY <1>4, idx' = CommitDelete(idx, op[s].txnId, c)

\* An entry is an old one, restamped at most, or one of the statement's new rows.
EntryStep(s, j) ==
    \/ /\ j \in DOMAIN idx /\ idx'[j].key = idx[j].key /\ idx'[j].row = idx[j].row
       /\ idx'[j].ins = idx[j].ins \/ (Committing(s) /\ idx'[j].ins = op[s].commitId)
       /\ \/ idx'[j].del \in {idx[j].del, NotDeleted}
          \/ Busy(s) /\ idx'[j].del = op[s].txnId
          \/ Committing(s) /\ idx'[j].del = op[s].commitId
    \/ Busy(s) /\ \E p \in DOMAIN rows : idx'[j] = Entry(rows[p].key, p, op[s].txnId)

\* The messages to the index.
ToIndex(s) ==
    \/ Mirror(s) \/ IRevertInsert(s) \/ IRevertDelete(s)
    \/ \E failed \in BOOLEAN : CommitInserts(s, failed) \/ CommitDeletes(s, failed)

\* What one message does to one entry, whichever message it is.
LEMMA EntriesStep ==
    ASSUME IndexInv, NEW s \in Session, Message(s)
    PROVE  /\ \E n \in Nat : DOMAIN idx' \subseteq 0 .. n
           /\ idx' \in [DOMAIN idx' -> IndexEntry]
           /\ \A j \in DOMAIN idx' : EntryStep(s, j)
<1>t. /\ idx \in [DOMAIN idx -> IndexEntry]
      /\ \E n \in Nat : DOMAIN idx \subseteq 0 .. n
  BY DEF IndexInv, IndexTypes
<1> USE DEF EntryStep
<1>1. CASE Mirror(s)
  <2>1. Busy(s) BY <1>1, ChainIds DEF Mirror
  <2>2. /\ \E n \in Nat : DOMAIN idx' \subseteq 0 .. n
        /\ idx' \in [DOMAIN idx' -> IndexEntry]
    BY <1>1, MirrorFacts
  <2>3. ASSUME NEW j \in DOMAIN idx PROVE EntryStep(s, j)
    BY <1>1, <2>1, MirrorFacts
  <2>4. ASSUME NEW j \in DOMAIN idx' \ DOMAIN idx PROVE EntryStep(s, j)
    <3>1. PICK p \in op[s].stmtApp : idx'[j] = Entry(rows[p].key, p, op[s].txnId) BY <1>1, MirrorFacts
    <3>2. p \in DOMAIN rows BY <1>1, MirrorFacts
    <3> QED BY <2>1, <3>1, <3>2
  <2> QED BY <2>2, <2>3, <2>4
<1>2. CASE IRevertInsert(s)
  <2>1. idx' = [j \in {k \in DOMAIN idx : idx[k].ins # op[s].txnId} |-> idx[j]]
    BY <1>2 DEF IRevertInsert, RevertInsert
  <2> QED BY <1>t, <2>1
<1>3. CASE IRevertDelete(s)
  <2>1. Busy(s) /\ idx' = CommitDelete(idx, op[s].txnId, NotDeleted)
    BY <1>3, ChainIds DEF IRevertDelete, RevertDelete
  <2> QED BY <1>t, <2>1, CommitDeletesFacts, StampAssumption
<1>4. ASSUME NEW failed \in BOOLEAN, CommitInserts(s, failed)
      PROVE  /\ \E n \in Nat : DOMAIN idx' \subseteq 0 .. n
             /\ idx' \in [DOMAIN idx' -> IndexEntry]
             /\ \A j \in DOMAIN idx' : EntryStep(s, j)
  <2>1. Committing(s) BY <1>4, ChainIds DEF CommitInserts
  <2> QED BY <1>t, <1>4, <2>1, CommitInsertsFacts
<1>5. ASSUME NEW failed \in BOOLEAN, CommitDeletes(s, failed)
      PROVE  /\ \E n \in Nat : DOMAIN idx' \subseteq 0 .. n
             /\ idx' \in [DOMAIN idx' -> IndexEntry]
             /\ \A j \in DOMAIN idx' : EntryStep(s, j)
  <2>1. Committing(s) /\ Busy(s) /\ op[s].commitId \in Nat BY <1>5, ChainIds DEF CommitDeletes
  <2>2. idx' = CommitDelete(idx, op[s].txnId, op[s].commitId) BY <1>5 DEF CommitDeletes
  <2> QED BY <1>t, <2>1, <2>2, CommitDeletesFacts
<1>6. CASE ~ToIndex(s)
  <2>1. idx' = idx
    BY <1>6 DEF ToIndex, Message, HeapOnly, Dml, IInsert, IDelete, IUpdate, IUpdateFailed, IScan, ISearch, IFetch,
       EndOfTxn, ICommitDrain, IRollbackDrain
  <2> QED BY <1>t, <2>1
<1> QED BY <1>1, <1>2, <1>3, <1>4, <1>5, <1>6 DEF ToIndex

\* Entries, messages to come and ghost stay in their types.
LEMMA IndexTypesKept ==
    ASSUME IndexInv, NEW s \in Session, Message(s)
    PROVE  IndexTypes'
<1>t. /\ ix \in [Session -> IxType] /\ ix[s] \in IxType /\ tainted \subseteq 1 .. MaxRows
      /\ op[s] \in Op /\ NoIx \in IxType
      /\ DOMAIN rows \subseteq 1 .. MaxRows
  <2>1. rows \in Seq(Row) /\ Len(rows) <= MaxRows BY DEF IndexInv, TableInv, HeapOK
  <2>2. DOMAIN rows \subseteq 1 .. MaxRows BY <2>1, LenProperties, TableAssumption
  <2>3. <<>> \in [1 .. 0 -> 1 .. MaxRows] /\ 0 \in 0 .. MaxHits BY TableAssumption
  <2>4. NoIx \in IxType BY <2>3 DEF IxType, NoIx, Step, Found
  <2> QED BY <2>2, <2>4, ChainIds DEF IndexInv, IndexTypes
<1>1. ix'[s] \in IxType
  <2>1. ASSUME NEW st \in Step, NextIx(s, st) PROVE ix'[s] \in IxType
    <3>1. ix'[s] = [ix[s] EXCEPT !.step = st] BY <1>t, <2>1 DEF NextIx
    <3> QED BY ONLY <1>t, <3>1, st \in Step DEF IxType
  <2>2. CASE HeapOnly(s) BY <1>t, <2>2 DEF HeapOnly
  <2>3. CASE Mirror(s) BY <1>t, <2>3 DEF Mirror
  <2>4. CASE IInsert(s) \/ IDelete(s) \/ IUpdate(s)
    BY <2>1, <2>4 DEF IInsert, IDelete, IUpdate, Step
  <2>5. CASE IUpdateFailed(s) BY <1>t, <2>5 DEF IUpdateFailed
  <2>6. ASSUME NEW m \in SUBSET VisibleRows(Data(s)), IScan(s, m) PROVE ix'[s] \in IxType
    <3>1. ix'[s] = [ix[s] EXCEPT !.old = {<<rows[i].key, i>> : i \in m}] BY <1>t, <2>6 DEF IScan
    <3>2. {<<rows[i].key, i>> : i \in m} \in SUBSET (Nat \X (1 .. MaxRows))
      BY <1>t, RowStamps DEF IndexInv, VisibleRows
    <3> QED BY ONLY <1>t, <3>1, <3>2 DEF IxType
  <2>7. CASE ICommitDrain(s) \/ IRollbackDrain(s) \/ IRevertInsert(s) \/ IRevertDelete(s)
    BY <2>1, <2>7 DEF ICommitDrain, IRollbackDrain, IRevertInsert, IRevertDelete, Step, AfterInserts
  <2>8. ASSUME NEW failed \in BOOLEAN, CommitInserts(s, failed) \/ CommitDeletes(s, failed)
        PROVE  ix'[s] \in IxType
    BY <2>1, <2>8 DEF CommitInserts, CommitDeletes, Step, AfterInserts
  <2>9. CASE IFetch(s) BY <2>9, FetchFacts
  <2>10. ASSUME NEW n \in 1 .. MaxHits, NEW hits \in Injection(1 .. n, Search(s)), ISearch(s, hits)
         PROVE  ix'[s] \in IxType
    BY <2>10, SearchFacts
  <2> QED BY <2>2, <2>3, <2>4, <2>5, <2>6, <2>7, <2>8, <2>9, <2>10 DEF Message, Dml, EndOfTxn
<1>2. ix' \in [Session -> IxType] BY <1>1, <1>t, MessageFrame
<1>3. tainted' \subseteq 1 .. MaxRows
  <2>1. Refused(s) \subseteq 1 .. MaxRows BY <1>t DEF Refused
  <2>2. Adopted \subseteq 1 .. MaxRows
    <3>1. \A j \in DOMAIN idx : idx[j].row \in 1 .. MaxRows BY DEF IndexInv, IndexTypes, IndexEntry
    <3> QED BY <3>1 DEF Adopted
  <2>3. tainted' \in {tainted, tainted \cup Refused(s), tainted \cup Adopted}
    BY DEF Message, HeapOnly, Dml, IInsert, IDelete, IUpdate, IUpdateFailed, IScan, ISearch, IFetch, Mirror, EndOfTxn,
       ICommitDrain, IRollbackDrain, IRevertInsert, IRevertDelete, CommitInserts, CommitDeletes
  <2> QED BY <1>t, <2>1, <2>2, <2>3
<1> QED BY <1>2, <1>3, EntriesStep DEF IndexTypes, IxType

\* Keys are given out once.
LEMMA KeysGrow ==
    ASSUME IndexInv, NEW s \in Session, Message(s)
    PROVE  /\ nextKey \in Nat /\ nextKey' \in Nat /\ nextKey' >= nextKey
           /\ \A i \in DOMAIN rows' \ DOMAIN rows : rows'[i].key >= nextKey
<1>1. nextKey \in Nat /\ nextKey' \in Nat
  <2>1. TableInv /\ TableInv' BY MessageTable DEF IndexInv
  <2> QED BY ONLY <2>1 DEF TableInv, HeapOK
<1>2. Client(s) \/ Pipeline(s) \/ UNCHANGED vars BY MessageFrame
<1>3. nextKey' \in {nextKey, nextKey + 1, nextKey + op[s].hits}
  BY <1>2 DEF Client, Pipeline, vars, tableVars, Begin, ReleaseReadOnly, Insert, Scan, IndexScan, ScanReply,
     EmptyStatement, DeleteRows, UpdateRows, UpdateFailed, StatementFailed, CommitDrain, CommitEmpty, IndexCommitFailed,
     RollbackDrain, StatementOk, StampAppends, StampDeletes, PublishCommit, MaybeCleanup, RollbackDeletes
<1>4. op[s].hits \in Nat BY ChainIds DEF Op
<1>5. ASSUME NEW i \in DOMAIN rows' \ DOMAIN rows PROVE rows'[i].key >= nextKey
  <2>1. rows'[i].key = nextKey + i - Len(rows) - 1 BY MessageTable DEF RowsStep, NewRow
  <2>2. /\ DOMAIN rows = 1 .. Len(rows) /\ Len(rows) \in Nat
        /\ DOMAIN rows' = 1 .. Len(rows') /\ Len(rows') \in Nat
    BY MessageTable, LenProperties DEF IndexInv, TableInv, HeapOK
  <2> QED BY <1>1, <2>1, <2>2
<1> QED BY <1>1, <1>3, <1>4, <1>5

\* Only ids that the manager has given out are written into entries.
LEMMA StampsKept ==
    ASSUME IndexInv, NEW s \in Session, Message(s)
    PROVE  StampsKnown' /\ EntriesOK'
<1>1. TableInv /\ TableInv' /\ [Next]_tmVars /\ RowsStep(s) /\ StampsKnown /\ EntriesOK
  BY MessageTable DEF IndexInv
<1>2. /\ idx \in [DOMAIN idx -> IndexEntry] BY DEF IndexInv, IndexTypes
<1>3. /\ Busy(s) => op[s].txnId \in Nat /\ Known(op[s].txnId) /\ StampOK(op[s].txnId)
      /\ Committing(s) => op[s].commitId \in Nat /\ Known(op[s].commitId) /\ StampOK(op[s].commitId)
  BY <1>1, ChainIds, KnownStamps, Numbers DEF StampOK
<1>4. Known(NotDeleted) /\ NotDeleted \in Nat BY <1>1, KnownStamps, Numbers
<1>5. \A i \in DOMAIN rows : /\ rows[i].ins \in Nat /\ rows[i].del \in Nat /\ Known(rows[i].ins)
                             /\ Known(rows[i].del) /\ rows[i].key \in 1 .. nextKey - 1
  <2>1. \A i \in DOMAIN rows : RowOK(rows[i]) BY <1>1 DEF TableInv, HeapOK
  <2> QED BY <1>1, <2>1, RowStamps DEF StampsKnown, RowOK
<1>6. ASSUME NEW i \in DOMAIN rows'
      PROVE  /\ rows'[i].ins \in Nat /\ rows'[i].del \in Nat
             /\ Known(rows'[i].ins) /\ Known(rows'[i].del)
  <2>1. CASE i \in DOMAIN rows
    BY <1>1, <1>3, <1>4, <1>5, <2>1 DEF RowsStep, InsertStep, DeleteStep, Busy, Committing
  <2>2. CASE i \notin DOMAIN rows
    BY <1>1, <1>3, <1>4, <2>2 DEF RowsStep, NewRow, Busy
  <2> QED BY <2>1, <2>2
<1>7. ASSUME NEW j \in DOMAIN idx'
      PROVE  /\ idx'[j].ins \in Nat /\ idx'[j].del \in Nat /\ idx'[j].key \in 1 .. nextKey - 1
             /\ Known(idx'[j].ins) /\ Known(idx'[j].del)
             /\ StampOK(idx'[j].ins) /\ (StampOK(idx'[j].del) \/ idx'[j].del = NotDeleted)
  <2>1. EntryStep(s, j) BY EntriesStep
  <2>2. CASE /\ j \in DOMAIN idx /\ idx'[j].key = idx[j].key
             /\ idx'[j].ins = idx[j].ins \/ (Committing(s) /\ idx'[j].ins = op[s].commitId)
             /\ \/ idx'[j].del \in {idx[j].del, NotDeleted}
                \/ Busy(s) /\ idx'[j].del = op[s].txnId
                \/ Committing(s) /\ idx'[j].del = op[s].commitId
    <3>1. /\ idx[j].ins \in Nat /\ idx[j].del \in Nat /\ idx[j].key \in 1 .. nextKey - 1
          /\ Known(idx[j].ins) /\ Known(idx[j].del)
          /\ StampOK(idx[j].ins) /\ (StampOK(idx[j].del) \/ idx[j].del = NotDeleted)
      BY <1>1, <1>2, <2>2 DEF StampsKnown, EntriesOK, IndexEntry
    <3> QED BY <1>3, <1>4, <2>2, <3>1
  <2>3. ASSUME NEW p \in DOMAIN rows, Busy(s), idx'[j] = Entry(rows[p].key, p, op[s].txnId)
        PROVE  /\ idx'[j].ins \in Nat /\ idx'[j].del \in Nat /\ idx'[j].key \in 1 .. nextKey - 1
               /\ Known(idx'[j].ins) /\ Known(idx'[j].del)
               /\ StampOK(idx'[j].ins) /\ (StampOK(idx'[j].del) \/ idx'[j].del = NotDeleted)
    <3>1. idx'[j].key = rows[p].key /\ idx'[j].ins = op[s].txnId /\ idx'[j].del = NotDeleted
      BY <2>3 DEF Entry
    <3> QED BY <1>3, <1>4, <1>5, <2>3, <3>1
  <2> QED BY <2>1, <2>2, <2>3 DEF EntryStep
<1>8. ASSUME NEW id \in Nat, Known(id) PROVE Known(id)' BY <1>8, KnownKept
<1>9. StampsKnown' BY <1>6, <1>7, <1>8 DEF StampsKnown, Known
<1>10. /\ nextTxnId \in Nat /\ nextTxnId' \in Nat /\ nextTxnId' >= nextTxnId
       /\ currentTs \in Nat /\ currentTs' \in Nat /\ currentTs' >= currentTs
  BY <1>1, ClockStep DEF TableInv, IInv, TypeOK
<1>11. ASSUME NEW id \in Nat, StampOK(id) PROVE StampOK(id)'
  BY <1>10, <1>11, PendingGrows DEF StampOK
<1>12. nextKey \in Nat /\ nextKey' \in Nat /\ nextKey' >= nextKey BY KeysGrow
<1>13. EntriesOK'
  <2>1. ASSUME NEW j \in DOMAIN idx'
        PROVE  /\ idx'[j].key \in 1 .. nextKey' - 1
               /\ StampOK(idx[j].ins)' /\ (StampOK(idx[j].del)' \/ idx'[j].del = NotDeleted)
    <3>1. idx'[j].key \in 1 .. nextKey' - 1
      <4>1. idx'[j].key \in 1 .. nextKey - 1 BY <1>7
      <4> QED BY <1>12, <4>1
    <3>2. idx'[j].ins \in Nat /\ idx'[j].del \in Nat
          /\ StampOK(idx'[j].ins) /\ (StampOK(idx'[j].del) \/ idx'[j].del = NotDeleted)
      BY <1>7
    <3> QED BY <1>11, <3>1, <3>2 DEF StampOK
  <2> QED BY <2>1 DEF EntriesOK
<1> QED BY <1>9, <1>13

-----------------------------------------------------------------------------
(* The chains stay in step with the index.                                 *)

\* A message of a session leaves what the CHECKPOINT chain has read true.
LEMMA CpKept ==
    ASSUME IndexInv, NEW s \in Session, Message(s)
    PROVE  CpOK'
<1>1. cp' = cp /\ CpOK BY MessageFrame DEF IndexInv
<1>2. /\ DOMAIN rows \subseteq DOMAIN rows' /\ \A i \in DOMAIN rows : rows'[i].key = rows[i].key
      /\ DOMAIN rows = 1 .. Len(rows) /\ Len(rows) \in Nat
      /\ DOMAIN rows' = 1 .. Len(rows') /\ Len(rows') \in Nat
  BY MessageTable, LenProperties DEF IndexInv, TableInv, HeapOK, RowsStep
<1>3. Len(rows) <= Len(rows') BY <1>2
<1>4. cp.pc \in {"scan", "refill"} => cp.total \in 0 .. Len(rows') BY <1>1, <1>2, <1>3 DEF CpOK
<1>5. cp.pc = "refill" => \A i \in 1 .. cp.total : i \in DOMAIN rows BY <1>1, <1>2 DEF CpOK
<1> QED BY <1>1, <1>2, <1>4, <1>5 DEF CpOK

\* Another session's message leaves a chain and what it relies on alone.
LEMMA OtherChainIx ==
    ASSUME IndexInv, NEW s \in Session, Message(s), NEW r \in Session \ {s}
    PROVE  ChainIx(r)'
<1>1. pc'[r] = pc[r] /\ op'[r] = op[r] /\ active'[r] = active[r] /\ ix'[r] = ix[r] BY MessageTable
<1>2. ChainIx(r) /\ TableInv /\ RowsStep(s) BY MessageTable DEF IndexInv
<1>3. pc'[r] # "cleanup" /\ StatementParked(r)' /\ StepOK(r)'
  BY <1>1, <1>2 DEF ChainIx, StatementParked, StepOK
<1>4. /\ Busy(s) /\ Busy(r) => op[s].txnId # op[r].txnId
      /\ Busy(r) => op[r].txnId \in Nat /\ op[r].txnId >= TxnIdStart /\ op[r].txnId < NotDeleted
      /\ Committing(s) => op[s].commitId \in Nat /\ op[s].commitId < TxnIdStart
      /\ Busy(s) => op[s].txnId \in Nat /\ op[s].txnId >= TxnIdStart
      /\ TxnIdStart \in Nat /\ NotDeleted \in Nat
  BY <1>2, ChainIds, Numbers DEF TableInv, IdsApart
<1>5. AppendsKnown(r)'
  <2> SUFFICES ASSUME NEW i \in DOMAIN rows', Open(r), rows'[i].ins = op[r].txnId
               PROVE  pc[r] \notin {"deletes", "publish"} /\ i \in op[r].app \cup op[r].stmtApp
    BY <1>1 DEF AppendsKnown, Open, IsActive, Committing
  <2>1. Busy(r) BY <1>2, MineHidden
  <2>2. i \in DOMAIN rows /\ rows[i].ins = op[r].txnId
    BY <1>2, <1>4, <2>1 DEF RowsStep, InsertStep, NewRow, Busy, Committing
  <2> QED BY <1>2, <2>2 DEF ChainIx, AppendsKnown
<1>6. OldOK(r)'
  <2>1. \A o \in ix[r].old : o[1] \in Nat BY ChainIds DEF IxType
  <2>2. nextKey \in Nat /\ nextKey' \in Nat /\ nextKey' >= nextKey BY KeysGrow
  <2>3. OldOK(r) BY <1>2 DEF ChainIx
  <2>4. \A o \in ix[r].old : o[1] < nextKey' BY <2>1, <2>2, <2>3 DEF OldOK
  <2> QED BY <1>1, <2>3, <2>4 DEF OldOK
<1>7. Answered(r)'
  <2>1. ASSUME NEW j \in DOMAIN idx', Busy(r)
        PROVE  /\ idx'[j].del = op[r].txnId => j \in DOMAIN idx /\ idx[j].del = op[r].txnId
               /\ idx'[j].ins = op[r].txnId => j \in DOMAIN idx /\ idx[j].ins = op[r].txnId
    <3>1. EntryStep(s, j) BY EntriesStep
    <3>2. ASSUME NEW p \in DOMAIN rows, Busy(s), idx'[j] = Entry(rows[p].key, p, op[s].txnId)
          PROVE  idx'[j].del # op[r].txnId /\ idx'[j].ins # op[r].txnId
      <4>1. idx'[j].del = NotDeleted /\ idx'[j].ins = op[s].txnId BY <3>2 DEF Entry
      <4> QED BY <1>4, <2>1, <3>2, <4>1
    <3> QED BY <1>4, <2>1, <3>1, <3>2 DEF EntryStep
  <2>2. pc[r] \in {"abort", "drained", "deletes"} => Busy(r) BY DEF Busy
  <2> QED BY <1>1, <1>2, <2>1, <2>2 DEF Answered, Quiet, ChainIx
<1> QED BY <1>3, <1>5, <1>6, <1>7 DEF ChainIx

\* A message keeps its own chain in step with the index.
LEMMA OwnChainIx ==
    ASSUME IndexInv, NEW s \in Session, Message(s)
    PROVE  ChainIx(s)'
<1>t. /\ pc \in [Session -> PC] /\ op \in [Session -> Op] /\ op[s] \in Op /\ ChainOK(s)
      /\ active \in [Session -> Txn \cup {NoTxn}] /\ ix \in [Session -> IxType] /\ ix[s] \in IxType
      /\ TableInv /\ RowsStep(s)
  BY MessageTable DEF IndexInv, TableInv, ChainTypes, ChainsOK, IInv, TypeOK, IndexTypes, IxType
<1>i. ChainIx(s) BY DEF IndexInv
<1>b. /\ Busy(s) => op[s].txnId \in Nat /\ op[s].txnId >= TxnIdStart /\ op[s].txnId < NotDeleted
      /\ Committing(s) => op[s].commitId \in Nat /\ op[s].commitId < TxnIdStart
      /\ TxnIdStart \in Nat /\ NotDeleted \in Nat
  BY ChainIds, Numbers DEF IndexInv
<1>k. nextKey \in Nat /\ nextKey' \in Nat /\ nextKey' >= nextKey
      /\ \A i \in DOMAIN rows' \ DOMAIN rows : rows'[i].key >= nextKey
  BY KeysGrow
<1>n. ASSUME NEW st, NextIx(s, st) PROVE ix'[s].step = st /\ ix'[s].old = ix[s].old
  <2>1. ix'[s] = [ix[s] EXCEPT !.step = st] BY <1>n, <1>t DEF NextIx
  <2> QED BY ONLY <1>t, <2>1 DEF IxType

\* The end of a chain.
<1>0. ASSUME pc'[s] = "idle", ~IsActive(s)', ix'[s].step = "none", ix'[s].old = {} PROVE ChainIx(s)'
  BY <1>0 DEF ChainIx, StatementParked, AppendsKnown, Open, Committing, StepOK, OldOK, Answered

\* The transaction goes on with the rows it has appended.
<1>a. ASSUME Open(s), op'[s].txnId = op[s].txnId, pc'[s] \notin {"deletes", "publish"},
             op[s].app \cup op[s].stmtApp \subseteq op'[s].app \cup op'[s].stmtApp
      PROVE  AppendsKnown(s)'
  BY <1>a, <1>i, <1>t DEF ChainIx, AppendsKnown, RowsStep, InsertStep, NewRow
<1>1. CASE HeapOnly(s)
  <2>1. ix[s].step = "none" /\ (pc[s] \notin {"scanned", "failed"} => ix[s].old = {})
    BY <1>1, <1>i DEF HeapOnly, Quiet, ChainIx, OldOK
  <2>2. ix'[s] = NoIx \/ (ix'[s] = ix[s] /\ pc[s] \notin {"scanned", "failed"})
    BY <1>1, <1>t DEF HeapOnly
  <2>3. ix'[s].step = "none" /\ ix'[s].old = {} BY <2>1, <2>2 DEF NoIx
  <2>4. ASSUME NEW e \in BOOLEAN, Begin(s, e) PROVE ChainIx(s)'
    <3>1. op'[s] = [NoOp EXCEPT !.explicit = e, !.txnId = TxnIdStart + nextTxnId]
      BY <2>4, <1>t DEF Begin
    <3>2. op'[s].txnId = TxnIdStart + nextTxnId /\ op'[s].stmtApp = {} /\ ~op'[s].stmtDel
      BY ONLY <3>1 DEF NoOp
    <3>3. rows' = rows /\ pc'[s] = "open" BY <2>4, <1>t DEF Begin
    <3>4. \A i \in DOMAIN rows : rows[i].ins # op'[s].txnId BY <1>t, <3>2, RowStamps
    <3> QED BY <2>3, <3>2, <3>3, <3>4
         DEF ChainIx, StatementParked, AppendsKnown, StepOK, OldOK, Answered
  <2>5. CASE ReleaseReadOnly(s) \/ StatementFailed(s) \/ CommitEmpty(s)
    BY <1>0, <1>t, <2>3, <2>5 DEF ReleaseReadOnly, StatementFailed, CommitEmpty, Abort, NoTxn, IsActive
  <2>6. CASE PublishCommit(s) \/ RollbackDeletes(s)
    <3>1. pc'[s] = "idle" /\ pc[s] \in {"publish", "abort"} /\ active' = active
      BY <2>6, <1>t, IndexAssumption DEF PublishCommit, Publish, RollbackDeletes, tmVars
    <3> QED BY <1>0, <1>t, <2>3, <3>1 DEF ChainOK, IsActive
  <2>7. CASE EmptyStatement(s)
    <3>1. op' = op /\ pc[s] = "open" /\ pc'[s] = "effect" BY <2>7, <1>t DEF EmptyStatement
    <3>2. AppendsKnown(s)' BY <1>a, <1>t, <3>1 DEF Open, ChainOK
    <3> QED BY <2>3, <3>1, <3>2 DEF ChainIx, StatementParked, StepOK, OldOK, Answered
  <2>8. CASE StatementOk(s)
    <3>1. op' = [op EXCEPT ![s].app = @ \cup op[s].stmtApp, ![s].del = @ \/ op[s].stmtDel,
                          ![s].stmtApp = {}, ![s].stmtDel = FALSE]
      BY <2>8 DEF StatementOk
    <3>2. /\ op'[s].txnId = op[s].txnId /\ op'[s].app = op[s].app \cup op[s].stmtApp
          /\ op'[s].stmtApp = {} /\ op'[s].stmtDel = FALSE
      BY ONLY <1>t, <3>1 DEF Op
    <3>3. pc[s] = "effect" /\ pc'[s] \in {"open", "commit"} BY <2>8, <1>t DEF StatementOk
    <3>4. AppendsKnown(s)' BY <1>a, <1>t, <3>2, <3>3 DEF Open, ChainOK
    <3> QED BY <2>3, <3>2, <3>3, <3>4 DEF ChainIx, StatementParked, StepOK, OldOK, Answered
  <2>9. CASE StampAppends(s)
    <3>1. /\ pc[s] = "drained" /\ pc'[s] = "deletes" /\ op' = op /\ Open(s) /\ Committing(s) /\ Busy(s)
          /\ rows' = CommitAppend(rows, op[s].app, op[s].commitId) /\ idx' = idx
      BY <2>9, <1>1, <1>t DEF StampAppends, Open, Committing, HeapOnly, Busy
    <3>2. ASSUME NEW i \in DOMAIN rows' PROVE rows'[i].ins # op[s].txnId
      <4>1. i \in DOMAIN rows /\ rows[i] \in Row BY <1>t, <3>1, RowStamps DEF CommitAppend
      <4>2. rows[i].ins = op[s].txnId => i \in op[s].app
        BY <1>i, <3>1, <4>1 DEF ChainIx, StatementParked, AppendsKnown
      <4> QED BY <1>b, <3>1, <4>1, <4>2 DEF CommitAppend, Row
    <3>3. AppendsKnown(s)' BY <3>1, <3>2 DEF AppendsKnown
    <3>4. op[s].del => \A j \in DOMAIN idx : idx[j].del # op[s].txnId
      BY <1>i, <2>1, <3>1 DEF ChainIx, Answered, Quiet
    <3> QED BY <1>i, <2>3, <3>1, <3>3, <3>4
         DEF ChainIx, StatementParked, StepOK, OldOK, Answered
  <2>10. CASE StampDeletes(s)
    <3>1. /\ pc[s] = "deletes" /\ pc'[s] = "publish" /\ op' = op /\ Open(s)
      BY <2>10, <1>t DEF StampDeletes, Open, Committing
    <3>2. ASSUME NEW i \in DOMAIN rows' PROVE rows'[i].ins # op[s].txnId
      <4>1. Open(s) /\ pc[s] = "deletes" /\ pc'[s] = "publish" BY <3>1
      <4>2. i \in DOMAIN rows /\ rows'[i].ins = rows[i].ins
        BY <1>t, <4>1 DEF RowsStep, InsertStep, NewRow
      <4> QED BY <1>i, <4>1, <4>2 DEF ChainIx, AppendsKnown
    <3>3. AppendsKnown(s)' BY <3>1, <3>2 DEF AppendsKnown
    <3> QED BY <1>i, <2>3, <3>1, <3>3
         DEF ChainIx, StatementParked, StepOK, OldOK, Answered
  <2> QED BY <1>1, <2>4, <2>5, <2>6, <2>7, <2>8, <2>9, <2>10 DEF HeapOnly
<1>2. CASE IInsert(s)
  <2>1. op' = [op EXCEPT ![s].stmtApp = {Len(rows) + 1}] BY <1>2 DEF IInsert, Insert
  <2>2. op'[s].txnId = op[s].txnId /\ op'[s].app = op[s].app
    BY ONLY <1>t, <2>1 DEF Op
  <2>3. pc[s] = "open" /\ pc'[s] = "effect" BY <1>2, <1>t DEF IInsert, Insert
  <2>4. ix'[s].step = "mirror" /\ ix'[s].old = {}
    BY <1>2, <1>i, <1>n, <2>3 DEF IInsert, ChainIx, OldOK, Quiet
  <2>5. AppendsKnown(s)'
    BY <1>a, <1>t, <1>i, <2>2, <2>3 DEF Open, ChainOK, ChainIx, StatementParked
  <2> QED BY <2>3, <2>4, <2>5 DEF ChainIx, StatementParked, StepOK, OldOK, Answered
<1>3. ASSUME NEW m \in SUBSET VisibleRows(Data(s)), IScan(s, m) PROVE ChainIx(s)'
  <2>1. op' = [op EXCEPT ![s].ids = m, ![s].hits = Cardinality(m)] BY <1>3 DEF IScan, Scan, ScanReply
  <2>2. /\ op'[s].txnId = op[s].txnId /\ op'[s].app = op[s].app /\ op'[s].ids = m
        /\ op'[s].stmtApp = op[s].stmtApp /\ op'[s].stmtDel = op[s].stmtDel
    BY ONLY <1>t, <2>1 DEF Op
  <2>3. pc[s] = "open" /\ pc'[s] = "scanned" /\ rows' = rows /\ active' = active /\ UNCHANGED nextKey
    BY <1>3, <1>t DEF IScan, Scan, ScanReply, tmVars
  <2>4. ix'[s] = [ix[s] EXCEPT !.old = {<<rows[i].key, i>> : i \in m}] BY <1>3, <1>t DEF IScan
  <2>5. ix'[s].step = ix[s].step /\ ix'[s].old = {<<rows[i].key, i>> : i \in m}
    BY ONLY <1>t, <2>4 DEF IxType
  <2>6. ix'[s].step = "none" BY <1>3, <2>5 DEF IScan, Quiet
  <2>7. AppendsKnown(s)' BY <1>a, <1>t, <2>2, <2>3 DEF Open, ChainOK
  <2>8. StatementParked(s)' BY <1>i, <2>2, <2>3 DEF ChainIx, StatementParked
  <2>9. \A i \in m : i \in DOMAIN rows /\ rows[i].key < nextKey BY <1>t, RowStamps DEF VisibleRows
  <2>10. OldOK(s)' BY <2>2, <2>3, <2>5, <2>9 DEF OldOK
  <2> QED BY <2>3, <2>6, <2>7, <2>8, <2>10 DEF ChainIx, StepOK, Answered
<1>4. CASE IDelete(s) \/ IUpdate(s)
  <2>1. \/ op' = [op EXCEPT ![s].ids = {}, ![s].hits = 0, ![s].stmtDel = TRUE]
        \/ op' = [op EXCEPT ![s].ids = {}, ![s].hits = 0, ![s].stmtDel = TRUE,
                            ![s].stmtApp = Len(rows) + 1 .. Len(rows) + op[s].hits]
    BY <1>4 DEF IDelete, DeleteRows, IUpdate, UpdateRows
  <2>2. op'[s].txnId = op[s].txnId /\ op'[s].app = op[s].app BY ONLY <1>t, <2>1 DEF Op
  <2>3. pc[s] = "scanned" /\ pc'[s] = "effect" /\ active' = active
    BY <1>4, <1>t DEF IDelete, DeleteRows, IUpdate, UpdateRows, tmVars
  <2>4. ix'[s].step = "mirror" /\ ix'[s].old = ix[s].old
    BY <1>4, <1>n DEF IDelete, IUpdate
  <2>5. AppendsKnown(s)'
    BY <1>a, <1>t, <1>i, <2>2, <2>3 DEF Open, ChainOK, ChainIx, StatementParked
  <2>6. \A o \in ix[s].old : o[1] \in Nat /\ o[1] < nextKey
    BY <1>i, <1>t DEF ChainIx, OldOK, IxType
  <2>7. OldOK(s)' BY <1>k, <2>3, <2>4, <2>6 DEF OldOK
  <2> QED BY <2>3, <2>4, <2>5, <2>7 DEF ChainIx, StatementParked, StepOK, Answered
<1>5. CASE IUpdateFailed(s)
  <2>1. op' = [op EXCEPT ![s].ids = {}, ![s].hits = 0] BY <1>5 DEF IUpdateFailed, UpdateFailed
  <2>2. op'[s].txnId = op[s].txnId /\ op'[s].app = op[s].app /\ op'[s].stmtApp = op[s].stmtApp
    BY ONLY <1>t, <2>1 DEF Op
  <2>3. pc[s] = "scanned" /\ pc'[s] = "failed" /\ ix'[s] = ix[s] /\ ix[s].step = "none" /\ UNCHANGED nextKey
    BY <1>5, <1>t DEF IUpdateFailed, UpdateFailed, Quiet
  <2>4. AppendsKnown(s)'
    BY <1>a, <1>t, <1>i, <2>2, <2>3 DEF Open, ChainOK
  <2>5. OldOK(s)' BY <1>i, <2>3 DEF ChainIx, OldOK
  <2> QED BY <2>3, <2>4, <2>5 DEF ChainIx, StatementParked, StepOK, Answered
<1>6. CASE Mirror(s)
  <2>1. UNCHANGED vars /\ ix'[s] = NoIx /\ pc[s] = "effect" BY <1>6, <1>t, ChainIds DEF Mirror
  <2>2. pc' = pc /\ op' = op /\ rows' = rows /\ active' = active BY <2>1 DEF vars, tableVars, tmVars
  <2>3. AppendsKnown(s)' BY <1>i, <2>2 DEF ChainIx, AppendsKnown, Open, IsActive, Committing
  <2>4. ix'[s].step = "none" /\ ix'[s].old = {} BY <2>1 DEF NoIx
  <2> QED BY <2>1, <2>2, <2>3, <2>4 DEF ChainIx, StatementParked, StepOK, OldOK, Answered
<1>7. CASE ICommitDrain(s)
  <2>1. op'[s] = [op[s] EXCEPT !.commitId = currentTs] BY <1>7, <1>t DEF ICommitDrain, CommitDrain
  <2>2. /\ op'[s].txnId = op[s].txnId /\ op'[s].app = op[s].app /\ op'[s].del = op[s].del
        /\ op'[s].stmtApp = op[s].stmtApp /\ op'[s].stmtDel = op[s].stmtDel
    BY ONLY <1>t, <2>1 DEF Op
  <2>3. pc[s] \in {"open", "commit"} /\ pc'[s] = "drained"
    BY <1>7, <1>t DEF ICommitDrain, CommitDrain, AtCommit
  <2>4. /\ ix'[s].step = (IF op[s].app # {} THEN "commit_inserts" ELSE AfterInserts(s))
        /\ ix'[s].old = {}
    BY <1>7, <1>i, <1>n, <2>3 DEF ICommitDrain, ChainIx, OldOK, Quiet
  <2>5. AppendsKnown(s)' BY <1>a, <1>t, <2>2, <2>3 DEF Open, ChainOK
  <2> QED BY <1>i, <2>2, <2>3, <2>4, <2>5
       DEF ChainIx, StatementParked, StepOK, OldOK, Answered, AfterInserts, Quiet
<1>8. CASE IRollbackDrain(s)
  <2>1. op' = op /\ pc[s] = "open" /\ pc'[s] = "abort" /\ ~IsActive(s)'
    BY <1>8, <1>t DEF IRollbackDrain, RollbackDrain, Abort, NoTxn, IsActive
  <2>2. /\ ix'[s].step = (IF op[s].app # {} THEN "revert_insert" ELSE IF op[s].del THEN "revert_delete" ELSE "none")
        /\ ix'[s].old = {}
    BY <1>8, <1>i, <1>n, <2>1 DEF IRollbackDrain, ChainIx, OldOK, Quiet
  <2> QED BY <2>1, <2>2
       DEF ChainIx, StatementParked, AppendsKnown, Open, Committing, StepOK, OldOK, Answered, Quiet
<1>9. CASE IRevertInsert(s) \/ IRevertDelete(s)
  <2>1. UNCHANGED vars /\ pc[s] = "abort" /\ Busy(s) BY <1>9, ChainIds DEF IRevertInsert, IRevertDelete
  <2>2. pc' = pc /\ op' = op /\ rows' = rows /\ active' = active BY <2>1 DEF vars, tableVars, tmVars
  <2>3. /\ ix'[s].step \in {"none", "revert_delete"} /\ ix'[s].old = {}
        /\ IRevertInsert(s) => ix'[s].step = IF op[s].del THEN "revert_delete" ELSE "none"
        /\ IRevertDelete(s) => ix'[s].step = "none"
    BY <1>9, <1>i, <1>n, <2>1 DEF IRevertInsert, IRevertDelete, ChainIx, OldOK
  <2>4. ~Open(s)' BY <1>t, <2>1, <2>2 DEF Open, IsActive, Committing, ChainOK
  <2>5. Quiet(s)' /\ op[s].del => \A j \in DOMAIN idx' : idx'[j].del # op[s].txnId
    <3>1. CASE IRevertInsert(s) BY <2>3, <3>1 DEF Quiet
    <3>2. CASE IRevertDelete(s)
      <4>1. idx' = CommitDelete(idx, op[s].txnId, NotDeleted) BY <3>2 DEF IRevertDelete, RevertDelete
      <4> QED BY <1>b, <2>1, <4>1, CommitDeletesFacts
    <3> QED BY <1>9, <3>1, <3>2
  <2>6. ix'[s].step = "revert_delete" => op[s].del
    BY <1>9, <2>3
  <2> QED BY <2>1, <2>2, <2>3, <2>4, <2>5, <2>6
       DEF ChainIx, StatementParked, AppendsKnown, StepOK, OldOK, Answered
<1>10. ASSUME NEW failed \in BOOLEAN, CommitInserts(s, failed) \/ CommitDeletes(s, failed) PROVE ChainIx(s)'
  <2>1. pc[s] = "drained" /\ Busy(s) /\ Committing(s) /\ ix[s].old = {} /\ ~IsActive(s)
    BY <1>10, <1>i, <1>t, ChainIds DEF CommitInserts, CommitDeletes, ChainIx, OldOK, ChainOK
  <2>2. CASE failed
    <3>1. pc'[s] = "idle" /\ active' = active
      BY <1>10, <1>t, <2>2 DEF CommitInserts, CommitDeletes, IndexCommitFailed, tmVars
    <3>2. NextIx(s, "none") BY <1>10, <2>2 DEF CommitInserts, CommitDeletes
    <3>3. ix'[s].step = "none" /\ ix'[s].old = {} BY <1>n, <2>1, <3>2
    <3>4. ~IsActive(s)' BY <2>1, <3>1 DEF IsActive
    <3> QED BY <1>0, <3>1, <3>3, <3>4
  <2>3. CASE ~failed
    <3>1. UNCHANGED vars BY <1>10, <2>3 DEF CommitInserts, CommitDeletes
    <3>2. pc' = pc /\ op' = op /\ rows' = rows /\ active' = active BY <3>1 DEF vars, tableVars, tmVars
    <3>3. AppendsKnown(s)' /\ StatementParked(s)'
      BY <1>i, <3>2 DEF ChainIx, AppendsKnown, Open, IsActive, Committing, StatementParked
    <3>4. CASE CommitInserts(s, failed)
      <4>1. ix'[s].step = AfterInserts(s) /\ ix'[s].old = {} BY <1>n, <2>1, <2>3, <3>4 DEF CommitInserts
      <4>2. \A j \in DOMAIN idx' : idx'[j].ins # op[s].txnId
        BY <1>b, <2>1, <3>4, CommitInsertsFacts
      <4> QED BY <2>1, <3>2, <3>3, <4>1, <4>2
           DEF ChainIx, StepOK, OldOK, Answered, Quiet, AfterInserts
    <3>5. CASE CommitDeletes(s, failed)
      <4>1. ix'[s].step = "none" /\ ix'[s].old = {} /\ ix[s].step = "commit_deletes"
        BY <1>n, <2>1, <2>3, <3>5 DEF CommitDeletes
      <4>2. idx' = CommitDelete(idx, op[s].txnId, op[s].commitId) BY <3>5 DEF CommitDeletes
      <4>3. /\ DOMAIN idx' = DOMAIN idx
            /\ \A j \in DOMAIN idx : /\ idx'[j].ins = idx[j].ins
                                     /\ idx'[j].del = IF idx[j].del = op[s].txnId THEN op[s].commitId ELSE idx[j].del
        BY <1>b, <2>1, <4>2, CommitDeletesFacts
      <4>4. \A j \in DOMAIN idx' : idx'[j].del # op[s].txnId BY <1>b, <2>1, <4>3
      <4>5. op[s].app # {} => \A j \in DOMAIN idx' : idx'[j].ins # op[s].txnId
        BY <1>i, <2>1, <4>1, <4>3 DEF ChainIx, Answered
      <4> QED BY <2>1, <3>2, <3>3, <4>1, <4>4, <4>5
           DEF ChainIx, StepOK, OldOK, Answered, Quiet
    <3> QED BY <1>10, <3>4, <3>5
  <2> QED BY <2>2, <2>3
<1>11. CASE IFetch(s)
  <2>1. pc[s] = "open" /\ ix'[s].step = "none" /\ FetchReply(s) BY <1>11, FetchFacts
  <2>2. CASE EmptyStatement(s) /\ ix'[s].old = {}
    <3>1. op' = op /\ pc'[s] = "effect" BY <2>2, <1>t DEF EmptyStatement
    <3>2. AppendsKnown(s)' BY <1>a, <1>t, <2>1, <3>1 DEF Open, ChainOK
    <3> QED BY <2>1, <2>2, <3>1, <3>2 DEF ChainIx, StatementParked, StepOK, OldOK, Answered
  <2>3. ASSUME NEW m \in SUBSET (1 .. MaxRows), NEW h \in 1 .. MaxHits, IndexScan(s, m, h),
               \A o \in ix'[s].old : o[2] \in m /\ \E i \in DOMAIN rows : o[1] = rows[i].key
        PROVE  ChainIx(s)'
    <3>1. op' = [op EXCEPT ![s].ids = m, ![s].hits = h] BY <2>3 DEF IndexScan, ScanReply
    <3>2. /\ op'[s].txnId = op[s].txnId /\ op'[s].app = op[s].app /\ op'[s].ids = m
          /\ op'[s].stmtApp = op[s].stmtApp /\ op'[s].stmtDel = op[s].stmtDel
      BY ONLY <1>t, <3>1 DEF Op
    <3>3. pc'[s] = "scanned" /\ UNCHANGED nextKey BY <2>3, <1>t DEF IndexScan, ScanReply
    <3>4. AppendsKnown(s)' BY <1>a, <1>t, <2>1, <3>2, <3>3 DEF Open, ChainOK
    <3>5. StatementParked(s)' BY <1>i, <2>1, <3>2, <3>3 DEF ChainIx, StatementParked
    <3>6. \A i \in DOMAIN rows : rows[i].key < nextKey BY <1>t, RowStamps
    <3>7. \A o \in ix'[s].old : o[2] \in m /\ o[1] < nextKey BY <2>3, <3>6
    <3>8. OldOK(s)' BY <3>2, <3>3, <3>7 DEF OldOK
    <3> QED BY <2>1, <3>3, <3>4, <3>5, <3>8 DEF ChainIx, StepOK, Answered
  <2> QED BY <2>1, <2>2, <2>3 DEF FetchReply
<1>12. ASSUME NEW n \in 1 .. MaxHits, NEW hits \in Injection(1 .. n, Search(s)), ISearch(s, hits)
       PROVE  ChainIx(s)'
  <2>1. Quiet(s) /\ pc[s] = "open" /\ UNCHANGED vars /\ ix'[s].step = "fetch" /\ ix'[s].old = ix[s].old
    BY <1>12, SearchFacts
  <2>2. pc' = pc /\ op' = op /\ rows' = rows /\ active' = active /\ nextKey' = nextKey
    BY <2>1 DEF vars, tableVars, tmVars
  <2>3. AppendsKnown(s)' BY <1>i, <2>2 DEF ChainIx, AppendsKnown, Open, IsActive, Committing
  <2>4. ix[s].old = {} BY <1>i, <2>1 DEF ChainIx, OldOK, Quiet
  <2>5. StatementParked(s)' BY <1>i, <2>2 DEF ChainIx, StatementParked
  <2> QED BY <2>1, <2>2, <2>3, <2>4, <2>5 DEF ChainIx, StepOK, OldOK, Answered
<1> QED BY <1>1, <1>2, <1>3, <1>4, <1>5, <1>6, <1>7, <1>8, <1>9, <1>10, <1>11, <1>12 DEF Message, Dml, EndOfTxn

-----------------------------------------------------------------------------
(* Heap and index keep agreeing.                                           *)

\* The predicates of the agreement, in the next state, about values.
LEMMA PrimedArgs ==
    ASSUME NEW e, NEW h, NEW i, NEW j
    PROVE  /\ idx'[j].ins = e /\ rows'[i].ins = h /\ InsAgree(e, h)' => InsAgree(idx[j].ins, rows[i].ins)'
           /\ idx'[j].del = e /\ rows'[i].del = h /\ DelAgree(e, h, i)' => DelAgree(idx[j].del, rows[i].del, i)'
           /\ rows'[i].del = h /\ DelAgree(NotDeleted, h, i)' => DelAgree(NotDeleted, rows[i].del, i)'
           /\ rows'[i].ins = h /\ Unmirrored(h, i)' => Unmirrored(rows[i].ins, i)'
<1>1. ASSUME idx'[j].ins = e, rows'[i].ins = h, InsAgree(e, h)' PROVE InsAgree(idx[j].ins, rows[i].ins)'
  BY <1>1 DEF InsAgree, Half, Settled, Fresh, Runs, Committing, CommitVisible
<1>2. ASSUME rows'[i].del = h, DelAgree(e, h, i)', idx'[j].del = e PROVE DelAgree(idx[j].del, rows[i].del, i)'
  BY <1>2 DEF DelAgree, Half, Unmarked, Runs, Committing
<1>3. ASSUME rows'[i].del = h, DelAgree(NotDeleted, h, i)' PROVE DelAgree(NotDeleted, rows[i].del, i)'
  BY <1>3 DEF DelAgree, Half, Unmarked, Runs, Committing
<1>4. ASSUME rows'[i].ins = h, Unmirrored(h, i)' PROVE Unmirrored(rows[i].ins, i)'
  BY <1>4 DEF Unmirrored, Runs
<1> QED BY <1>1, <1>2, <1>3, <1>4

\* Stamps that agree go on doing so until a message changes one of them.
LEMMA AgreeKept ==
    ASSUME IndexInv, NEW s \in Session, Message(s), NEW e \in Nat, NEW h \in Nat, NEW i \in DOMAIN rows
    PROVE  /\ InsAgree(e, h) /\ ~(StampAppends(s) /\ Runs(s, h)) => InsAgree(e, h)'
           /\ DelAgree(e, h, i) /\ ~(StampDeletes(s) /\ Runs(s, h)) /\ ~(Mirror(s) /\ Runs(s, h))
              => DelAgree(e, h, i)'
           /\ Unmirrored(h, i) /\ ~(Mirror(s) /\ Runs(s, h)) => Unmirrored(h, i)'
<1>1. rows'[i].key = rows[i].key BY MessageTable DEF RowsStep
<1>2. ASSUME InsAgree(e, h), ~(StampAppends(s) /\ Runs(s, h)) PROVE InsAgree(e, h)'
  <2>1. CASE e = h BY <2>1 DEF InsAgree
  <2>2. CASE Half(h, e, InsStage)
    <3>1. Half(h, e, InsStage)' BY <1>2, <2>2, HalfKept
    <3> QED BY <3>1 DEF InsAgree
  <2>3. CASE e = 0 /\ Settled(h)
    <3>1. Settled(h)' BY <2>3, KnownKept
    <3> QED BY <2>3, <3>1 DEF InsAgree
  <2> QED BY <1>2, <2>1, <2>2, <2>3 DEF InsAgree
<1>3. ASSUME DelAgree(e, h, i), ~(StampDeletes(s) /\ Runs(s, h)), ~(Mirror(s) /\ Runs(s, h))
      PROVE  DelAgree(e, h, i)'
  <2>1. CASE e = h BY <2>1 DEF DelAgree
  <2>2. CASE Half(h, e, DelStage)
    <3>1. Half(h, e, DelStage)' BY <1>3, <2>2, HalfKept
    <3> QED BY <3>1 DEF DelAgree
  <2>3. CASE e = NotDeleted /\ Unmarked(h, i)
    <3>1. Unmarked(h, i)' BY <1>1, <1>3, <2>3, UnmirroredKept
    <3> QED BY <2>3, <3>1 DEF DelAgree
  <2> QED BY <1>3, <2>1, <2>2, <2>3 DEF DelAgree
<1>4. ASSUME Unmirrored(h, i), ~(Mirror(s) /\ Runs(s, h)) PROVE Unmirrored(h, i)'
  BY <1>4, UnmirroredKept
<1> QED BY <1>2, <1>3, <1>4

\* Nobody else runs with the ids of a chain.
LEMMA OnlyChain ==
    ASSUME IndexInv, NEW s \in Session, Message(s), Busy(s), NEW t, NEW c,
           op[s].txnId = t, op[s].commitId = c
    PROVE  /\ \A r \in Session : Runs(r, t)' => r = s
           /\ Committing(s) => \A r \in Session : (Committing(r) /\ op[r].commitId = c)' => r = s
<1>1. \A r \in Session \ {s} : pc'[r] = pc[r] /\ op'[r] = op[r] BY MessageTable
<1>2. IdsApart BY DEF IndexInv, TableInv
<1>3. ASSUME NEW r \in Session \ {s} PROVE ~Runs(r, t)'
  BY <1>1, <1>2 DEF IdsApart, Runs, Busy
<1>4. ASSUME NEW r \in Session \ {s}, Committing(s) PROVE ~(Committing(r) /\ op[r].commitId = c)'
  BY <1>1, <1>2, <1>4 DEF IdsApart, Committing
<1> QED BY <1>3, <1>4

\* The stamps of a row and of its entries are numbers.
LEMMA StampNumbers ==
    ASSUME IndexInv
    PROVE  /\ \A i \in DOMAIN rows : rows[i].ins \in Nat /\ rows[i].del \in Nat /\ rows[i].key \in Nat
           /\ \A j \in DOMAIN idx : idx[j].ins \in Nat /\ idx[j].del \in Nat /\ idx[j].key \in Nat
<1>1. idx \in [DOMAIN idx -> IndexEntry] BY DEF IndexInv, IndexTypes
<1>2. \A j \in DOMAIN idx : idx[j].ins \in Nat /\ idx[j].del \in Nat /\ idx[j].key \in Nat
  BY <1>1 DEF IndexEntry
<1> QED BY <1>2, RowStamps DEF IndexInv

\* Only a chain that has nothing to tell the index sends other messages.
LEMMA OtherMessages ==
    ASSUME IndexInv, NEW s \in Session, Message(s), ~ToIndex(s)
    PROVE  /\ ix[s].step \in {"none", "fetch"} /\ idx' = idx /\ ~Mirror(s)
           /\ pc[s] # "open" => Quiet(s)
<1>1. ix[s].step \in {"none", "fetch"} /\ idx' = idx
  BY DEF ToIndex, Message, HeapOnly, Dml, IInsert, IDelete, IUpdate, IUpdateFailed, IScan, ISearch, IFetch, EndOfTxn,
     ICommitDrain, IRollbackDrain, Quiet
<1>2. StepOK(s) BY DEF IndexInv, ChainIx
<1> QED BY <1>1, <1>2 DEF StepOK, Quiet, ToIndex

\* The messages that change the heap.
LEMMA HeapMessages ==
    ASSUME IndexInv, NEW s \in Session, Message(s), ~ToIndex(s), rows' # rows
    PROVE  \/ IInsert(s) \/ IDelete(s) \/ IUpdate(s) \/ IUpdateFailed(s)
           \/ StampAppends(s) \/ StampDeletes(s) \/ RollbackDeletes(s)
<1>1. CASE HeapOnly(s)
  BY <1>1 DEF HeapOnly, Begin, ReleaseReadOnly, EmptyStatement, StatementOk, StatementFailed, CommitEmpty, PublishCommit
<1>2. CASE ICommitDrain(s) \/ IRollbackDrain(s)
  BY <1>2 DEF ICommitDrain, CommitDrain, IRollbackDrain, RollbackDrain
<1>3. CASE IFetch(s)
  <2>1. FetchReply(s) BY <1>3, FetchFacts
  <2> QED BY <2>1 DEF FetchReply, EmptyStatement, IndexScan, ScanReply
<1>4. CASE \E m \in SUBSET VisibleRows(Data(s)) : IScan(s, m) BY <1>4 DEF IScan, Scan, ScanReply
<1>5. CASE \E n \in 1 .. MaxHits : \E hits \in Injection(1 .. n, Search(s)) : ISearch(s, hits)
  BY <1>5 DEF ISearch, vars, tableVars
<1> QED BY <1>1, <1>2, <1>3, <1>4, <1>5 DEF Message, ToIndex, Dml, EndOfTxn

\* A message to the heap leaves the inserts in agreement.
LEMMA HeapInserts ==
    ASSUME IndexInv, NEW s \in Session, Message(s), ~ToIndex(s), NEW i \in DOMAIN rows,
           NEW h, h = rows[i].ins, NEW g, g = rows'[i].ins
    PROVE  /\ \A j \in DOMAIN idx : InsAgree(idx[j].ins, h) => \A e : e = idx[j].ins => InsAgree(e, g)'
           /\ Unmirrored(h, i) => Unmirrored(g, i)'
<1>1. /\ ix[s].step # "mirror" /\ (pc[s] # "open" => Quiet(s))
      /\ ~Mirror(s) /\ Shape(s) /\ ChainIx(s) /\ TableInv /\ InsertStep(s, i)
  BY OtherMessages, Shapes, MessageTable DEF IndexInv, RowsStep
<1>2. h \in Nat BY StampNumbers
<1>3. pc[s] = "drained" => Busy(s) /\ Committing(s) /\ Open(s) BY DEF Busy, Committing, Open
<1>4. g = h \/ (pc[s] = "drained" /\ StampAppends(s) /\ i \in op[s].app /\ h = op[s].txnId /\ g = op[s].commitId)
  <2>1. CASE ~(pc[s] = "drained" /\ pc'[s] = "deletes") BY <1>1, <2>1 DEF InsertStep
  <2>2. CASE pc[s] = "drained" /\ pc'[s] = "deletes"
    <3>1. StampAppends(s) BY <1>1, <2>2 DEF Shape, Busy
    <3> QED BY <1>1, <2>2, <3>1 DEF InsertStep
  <2> QED BY <2>1, <2>2
<1>5. StampAppends(s) => pc[s] = "drained" /\ rows' = CommitAppend(rows, op[s].app, op[s].commitId)
  BY DEF StampAppends
<1>6. ASSUME NEW j \in DOMAIN idx, InsAgree(idx[j].ins, h), NEW e, e = idx[j].ins PROVE InsAgree(e, g)'
  <2>1. e \in Nat /\ InsAgree(e, h) BY <1>6, StampNumbers
  <2>2. CASE ~(StampAppends(s) /\ Runs(s, h))
    <3>1. g = h BY <1>3, <1>4, <2>2 DEF Runs
    <3>2. InsAgree(e, h)' BY <1>2, <2>1, <2>2, AgreeKept
    <3> QED BY <3>1, <3>2
  <2>3. CASE StampAppends(s) /\ Runs(s, h)
    <3>1. pc[s] = "drained" /\ h = op[s].txnId /\ Open(s) /\ Busy(s) BY <1>3, <1>5, <2>3 DEF Runs
    <3>2. i \in op[s].app
      BY <1>1, <3>1 DEF ChainIx, AppendsKnown, StatementParked
    <3>3. e # h
      BY <1>1, <1>6, <3>1, <3>2 DEF ChainIx, Answered, Quiet
    <3>4. h >= TxnIdStart /\ TxnIdStart \in Nat BY <3>1, ChainIds, Numbers DEF IndexInv
    <3>5. ~Settled(h) BY <1>2, <3>4 DEF Settled, Fresh
    <3>6. Half(h, e, InsStage) BY <2>1, <3>3, <3>5 DEF InsAgree
    <3>7. op[s].commitId = e BY <2>3, <3>6 DEF Half
    <3>8. g = e
      <4>1. rows[i] \in Row BY <1>1, RowStamps
      <4> QED BY <1>5, <2>3, <3>2, <3>7, <4>1 DEF CommitAppend, Row
    <3> QED BY <3>8 DEF InsAgree
  <2> QED BY <2>2, <2>3
<1>7. ASSUME Unmirrored(h, i) PROVE Unmirrored(g, i)'
  <2>1. g = h
    <3>1. ASSUME pc[s] = "drained", h = op[s].txnId PROVE FALSE
      <4>1. Runs(s, h) BY <1>3, <3>1 DEF Runs
      <4>2. ix[s].step = "mirror" \/ pc[s] = "abort" BY <1>7, <4>1 DEF Unmirrored
      <4> QED BY <1>1, <3>1, <4>2 DEF Quiet
    <3> QED BY <1>4, <3>1
  <2>2. Unmirrored(h, i)' BY <1>1, <1>2, <1>7, UnmirroredKept
  <2> QED BY <2>1, <2>2
<1> QED BY <1>6, <1>7

\* A message to the heap leaves the marks in agreement, except on rows that it taints.
LEMMA HeapMarks ==
    ASSUME IndexInv, NEW s \in Session, Message(s), ~ToIndex(s), NEW i \in DOMAIN rows, i \notin tainted',
           NEW h, h = rows[i].del, NEW g, g = rows'[i].del,
           NEW e \in Nat, e = NotDeleted \/ \E j \in DOMAIN idx : idx[j].del = e,
           DelAgree(e, h, i)
    PROVE  DelAgree(e, g, i)'
<1>1. /\ ix[s].step # "mirror" /\ (pc[s] # "open" => Quiet(s))
      /\ ~Mirror(s) /\ Shape(s) /\ ChainIx(s) /\ TableInv /\ DeleteStep(s, i)
      /\ rows'[i].key = rows[i].key
  BY OtherMessages, Shapes, MessageTable DEF IndexInv, RowsStep
<1>2. h \in Nat BY StampNumbers
<1>3. /\ Busy(s) => op[s].txnId \in Nat /\ op[s].txnId < NotDeleted /\ op[s].txnId \in Pending
      /\ NotDeleted \in Nat /\ NotDeleted \notin Pending
  BY <1>1, ChainIds, Numbers
<1>4. CASE g = h
  <2>1. ASSUME StampDeletes(s), Runs(s, h) PROVE DelAgree(e, g, i)'
    <3>1. /\ pc[s] = "deletes" /\ h = op[s].txnId /\ Busy(s)
          /\ rows' = IF op[s].del THEN RestampDeletes(rows, op[s].txnId, op[s].commitId) ELSE rows
      BY <2>1 DEF StampDeletes, CommitAllDeletes, Runs
    <3>2. ~Unmarked(h, i) BY <1>1, <2>1, <3>1 DEF Unmarked, Quiet
    <3>3. CASE e = h BY <1>4, <3>3 DEF DelAgree
    <3>4. CASE Half(h, e, DelStage)
      <4>1. op[s].del /\ op[s].commitId = e BY <2>1, <3>4 DEF Half, DelStage
      <4>2. rows[i] \in Row BY <1>1, RowStamps
      <4>3. g = op[s].commitId BY <3>1, <4>1, <4>2 DEF RestampDeletes, Row
      <4> QED BY <4>1, <4>3 DEF DelAgree
    <3> QED BY <3>2, <3>3, <3>4 DEF DelAgree
  <2>2. CASE ~(StampDeletes(s) /\ Runs(s, h))
    <3>1. DelAgree(e, h, i)' BY <1>1, <1>2, <2>2, AgreeKept
    <3> QED BY <1>4, <3>1
  <2> QED BY <2>1, <2>2
<1>5. CASE pc[s] = "scanned" /\ i \in op[s].ids /\ h = NotDeleted /\ g = op[s].txnId
  <2>1. Busy(s) BY <1>5 DEF Busy
  <2>2. e = NotDeleted BY <1>3, <1>5 DEF DelAgree, Half, Unmarked
  <2>3. g \in Pending' /\ g # h
    BY <1>3, <1>5, <2>1, FrameIds
  <2>4. \A r \in Session : Runs(r, g)' => r = s BY <1>5, <2>1, OnlyChain
  <2>5. IDelete(s) \/ IUpdate(s) \/ IUpdateFailed(s)
    <3>1. rows' # rows BY <2>3
    <3> QED BY <3>1, <1>5, HeapMessages DEF StampAppends, StampDeletes, RollbackDeletes, IInsert, Insert
  <2>6. Runs(s, g)' => \/ ix'[s].step = "mirror" /\ <<rows'[i].key, i>> \in ix'[s].old
                       \/ pc'[s] = "failed"
    <3>1. CASE IUpdateFailed(s)
      BY <1>1, <3>1 DEF IUpdateFailed, UpdateFailed, TableInv, ChainTypes
    <3>2. CASE IDelete(s) \/ IUpdate(s)
      <4>1. i \notin Refused(s) BY <3>2 DEF IDelete, IUpdate
      <4>2. <<rows[i].key, i>> \in ix[s].old BY <1>5, <4>1 DEF Refused
      <4>3. ix[s] \in IxType /\ ix \in [Session -> IxType] BY DEF IndexInv, IndexTypes, IxType
      <4>4. ix'[s] = [ix[s] EXCEPT !.step = "mirror"] BY <3>2, <4>3 DEF IDelete, IUpdate, NextIx
      <4>5. ix'[s].step = "mirror" /\ ix'[s].old = ix[s].old BY ONLY <4>3, <4>4 DEF IxType
      <4> QED BY <1>1, <4>2, <4>5
    <3> QED BY <2>5, <3>1, <3>2
  <2>7. Unmarked(g, i)' BY <2>3, <2>4, <2>6 DEF Unmarked
  <2> QED BY <2>2, <2>7 DEF DelAgree
<1>6. CASE pc[s] = "deletes" /\ pc'[s] = "publish" /\ h = op[s].txnId /\ g = op[s].commitId /\ g # h
  <2>1. StampDeletes(s) /\ Busy(s) /\ Runs(s, h) BY <1>1, <1>6 DEF Shape, Busy, Runs
  <2>2. op[s].del BY <1>6, <2>1 DEF StampDeletes
  <2>3. e # h
    BY <1>1, <1>3, <1>6, <2>1, <2>2 DEF ChainIx, Answered
  <2>4. ~Unmarked(h, i) BY <1>1, <1>6, <2>1 DEF Unmarked, Quiet
  <2>5. Half(h, e, DelStage) BY <2>3, <2>4 DEF DelAgree
  <2>6. e = g BY <1>6, <2>1, <2>5 DEF Half
  <2> QED BY <2>6 DEF DelAgree
<1>7. CASE pc[s] = "abort" /\ h = op[s].txnId /\ g = NotDeleted /\ g # h
  <2>1. Busy(s) /\ Runs(s, h) BY <1>7 DEF Busy, Runs
  <2>2. op[s].del
    <3>1. rows' # rows BY <1>7
    <3>2. RollbackDeletes(s)
      BY <1>7, <3>1, HeapMessages DEF StampAppends, StampDeletes, IInsert, Insert, IDelete, DeleteRows, IUpdate,
         UpdateRows, IUpdateFailed, UpdateFailed
    <3> QED BY <3>1, <3>2 DEF RollbackDeletes
  <2>3. e # h BY <1>1, <1>3, <1>7, <2>1, <2>2 DEF ChainIx, Answered
  <2>4. ~Half(h, e, DelStage) BY <1>7, <2>1 DEF Half, DelStage
  <2>5. e = g BY <1>7, <2>3, <2>4 DEF DelAgree
  <2> QED BY <2>5 DEF DelAgree
<1> QED BY <1>1, <1>4, <1>5, <1>6, <1>7 DEF DeleteStep

\* A message taints rows and never clears one.
LEMMA TaintGrows ==
    ASSUME NEW s \in Session, Message(s)
    PROVE  tainted \subseteq tainted'
BY DEF Message, HeapOnly, Dml, IInsert, IDelete, IUpdate, IUpdateFailed, IScan, ISearch, IFetch, Mirror, EndOfTxn,
   ICommitDrain, IRollbackDrain, IRevertInsert, IRevertDelete, CommitInserts, CommitDeletes

\* Entries name rows of the heap.
LEMMA EntryRows ==
    ASSUME IndexInv, NEW s \in Session, Message(s), ~cp.moved
    PROVE  \A j \in DOMAIN idx' : idx'[j].row \in DOMAIN rows'
<1>1. \A j \in DOMAIN idx : idx[j].row \in DOMAIN rows BY DEF IndexInv, Agreement
<1>2. DOMAIN rows \subseteq DOMAIN rows' BY MessageTable DEF RowsStep
<1>3. ASSUME NEW j \in DOMAIN idx' PROVE idx'[j].row \in DOMAIN rows
  <2>1. EntryStep(s, j) BY EntriesStep
  <2>2. \A p : idx'[j] = Entry(rows[p].key, p, op[s].txnId) => idx'[j].row = p BY DEF Entry
  <2> QED BY <1>1, <2>1, <2>2 DEF EntryStep
<1> QED BY <1>2, <1>3

\* A message to the heap leaves every row in agreement with its entry.
LEMMA HeapRowAgrees ==
    ASSUME IndexInv, NEW s \in Session, Message(s), ~ToIndex(s), ~cp.moved,
           NEW i \in DOMAIN rows' \ tainted'
    PROVE  RowAgrees(i)'
<1>1. idx' = idx /\ RowsStep(s) /\ tainted \subseteq tainted'
  BY OtherMessages, MessageTable, TaintGrows
<1>2. EntriesOf(i)' = EntriesOf(i) BY <1>1 DEF EntriesOf
<1>3. PICK g : g = rows'[i].ins OBVIOUS
<1>4. PICK d : d = rows'[i].del OBVIOUS
<1>5. CASE i \in DOMAIN rows
  <2>1. RowAgrees(i) /\ rows'[i].key = rows[i].key BY <1>1, <1>5 DEF IndexInv, Agreement, RowsStep
  <2>2. PICK h : h = rows[i].ins OBVIOUS
  <2>3. PICK m : m = rows[i].del OBVIOUS
  <2>4. EntriesOf(i) = {} => Unmirrored(rows[i].ins, i)'
    <3> SUFFICES ASSUME EntriesOf(i) = {} PROVE Unmirrored(rows[i].ins, i)'
      OBVIOUS
    <3>1. Unmirrored(h, i) BY <2>1, <2>2 DEF RowAgrees
    <3>2. Unmirrored(g, i)' BY <1>3, <1>5, <2>2, <3>1, HeapInserts
    <3> QED BY <1>3, <3>2, PrimedArgs
  <2>5. ASSUME NEW j \in EntriesOf(i)
        PROVE  /\ idx'[j].key = rows'[i].key
               /\ InsAgree(idx[j].ins, rows[i].ins)'
               /\ DelAgree(idx[j].del, rows[i].del, i)'
    <3>1. j \in DOMAIN idx /\ idx[j].ins \in Nat /\ idx[j].del \in Nat BY StampNumbers DEF EntriesOf
    <3>2. PICK e : e = idx[j].ins OBVIOUS
    <3>3. PICK f : f = idx[j].del OBVIOUS
    <3>4. InsAgree(idx[j].ins, h) /\ DelAgree(f, m, i) BY <2>1, <2>2, <2>3, <3>3 DEF RowAgrees
    <3>5. InsAgree(e, g)' BY <1>3, <1>5, <2>2, <3>1, <3>2, <3>4, HeapInserts
    <3>6. f \in Nat /\ \E k \in DOMAIN idx : idx[k].del = f BY <3>1, <3>3
    <3>7. DelAgree(f, d, i)' BY <1>4, <1>5, <2>3, <3>4, <3>6, HeapMarks
    <3>8. idx'[j].ins = e /\ idx'[j].del = f BY <1>1, <3>2, <3>3
    <3>9. InsAgree(idx[j].ins, rows[i].ins)' BY ONLY <1>3, <3>5, <3>8, PrimedArgs
    <3>10. DelAgree(idx[j].del, rows[i].del, i)' BY ONLY <1>4, <3>7, <3>8, PrimedArgs
    <3> QED BY <1>1, <2>1, <3>9, <3>10 DEF RowAgrees
  <2> QED BY <1>2, <2>1, <2>4, <2>5 DEF RowAgrees
<1>6. CASE i \notin DOMAIN rows
  <2>1. EntriesOf(i) = {} BY <1>6 DEF EntriesOf, IndexInv, Agreement
  <2>2. NewRow(s, i) BY <1>1, <1>6 DEF RowsStep
  <2>3. Busy(s) /\ g = op[s].txnId BY <1>3, <2>2 DEF NewRow, Busy
  <2>4. g \in Pending' BY <2>3, ChainIds, FrameIds
  <2>5. \A r \in Session : Runs(r, g)' => r = s BY <2>3, OnlyChain
  <2>6. ix'[s].step = "mirror"
    <3>1. IInsert(s) \/ IUpdate(s)
      <4>1. rows' # rows BY <1>6
      <4>2. DOMAIN MarkDeleted(rows, op[s].ids, op[s].txnId) = DOMAIN rows BY DEF MarkDeleted
      <4> QED BY <1>6, <2>2, <4>1, <4>2, HeapMessages
         DEF NewRow, StampAppends, StampDeletes, RollbackDeletes, IDelete, DeleteRows, IUpdateFailed, UpdateFailed
    <3>2. ix \in [Session -> IxType] BY DEF IndexInv, IndexTypes, IxType
    <3> QED BY <3>1, <3>2 DEF IInsert, IUpdate, NextIx, IxType
  <2>7. Unmirrored(g, i)' BY <2>2, <2>4, <2>5, <2>6 DEF Unmirrored, NewRow
  <2>8. Unmirrored(rows[i].ins, i)' BY <1>3, <2>7, PrimedArgs
  <2> QED BY <1>2, <2>1, <2>8 DEF RowAgrees
<1> QED BY <1>5, <1>6

\* delete_rows and update mark every scanned row that is free.
LEMMA FreeRowsMarked ==
    ASSUME IndexInv, NEW s \in Session, IDelete(s) \/ IUpdate(s), NEW i \in DOMAIN rows,
           i \in op[s].ids, rows[i].del = NotDeleted
    PROVE  rows'[i].del = op[s].txnId
<1>t. TableInv /\ op[s] \in Op /\ rows \in Seq(Row) /\ nextKey \in Nat /\ rows[i] \in Row
  BY ChainIds, RowStamps DEF IndexInv, TableInv, HeapOK
<1> DEFINE n == op[s].hits
           g == MarkDeleted(rows, op[s].ids, op[s].txnId)
           keys == [k \in 1 .. n |-> nextKey + k - 1]
<1>1. Busy(s) BY DEF IDelete, IUpdate, DeleteRows, UpdateRows, Busy
<1>2. g[i].del = op[s].txnId BY <1>t DEF MarkDeleted, Row
<1>3. CASE IDelete(s) BY <1>2, <1>3 DEF IDelete, DeleteRows
<1>4. CASE IUpdate(s)
  <2>1. rows' = AppendRows(g, keys, op[s].txnId) BY <1>4 DEF IUpdate, UpdateRows
  <2>2. n \in Nat BY <1>t DEF Op
  <2>3. g \in Seq(Row) /\ Len(g) = Len(rows) BY <1>1, <1>t, MarksStep
  <2> HIDE DEF n, g
  <2>4. keys \in [1 .. n -> Nat] /\ \A k \in 1 .. n : keys[k] = nextKey + k - 1 BY <1>t, <2>2
  <2> HIDE DEF keys
  <2>5. /\ DOMAIN rows' = 1 .. Len(rows) + n
        /\ \A k \in DOMAIN rows : rows'[k] = g[k]
        /\ \A k \in Len(rows) + 1 .. Len(rows) + n :
              /\ rows'[k].key = nextKey + k - Len(rows) - 1
              /\ rows'[k].ins = op[s].txnId /\ rows'[k].del = NotDeleted
    BY ONLY <1>t, <1>1, s \in Session, <2>1, <2>2, <2>3, <2>4, AppendStep, ZenonT(60)
  <2> QED BY <1>2, <2>5
<1> QED BY <1>3, <1>4

\* A mirror comes due when its statement changes the heap, and its rows are new then.
LEMMA MirrorBegins ==
    ASSUME IndexInv, NEW s \in Session, Message(s), ix'[s].step = "mirror"
    PROVE  /\ ~ToIndex(s) /\ (IInsert(s) \/ IDelete(s) \/ IUpdate(s))
           /\ ix'[s].old = ix[s].old /\ op'[s].txnId = op[s].txnId
           /\ \A i \in op'[s].stmtApp : i \notin DOMAIN rows
<1>1. /\ ix \in [Session -> IxType] /\ ix[s] \in IxType /\ op \in [Session -> Op] /\ op[s] \in Op /\ ChainIx(s)
      /\ pc \in [Session -> PC] /\ DOMAIN rows = 1 .. Len(rows) /\ Len(rows) \in Nat
  BY ChainIds, LenProperties DEF IndexInv, IndexTypes, TableInv, ChainTypes, HeapOK
<1>n. ASSUME NEW st, NextIx(s, st) PROVE ix'[s].step = st /\ ix'[s].old = ix[s].old
  <2>1. ix'[s] = [ix[s] EXCEPT !.step = st] BY <1>1, <1>n DEF NextIx
  <2> QED BY ONLY <1>1, <2>1 DEF IxType
<1>2. ~ToIndex(s)
  <2>1. ~Mirror(s) BY <1>1 DEF Mirror, NoIx
  <2> QED BY <1>n, <2>1 DEF ToIndex, IRevertInsert, IRevertDelete, CommitInserts, CommitDeletes, AfterInserts
<1>3. IInsert(s) \/ IDelete(s) \/ IUpdate(s)
  <2>1. ASSUME NEW m, ix' = [ix EXCEPT ![s].old = m] PROVE ix'[s].step = ix[s].step
    <3>1. ix'[s] = [ix[s] EXCEPT !.old = m] BY <1>1, <2>1
    <3> QED BY ONLY <1>1, <3>1 DEF IxType
  <2>2. ~HeapOnly(s) BY <1>1 DEF HeapOnly, NoIx, Quiet
  <2>3. ~IUpdateFailed(s) BY <1>1 DEF IUpdateFailed, Quiet
  <2>4. ~\E m \in SUBSET VisibleRows(Data(s)) : IScan(s, m) BY <2>1 DEF IScan, Quiet
  <2>5. ~ICommitDrain(s) /\ ~IRollbackDrain(s) BY <1>n DEF ICommitDrain, IRollbackDrain, AfterInserts
  <2>6. ~IFetch(s) BY FetchFacts
  <2>7. ~\E n \in 1 .. MaxHits : \E hits \in Injection(1 .. n, Search(s)) : ISearch(s, hits) BY SearchFacts
  <2> QED BY <1>2, <2>2, <2>3, <2>4, <2>5, <2>6, <2>7 DEF Message, Dml, EndOfTxn, ToIndex
<1>4. op'[s].txnId = op[s].txnId /\ \A i \in op'[s].stmtApp : i \notin DOMAIN rows
  <2>1. CASE IInsert(s)
    <3>1. op' = [op EXCEPT ![s].stmtApp = {Len(rows) + 1}] BY <2>1 DEF IInsert, Insert
    <3>2. op'[s].txnId = op[s].txnId /\ op'[s].stmtApp = {Len(rows) + 1} BY ONLY <1>1, <3>1 DEF Op
    <3> QED BY <1>1, <3>2
  <2>2. CASE IDelete(s)
    <3>1. op' = [op EXCEPT ![s].ids = {}, ![s].hits = 0, ![s].stmtDel = TRUE] BY <2>2 DEF IDelete, DeleteRows
    <3>2. op'[s].txnId = op[s].txnId /\ op'[s].stmtApp = op[s].stmtApp BY ONLY <1>1, <3>1 DEF Op
    <3>3. pc[s] = "scanned" BY <2>2 DEF IDelete, DeleteRows
    <3>4. op[s].stmtApp = {} BY <1>1, <3>3 DEF ChainIx, StatementParked
    <3> QED BY <3>2, <3>4
  <2>3. CASE IUpdate(s)
    <3>1. op' = [op EXCEPT ![s].ids = {}, ![s].hits = 0, ![s].stmtDel = TRUE,
                           ![s].stmtApp = Len(rows) + 1 .. Len(rows) + op[s].hits]
      BY <2>3 DEF IUpdate, UpdateRows
    <3>2. /\ op'[s].txnId = op[s].txnId
          /\ op'[s].stmtApp = Len(rows) + 1 .. Len(rows) + op[s].hits
      BY ONLY <1>1, <3>1 DEF Op
    <3> QED BY <1>1, <3>2
  <2> QED BY <1>3, <2>1, <2>2, <2>3
<1>5. ix'[s].old = ix[s].old BY <1>3, <1>n DEF IInsert, IDelete, IUpdate
<1> QED BY <1>2, <1>3, <1>4, <1>5

\* A row that is there is not claimed later on.
LEMMA UnclaimedKept ==
    ASSUME IndexInv, NEW s \in Session, Message(s), NEW i \in DOMAIN rows, Unclaimed(i)
    PROVE  Unclaimed(i)'
<1>1. \A r \in Session \ {s} : op'[r] = op[r] /\ ix'[r] = ix[r] BY MessageTable
<1>2. ix'[s].step = "mirror" => i \notin op'[s].stmtApp BY MirrorBegins
<1> QED BY <1>1, <1>2 DEF Unclaimed

\* Another session's message to the heap leaves a mirror that is to come as it was.
LEMMA HeapMirrorOther ==
    ASSUME IndexInv, NEW s \in Session, Message(s), ~ToIndex(s), ~cp.moved, NEW r \in Session \ {s}
    PROVE  MirrorOK(r)'
<1> SUFFICES ASSUME ix'[r].step = "mirror"
             PROVE  /\ \A i \in op'[r].stmtApp \ tainted' :
                          EntriesOf(i)' = {} /\ DelAgree(NotDeleted, rows[i].del, i)'
                    /\ \A i \in DOMAIN rows' \ tainted' :
                          <<rows'[i].key, i>> \in ix'[r].old => rows'[i].del = op'[r].txnId /\ Unclaimed(i)'
  BY DEF MirrorOK
<1>1. idx' = idx /\ RowsStep(s) /\ tainted \subseteq tainted' /\ op'[r] = op[r] /\ ix'[r] = ix[r] /\ TableInv
  BY OtherMessages, MessageTable, TaintGrows DEF IndexInv
<1>2. IsActive(r) /\ Busy(r) /\ MirrorOK(r) BY <1>1, ChainIds DEF IndexInv, Agreement
<1>3. ASSUME NEW i \in op[r].stmtApp \ tainted' PROVE EntriesOf(i)' = {} /\ DelAgree(NotDeleted, rows[i].del, i)'
  <2>1. EntriesOf(i) = {} /\ DelAgree(NotDeleted, rows[i].del, i) BY <1>1, <1>2 DEF MirrorOK
  <2>2. i \in DOMAIN rows BY <1>1, <1>2 DEF TableInv, RangesStillPending
  <2>3. PICK e : e = NotDeleted OBVIOUS
  <2>4. PICK h : h = rows[i].del OBVIOUS
  <2>5. PICK g : g = rows'[i].del OBVIOUS
  <2>6. e \in Nat /\ DelAgree(e, h, i) BY <1>1, <2>1, <2>3, <2>4, Numbers
  <2>7. DelAgree(e, g, i)' BY <2>2, <2>3, <2>4, <2>5, <2>6, HeapMarks
  <2>8. DelAgree(NotDeleted, rows[i].del, i)' BY <2>3, <2>5, <2>7, PrimedArgs
  <2> QED BY <1>1, <2>1, <2>8 DEF EntriesOf
<1>4. ASSUME NEW i \in DOMAIN rows' \ tainted', <<rows'[i].key, i>> \in ix[r].old
      PROVE  rows'[i].del = op[r].txnId /\ Unclaimed(i)'
  <2>1. <<rows'[i].key, i>>[1] = rows'[i].key OBVIOUS
  <2>2. rows'[i].key < nextKey /\ rows'[i].key \in Nat
    BY <1>4, <2>1, ChainIds DEF IxType, IndexInv, ChainIx, OldOK
  <2>3. i \in DOMAIN rows BY <2>2, KeysGrow
  <2>4. rows'[i].key = rows[i].key /\ DeleteStep(s, i) BY <1>1, <2>3 DEF RowsStep
  <2>5. rows[i].del = op[r].txnId /\ Unclaimed(i) BY <1>1, <1>2, <1>4, <2>3, <2>4 DEF MirrorOK
  <2>6. op[r].txnId # NotDeleted /\ (Busy(s) => op[s].txnId # op[r].txnId)
    BY <1>1, <1>2, ChainIds, Numbers DEF TableInv, IdsApart
  <2>7. rows'[i].del = op[r].txnId BY <2>4, <2>5, <2>6 DEF DeleteStep, Busy
  <2>8. Unclaimed(i)' BY <2>3, <2>5, UnclaimedKept
  <2> QED BY <2>7, <2>8
<1> QED BY <1>1, <1>3, <1>4

\* A statement that has changed the heap leaves its rows to its mirror.
LEMMA HeapMirrorOwn ==
    ASSUME IndexInv, NEW s \in Session, Message(s), ~ToIndex(s), ~cp.moved
    PROVE  MirrorOK(s)'
<1> SUFFICES ASSUME ix'[s].step = "mirror"
             PROVE  /\ \A i \in op'[s].stmtApp \ tainted' :
                          EntriesOf(i)' = {} /\ DelAgree(NotDeleted, rows[i].del, i)'
                    /\ \A i \in DOMAIN rows' \ tainted' :
                          <<rows'[i].key, i>> \in ix'[s].old => rows'[i].del = op'[s].txnId /\ Unclaimed(i)'
  BY DEF MirrorOK
<1>1. /\ idx' = idx /\ RowsStep(s) /\ TableInv /\ TableInv' /\ ix[s] \in IxType /\ ChainIx(s) /\ pc \in [Session -> PC]
  BY OtherMessages, MessageTable, ChainIds DEF IndexInv, TableInv, ChainTypes
<1>2. /\ IInsert(s) \/ IDelete(s) \/ IUpdate(s)
      /\ ix'[s].old = ix[s].old /\ op'[s].txnId = op[s].txnId
      /\ \A i \in op'[s].stmtApp : i \notin DOMAIN rows
  BY MirrorBegins
<1>3. pc'[s] = "effect" BY <1>1, <1>2 DEF IInsert, Insert, IDelete, DeleteRows, IUpdate, UpdateRows
<1>4. ASSUME NEW i \in op'[s].stmtApp PROVE EntriesOf(i)' = {} /\ DelAgree(NotDeleted, rows[i].del, i)'
  <2>1. IsActive(s)' BY <1>1, <1>3 DEF TableInv, ChainsOK, ChainOK
  <2>2. i \in DOMAIN rows' BY <1>1, <2>1 DEF TableInv, RangesStillPending
  <2>3. NewRow(s, i) BY <1>1, <1>2, <2>2 DEF RowsStep
  <2>4. rows'[i].del = NotDeleted BY <2>3 DEF NewRow
  <2>5. EntriesOf(i) = {} BY <1>2 DEF EntriesOf, IndexInv, Agreement
  <2> QED BY <1>1, <2>4, <2>5 DEF DelAgree, EntriesOf
<1>5. ASSUME NEW i \in DOMAIN rows' \ tainted', <<rows'[i].key, i>> \in ix'[s].old
      PROVE  rows'[i].del = op'[s].txnId /\ Unclaimed(i)'
  <2>1. IDelete(s) \/ IUpdate(s)
    <3>1. CASE IInsert(s)
      <4>1. pc[s] = "open" /\ ix[s].step = "none" BY <3>1 DEF IInsert, Insert, Quiet
      <4> QED BY <1>1, <1>2, <1>5, <4>1 DEF ChainIx, OldOK
    <3> QED BY <1>2, <3>1
  <2>2. pc[s] = "scanned" BY <2>1 DEF IDelete, DeleteRows, IUpdate, UpdateRows
  <2>3. <<rows'[i].key, i>>[1] = rows'[i].key /\ <<rows'[i].key, i>>[2] = i OBVIOUS
  <2>4. rows'[i].key < nextKey /\ rows'[i].key \in Nat /\ i \in op[s].ids
    BY <1>1, <1>2, <1>5, <2>2, <2>3 DEF IxType, ChainIx, OldOK
  <2>5. i \in DOMAIN rows BY <2>4, KeysGrow
  <2>6. i \notin Refused(s) /\ i \notin tainted BY <2>1, TaintGrows DEF IDelete, IUpdate
  <2>7. rows[i].del = NotDeleted /\ EntriesOf(i) # {} BY <2>4, <2>5, <2>6 DEF Refused
  <2>8. rows'[i].del = op'[s].txnId BY <1>2, <2>1, <2>4, <2>5, <2>7, FreeRowsMarked
  <2>9. Unclaimed(i)
    <3>1. \A t \in Session : MirrorOK(t) BY DEF IndexInv, Agreement
    <3> QED BY <2>6, <2>7, <3>1 DEF Unclaimed, MirrorOK
  <2>10. Unclaimed(i)' BY <2>5, <2>9, UnclaimedKept
  <2> QED BY <2>8, <2>10
<1> QED BY <1>4, <1>5

\* A message to the index leaves the heap alone.
LEMMA IndexOnly ==
    ASSUME IndexInv, NEW s \in Session, Message(s), ToIndex(s)
    PROVE  /\ rows' = rows /\ pc'[s] \in {pc[s], "idle"} /\ ~StampAppends(s) /\ ~StampDeletes(s)
           /\ pc'[s] = pc[s] => op'[s] = op[s]
<1>1. pc \in [Session -> PC] /\ op \in [Session -> Op] BY DEF IndexInv, TableInv, ChainTypes
<1>2. UNCHANGED vars \/ IndexCommitFailed(s)
  BY DEF ToIndex, Mirror, IRevertInsert, IRevertDelete, CommitInserts, CommitDeletes
<1>3. rows' = rows /\ pc'[s] \in {pc[s], "idle"} /\ (pc'[s] = pc[s] => op'[s] = op[s])
  BY <1>1, <1>2 DEF vars, tableVars, IndexCommitFailed
<1>4. StampAppends(s) => pc[s] = "drained" /\ pc'[s] = "deletes" BY <1>1 DEF StampAppends
<1>5. StampDeletes(s) => pc[s] = "deletes" /\ pc'[s] = "publish" BY <1>1 DEF StampDeletes
<1> QED BY <1>3, <1>4, <1>5

\* Which agreements a message to the index cannot disturb.
LEMMA IndexAgreeKept ==
    ASSUME IndexInv, NEW s \in Session, Message(s), ToIndex(s), ~Mirror(s), NEW i \in DOMAIN rows
    PROVE  /\ \A j \in DOMAIN idx : j \in DOMAIN idx' /\ idx'[j].ins = idx[j].ins
                 /\ InsAgree(idx[j].ins, rows[i].ins) => InsAgree(idx[j].ins, rows[i].ins)'
           /\ \A j \in DOMAIN idx : j \in DOMAIN idx' /\ idx'[j].del = idx[j].del
                 /\ DelAgree(idx[j].del, rows[i].del, i) => DelAgree(idx[j].del, rows[i].del, i)'
           /\ DelAgree(NotDeleted, rows[i].del, i) => DelAgree(NotDeleted, rows[i].del, i)'
           /\ Unmirrored(rows[i].ins, i) => Unmirrored(rows[i].ins, i)'
<1>1. rows' = rows /\ ~StampAppends(s) /\ ~StampDeletes(s) BY IndexOnly
<1>2. PICK h : h = rows[i].ins OBVIOUS
<1>3. PICK m : m = rows[i].del OBVIOUS
<1>4. h \in Nat /\ m \in Nat /\ NotDeleted \in Nat BY <1>2, <1>3, StampNumbers, StampAssumption
<1>5. ASSUME NEW j \in DOMAIN idx, idx'[j].ins = idx[j].ins, InsAgree(idx[j].ins, rows[i].ins)
      PROVE  InsAgree(idx[j].ins, rows[i].ins)'
  <2>1. PICK e : e = idx[j].ins OBVIOUS
  <2>2. e \in Nat /\ InsAgree(e, h) BY <1>2, <1>5, <2>1, StampNumbers
  <2>3. InsAgree(e, h)' BY <1>1, <1>4, <2>2, AgreeKept
  <2>4. idx'[j].ins = e /\ rows'[i].ins = h BY <1>1, <1>2, <1>5, <2>1
  <2> QED BY ONLY <2>3, <2>4, PrimedArgs
<1>6. ASSUME NEW j \in DOMAIN idx, idx'[j].del = idx[j].del, DelAgree(idx[j].del, rows[i].del, i)
      PROVE  DelAgree(idx[j].del, rows[i].del, i)'
  <2>1. PICK e : e = idx[j].del OBVIOUS
  <2>2. e \in Nat /\ DelAgree(e, m, i) BY <1>3, <1>6, <2>1, StampNumbers
  <2>3. DelAgree(e, m, i)' BY <1>1, <1>4, <2>2, AgreeKept
  <2>4. idx'[j].del = e /\ rows'[i].del = m BY <1>1, <1>3, <1>6, <2>1
  <2> QED BY ONLY <2>3, <2>4, PrimedArgs
<1>7. ASSUME DelAgree(NotDeleted, rows[i].del, i) PROVE DelAgree(NotDeleted, rows[i].del, i)'
  <2>1. DelAgree(NotDeleted, m, i) BY <1>3, <1>7
  <2>2. DelAgree(NotDeleted, m, i)' BY <1>1, <1>4, <2>1, AgreeKept
  <2>3. rows'[i].del = m BY <1>1, <1>3
  <2> QED BY ONLY <2>2, <2>3, PrimedArgs
<1>8. ASSUME Unmirrored(rows[i].ins, i) PROVE Unmirrored(rows[i].ins, i)'
  <2>1. Unmirrored(h, i) BY <1>2, <1>8
  <2>2. Unmirrored(h, i)' BY <1>1, <1>4, <2>1, AgreeKept
  <2>3. rows'[i].ins = h BY <1>1, <1>2
  <2> QED BY ONLY <2>2, <2>3, PrimedArgs
<1> QED BY <1>5, <1>6, <1>7, <1>8

\* Stamping and reverting entries leaves the mirrors to come as they were.
LEMMA OtherMirrors ==
    ASSUME IndexInv, NEW s \in Session, Message(s), ToIndex(s), ~Mirror(s), ~cp.moved,
           \A i : EntriesOf(i)' \subseteq EntriesOf(i)
    PROVE  \A r \in Session : MirrorOK(r)'
<1>1. rows' = rows /\ tainted \subseteq tainted' BY IndexOnly, TaintGrows
<1>2. ~(ix'[s].step = "mirror") BY MirrorBegins
<1>3. ASSUME NEW r \in Session \ {s}, ix'[r].step = "mirror"
      PROVE  /\ \A i \in op'[r].stmtApp \ tainted' :
                    EntriesOf(i)' = {} /\ DelAgree(NotDeleted, rows[i].del, i)'
             /\ \A i \in DOMAIN rows' \ tainted' :
                    <<rows'[i].key, i>> \in ix'[r].old => rows'[i].del = op'[r].txnId /\ Unclaimed(i)'
  <2>1. op'[r] = op[r] /\ ix'[r] = ix[r] BY MessageTable
  <2>2. MirrorOK(r) /\ IsActive(r) BY <1>3, <2>1, ChainIds DEF IndexInv, Agreement
  <2>3. \A i \in op[r].stmtApp : i \in DOMAIN rows BY <2>2 DEF IndexInv, TableInv, RangesStillPending
  <2>4. ASSUME NEW i \in op[r].stmtApp \ tainted' PROVE EntriesOf(i)' = {} /\ DelAgree(NotDeleted, rows[i].del, i)'
    <3>1. EntriesOf(i) = {} /\ DelAgree(NotDeleted, rows[i].del, i) BY <1>1, <1>3, <2>1, <2>2 DEF MirrorOK
    <3> QED BY <2>3, <3>1, IndexAgreeKept
  <2>5. \A i \in DOMAIN rows : Unclaimed(i) => Unclaimed(i)' BY UnclaimedKept
  <2> QED BY <1>1, <1>3, <2>1, <2>2, <2>4, <2>5 DEF MirrorOK
<1>4. \A r \in Session \ {s} : MirrorOK(r)' BY <1>3 DEF MirrorOK
<1>5. MirrorOK(s)' BY <1>2 DEF MirrorOK
<1> QED BY <1>4, <1>5

\* A row stamped in the index by its commit is half stamped.
LEMMA BecomesHalf ==
    ASSUME IndexInv, NEW s \in Session, Message(s), ToIndex(s), ~Mirror(s), Committing(s), pc[s] = "drained",
           NEW t, t = op[s].txnId, NEW c, c = op[s].commitId
    PROVE  Half(t, c, InsStage)' /\ (op[s].del => Half(t, c, DelStage)')
<1>1. Busy(s) /\ t \in Pending' /\ c \in inFlight'
  <2>1. Busy(s) BY DEF Busy
  <2>2. inFlight \subseteq inFlight' BY FrameIds
  <2> QED BY <2>1, <2>2, ChainIds, FrameIds
<1>2. /\ \A r \in Session : Runs(r, t)' => r = s
      /\ \A r \in Session : (Committing(r) /\ op[r].commitId = c)' => r = s
  BY <1>1, OnlyChain
<1>3. Busy(s)' \/ Committing(s)' => pc'[s] = "drained" /\ op'[s] = op[s]
  BY IndexOnly DEF Busy, Committing
<1> QED BY <1>1, <1>2, <1>3 DEF Half, InsStage, DelStage, Runs

\* A pending id in an entry is the one of its row.
LEMMA PendingAgree ==
    ASSUME IndexInv, NEW t \in Pending, NEW h, NEW i
    PROVE  (InsAgree(t, h) => h = t) /\ (DelAgree(t, h, i) => h = t)
<1>1. t \in Nat /\ t >= TxnIdStart /\ t < NotDeleted /\ TxnIdStart \in Nat /\ NotDeleted \in Nat /\ TxnIdStart > 0
  BY Numbers, TableAssumption, MaxTsAssumption DEF IndexInv
<1>2. t \notin inFlight BY <1>1, Numbers DEF IndexInv
<1> QED BY <1>1, <1>2 DEF InsAgree, DelAgree, Half

\* commit_inserts leaves every row in agreement with its entry.
LEMMA CommitInsertsAgree ==
    ASSUME IndexInv, NEW s \in Session, Message(s), NEW failed \in BOOLEAN, CommitInserts(s, failed), ~cp.moved
    PROVE  /\ \A r \in Session : MirrorOK(r)'
           /\ \A i \in DOMAIN rows' \ tainted' : RowAgrees(i)'
<1>1. /\ ToIndex(s) /\ ix[s].step = "commit_inserts" /\ ~Mirror(s) /\ tainted' = tainted \cup Adopted
  BY DEF ToIndex, CommitInserts, Mirror
<1>2. /\ DOMAIN idx' = DOMAIN idx
      /\ \A j \in DOMAIN idx :
            /\ idx'[j].key = idx[j].key /\ idx'[j].row = idx[j].row /\ idx'[j].del = idx[j].del
            /\ idx'[j].ins = IF idx[j].ins = op[s].txnId \/ (cp.pc = "commit0" /\ idx[j].ins = 0)
                             THEN op[s].commitId ELSE idx[j].ins
  BY CommitInsertsFacts
<1>3. \A i : EntriesOf(i)' = EntriesOf(i) BY <1>2 DEF EntriesOf
<1>4. rows' = rows BY <1>1, IndexOnly
<1>5. pc[s] = "drained" /\ Busy(s) /\ Committing(s) /\ op[s].txnId \in Pending BY <1>1, ChainIds
<1>6. ASSUME NEW i \in DOMAIN rows \ tainted' PROVE RowAgrees(i)'
  <2>1. RowAgrees(i) BY <1>1, <1>6 DEF IndexInv, Agreement
  <2>2. EntriesOf(i) = {} => Unmirrored(rows[i].ins, i)' BY <1>1, <2>1, IndexAgreeKept DEF RowAgrees
  <2>3. ASSUME NEW j \in EntriesOf(i)
        PROVE  /\ idx'[j].key = rows'[i].key
               /\ InsAgree(idx[j].ins, rows[i].ins)'
               /\ DelAgree(idx[j].del, rows[i].del, i)'
    <3>1. j \in DOMAIN idx /\ idx[j].row = i BY DEF EntriesOf
    <3>2. /\ idx[j].key = rows[i].key /\ InsAgree(idx[j].ins, rows[i].ins)
          /\ DelAgree(idx[j].del, rows[i].del, i)
      BY <2>1 DEF RowAgrees
    <3>3. DelAgree(idx[j].del, rows[i].del, i)' BY <1>1, <1>2, <3>1, <3>2, IndexAgreeKept
    <3>4. ~(cp.pc = "commit0" /\ idx[j].ins = 0) BY <1>1, <1>6, <3>1 DEF Adopted
    <3>5. CASE idx[j].ins = op[s].txnId
      <4>1. PICK t : t = op[s].txnId OBVIOUS
      <4>2. PICK c : c = op[s].commitId OBVIOUS
      <4>3. rows[i].ins = t BY <1>5, <3>2, <3>5, <4>1, PendingAgree
      <4>4. Half(t, c, InsStage)' BY <1>1, <1>5, <4>1, <4>2, BecomesHalf
      <4>5. InsAgree(c, t)' BY <4>4 DEF InsAgree
      <4>6. idx'[j].ins = c /\ rows'[i].ins = t BY <1>2, <1>4, <3>1, <3>5, <4>2, <4>3
      <4>7. InsAgree(idx[j].ins, rows[i].ins)' BY ONLY <4>5, <4>6, PrimedArgs
      <4> QED BY <1>2, <1>4, <3>1, <3>2, <3>3, <4>7
    <3>6. CASE idx[j].ins # op[s].txnId
      <4>1. idx'[j].ins = idx[j].ins BY <1>2, <3>1, <3>4, <3>6
      <4>2. InsAgree(idx[j].ins, rows[i].ins)' BY <1>1, <1>2, <3>1, <3>2, <4>1, IndexAgreeKept
      <4> QED BY <1>2, <1>4, <3>1, <3>2, <3>3, <4>2
    <3> QED BY <3>5, <3>6
  <2> QED BY <1>3, <2>1, <2>2, <2>3 DEF RowAgrees
<1>7. \A r \in Session : MirrorOK(r)' BY <1>1, <1>3, OtherMirrors
<1> QED BY <1>4, <1>6, <1>7

\* commit_deletes and revert_delete leave every row in agreement with its entry.
LEMMA MarksStampedAgree ==
    ASSUME IndexInv, NEW s \in Session, Message(s), ToIndex(s), ~Mirror(s), ~cp.moved, Busy(s), NEW t, NEW c \in Nat,
           t = op[s].txnId, idx' = CommitDelete(idx, op[s].txnId, c), tainted' = tainted,
           \A i \in DOMAIN rows : DelAgree(c, t, i)'
    PROVE  /\ \A r \in Session : MirrorOK(r)'
           /\ \A i \in DOMAIN rows' \ tainted' : RowAgrees(i)'
<1>2. /\ DOMAIN idx' = DOMAIN idx
      /\ \A j \in DOMAIN idx :
            /\ idx'[j].key = idx[j].key /\ idx'[j].row = idx[j].row /\ idx'[j].ins = idx[j].ins
            /\ idx'[j].del = IF idx[j].del = t THEN c ELSE idx[j].del
  BY CommitDeletesFacts
<1>3. \A i : EntriesOf(i)' = EntriesOf(i) BY <1>2 DEF EntriesOf
<1>4. rows' = rows BY IndexOnly
<1>5. t \in Pending BY ChainIds
<1>6. ASSUME NEW i \in DOMAIN rows \ tainted PROVE RowAgrees(i)'
  <2>1. RowAgrees(i) BY <1>6 DEF IndexInv, Agreement
  <2>2. EntriesOf(i) = {} => Unmirrored(rows[i].ins, i)' BY <2>1, IndexAgreeKept DEF RowAgrees
  <2>3. ASSUME NEW j \in EntriesOf(i)
        PROVE  /\ idx'[j].key = rows'[i].key
               /\ InsAgree(idx[j].ins, rows[i].ins)'
               /\ DelAgree(idx[j].del, rows[i].del, i)'
    <3>1. j \in DOMAIN idx /\ idx[j].row = i BY DEF EntriesOf
    <3>2. /\ idx[j].key = rows[i].key /\ InsAgree(idx[j].ins, rows[i].ins)
          /\ DelAgree(idx[j].del, rows[i].del, i)
      BY <2>1 DEF RowAgrees
    <3>3. InsAgree(idx[j].ins, rows[i].ins)' BY <1>2, <3>1, <3>2, IndexAgreeKept
    <3>5. CASE idx[j].del = t
      <4>3. rows[i].del = t BY <1>5, <3>2, <3>5, PendingAgree
      <4>5. DelAgree(c, t, i)' BY <1>6
      <4>6. idx'[j].del = c /\ rows'[i].del = t BY <1>2, <1>4, <3>1, <3>5, <4>3
      <4>7. DelAgree(idx[j].del, rows[i].del, i)' BY ONLY <4>5, <4>6, PrimedArgs
      <4> QED BY <1>2, <1>4, <3>1, <3>2, <3>3, <4>7
    <3>6. CASE idx[j].del # t
      <4>1. idx'[j].del = idx[j].del BY <1>2, <3>1, <3>6
      <4>2. DelAgree(idx[j].del, rows[i].del, i)' BY <1>2, <3>1, <3>2, <4>1, IndexAgreeKept
      <4> QED BY <1>2, <1>4, <3>1, <3>2, <3>3, <4>2
    <3> QED BY <3>5, <3>6
  <2> QED BY <1>3, <2>1, <2>2, <2>3 DEF RowAgrees
<1>7. \A r \in Session : MirrorOK(r)' BY <1>3, OtherMirrors
<1> QED BY <1>4, <1>6, <1>7

\* commit_deletes half stamps the marks of its transaction.
LEMMA CommitDeletesAgree ==
    ASSUME IndexInv, NEW s \in Session, Message(s), NEW failed \in BOOLEAN, CommitDeletes(s, failed), ~cp.moved
    PROVE  /\ \A r \in Session : MirrorOK(r)'
           /\ \A i \in DOMAIN rows' \ tainted' : RowAgrees(i)'
<1>1. /\ ToIndex(s) /\ ix[s].step = "commit_deletes" /\ ~Mirror(s) /\ tainted' = tainted
      /\ idx' = CommitDelete(idx, op[s].txnId, op[s].commitId)
  BY DEF ToIndex, CommitDeletes, Mirror
<1>2. pc[s] = "drained" /\ Busy(s) /\ Committing(s) /\ op[s].commitId \in Nat BY <1>1, ChainIds
<1>3. op[s].del BY <1>1 DEF IndexInv, ChainIx, StepOK
<1>4. PICK t : t = op[s].txnId OBVIOUS
<1>5. PICK c : c = op[s].commitId OBVIOUS
<1>6. Half(t, c, DelStage)' BY <1>1, <1>2, <1>3, <1>4, <1>5, BecomesHalf
<1>7. \A i \in DOMAIN rows : DelAgree(c, t, i)' BY <1>6 DEF DelAgree
<1> QED BY <1>1, <1>2, <1>4, <1>5, <1>7, MarksStampedAgree

\* revert_delete leaves marks on the heap that no entry carries.
LEMMA RevertDeleteAgree ==
    ASSUME IndexInv, NEW s \in Session, Message(s), IRevertDelete(s), ~cp.moved
    PROVE  /\ \A r \in Session : MirrorOK(r)'
           /\ \A i \in DOMAIN rows' \ tainted' : RowAgrees(i)'
<1>1. /\ ToIndex(s) /\ ix[s].step = "revert_delete" /\ ~Mirror(s) /\ tainted' = tainted
      /\ idx' = CommitDelete(idx, op[s].txnId, NotDeleted) /\ NextIx(s, "none") /\ UNCHANGED vars
  BY DEF ToIndex, IRevertDelete, RevertDelete, Mirror
<1>2. pc[s] = "abort" /\ Busy(s) /\ NotDeleted \in Nat /\ ix[s] \in IxType BY <1>1, ChainIds, StampAssumption
<1>3. Quiet(s)' /\ pc'[s] = "abort"
  <2>1. ix \in [Session -> IxType] BY DEF IndexInv, IndexTypes, IxType
  <2>2. ix'[s] = [ix[s] EXCEPT !.step = "none"] BY <1>1, <2>1 DEF NextIx
  <2>3. ix'[s].step = "none" BY ONLY <1>2, <2>2 DEF IxType
  <2> QED BY <1>1, <1>2, <2>3 DEF Quiet, vars, tableVars
<1>4. PICK t : t = op[s].txnId OBVIOUS
<1>5. t \in Pending' BY <1>2, <1>4, ChainIds, FrameIds
<1>6. \A r \in Session : Runs(r, t)' => r = s BY <1>2, <1>4, OnlyChain
<1>7. \A i \in DOMAIN rows : DelAgree(NotDeleted, t, i)'
  BY <1>3, <1>5, <1>6 DEF DelAgree, Unmarked, Quiet
<1> QED BY <1>1, <1>2, <1>4, <1>7, MarksStampedAgree

\* revert_insert leaves pending rows on the heap without an entry.
LEMMA RevertInsertAgree ==
    ASSUME IndexInv, NEW s \in Session, Message(s), IRevertInsert(s), ~cp.moved
    PROVE  /\ \A r \in Session : MirrorOK(r)'
           /\ \A i \in DOMAIN rows' \ tainted' : RowAgrees(i)'
<1>1. /\ ToIndex(s) /\ ix[s].step = "revert_insert" /\ ~Mirror(s) /\ tainted' = tainted
      /\ idx' = [j \in {k \in DOMAIN idx : idx[k].ins # op[s].txnId} |-> idx[j]]
      /\ NextIx(s, IF op[s].del THEN "revert_delete" ELSE "none") /\ UNCHANGED vars
  BY DEF ToIndex, IRevertInsert, RevertInsert, Mirror
<1>2. pc[s] = "abort" /\ Busy(s) /\ ix[s] \in IxType BY <1>1, ChainIds
<1>3. ix'[s].step # "revert_insert" /\ pc'[s] = "abort"
  <2>1. ix \in [Session -> IxType] BY DEF IndexInv, IndexTypes, IxType
  <2>2. ix'[s] = [ix[s] EXCEPT !.step = IF op[s].del THEN "revert_delete" ELSE "none"] BY <1>1, <2>1 DEF NextIx
  <2>3. ix'[s].step = IF op[s].del THEN "revert_delete" ELSE "none" BY ONLY <1>2, <2>2 DEF IxType
  <2> QED BY <1>1, <1>2, <2>3 DEF vars, tableVars
<1>4. PICK t : t = op[s].txnId OBVIOUS
<1>5. t \in Pending' /\ t \in Pending BY <1>2, <1>4, ChainIds, FrameIds
<1>6. \A r \in Session : Runs(r, t)' => r = s BY <1>2, <1>4, OnlyChain
<1>7. \A i : Unmirrored(t, i)' BY <1>3, <1>5, <1>6 DEF Unmirrored
<1>8. \A i : EntriesOf(i)' = {j \in EntriesOf(i) : idx[j].ins # t} BY <1>1, <1>4 DEF EntriesOf
<1>9. rows' = rows BY <1>1, IndexOnly
<1>10. ASSUME NEW i \in DOMAIN rows \ tainted PROVE RowAgrees(i)'
  <2>1. RowAgrees(i) BY <1>10 DEF IndexInv, Agreement
  <2>2. ASSUME EntriesOf(i)' = {} PROVE Unmirrored(rows[i].ins, i)'
    <3>1. CASE EntriesOf(i) = {} BY <1>1, <2>1, <3>1, IndexAgreeKept DEF RowAgrees
    <3>2. CASE EntriesOf(i) # {}
      <4>1. PICK j \in EntriesOf(i) : idx[j].ins = t BY <1>8, <2>2, <3>2
      <4>2. InsAgree(t, rows[i].ins) BY <2>1, <4>1 DEF RowAgrees
      <4>3. rows[i].ins = t BY <1>5, <4>2, PendingAgree
      <4>4. rows'[i].ins = t /\ Unmirrored(t, i)' BY <1>7, <1>9, <4>3
      <4> QED BY ONLY <4>4, PrimedArgs
    <3> QED BY <3>1, <3>2
  <2>3. ASSUME NEW j \in EntriesOf(i)'
        PROVE  /\ idx'[j].key = rows'[i].key
               /\ InsAgree(idx[j].ins, rows[i].ins)'
               /\ DelAgree(idx[j].del, rows[i].del, i)'
    <3>1. j \in EntriesOf(i) /\ j \in DOMAIN idx /\ j \in DOMAIN idx' /\ idx'[j] = idx[j]
      BY <1>1, <1>4, <1>8 DEF EntriesOf
    <3>2. /\ idx[j].key = rows[i].key /\ InsAgree(idx[j].ins, rows[i].ins)
          /\ DelAgree(idx[j].del, rows[i].del, i)
      BY <2>1, <3>1 DEF RowAgrees
    <3> QED BY <1>1, <1>9, <3>1, <3>2, IndexAgreeKept
  <2>4. \A j, k \in EntriesOf(i)' : j = k BY <1>8, <2>1 DEF RowAgrees
  <2> QED BY <2>2, <2>3, <2>4 DEF RowAgrees
<1>11. \A r \in Session : MirrorOK(r)' BY <1>1, <1>8, OtherMirrors
<1> QED BY <1>1, <1>9, <1>10, <1>11

\* What a chain that is about to send its mirror knows of a row.
LEMMA MirrorRows ==
    ASSUME IndexInv, NEW s \in Session, Mirror(s), ~cp.moved, NEW i \in DOMAIN rows
    PROVE  /\ ix[s].step = "mirror" /\ pc[s] = "effect" /\ Busy(s) /\ IsActive(s)
           /\ i \in op[s].stmtApp => rows[i].ins = op[s].txnId
           /\ Unmarked(op[s].txnId, i) => <<rows[i].key, i>> \in ix[s].old
           /\ <<rows[i].key, i>> \in ix[s].old /\ i \notin tainted => Unclaimed(i) /\ i \notin op[s].stmtApp
           /\ Unmirrored(op[s].txnId, i) => i \in op[s].stmtApp
           /\ \A c : ~Half(op[s].txnId, c, InsStage) /\ ~Half(op[s].txnId, c, DelStage)
<1>1. ix[s].step = "mirror" /\ pc[s] = "effect" /\ Busy(s) /\ IsActive(s) BY ChainIds DEF Mirror
<1>2. i \in op[s].stmtApp => rows[i].ins = op[s].txnId
  BY <1>1 DEF IndexInv, TableInv, RangesStillPending
<1>3. Runs(s, op[s].txnId) BY <1>1 DEF Runs
<1>4. Unmarked(op[s].txnId, i) => <<rows[i].key, i>> \in ix[s].old BY <1>1, <1>3 DEF Unmarked, Quiet
<1>5. <<rows[i].key, i>> \in ix[s].old /\ i \notin tainted => Unclaimed(i) /\ i \notin op[s].stmtApp
  BY <1>1 DEF IndexInv, Agreement, MirrorOK, Unclaimed
<1>6. Unmirrored(op[s].txnId, i) => i \in op[s].stmtApp BY <1>1, <1>3 DEF Unmirrored
<1>7. \A c : ~Half(op[s].txnId, c, InsStage) /\ ~Half(op[s].txnId, c, DelStage)
  BY <1>1, <1>3 DEF Half, InsStage, DelStage
<1> QED BY <1>1, <1>2, <1>4, <1>5, <1>6, <1>7

\* The mirror adds the entries of the new rows and marks those of the old ones.
LEMMA MirrorRowAgrees ==
    ASSUME IndexInv, NEW s \in Session, Message(s), Mirror(s), ~cp.moved, NEW i \in DOMAIN rows \ tainted
    PROVE  RowAgrees(i)'
<1>1. ToIndex(s) /\ rows' = rows /\ tainted' = tainted /\ ~StampAppends(s) /\ ~StampDeletes(s) /\ UNCHANGED vars
  BY IndexOnly DEF ToIndex, Mirror
<1>2. /\ DOMAIN idx \subseteq DOMAIN idx'
      /\ \A j \in DOMAIN idx :
            /\ idx'[j].key = idx[j].key /\ idx'[j].row = idx[j].row /\ idx'[j].ins = idx[j].ins
            /\ \/ idx'[j].del = idx[j].del
               \/ /\ <<idx[j].key, idx[j].row>> \in ix[s].old /\ idx[j].del = NotDeleted
                  /\ idx'[j].del = op[s].txnId
            /\ /\ <<idx[j].key, idx[j].row>> \in ix[s].old /\ idx[j].del = NotDeleted
               /\ \A k \in DOMAIN idx : idx[k].row = idx[j].row => k = j
               => idx'[j].del = op[s].txnId
  BY MirrorFacts
<1>3. /\ \A j \in DOMAIN idx' \ DOMAIN idx :
            \E p \in op[s].stmtApp : idx'[j] = Entry(rows[p].key, p, op[s].txnId)
      /\ \A p \in op[s].stmtApp :
            \E j \in DOMAIN idx' \ DOMAIN idx : idx'[j] = Entry(rows[p].key, p, op[s].txnId)
      /\ \A j, k \in DOMAIN idx' \ DOMAIN idx : idx'[j].row = idx'[k].row => j = k
  BY MirrorFacts
<1>4. RowAgrees(i) /\ MirrorOK(s) BY DEF IndexInv, Agreement
<1>5. PICK h : h = rows[i].ins OBVIOUS
<1>6. PICK m : m = rows[i].del OBVIOUS
<1>7. h \in Nat /\ m \in Nat /\ NotDeleted \in Nat BY <1>5, <1>6, StampNumbers, StampAssumption
<1>8. op[s].txnId # NotDeleted /\ NotDeleted \notin inFlight
  <2>1. Busy(s) /\ TableInv BY MirrorRows DEF IndexInv
  <2>2. op[s].txnId \in Pending BY <2>1, ChainIds
  <2> QED BY <2>1, <2>2, Numbers
<1>9. CASE i \in op[s].stmtApp
  <2>1. EntriesOf(i) = {} /\ DelAgree(NotDeleted, m, i) BY <1>4, <1>6, <1>9, MirrorRows DEF MirrorOK
  <2>2. \A j \in EntriesOf(i)' : j \in DOMAIN idx' \ DOMAIN idx /\ idx'[j].row = i
    BY <1>2, <2>1 DEF EntriesOf
  <2>3. PICK k \in DOMAIN idx' \ DOMAIN idx : idx'[k] = Entry(rows[i].key, i, op[s].txnId) BY <1>3, <1>9
  <2>4. /\ idx'[k].row = i /\ idx'[k].key = rows[i].key /\ idx'[k].ins = op[s].txnId
        /\ idx'[k].del = NotDeleted
    BY <2>3 DEF Entry
  <2>5. EntriesOf(i)' = {k} BY <1>3, <2>2, <2>4 DEF EntriesOf
  <2>6. rows'[i].ins = idx'[k].ins BY <1>1, <1>9, <2>4, MirrorRows
  <2>7. InsAgree(idx[k].ins, rows[i].ins)' BY <2>6 DEF InsAgree
  <2>8. DelAgree(NotDeleted, m, i)'
    <3>1. ASSUME Runs(s, m) PROVE FALSE
      <4>1. m = op[s].txnId BY <3>1 DEF Runs
      <4>2. Unmarked(m, i) BY <1>8, <2>1, <4>1 DEF DelAgree, Half
      <4> QED BY <1>9, <4>1, <4>2, MirrorRows
    <3> QED BY <1>1, <1>7, <2>1, <3>1, AgreeKept
  <2>9. DelAgree(idx[k].del, rows[i].del, i)'
    <3>1. PICK e : e = NotDeleted OBVIOUS
    <3>2. DelAgree(e, m, i)' BY <2>8, <3>1
    <3>3. idx'[k].del = e /\ rows'[i].del = m BY <1>1, <1>6, <2>4, <3>1
    <3> QED BY ONLY <3>2, <3>3, PrimedArgs
  <2> QED BY <1>1, <2>4, <2>5, <2>7, <2>9 DEF RowAgrees
<1>10. CASE i \notin op[s].stmtApp
  <2>1. EntriesOf(i)' = EntriesOf(i)
    <3>1. ASSUME NEW j \in DOMAIN idx' \ DOMAIN idx PROVE idx'[j].row # i
      <4>1. PICK p \in op[s].stmtApp : idx'[j] = Entry(rows[p].key, p, op[s].txnId) BY <1>3, <3>1
      <4>2. idx'[j].row = p BY <4>1 DEF Entry
      <4> QED BY <1>10, <4>2
    <3> QED BY <1>2, <3>1 DEF EntriesOf
  <2>2. ASSUME EntriesOf(i) = {} PROVE Unmirrored(rows[i].ins, i)'
    <3>1. Unmirrored(h, i) BY <1>4, <1>5, <2>2 DEF RowAgrees
    <3>2. ~Runs(s, h) BY <1>10, <3>1, MirrorRows DEF Runs
    <3>3. Unmirrored(h, i)' BY <1>7, <3>1, <3>2, AgreeKept
    <3>4. rows'[i].ins = h BY <1>1, <1>5
    <3> QED BY ONLY <3>3, <3>4, PrimedArgs
  <2>3. ASSUME NEW j \in EntriesOf(i)
        PROVE  /\ idx'[j].key = rows'[i].key
               /\ InsAgree(idx[j].ins, rows[i].ins)'
               /\ DelAgree(idx[j].del, rows[i].del, i)'
    <3>1. j \in DOMAIN idx /\ idx[j].row = i BY DEF EntriesOf
    <3>2. PICK e : e = idx[j].ins OBVIOUS
    <3>3. PICK d : d = idx[j].del OBVIOUS
    <3>4. idx[j].key = rows[i].key /\ InsAgree(e, h) /\ DelAgree(d, m, i) /\ e \in Nat /\ d \in Nat
      BY <1>4, <1>5, <1>6, <3>1, <3>2, <3>3, StampNumbers DEF RowAgrees
    <3>5. InsAgree(idx[j].ins, rows[i].ins)'
      <4>1. InsAgree(e, h)' BY <1>1, <1>7, <3>4, AgreeKept
      <4>2. idx'[j].ins = e /\ rows'[i].ins = h BY <1>1, <1>2, <1>5, <3>1, <3>2
      <4> QED BY ONLY <4>1, <4>2, PrimedArgs
    <3>6. DelAgree(idx[j].del, rows[i].del, i)'
      <4>1. CASE idx'[j].del # d
        <5>1. <<rows[i].key, i>> \in ix[s].old /\ idx'[j].del = op[s].txnId BY <1>2, <3>1, <3>3, <3>4, <4>1
        <5>2. rows[i].del = op[s].txnId BY <1>4, <5>1, MirrorRows DEF MirrorOK
        <5>3. idx'[j].del = rows'[i].del BY <1>1, <5>1, <5>2
        <5> QED BY <5>3 DEF DelAgree
      <4>2. CASE idx'[j].del = d /\ Runs(s, m)
        <5>1. m = op[s].txnId BY <4>2 DEF Runs
        <5>2. d = m
          <6>1. CASE d = NotDeleted /\ Unmarked(m, i)
            <7>1. <<rows[i].key, i>> \in ix[s].old BY <5>1, <6>1, MirrorRows
            <7>2. \A k \in DOMAIN idx : idx[k].row = idx[j].row => k = j
              BY <1>4, <3>1 DEF RowAgrees, EntriesOf
            <7>3. idx'[j].del = op[s].txnId BY <1>2, <3>1, <3>3, <3>4, <6>1, <7>1, <7>2
            <7> QED BY <4>2, <5>1, <7>3
          <6> QED BY <3>4, <5>1, <6>1, MirrorRows DEF DelAgree
        <5>3. idx'[j].del = rows'[i].del BY <1>1, <1>6, <4>2, <5>2
        <5> QED BY <5>3 DEF DelAgree
      <4>3. CASE idx'[j].del = d /\ ~Runs(s, m)
        <5>1. DelAgree(d, m, i)' BY <1>1, <1>7, <3>4, <4>3, AgreeKept
        <5>2. idx'[j].del = d /\ rows'[i].del = m BY <1>1, <1>6, <4>3
        <5> QED BY ONLY <5>1, <5>2, PrimedArgs
      <4> QED BY <4>1, <4>2, <4>3
    <3> QED BY <1>1, <1>2, <3>1, <3>4, <3>5, <3>6
  <2> QED BY <1>4, <2>1, <2>2, <2>3 DEF RowAgrees
<1> QED BY <1>9, <1>10

\* A mirror leaves the mirrors of the other sessions as they were.
LEMMA MirrorMirrors ==
    ASSUME IndexInv, NEW s \in Session, Message(s), Mirror(s), ~cp.moved, NEW r \in Session
    PROVE  MirrorOK(r)'
<1>1. ToIndex(s) /\ rows' = rows /\ tainted' = tainted /\ ~StampAppends(s) /\ ~StampDeletes(s) /\ TableInv
  BY IndexOnly DEF ToIndex, Mirror, IndexInv
<1>2. CASE r = s
  <2>1. ix \in [Session -> IxType] BY DEF IndexInv, IndexTypes, IxType
  <2> QED BY <1>2, <2>1 DEF MirrorOK, Mirror, NoIx
<1>3. CASE r # s
  <2> SUFFICES ASSUME ix'[r].step = "mirror"
               PROVE  /\ \A i \in op'[r].stmtApp \ tainted' :
                            EntriesOf(i)' = {} /\ DelAgree(NotDeleted, rows[i].del, i)'
                      /\ \A i \in DOMAIN rows' \ tainted' :
                            <<rows'[i].key, i>> \in ix'[r].old => rows'[i].del = op'[r].txnId /\ Unclaimed(i)'
    BY DEF MirrorOK
  <2>1. op'[r] = op[r] /\ ix'[r] = ix[r] BY <1>3, MessageTable
  <2>2. MirrorOK(r) /\ IsActive(r) /\ Busy(r) BY <2>1, ChainIds DEF IndexInv, Agreement
  <2>3. \A i \in op[r].stmtApp : i \in DOMAIN rows /\ rows[i].ins = op[r].txnId
    BY <1>1, <2>2 DEF TableInv, RangesStillPending
  <2>4. ASSUME NEW i \in op[r].stmtApp \ tainted PROVE EntriesOf(i)' = {} /\ DelAgree(NotDeleted, rows[i].del, i)'
    <3>1. EntriesOf(i) = {} /\ DelAgree(NotDeleted, rows[i].del, i) BY <1>1, <2>1, <2>2 DEF MirrorOK
    <3>2. /\ ix[s].step = "mirror" /\ Busy(s) /\ IsActive(s)
          /\ i \in op[s].stmtApp => rows[i].ins = op[s].txnId
          /\ ~Unmarked(op[s].txnId, i)
      <4>1. ~Unclaimed(i) BY <2>1 DEF Unclaimed
      <4> QED BY <2>3, <4>1, MirrorRows
    <3>3. /\ op[s].txnId # op[r].txnId /\ op[r].txnId >= TxnIdStart /\ op[r].txnId \in Nat
          /\ TxnIdStart \in Nat /\ NotDeleted \notin inFlight /\ op[s].txnId # NotDeleted
      BY <1>1, <1>3, <2>2, <3>2, ChainIds, Numbers DEF TableInv, IdsApart
    <3>4. i \notin op[s].stmtApp BY <2>3, <3>2, <3>3
    <3>5. EntriesOf(i)' = {}
      <4>1. ASSUME NEW j \in DOMAIN idx' \ DOMAIN idx PROVE idx'[j].row # i
        <5>1. PICK p \in op[s].stmtApp : idx'[j] = Entry(rows[p].key, p, op[s].txnId) BY <4>1, MirrorFacts
        <5>2. idx'[j].row = p BY <5>1 DEF Entry
        <5> QED BY <3>4, <5>2
      <4>2. \A j \in DOMAIN idx : idx'[j].row = idx[j].row BY MirrorFacts
      <4> QED BY <3>1, <4>1, <4>2 DEF EntriesOf
    <3>6. PICK m : m = rows[i].del OBVIOUS
    <3>7. m \in Nat /\ NotDeleted \in Nat BY <2>3, <3>6, StampNumbers, StampAssumption
    <3>8. ~Runs(s, m)
      <4>1. ASSUME Runs(s, m) PROVE FALSE
        <5>1. m = op[s].txnId BY <4>1 DEF Runs
        <5>2. Unmarked(m, i) BY <3>1, <3>3, <3>6, <5>1 DEF DelAgree, Half
        <5> QED BY <3>2, <5>1, <5>2
      <4> QED BY <4>1
    <3>9. DelAgree(NotDeleted, m, i)' BY <1>1, <2>3, <3>1, <3>6, <3>7, <3>8, AgreeKept
    <3>10. rows'[i].del = m BY <1>1, <3>6
    <3>11. DelAgree(NotDeleted, rows[i].del, i)' BY ONLY <3>9, <3>10, PrimedArgs
    <3> QED BY <3>5, <3>11
  <2>5. \A i \in DOMAIN rows : Unclaimed(i) => Unclaimed(i)' BY UnclaimedKept
  <2> QED BY <1>1, <2>1, <2>2, <2>4, <2>5 DEF MirrorOK
<1> QED BY <1>2, <1>3

\* Every message of a session leaves heap and index in agreement.
LEMMA MessageAgreement ==
    ASSUME IndexInv, NEW s \in Session, Message(s)
    PROVE  Agreement'
<1>1. cp' = cp BY MessageFrame
<1> SUFFICES ASSUME ~cp.moved
             PROVE  /\ \A j \in DOMAIN idx' : idx'[j].row \in DOMAIN rows'
                    /\ \A r \in Session : MirrorOK(r)'
                    /\ \A i \in DOMAIN rows' \ tainted' : RowAgrees(i)'
  BY <1>1 DEF Agreement
<1>2. CASE ~ToIndex(s)
  BY <1>2, EntryRows, HeapRowAgrees, HeapMirrorOther, HeapMirrorOwn
<1>3. CASE Mirror(s)
  <2>1. rows' = rows /\ tainted' = tainted BY <1>3, IndexOnly DEF ToIndex, Mirror
  <2> QED BY <1>3, <2>1, EntryRows, MirrorMirrors, MirrorRowAgrees
<1>4. CASE IRevertInsert(s) BY <1>4, EntryRows, RevertInsertAgree
<1>5. CASE IRevertDelete(s) BY <1>5, EntryRows, RevertDeleteAgree
<1>6. ASSUME NEW failed \in BOOLEAN, CommitInserts(s, failed) \/ CommitDeletes(s, failed)
      PROVE  /\ \A r \in Session : MirrorOK(r)'
             /\ \A i \in DOMAIN rows' \ tainted' : RowAgrees(i)'
  BY <1>6, CommitInsertsAgree, CommitDeletesAgree
<1> QED BY <1>2, <1>3, <1>4, <1>5, <1>6, EntryRows DEF ToIndex

\* Every message of a session keeps the invariant.
LEMMA MessageInv ==
    ASSUME IndexInv, NEW s \in Session, Message(s)
    PROVE  IndexInv'
<1>1. TableInv' BY MessageTable
<1>2. \A r \in Session : ChainIx(r)' BY OtherChainIx, OwnChainIx
<1> QED BY <1>1, <1>2, IndexTypesKept, TimedKept, StampsKept, CpKept, MessageAgreement DEF IndexInv

-----------------------------------------------------------------------------
(* CHECKPOINT.                                                             *)

\* Nothing but the state of the CHECKPOINT chain changes.
LEMMA OnlyCp ==
    ASSUME IndexInv, UNCHANGED <<vars, idx, ix, tainted>>, CpOK', cp.moved => cp'.moved
    PROVE  IndexInv'
<1>1. TableInv' BY NextTableInv DEF IndexInv
<1>2. /\ rows' = rows /\ nextKey' = nextKey /\ pc' = pc /\ op' = op /\ active' = active /\ inFlight' = inFlight
      /\ horizon' = horizon /\ currentTs' = currentTs /\ nextTxnId' = nextTxnId
      /\ idx' = idx /\ ix' = ix /\ tainted' = tainted
  BY DEF vars, tmVars, tableVars
<1>3. IndexTypes' BY <1>2 DEF IndexInv, IndexTypes
<1>4. SnapshotsTimed' BY <1>2 DEF IndexInv, SnapshotsTimed, IsActive
<1>5. StampsKnown' BY <1>2 DEF IndexInv, StampsKnown, Known, KnownTo, IsActive
<1>6. EntriesOK' BY <1>2 DEF IndexInv, EntriesOK, StampOK, Pending
<1>7. \A s \in Session : ChainIx(s)'
  BY <1>2 DEF IndexInv, ChainIx, StatementParked, AppendsKnown, Open, IsActive, Committing, StepOK, OldOK,
              Answered, Quiet
<1>8. Agreement'
  <2> SUFFICES ASSUME ~cp'.moved PROVE Agreement'
    BY DEF Agreement
  <2>1. ~cp.moved OBVIOUS
  <2>2. \A j \in DOMAIN idx' : idx'[j].row \in DOMAIN rows' BY <1>2, <2>1 DEF IndexInv, Agreement
  <2>3. \A s \in Session : MirrorOK(s)'
    BY <1>2, <2>1 DEF IndexInv, Agreement, MirrorOK, Unclaimed, EntriesOf, DelAgree, Half, DelStage, Unmarked, Runs, Busy,
          Committing, Quiet, Pending
  <2>4. ASSUME NEW i \in DOMAIN rows \ tainted PROVE RowAgrees(i)'
    <3>1. RowAgrees(i) BY <2>1 DEF IndexInv, Agreement
    <3> QED BY <1>2, <3>1 DEF RowAgrees, EntriesOf, InsAgree, DelAgree, Half, InsStage, DelStage, Unmarked,
           Unmirrored, Runs, Busy, Committing, Quiet, Pending, Settled, Fresh, IsActive, CommitVisible
  <2> QED BY <1>2, <2>2, <2>3, <2>4 DEF Agreement
<1> QED BY <1>1, <1>3, <1>4, <1>5, <1>6, <1>7, <1>8 DEF IndexInv

\* The steps of a CHECKPOINT that only read.
LEMMA CpReads ==
    ASSUME IndexInv, CpWatermark \/ CpTotal \/ CpScan \/ CpCommit0
    PROVE  IndexInv'
<1>1. CpOK /\ UNCHANGED <<vars, idx, ix, tainted>>
  BY DEF IndexInv, CpWatermark, CpTotal, CpScan, CpCommit0
<1>2. DOMAIN rows = 1 .. Len(rows) /\ Len(rows) \in Nat /\ rows' = rows
  BY <1>1, LenProperties DEF IndexInv, TableInv, HeapOK, vars, tableVars
<1>3. CASE CpWatermark
  <2>1. CompactWatermark \in 0 .. MaxTs BY WatermarkRange DEF IndexInv, TableInv
  <2>2. cp' = [NoCp EXCEPT !.pc = "compact", !.watermark = CompactWatermark] BY <1>3 DEF CpWatermark
  <2>3. cp' = [pc |-> "compact", watermark |-> CompactWatermark, total |-> 0, chunk |-> <<>>, moved |-> FALSE]
    BY <2>2 DEF NoCp
  <2>4. CpOK' BY <2>1, <2>3 DEF CpOK
  <2>5. ~cp.moved BY <1>1, <1>3 DEF CpOK, CpWatermark
  <2> QED BY <1>1, <2>4, <2>5, OnlyCp
<1>4. CASE CpTotal
  <2>1. cp' = [pc |-> "scan", watermark |-> cp.watermark, total |-> Len(rows), chunk |-> cp.chunk,
               moved |-> cp.moved]
    BY <1>1, <1>4 DEF CpTotal, CpOK
  <2>2. CpOK' BY <1>1, <1>2, <2>1 DEF CpOK
  <2> QED BY <1>1, <2>1, <2>2, OnlyCp
<1>5. CASE CpScan
  <2>1. cp' = [pc |-> "refill", watermark |-> cp.watermark, total |-> cp.total,
               chunk |-> [i \in 1 .. cp.total |-> rows[i].key], moved |-> cp.moved]
    BY <1>1, <1>5 DEF CpScan, CpOK
  <2>2. cp.pc = "scan" BY <1>5 DEF CpScan
  <2>3. CpOK' BY <1>1, <1>2, <2>1, <2>2 DEF CpOK
  <2> QED BY <1>1, <2>1, <2>3, OnlyCp
<1>6. CASE CpCommit0
  <2>1. ~cp.moved BY <1>1, <1>6 DEF CpOK, CpCommit0
  <2>2. cp' = NoCp BY <1>6 DEF CpCommit0
  <2>3. CpOK' BY <2>2, MaxTsAssumption DEF CpOK, NoCp
  <2> QED BY <1>1, <2>1, <2>3, OnlyCp
<1> QED BY <1>3, <1>4, <1>5, <1>6

\* A compaction that rebuilds the heap finds no pending row, so no chain has parked a
\* range and every scan result can only name settled rows.
LEMMA CpRenumbers ==
    ASSUME IndexInv, CpCompact, rows' # rows
    PROVE  IndexInv'
<1>t. /\ TableInv /\ CpOK /\ rows \in Seq(Row) /\ nextKey \in Nat \ {0} /\ Len(rows) \in Nat
      /\ Len(rows) <= MaxRows /\ currentTs \in Nat /\ currentTs >= 1 /\ TxnIdStart \in Nat
      /\ \A i \in DOMAIN rows : rows[i] \in Row /\ RowOK(rows[i])
  BY Numbers, RowStamps, LenProperties DEF IndexInv, TableInv, HeapOK
<1>1. /\ nextKey' = nextKey /\ pc' = pc /\ op' = op /\ active' = active /\ inFlight' = inFlight
      /\ horizon' = horizon /\ currentTs' = currentTs /\ nextTxnId' = nextTxnId /\ phase' = phase
      /\ idx' = idx /\ ix' = ix /\ tainted' = tainted /\ cp.pc = "compact"
  BY DEF CpCompact, tmVars
<1>2. rows' = Rebuilt(rows) /\ ~HasVersionAbove(rows, cp.watermark) BY DEF CpCompact, Compact
<1>3. cp' = [pc |-> "total", watermark |-> cp.watermark, total |-> cp.total, chunk |-> cp.chunk, moved |-> TRUE]
  <2>1. cp' = [cp EXCEPT !.pc = "total", !.moved = TRUE] BY DEF CpCompact
  <2> QED BY <1>t, <2>1 DEF CpOK
<1>4. CpOK' BY <1>t, <1>3 DEF CpOK
<1>5. rows' \in Seq(Row) /\ Len(rows') <= Len(rows) /\ Len(rows') \in Nat
  <2>1. rows' \in Seq(Row) /\ Len(rows') <= Len(rows) BY <1>t, <1>2, RebuiltRows
  <2> QED BY <2>1, LenProperties
<1>6. ASSUME NEW k \in DOMAIN rows'
      PROVE  rows'[k].key \in 1 .. nextKey - 1 /\ rows'[k].ins = 0 /\ rows'[k].del = NotDeleted
  <2>1. \E i \in LivePositions(rows) :
            /\ Rank(LivePositions(rows), i) = k
            /\ Rebuilt(rows)[k] = [key |-> rows[i].key, ins |-> 0, del |-> NotDeleted]
    BY <1>t, <1>2, RebuiltRows
  <2>2. PICK i \in DOMAIN rows : rows'[k] = [key |-> rows[i].key, ins |-> 0, del |-> NotDeleted]
    BY <1>2, <2>1 DEF LivePositions
  <2>3. rows[i].key \in 1 .. nextKey - 1 BY <1>t DEF RowOK
  <2> QED BY <2>2, <2>3
<1>7. HeapOK'
  <2>1. \A k \in DOMAIN rows' : RowOK(rows[k])' BY <1>t, <1>1, <1>6 DEF RowOK, StampOK
  <2>2. Len(rows') <= MaxRows BY <1>t, <1>5, TableAssumption
  <2> QED BY <1>t, <1>1, <1>5, <2>1, <2>2 DEF HeapOK
<1>8. \A i \in DOMAIN rows : rows[i].ins \in Nat /\ rows[i].ins < TxnIdStart
  <2>1. cp.watermark \in 0 .. MaxTs /\ MaxTs \in Nat /\ MaxTs < TxnIdStart
    BY <1>t, MaxTsAssumption, TableAssumption DEF CpOK
  <2> QED BY <1>t, <1>2, <2>1 DEF HasVersionAbove, Row
<1>9. \A s \in Session : Busy(s) => op[s].txnId \in Nat /\ op[s].txnId >= TxnIdStart BY ChainIds
<1>10. \A s \in Session : IsActive(s) \/ pc[s] = "drained" => op[s].app \cup op[s].stmtApp = {}
  <2> SUFFICES ASSUME NEW s \in Session, IsActive(s) \/ pc[s] = "drained", NEW i \in op[s].app \cup op[s].stmtApp
               PROVE  FALSE
    OBVIOUS
  <2>1. i \in DOMAIN rows /\ rows[i].ins = op[s].txnId BY <1>t DEF TableInv, RangesStillPending
  <2>2. Busy(s) BY <1>t DEF TableInv, ChainsOK, ChainOK, Busy
  <2> QED BY <1>8, <1>9, <1>t, <2>1, <2>2
<1>11. TableInv'
  <2>1. IInv' BY <1>t, <1>1, NextIInv DEF TableInv, tmVars
  <2>2. IdsBelowClock' /\ ChainTypes' /\ ChainsOK' /\ IdsApart'
    <3>1. CompactWatermark' = CompactWatermark
      BY <1>1 DEF CompactWatermark, WatermarkBounds, ActiveTxns, IsActive
    <3> QED BY <1>t, <1>1, <3>1 DEF TableInv, IdsBelowClock, ChainTypes, ChainsOK, ChainOK, IdsApart, IsActive, Busy,
           Committing, Pending
  <2>3. RangesStillPending' BY <1>1, <1>10 DEF RangesStillPending, IsActive
  <2> QED BY <1>7, <2>1, <2>2, <2>3 DEF TableInv
<1>12. IndexTypes' BY <1>1 DEF IndexInv, IndexTypes
<1>13. SnapshotsTimed' BY <1>1 DEF IndexInv, SnapshotsTimed, IsActive
<1>14. StampsKnown'
  <2>1. Known(0) /\ Known(NotDeleted) BY <1>t, KnownStamps, Numbers
  <2>2. \A j \in DOMAIN idx : Known(idx[j].ins) /\ Known(idx[j].del) BY DEF IndexInv, StampsKnown
  <2> QED BY <1>1, <1>6, <2>1, <2>2 DEF StampsKnown, Known, KnownTo, IsActive
<1>15. EntriesOK' BY <1>1 DEF IndexInv, EntriesOK, StampOK, Pending
<1>16. ASSUME NEW s \in Session PROVE ChainIx(s)'
  <2>1. ChainIx(s) BY DEF IndexInv
  <2>2. AppendsKnown(s)'
    <3>1. Open(s) => Busy(s) BY <1>t, MineHidden
    <3>2. TxnIdStart > 0 BY TableAssumption, MaxTsAssumption, StampAssumption
    <3> QED BY <1>t, <1>1, <1>6, <1>9, <3>1, <3>2 DEF AppendsKnown, Open, IsActive, Committing
  <2>3. StepOK(s)' /\ StatementParked(s)' /\ OldOK(s)' /\ Answered(s)'
    BY <1>1, <2>1 DEF ChainIx, StepOK, StatementParked, OldOK, Answered, Quiet
  <2> QED BY <1>1, <2>1, <2>2, <2>3 DEF ChainIx
<1>17. Agreement' BY <1>3 DEF Agreement
<1> QED BY <1>4, <1>11, <1>12, <1>13, <1>14, <1>15, <1>16, <1>17 DEF IndexInv

\* A compaction that leaves the heap as it is.
LEMMA CpKeepsHeap ==
    ASSUME IndexInv, CpCompact, rows' = rows
    PROVE  IndexInv'
<1>1. CpOK /\ UNCHANGED <<vars, idx, ix, tainted>> /\ cp.pc = "compact"
  BY DEF IndexInv, CpCompact, vars, tableVars
<1>2. cp' = [cp EXCEPT !.pc = "total", !.moved = FALSE] BY DEF CpCompact
<1>3. cp' = [pc |-> "total", watermark |-> cp.watermark, total |-> cp.total, chunk |-> cp.chunk, moved |-> FALSE]
  BY <1>1, <1>2 DEF CpOK
<1>4. CpOK' BY <1>1, <1>3 DEF CpOK
<1>5. ~cp.moved BY <1>1 DEF CpOK
<1> QED BY <1>1, <1>4, <1>5, OnlyCp

\* repopulate_table: every row that is left untainted is settled, so its new entry with
\* id 0 agrees with it.
LEMMA CpRefills ==
    ASSUME IndexInv, CpRefill
    PROVE  IndexInv'
<1>t. TableInv /\ CpOK /\ ix \in [Session -> IxType] BY DEF IndexInv, IndexTypes, IxType
<1>1. /\ UNCHANGED vars /\ ix' = ix /\ cp.pc = "refill" /\ idx' = Refilled(idx, cp.chunk)
      /\ tainted' = Unsettled \cup (DOMAIN rows \ 1 .. cp.total) \cup MirrorsToCome
  BY DEF CpRefill
<1>2. /\ rows' = rows /\ nextKey' = nextKey /\ pc' = pc /\ op' = op /\ active' = active /\ inFlight' = inFlight
      /\ horizon' = horizon /\ currentTs' = currentTs /\ nextTxnId' = nextTxnId
  BY <1>1 DEF vars, tmVars, tableVars
<1>3. cp' = [pc |-> "commit0", watermark |-> cp.watermark, total |-> cp.total, chunk |-> cp.chunk,
             moved |-> FALSE]
  <2>1. cp' = [cp EXCEPT !.pc = "commit0", !.moved = FALSE] BY DEF CpRefill
  <2> QED BY <1>t, <2>1 DEF CpOK
<1>4. CpOK' BY <1>t, <1>3 DEF CpOK
<1>5. TableInv' BY <1>t, <1>1, NextTableInv
<1>6. /\ DOMAIN rows = 1 .. Len(rows) /\ Len(rows) \in Nat /\ Len(rows) <= MaxRows /\ MaxRows \in Nat
      /\ \A i \in DOMAIN rows : rows[i].key \in 1 .. nextKey - 1 /\ rows[i].ins \in Nat /\ rows[i].del \in Nat
                                /\ rows[i].key \in Nat
  BY <1>t, LenProperties, RowStamps, TableAssumption DEF TableInv, HeapOK, RowOK
<1>7. cp.total \in 0 .. Len(rows) /\ DOMAIN cp.chunk = 1 .. cp.total /\ 1 .. cp.total \subseteq DOMAIN rows
  BY <1>t, <1>1, <1>6 DEF CpOK
<1>8. /\ DOMAIN idx' = 1 .. cp.total /\ idx' = [i \in 1 .. cp.total |-> Entry(cp.chunk[i], i, 0)]
      /\ \A i \in 1 .. cp.total : idx'[i] = Entry(rows[i].key, i, 0)
  BY <1>t, <1>1, <1>7 DEF CpOK, Refilled
<1>9. ASSUME NEW i \in 1 .. cp.total
      PROVE  /\ idx'[i] \in IndexEntry /\ idx'[i].key = rows[i].key /\ idx'[i].row = i
             /\ idx'[i].ins = 0 /\ idx'[i].del = NotDeleted
  <2>1. idx'[i] = [key |-> rows[i].key, row |-> i, ins |-> 0, del |-> NotDeleted] BY <1>8 DEF Entry
  <2>2. rows[i].key \in Nat /\ i \in 1 .. MaxRows /\ NotDeleted \in Nat BY <1>6, <1>7, StampAssumption
  <2> QED BY <2>1, <2>2 DEF IndexEntry
<1>10. IndexTypes'
  <2>1. cp.total \in Nat /\ DOMAIN idx' \subseteq 0 .. cp.total BY <1>6, <1>7, <1>8
  <2>2. idx' \in [DOMAIN idx' -> IndexEntry] BY <1>8, <1>9
  <2>3. tainted' \subseteq 1 .. MaxRows
    <3>1. DOMAIN rows \subseteq 1 .. MaxRows BY <1>6
    <3>2. \A s \in Session : \A o \in ix[s].old : o[2] \in 1 .. MaxRows BY <1>t DEF IxType
    <3> QED BY <1>1, <3>1, <3>2 DEF Unsettled, MirrorsToCome
  <2> QED BY <1>t, <1>1, <2>1, <2>2, <2>3 DEF IndexTypes, IxType
<1>11. SnapshotsTimed' BY <1>2 DEF IndexInv, SnapshotsTimed, IsActive
<1>12. StampsKnown'
  <2>1. Known(0) /\ Known(NotDeleted) BY <1>t, KnownStamps, Numbers
  <2>2. \A i \in DOMAIN rows : Known(rows[i].ins) /\ Known(rows[i].del) BY DEF IndexInv, StampsKnown
  <2> QED BY <1>2, <1>8, <1>9, <2>1, <2>2 DEF StampsKnown, Known, KnownTo, IsActive
<1>13. EntriesOK'
  <2>1. 0 < currentTs BY <1>t, Numbers
  <2> QED BY <1>2, <1>6, <1>7, <1>8, <1>9, <2>1 DEF EntriesOK, StampOK
<1>14. ASSUME NEW s \in Session PROVE ChainIx(s)'
  <2>1. ChainIx(s) BY DEF IndexInv
  <2>2. Busy(s) => \A j \in DOMAIN idx' : idx'[j].ins # op[s].txnId /\ idx'[j].del # op[s].txnId
    <3>1. Busy(s) => op[s].txnId \in Nat /\ op[s].txnId >= TxnIdStart /\ op[s].txnId < NotDeleted BY ChainIds
    <3>2. TxnIdStart \in Nat /\ TxnIdStart > 0 /\ NotDeleted \in Nat BY TableAssumption, MaxTsAssumption, StampAssumption
    <3> QED BY <1>8, <1>9, <3>1, <3>2
  <2>3. Answered(s)' BY <1>1, <1>2, <2>2 DEF Answered, Busy
  <2>4. StepOK(s)' /\ StatementParked(s)' /\ OldOK(s)' /\ AppendsKnown(s)'
    BY <1>1, <1>2, <2>1 DEF ChainIx, StepOK, StatementParked, OldOK, AppendsKnown, Open, IsActive, Committing
  <2> QED BY <1>2, <2>1, <2>3, <2>4 DEF ChainIx
<1>15. ASSUME NEW s \in Session PROVE MirrorOK(s)'
  <2> SUFFICES ASSUME ix[s].step = "mirror"
               PROVE  /\ \A i \in op[s].stmtApp : i \in tainted'
                      /\ \A i \in DOMAIN rows : <<rows[i].key, i>> \in ix[s].old => i \in tainted'
    BY <1>1, <1>2 DEF MirrorOK
  <2>1. IsActive(s) /\ Busy(s) /\ ~Quiet(s) BY ChainIds DEF Quiet
  <2>2. ASSUME NEW i \in op[s].stmtApp PROVE i \in Unsettled
    <3>1. i \in DOMAIN rows /\ rows[i].ins = op[s].txnId BY <1>t, <2>1 DEF TableInv, RangesStillPending
    <3>2. op[s].txnId >= TxnIdStart BY <2>1, ChainIds
    <3> QED BY <3>1, <3>2 DEF Unsettled
  <2>3. ASSUME NEW i \in DOMAIN rows, <<rows[i].key, i>> \in ix[s].old PROVE i \in MirrorsToCome
    <3>1. <<rows[i].key, i>>[2] = i OBVIOUS
    <3> QED BY <2>1, <2>3, <3>1 DEF MirrorsToCome
  <2> QED BY <1>1, <2>2, <2>3
<1>16. ASSUME NEW i \in DOMAIN rows \ tainted' PROVE RowAgrees(i)'
  <2>1. i \in 1 .. cp.total /\ i \notin Unsettled BY <1>1, <1>16
  <2>2. EntriesOf(i)' = {i} BY <1>8, <1>9, <2>1 DEF EntriesOf
  <2>3. PICK h : h = rows[i].ins OBVIOUS
  <2>4. /\ h \in Nat /\ ~(h >= TxnIdStart) /\ rows[i].del = NotDeleted /\ h \notin inFlight
        /\ \A s \in Session : IsActive(s) => Visible(Data(s), rows[i])
    BY <1>6, <1>16, <2>1, <2>3 DEF Unsettled
  <2>5. TxnIdStart \in Nat /\ h < TxnIdStart BY <2>4, StampAssumption
  <2>6. Fresh(h)
    <3>1. Known(h) BY <1>16, <2>3 DEF IndexInv, StampsKnown
    <3> QED BY <2>4, <2>5, <3>1 DEF Known, Fresh
  <2>7. ASSUME NEW s \in Session, IsActive(s) PROVE CommitVisible(active[s], h)
    <3>1. UseInsertedVersion(Data(s), h) BY <2>3, <2>4, <2>7 DEF Visible
    <3>2. Data(s).transactionId = TxnIdStart + active[s].txnId /\ active[s].txnId \in Nat
      BY <1>t, <2>7, Numbers DEF Data, Txn
    <3>3. h # Data(s).transactionId BY <2>4, <2>5, <3>2
    <3>4. Data(s).horizon = active[s].snapHorizon /\ Data(s).inFlight = active[s].snapInFlight BY DEF Data
    <3> QED BY <3>1, <3>3, <3>4 DEF UseInsertedVersion, CommitVisible
  <2>8. Settled(h)' BY <1>2, <2>6, <2>7 DEF Settled, Fresh, IsActive, CommitVisible
  <2>9. PICK e : e = 0 OBVIOUS
  <2>10. InsAgree(e, h)' BY <2>8, <2>9 DEF InsAgree
  <2>11. idx'[i].ins = e /\ rows'[i].ins = h BY <1>2, <1>9, <2>1, <2>3, <2>9
  <2>12. InsAgree(idx[i].ins, rows[i].ins)' BY ONLY <2>10, <2>11, PrimedArgs
  <2>13. DelAgree(idx[i].del, rows[i].del, i)'
    <3>1. idx'[i].del = rows'[i].del BY <1>2, <1>9, <2>1, <2>4
    <3> QED BY <3>1 DEF DelAgree
  <2> QED BY <1>2, <1>9, <2>1, <2>2, <2>12, <2>13 DEF RowAgrees
<1>17. Agreement' BY <1>2, <1>7, <1>8, <1>9, <1>15, <1>16 DEF Agreement
<1> QED BY <1>4, <1>5, <1>10, <1>11, <1>12, <1>13, <1>14, <1>17 DEF IndexInv

-----------------------------------------------------------------------------
(* The invariant is inductive.                                             *)

\* A table and an index as the bootstrap hands them over.
LEMMA InitIndexInv == IndexInit => IndexInv
<1> SUFFICES ASSUME IndexInit PROVE IndexInv
  OBVIOUS
<1>1. TableInv BY InitTableInv DEF IndexInit
<1>2. /\ \A s \in Session : pc[s] = "idle" /\ ~IsActive(s) /\ ix[s] = NoIx /\ op[s] = NoOp
      /\ DOMAIN rows = 1 .. InitRows /\ DOMAIN idx = 1 .. InitRows /\ InitRows \in Nat /\ MaxRows \in Nat
      /\ InitRows <= MaxRows /\ nextKey = InitRows + 1 /\ currentTs = 1 /\ horizon = 0 /\ inFlight = {}
      /\ cp = NoCp /\ tainted = {} /\ NotDeleted \in Nat /\ TxnIdStart \in Nat /\ TxnIdStart < NotDeleted
  BY <1>1, TableAssumption, Numbers DEF IndexInit, TableInit, IsActive, NoTxn
<1>3. ASSUME NEW i \in 1 .. InitRows
      PROVE  /\ rows[i].key = i /\ rows[i].ins = 0 /\ rows[i].del = NotDeleted
             /\ idx[i].key = i /\ idx[i].row = i /\ idx[i].ins = 0 /\ idx[i].del = NotDeleted
             /\ idx[i] \in IndexEntry
  <2>1. /\ rows[i] = [key |-> i, ins |-> 0, del |-> NotDeleted]
        /\ idx[i] = [key |-> i, row |-> i, ins |-> 0, del |-> NotDeleted]
    BY DEF IndexInit, TableInit, Entry
  <2>2. i \in Nat /\ i \in 1 .. MaxRows BY <1>2
  <2> QED BY <1>2, <2>1, <2>2 DEF IndexEntry
<1>4. IndexTypes
  <2>1. DOMAIN idx \subseteq 0 .. InitRows BY <1>2
  <2>2. idx \in [DOMAIN idx -> IndexEntry] BY <1>2, <1>3 DEF IndexInit
  <2>3. ix \in [Session -> IxType]
    <3>1. <<>> \in [1 .. 0 -> 1 .. MaxRows] /\ 0 \in 0 .. MaxHits BY TableAssumption
    <3>2. NoIx \in IxType BY <3>1 DEF IxType, NoIx, Step, Found
    <3> QED BY <3>2 DEF IndexInit
  <2> QED BY <1>2, <2>1, <2>2, <2>3 DEF IndexTypes
<1>5. SnapshotsTimed BY <1>2 DEF SnapshotsTimed
<1>6. StampsKnown BY <1>2, <1>3 DEF StampsKnown, Known
<1>7. EntriesOK BY <1>2, <1>3 DEF EntriesOK, StampOK
<1>8. CpOK BY <1>2, MaxTsAssumption DEF CpOK, NoCp
<1>9. \A s \in Session : ChainIx(s)
  BY <1>2 DEF ChainIx, StatementParked, AppendsKnown, Open, Committing, StepOK, OldOK, Answered, NoIx
<1>10. ASSUME NEW i \in 1 .. InitRows PROVE RowAgrees(i)
  <2>1. EntriesOf(i) = {i} BY <1>2, <1>3 DEF EntriesOf
  <2> QED BY <1>3, <2>1 DEF RowAgrees, InsAgree, DelAgree
<1>11. Agreement BY <1>2, <1>3, <1>10 DEF Agreement, MirrorOK, NoIx
<1> QED BY <1>1, <1>4, <1>5, <1>6, <1>7, <1>8, <1>9, <1>11 DEF IndexInv

\* Every message of a session and every step of a CHECKPOINT keeps the invariant.
LEMMA NextIndexInv == IndexInv /\ [IndexNext]_allVars => IndexInv'
<1> SUFFICES ASSUME IndexInv, [IndexNext]_allVars PROVE IndexInv'
  OBVIOUS
<1>1. ASSUME NEW s \in Session, Message(s) PROVE IndexInv' BY <1>1, MessageInv
<1>2. CASE Rebuild
  BY <1>2, CpReads, CpRenumbers, CpKeepsHeap, CpRefills DEF Rebuild
<1>3. CASE UNCHANGED allVars
  <2>1. UNCHANGED <<vars, idx, ix, tainted>> /\ cp' = cp BY <1>3 DEF allVars, indexVars
  <2>2. rows' = rows BY <2>1 DEF vars, tableVars
  <2>3. CpOK' BY <2>1, <2>2 DEF IndexInv, CpOK
  <2> QED BY <2>1, <2>3, OnlyCp
<1> QED BY <1>1, <1>2, <1>3 DEF IndexNext, Message

\* The invariant holds in every reachable state.
LEMMA IndexInvHolds == IndexSpec => []IndexInv
BY InitIndexInv, NextIndexInv, PTL DEF IndexSpec

-----------------------------------------------------------------------------
(* Invariants.                                                             *)

\* The entries carry keys and row ids of the table and stamps that the transaction
\* manager has given out, whichever message of a chain or a CHECKPOINT wrote them.
THEOREM IndexTypeCorrect == IndexSpec => []IndexTypeOK
<1> USE StampAssumption, TableAssumption, MaxTsAssumption
<1>1. ASSUME IndexInv PROVE IndexTypeOK
  <2>1. TableTypeOK /\ TypeOK BY <1>1, TableTypes DEF IndexInv, TableInv, IInv
  <2>2. ASSUME NEW id \in Nat, StampOK(id)
        PROVE  id \in 0 .. MaxTs \cup TxnIdStart .. TxnIdStart + nextTxnId - 1
    BY <2>1, <2>2 DEF TypeOK, StampOK, Pending
  <2>3. ASSUME NEW j \in DOMAIN idx
        PROVE  /\ idx[j].key \in 1 .. nextKey - 1 /\ idx[j].row \in 1 .. MaxRows
               /\ idx[j].ins \in 0 .. MaxTs \cup TxnIdStart .. TxnIdStart + nextTxnId - 1
               /\ idx[j].del \in 0 .. MaxTs \cup TxnIdStart .. TxnIdStart + nextTxnId - 1 \cup {NotDeleted}
    <3>1. idx[j] \in IndexEntry BY <1>1, <2>3 DEF IndexInv, IndexTypes
    <3>2. idx[j].row \in 1 .. MaxRows /\ idx[j].ins \in Nat /\ idx[j].del \in Nat BY <3>1 DEF IndexEntry
    <3> QED BY <1>1, <2>2, <2>3, <3>2 DEF IndexInv, EntriesOK
  <2>4. tainted \subseteq 1 .. MaxRows BY <1>1 DEF IndexInv, IndexTypes
  <2> QED BY <2>1, <2>3, <2>4 DEF IndexTypeOK
<1> QED BY <1>1, IndexInvHolds, PTL

\* Whether index_entry_visible counts a stamp for the session.
Counts(s, id) == id < active[s].startTime \/ id = op[s].txnId

\* Outside the window a snapshot counts a known stamp exactly if its start time does.
LEMMA CountedStamps ==
    ASSUME IndexInv, NEW s \in Session, IsActive(s),
           NEW id \in Nat, Known(id), id \notin active[s].snapInFlight
    PROVE  UseInsertedVersion(Data(s), id) <=> Counts(s, id)
<1> USE StampAssumption, TableAssumption, MaxTsAssumption
<1>1. /\ active[s].startTime \in Nat /\ active[s].startTime < currentTs
      /\ active[s].snapHorizon < active[s].startTime
  BY DEF IndexInv, SnapshotsTimed
<1>2. active[s] \in Txn /\ TypeOK /\ ChainOK(s)
  BY DEF IndexInv, TableInv, IInv, TypeOK, IsActive, NoTxn, ChainsOK
<1>3. active[s].snapHorizon \in Nat /\ currentTs \in Nat /\ currentTs <= TxnIdStart
  BY <1>2 DEF TypeOK, Txn
<1>4. /\ Data(s).transactionId = op[s].txnId /\ Data(s).horizon = active[s].snapHorizon
      /\ Data(s).inFlight = active[s].snapInFlight
  BY <1>2 DEF Data, ChainOK
<1>5. op[s].txnId \in Pending /\ op[s].txnId >= TxnIdStart
  BY <1>2 DEF ChainOK, Busy, Pending, TypeOK
<1>6. id < active[s].startTime /\ id < TxnIdStart => id <= active[s].snapHorizon
  BY DEF Known, KnownTo
<1> QED BY <1>1, <1>3, <1>4, <1>5, <1>6 DEF UseInsertedVersion, Counts

\* A commit half done counts neither on the heap nor on the index.
LEMMA HalfCounts ==
    ASSUME IndexInv, NEW s \in Session, IsActive(s), pc[s] = "open",
           NEW t \in Nat, NEW c \in Nat, NEW Stage, s \notin Stage,
           Half(t, c, Stage), c \notin active[s].snapInFlight
    PROVE  ~Counts(s, t) /\ ~Counts(s, c)
<1> USE StampAssumption, TableAssumption, MaxTsAssumption
<1>1. /\ active[s].startTime \in Nat /\ active[s].startTime < currentTs
      /\ \A d \in inFlight : d < active[s].startTime => d \in active[s].snapInFlight
  BY DEF IndexInv, SnapshotsTimed
<1>2. TypeOK /\ ChainOK(s) BY DEF IndexInv, TableInv, IInv, ChainsOK
<1>3. currentTs \in Nat /\ currentTs <= TxnIdStart /\ inFlight \subseteq 1 .. MaxTs /\ nextTxnId \in Nat
  BY <1>2 DEF TypeOK
<1>4. Busy(s) /\ op[s].txnId \in Pending BY <1>2 DEF Busy, ChainOK
<1>5. t \in Pending /\ c \in inFlight /\ op[s].txnId # t BY <1>4 DEF Half, Runs
<1> QED BY <1>1, <1>3, <1>4, <1>5 DEF Counts, Pending

\* The insert stamps of a row and of its entry count for the same open transactions.
LEMMA InsertsCounted ==
    ASSUME IndexInv, NEW s \in Session, IsActive(s), pc[s] = "open",
           NEW e \in Nat, NEW h \in Nat, InsAgree(e, h), e \notin active[s].snapInFlight
    PROVE  Counts(s, e) <=> Counts(s, h)
<1> USE StampAssumption, TableAssumption, MaxTsAssumption
<1>1. CASE e = h BY <1>1
<1>2. CASE Half(h, e, InsStage)
  <2>1. s \notin InsStage BY DEF InsStage
  <2>2. ~Counts(s, h) /\ ~Counts(s, e) BY ONLY <1>2, <2>1, IndexInv, s \in Session, IsActive(s), pc[s] = "open",
           e \in Nat, h \in Nat, e \notin active[s].snapInFlight, HalfCounts
  <2> QED BY <2>2
<1>3. CASE e = 0 /\ Settled(h)
  <2>1. active[s].startTime \in Nat \ {0} /\ active[s].snapHorizon < active[s].startTime
    BY DEF IndexInv, SnapshotsTimed
  <2>2. active[s] \in Txn BY DEF IndexInv, TableInv, IInv, TypeOK, IsActive, NoTxn
  <2>3. h <= active[s].snapHorizon /\ active[s].snapHorizon \in Nat
    BY <1>3, <2>2 DEF Settled, CommitVisible, Txn
  <2> QED BY <1>3, <2>1, <2>3 DEF Counts
<1> QED BY <1>1, <1>2, <1>3 DEF InsAgree

\* So do their delete marks, between two statements.
LEMMA DeletesCounted ==
    ASSUME IndexInv, NEW s \in Session, IsActive(s), pc[s] = "open", Quiet(s),
           NEW e \in Nat, NEW h \in Nat, NEW i, DelAgree(e, h, i), e \notin active[s].snapInFlight
    PROVE  Counts(s, e) <=> Counts(s, h)
<1> USE StampAssumption, TableAssumption, MaxTsAssumption
<1>1. CASE e = h BY <1>1
<1>2. CASE Half(h, e, DelStage)
  <2>1. s \notin DelStage BY DEF DelStage
  <2>2. ~Counts(s, h) /\ ~Counts(s, e) BY ONLY <1>2, <2>1, IndexInv, s \in Session, IsActive(s), pc[s] = "open",
           e \in Nat, h \in Nat, e \notin active[s].snapInFlight, HalfCounts
  <2> QED BY <2>2
<1>3. CASE e = NotDeleted /\ Unmarked(h, i)
  <2>1. active[s].startTime \in Nat /\ active[s].startTime < currentTs
    BY DEF IndexInv, SnapshotsTimed
  <2>2. TypeOK /\ ChainOK(s) /\ IdsBelowClock BY DEF IndexInv, TableInv, IInv, ChainsOK
  <2>3. currentTs \in Nat /\ currentTs <= MaxTs + 1 /\ nextTxnId \in Nat /\ nextTxnId < currentTs
    BY <2>2 DEF TypeOK, IdsBelowClock
  <2>4. Busy(s) /\ op[s].txnId \in Pending BY <2>2 DEF Busy, ChainOK
  <2>5. h \in Pending /\ op[s].txnId # h BY <1>3, <2>4 DEF Unmarked, Runs, Quiet
  <2>6. ~Counts(s, h) BY <2>1, <2>3, <2>5 DEF Counts, Pending
  <2>7. ~Counts(s, NotDeleted) BY <2>1, <2>3, <2>4 DEF Counts, Pending
  <2> QED BY <1>3, <2>6, <2>7
<1> QED BY <1>1, <1>2, <1>3 DEF DelAgree

\* An index scan returns every row of the session's snapshot once, under its own key,
\* and no other row, for the rows the definition of IndexAgreesWithHeap keeps: a COMMIT,
\* a ROLLBACK, a mirror or a CHECKPOINT of any other session may be half way through.
THEOREM IndexAgrees == IndexSpec => []IndexAgreesWithHeap
<1> USE StampAssumption, TableAssumption, MaxTsAssumption
<1>1. ASSUME IndexInv PROVE IndexAgreesWithHeap
  <2> SUFFICES ASSUME NEW s \in Session, IsActive(s), pc[s] = "open", Quiet(s), ~cp.moved,
                      NEW i \in DOMAIN rows \ tainted,
                      ~InWindow(s, rows[i]), \A j \in EntriesOf(i) : ~InWindow(s, idx[j])
               PROVE  /\ Cardinality(EntriesOf(i) \cap Search(s)) = (IF Visible(Data(s), rows[i]) THEN 1 ELSE 0)
                      /\ \A j \in EntriesOf(i) \cap Search(s) : idx[j].key = rows[i].key
    BY DEF IndexAgreesWithHeap
  <2>1. RowAgrees(i) BY <1>1 DEF IndexInv, Agreement
  <2>2. /\ rows[i].ins \in Nat /\ rows[i].del \in Nat /\ Known(rows[i].ins) /\ Known(rows[i].del)
        /\ rows[i].ins \notin active[s].snapInFlight /\ rows[i].del \notin active[s].snapInFlight
    <3>1. rows[i] \in Row BY <1>1 DEF IndexInv, TableInv, HeapOK
    <3> QED BY <1>1, <3>1 DEF Row, IndexInv, StampsKnown, InWindow
  <2>3. Visible(Data(s), rows[i]) <=> Counts(s, rows[i].ins) /\ ~Counts(s, rows[i].del)
    <3>1. UseInsertedVersion(Data(s), rows[i].ins) <=> Counts(s, rows[i].ins) BY <1>1, <2>2, CountedStamps
    <3>2. UseInsertedVersion(Data(s), rows[i].del) <=> Counts(s, rows[i].del) BY <1>1, <2>2, CountedStamps
    <3> QED BY <3>1, <3>2 DEF Visible, UseDeletedVersion
  <2>4. CASE EntriesOf(i) = {}
    <3>1. Unmirrored(rows[i].ins, i) BY <2>1, <2>4 DEF RowAgrees
    <3>2. active[s].startTime \in Nat /\ active[s].startTime < currentTs
      BY <1>1 DEF IndexInv, SnapshotsTimed
    <3>3. TypeOK /\ ChainOK(s) BY <1>1 DEF IndexInv, TableInv, IInv, ChainsOK
    <3>4. currentTs \in Nat /\ currentTs <= TxnIdStart /\ nextTxnId \in Nat BY <3>3 DEF TypeOK
    <3>5. Busy(s) BY DEF Busy
    <3>6. rows[i].ins \in Pending /\ op[s].txnId # rows[i].ins
      BY <3>1, <3>5 DEF Unmirrored, Runs, Quiet
    <3>7. ~Counts(s, rows[i].ins) BY <3>2, <3>4, <3>6 DEF Counts, Pending
    <3>8. EntriesOf(i) \cap Search(s) = {} BY <2>4
    <3> QED BY <2>3, <3>7, <3>8, FS_EmptySet
  <2>5. ASSUME NEW j \in EntriesOf(i)
        PROVE  /\ Cardinality(EntriesOf(i) \cap Search(s)) = (IF Visible(Data(s), rows[i]) THEN 1 ELSE 0)
               /\ \A k \in EntriesOf(i) \cap Search(s) : idx[k].key = rows[i].key
    <3>1. EntriesOf(i) = {j} BY <2>1, <2>5 DEF RowAgrees
    <3>2. j \in DOMAIN idx /\ idx[j] \in IndexEntry BY <1>1, <2>5 DEF EntriesOf, IndexInv, IndexTypes
    <3>3. /\ idx[j].ins \in Nat /\ idx[j].del \in Nat
          /\ idx[j].ins \notin active[s].snapInFlight /\ idx[j].del \notin active[s].snapInFlight
      BY <2>5, <3>2 DEF IndexEntry, InWindow
    <3>4. /\ idx[j].key = rows[i].key
          /\ InsAgree(idx[j].ins, rows[i].ins) /\ DelAgree(idx[j].del, rows[i].del, i)
      BY <2>1, <2>5 DEF RowAgrees
    <3>5. Counts(s, idx[j].ins) <=> Counts(s, rows[i].ins) BY <1>1, <2>2, <3>3, <3>4, InsertsCounted
    <3>6. Counts(s, idx[j].del) <=> Counts(s, rows[i].del) BY <1>1, <2>2, <3>3, <3>4, DeletesCounted
    <3>7. EntryVisible(s, idx[j]) <=> Counts(s, idx[j].ins) /\ ~Counts(s, idx[j].del)
      <4>1. active[s].startTime \in Nat /\ active[s].startTime < currentTs
        BY <1>1 DEF IndexInv, SnapshotsTimed
      <4>2. currentTs \in Nat /\ currentTs <= TxnIdStart BY <1>1 DEF IndexInv, TableInv, IInv, TypeOK
      <4> QED BY <3>3, <4>1, <4>2 DEF EntryVisible, Counts
    <3>8. j \in Search(s) <=> Visible(Data(s), rows[i]) BY <2>3, <3>2, <3>5, <3>6, <3>7 DEF Search
    <3>9. CASE Visible(Data(s), rows[i])
      <4>1. EntriesOf(i) \cap Search(s) = {j} BY <3>1, <3>8, <3>9
      <4> QED BY <3>4, <3>9, <4>1, FS_Singleton
    <3>10. CASE ~Visible(Data(s), rows[i])
      <4>1. EntriesOf(i) \cap Search(s) = {} BY <3>1, <3>8, <3>10
      <4> QED BY <3>10, <4>1, FS_EmptySet
    <3> QED BY <3>9, <3>10
  <2> QED BY <2>4, <2>5
<1> QED BY <1>1, IndexInvHolds, PTL
=============================================================================
