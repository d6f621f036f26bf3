-------------------------- MODULE MvccTableProofs --------------------------
(***************************************************************************)
(* Proofs about sessions that run SQL transactions over one table: for any *)
(* number of sessions, any length of the heap and any bound on the clock.  *)
(***************************************************************************)
EXTENDS MvccTable, TxnManagerProofs, RowVersionsProofs

-----------------------------------------------------------------------------
(* The inductive invariant.                                                *)

\* The transaction ids given out so far.
Pending == TxnIdStart .. TxnIdStart + nextTxnId - 1

\* Each begin_transaction advances the clock, so the ids stay below "not deleted".
IdsBelowClock == nextTxnId < currentTs

\* A stamp is a commit id the clock has passed or the id of a transaction.
StampOK(id) == id < currentTs \/ id \in Pending

RowOK(r) ==
    /\ r.key \in 1 .. nextKey - 1
    /\ StampOK(r.ins)
    /\ StampOK(r.del) \/ r.del = NotDeleted

HeapOK ==
    /\ rows \in Seq(Row)
    /\ nextKey \in Nat \ {0}
    /\ Len(rows) <= MaxRows
    /\ \A i \in DOMAIN rows : RowOK(rows[i])

Op == [explicit : BOOLEAN, ids : SUBSET (1 .. MaxRows), hits : Nat, stmtApp : SUBSET (1 .. MaxRows),
       stmtDel : BOOLEAN, app : SUBSET (1 .. MaxRows), del : BOOLEAN, txnId : Nat,
       commitId : 0 .. MaxTs, watermark : 0 .. MaxTs]

ChainTypes == pc \in [Session -> PC] /\ op \in [Session -> Op]

\* The chain of a session runs for a transaction.
Busy(s) == pc[s] \notin {"idle", "cleanup"}

\* What a chain carries belongs to the transaction manager's current state.
ChainOK(s) ==
    /\ IsActive(s) <=> pc[s] \in {"open", "scanned", "effect", "failed", "commit"}
    /\ IsActive(s) => op[s].txnId = TxnIdStart + active[s].txnId
    /\ Busy(s) => op[s].txnId \in Pending
    /\ Committing(s) => op[s].commitId \in inFlight
    /\ pc[s] = "cleanup" => op[s].watermark <= CompactWatermark

ChainsOK == \A s \in Session : ChainOK(s)

\* No two chains run for one transaction or with one commit id.
IdsApart ==
    \A s, t \in Session : s # t =>
        /\ Busy(s) /\ Busy(t) => op[s].txnId # op[t].txnId
        /\ Committing(s) /\ Committing(t) => op[s].commitId # op[t].commitId

TableInv ==
    /\ IInv
    /\ IdsBelowClock
    /\ ChainTypes
    /\ HeapOK
    /\ ChainsOK
    /\ IdsApart
    /\ RangesStillPending

-----------------------------------------------------------------------------
(* Every message is at most one call of the transaction manager.           *)

\* Whatever message a chain handles, the manager takes one of its own steps or none.
LEMMA ManagerStep ==
    ASSUME NEW s \in Session, Client(s) \/ Pipeline(s)
    PROVE  [Next]_tmVars
<1> USE DEF Client, Pipeline, Next
<1>1. ASSUME NEW e \in BOOLEAN, Begin(s, e) PROVE Next
  BY <1>1 DEF Begin
<1>2. CASE Abort(s) BY <1>2
<1>3. CASE Commit(s) BY <1>3
<1>4. ASSUME Publish(op[s].commitId) PROVE Next
  BY <1>4 DEF Publish
<1> QED BY <1>1, <1>2, <1>3, <1>4
     DEF ReleaseReadOnly, Insert, Scan, IndexScan, ScanReply, EmptyStatement, DeleteRows, UpdateRows, UpdateFailed,
         StatementFailed, CommitDrain, CommitEmpty, IndexCommitFailed, RollbackDrain,
         StatementOk, StampAppends, StampDeletes, PublishCommit, MaybeCleanup, RollbackDeletes

\* A chain touches its own session only.
LEMMA OthersKept ==
    ASSUME TableInv, NEW s \in Session, Client(s) \/ Pipeline(s)
    PROVE  /\ pc' = [pc EXCEPT ![s] = pc'[s]] /\ op' = [op EXCEPT ![s] = op'[s]]
           /\ \A t \in Session \ {s} :
                 pc'[t] = pc[t] /\ op'[t] = op[t] /\ active'[t] = active[t]
<1> USE DEF TableInv, ChainTypes, IInv, TypeOK
<1>1. CASE Client(s)
  BY <1>1 DEF Client, Begin, BeginTransaction, ReleaseReadOnly, Abort, Insert, Scan, IndexScan, ScanReply,
         EmptyStatement, DeleteRows, UpdateRows, UpdateFailed, StatementFailed, CommitDrain, Commit,
         CommitEmpty, IndexCommitFailed, RollbackDrain, tmVars
<1>2. CASE Pipeline(s)
  BY <1>2 DEF Pipeline, StatementOk, CommitDrain, Commit, CommitEmpty, Abort, StampAppends,
         StampDeletes, PublishCommit, Publish, MaybeCleanup, RollbackDeletes, tmVars
<1> QED BY <1>1, <1>2

\* The scan of a DELETE or UPDATE, of the heap or of an index.
Reads(s) ==
    \/ \E matched \in SUBSET VisibleRows(Data(s)) : Scan(s, matched)
    \/ \E matched \in SUBSET (1 .. MaxRows), hits \in 1 .. MaxHits : IndexScan(s, matched, hits)

\* The messages, client input or not.
LEMMA MessageKinds ==
    ASSUME NEW s \in Session, Client(s) \/ Pipeline(s)
    PROVE  \/ \E e \in BOOLEAN : Begin(s, e)
       \/ ReleaseReadOnly(s) \/ StatementFailed(s) \/ CommitEmpty(s) \/ Insert(s) \/ Reads(s)
       \/ EmptyStatement(s) \/ DeleteRows(s) \/ UpdateFailed(s) \/ UpdateRows(s) \/ CommitDrain(s)
       \/ IndexCommitFailed(s) \/ RollbackDrain(s) \/ StatementOk(s) \/ StampAppends(s)
       \/ StampDeletes(s) \/ PublishCommit(s) \/ MaybeCleanup(s) \/ RollbackDeletes(s)
BY DEF Client, Pipeline, Reads

\* Either way the chain gets row ids of a bounded heap.
LEMMA ReadsReply ==
    ASSUME TableInv, NEW s \in Session, Reads(s)
    PROVE  \E m \in SUBSET (1 .. MaxRows), h \in Nat : ScanReply(s, m, h)
<1>1. ASSUME NEW m \in SUBSET VisibleRows(Data(s)), Scan(s, m)
      PROVE  m \in SUBSET (1 .. MaxRows) /\ Cardinality(m) \in Nat /\ ScanReply(s, m, Cardinality(m))
  <2>1. DOMAIN rows = 1 .. Len(rows) /\ Len(rows) \in Nat /\ Len(rows) <= MaxRows /\ MaxRows \in Nat
    BY LenProperties, TableAssumption DEF TableInv, HeapOK
  <2>2. m \in SUBSET (1 .. MaxRows) BY <2>1 DEF VisibleRows
  <2>3. IsFiniteSet(1 .. MaxRows) BY <2>1, FS_Interval
  <2>4. Cardinality(m) \in Nat BY <2>2, <2>3, FS_Subset, FS_CardinalityType
  <2> QED BY <1>1, <2>2, <2>4 DEF Scan
<1>2. ASSUME NEW m \in SUBSET (1 .. MaxRows), NEW h \in 1 .. MaxHits, IndexScan(s, m, h)
      PROVE  ScanReply(s, m, h) /\ h \in Nat
  BY <1>2 DEF IndexScan
<1> QED BY <1>1, <1>2 DEF Reads

\* Only the publish of a chain takes an id out of flight, and it takes its own.
LEMMA OwnPublish ==
    ASSUME NEW s \in Session, Client(s) \/ Pipeline(s)
    PROVE  \/ inFlight \subseteq inFlight'
           \/ Committing(s) /\ inFlight' = inFlight \ {op[s].commitId}
<1>1. CASE Client(s)
  BY <1>1 DEF Client, Begin, BeginTransaction, ReleaseReadOnly, Abort, Insert, Scan, IndexScan, ScanReply,
         EmptyStatement, DeleteRows, UpdateRows, UpdateFailed, StatementFailed, CommitDrain, Commit,
         CommitEmpty, IndexCommitFailed, RollbackDrain, tmVars
<1>2. CASE Pipeline(s)
  BY <1>2 DEF Pipeline, StatementOk, CommitDrain, Commit, CommitEmpty, Abort, StampAppends,
         StampDeletes, PublishCommit, Publish, MaybeCleanup, RollbackDeletes, tmVars, Committing
<1> QED BY <1>1, <1>2

\* What a message does to the chain it belongs to.
OwnStep(s) ==
    /\ pc'[s] \in PC /\ op'[s] \in Op
    /\ ChainOK(s)'
    /\ Busy(s)' => \/ Busy(s) /\ op'[s].txnId = op[s].txnId
                   \/ op'[s].txnId = TxnIdStart + nextTxnId
    /\ Committing(s)' => \/ Committing(s) /\ op'[s].commitId = op[s].commitId
                         \/ op'[s].commitId = currentTs

\* The watermark a publish returns is in the range of the clock.
LEMMA WatermarkRange == IInv => CompactWatermark \in 0 .. MaxTs
<1> SUFFICES ASSUME IInv PROVE CompactWatermark \in 0 .. MaxTs
  OBVIOUS
<1>1. WatermarkLeast BY WatermarkIsLeast
<1>2. horizon \in WatermarkBounds BY BoundsMembers
<1>3. horizon \in Nat /\ horizon < currentTs /\ currentTs \in 1 .. MaxTs
  BY DEF IInv, TypeOK, ClockAboveHorizon
<1> QED BY <1>1, <1>2, <1>3, MaxTsAssumption DEF WatermarkLeast

\* What a DELETE or UPDATE does to the values of its chain.
MarksDone(p, o) ==
    \/ p = [o EXCEPT !.ids = {}, !.hits = 0]
    \/ p = [o EXCEPT !.ids = {}, !.hits = 0, !.stmtDel = TRUE]
    \/ \E new \in SUBSET (1 .. MaxRows) :
          p = [o EXCEPT !.ids = {}, !.hits = 0, !.stmtDel = TRUE, !.stmtApp = new]

\* It leaves them well typed, with the ids of the transaction.
LEMMA MarksDoneOp ==
    ASSUME NEW o \in Op, NEW p, MarksDone(p, o)
    PROVE  p \in Op /\ p.txnId = o.txnId /\ p.commitId = o.commitId
<1>1. CASE p = [o EXCEPT !.ids = {}, !.hits = 0] BY <1>1 DEF Op
<1>2. CASE p = [o EXCEPT !.ids = {}, !.hits = 0, !.stmtDel = TRUE] BY <1>2 DEF Op
<1>3. ASSUME NEW new \in SUBSET (1 .. MaxRows),
             p = [o EXCEPT !.ids = {}, !.hits = 0, !.stmtDel = TRUE, !.stmtApp = new]
      PROVE  p \in Op /\ p.txnId = o.txnId /\ p.commitId = o.commitId
  BY <1>3 DEF Op
<1> QED BY <1>1, <1>2, <1>3 DEF MarksDone

\* Every message leaves its own chain well formed, with its ids or with fresh ones.
LEMMA OwnSteps ==
    ASSUME TableInv, IInv', NEW s \in Session, Client(s) \/ Pipeline(s)
    PROVE  OwnStep(s)
<1> USE MaxTsAssumption, StampAssumption, TableAssumption
<1>a. NoOp \in Op
  BY DEF NoOp, Op
<1>b. rows \in Seq(Row) /\ Len(rows) \in Nat /\ Len(rows) <= MaxRows /\ DOMAIN rows = 1 .. Len(rows)
  BY LenProperties DEF TableInv, HeapOK
<1>t. /\ pc \in [Session -> PC] /\ op \in [Session -> Op] /\ op[s] \in Op
      /\ ChainOK(s)
      /\ nextTxnId \in Nat /\ currentTs \in 1 .. MaxTs
      /\ active \in [Session -> Txn \cup {NoTxn}]
  BY DEF TableInv, ChainTypes, ChainsOK, IInv, TypeOK
<1> USE <1>t DEF OwnStep, ChainOK, Busy, Committing, PC, Pending, IsActive
<1>1. ASSUME NEW e \in BOOLEAN, Begin(s, e) PROVE OwnStep(s)
  <2>1. op'[s] = [NoOp EXCEPT !.explicit = e, !.txnId = TxnIdStart + nextTxnId]
    BY <1>1 DEF Begin
  <2>2. op'[s] \in Op /\ op'[s].txnId = TxnIdStart + nextTxnId
    <3>1. TxnIdStart + nextTxnId \in Nat OBVIOUS
    <3> QED BY ONLY <1>a, <2>1, <3>1, <1>1 DEF Op
  <2> QED BY <1>1, <2>2 DEF Begin, BeginTransaction, Txn, NoTxn
<1>2. CASE ReleaseReadOnly(s) \/ StatementFailed(s) \/ CommitEmpty(s)
  BY <1>a, <1>2 DEF ReleaseReadOnly, StatementFailed, CommitEmpty, Abort, NoTxn
<1>3. CASE Insert(s)
  <2>1. op' = [op EXCEPT ![s].stmtApp = {Len(rows) + 1}] /\ Len(rows) < MaxRows
    BY <1>3 DEF Insert
  <2>2. op'[s] = [op[s] EXCEPT !.stmtApp = {Len(rows) + 1}]
    BY ONLY <2>1, <1>t
  <2>3. {Len(rows) + 1} \in SUBSET (1 .. MaxRows)
    BY <1>b, <2>1
  <2>4. op'[s] \in Op /\ op'[s].txnId = op[s].txnId /\ op'[s].commitId = op[s].commitId
    BY ONLY <1>t, <2>2, <2>3 DEF Op
  <2> QED BY <1>3, <2>4 DEF Insert, tmVars
<1>4. CASE Reads(s)
  <2>1. PICK m \in SUBSET (1 .. MaxRows), h \in Nat : ScanReply(s, m, h) BY <1>4, ReadsReply
  <2>2. op'[s] = [op[s] EXCEPT !.ids = m, !.hits = h] BY <2>1 DEF ScanReply
  <2>3. op'[s] \in Op /\ op'[s].txnId = op[s].txnId /\ op'[s].commitId = op[s].commitId
    BY ONLY <1>t, <2>1, <2>2 DEF Op
  <2> QED BY <2>1, <2>3 DEF ScanReply, tmVars
<1>5. CASE EmptyStatement(s)
  BY <1>5 DEF EmptyStatement, tmVars
<1>6. CASE DeleteRows(s) \/ UpdateFailed(s)
  <2>1. op'[s] \in {[op[s] EXCEPT !.ids = {}, !.hits = 0, !.stmtDel = TRUE], [op[s] EXCEPT !.ids = {}, !.hits = 0]}
    BY <1>6 DEF DeleteRows, UpdateFailed
  <2>2. op'[s] \in Op /\ op'[s].txnId = op[s].txnId /\ op'[s].commitId = op[s].commitId
    <3>1. op[s] \in Op BY <1>t
    <3>2. MarksDone(op'[s], op[s]) BY ONLY <2>1 DEF MarksDone
    <3> QED BY ONLY <3>1, <3>2, MarksDoneOp
  <2> QED BY <1>6, <2>2 DEF DeleteRows, UpdateFailed, tmVars
<1>7. CASE UpdateRows(s)
  <2> DEFINE n == op[s].hits
  <2>1. /\ op'[s] = [op[s] EXCEPT !.ids = {}, !.hits = 0, !.stmtDel = TRUE,
                                  !.stmtApp = Len(rows) + 1 .. Len(rows) + n]
        /\ Len(rows) + n <= MaxRows
    BY <1>7 DEF UpdateRows
  <2>2. n \in Nat BY <1>t DEF Op
  <2> HIDE DEF n
  <2>3. Len(rows) + 1 .. Len(rows) + n \in SUBSET (1 .. MaxRows)
    BY <1>b, <2>1, <2>2
  <2>4. op'[s] \in Op /\ op'[s].txnId = op[s].txnId /\ op'[s].commitId = op[s].commitId
    <3>1. op[s] \in Op BY <1>t
    <3> DEFINE R == Len(rows) + 1 .. Len(rows) + n
    <3>2. op'[s] = [op[s] EXCEPT !.ids = {}, !.hits = 0, !.stmtDel = TRUE, !.stmtApp = R]
      BY <2>1
    <3>3. R \in SUBSET (1 .. MaxRows) BY <2>3
    <3> HIDE DEF R
    <3>4. MarksDone(op'[s], op[s]) BY ONLY <3>2, <3>3 DEF MarksDone
    <3> QED BY ONLY <3>1, <3>4, MarksDoneOp
  <2> QED BY <1>7, <2>4 DEF UpdateRows, tmVars
<1>8. CASE CommitDrain(s)
  <2>1. op'[s] = [op[s] EXCEPT !.commitId = currentTs]
    BY <1>8 DEF CommitDrain
  <2>2. op'[s] \in Op /\ op'[s].txnId = op[s].txnId /\ op'[s].commitId = currentTs
    BY <2>1 DEF Op
  <2> QED BY <1>8, <2>2 DEF CommitDrain, AtCommit, Commit, NoTxn
<1>9. CASE IndexCommitFailed(s)
  BY <1>a, <1>9 DEF IndexCommitFailed, tmVars
<1>10. CASE RollbackDrain(s)
  BY <1>10 DEF RollbackDrain, Abort, NoTxn
<1>11. CASE StatementOk(s)
  BY <1>11 DEF StatementOk, Op, tmVars
<1>12. CASE StampAppends(s) \/ StampDeletes(s)
  BY <1>12 DEF StampAppends, StampDeletes, tmVars
<1>13. CASE PublishCommit(s)
  <2>1. (CompactWatermark \in 0 .. MaxTs)' BY WatermarkRange, PTL
  <2>2. \/ op'[s] = [NoOp EXCEPT !.watermark = CompactWatermark'] /\ pc'[s] = "cleanup"
        \/ op'[s] = NoOp /\ pc'[s] = "idle"
    BY <1>13 DEF PublishCommit
  <2>3. op'[s] \in Op /\ (pc'[s] = "cleanup" => op'[s].watermark = CompactWatermark')
    BY <1>a, <2>1, <2>2 DEF NoOp, Op
  <2>4. ~IsActive(s)' BY <1>13 DEF PublishCommit, Publish
  <2> QED BY <2>1, <2>2, <2>3, <2>4
<1>14. CASE MaybeCleanup(s) \/ RollbackDeletes(s)
  BY <1>a, <1>14 DEF MaybeCleanup, RollbackDeletes, tmVars
<1> QED
  BY ONLY <1>1, <1>2, <1>3, <1>4, <1>5, <1>6, <1>7, <1>8, <1>9, <1>10, <1>11, <1>12, <1>13, <1>14,
          s \in Session, Client(s) \/ Pipeline(s), MessageKinds

\* The ids given out stay given out.
LEMMA PendingGrows ==
    ASSUME nextTxnId \in Nat, nextTxnId' \in Nat, nextTxnId' >= nextTxnId, NEW x \in Pending
    PROVE  x \in Pending' /\ x \in Nat /\ x >= TxnIdStart /\ x < TxnIdStart + nextTxnId
<1>1. ASSUME NEW a \in Nat, NEW m \in Nat, NEW n \in Nat, n >= m, NEW y \in a .. a + m - 1
      PROVE  y \in a .. a + n - 1 /\ y \in Nat /\ y >= a /\ y < a + m
  BY <1>1
<1>2. TxnIdStart \in Nat BY StampAssumption
<1>3. /\ x \in TxnIdStart .. TxnIdStart + nextTxnId' - 1 /\ x \in Nat
      /\ x >= TxnIdStart /\ x < TxnIdStart + nextTxnId
  BY <1>1, <1>2 DEF Pending
<1> QED BY <1>3 DEF Pending

\* Every message keeps the chains well formed and their ids apart.
LEMMA ChainsStep ==
    ASSUME TableInv, IInv', NEW s \in Session, Client(s) \/ Pipeline(s)
    PROVE  ChainTypes' /\ ChainsOK' /\ IdsApart'
<1> USE MaxTsAssumption, StampAssumption, TableAssumption
<1>1. OwnStep(s) BY OwnSteps
<1>2. /\ pc' = [pc EXCEPT ![s] = pc'[s]] /\ op' = [op EXCEPT ![s] = op'[s]]
      /\ \A t \in Session \ {s} : pc'[t] = pc[t] /\ op'[t] = op[t] /\ active'[t] = active[t]
  BY OthersKept
<1>3. pc \in [Session -> PC] /\ op \in [Session -> Op] /\ IInv /\ ChainsOK /\ IdsApart
  BY DEF TableInv, ChainTypes
<1>4. [Next]_tmVars BY ManagerStep
<1>5. nextTxnId \in Nat /\ nextTxnId' \in Nat /\ nextTxnId' >= nextTxnId
  BY <1>3, <1>4, ClockStep DEF IInv, TypeOK
<1>6. CompactWatermark \in Nat /\ CompactWatermark' \in Nat /\ CompactWatermark <= CompactWatermark'
  <2>1. CompactWatermark \in 0 .. MaxTs BY <1>3, WatermarkRange
  <2>2. (CompactWatermark \in 0 .. MaxTs)' BY WatermarkRange, PTL
  <2>3. CompactWatermark <= CompactWatermark' BY <1>3, <1>4, WatermarkStep
  <2> QED BY <2>1, <2>2, <2>3
<1>7. ChainTypes'
  BY <1>1, <1>2, <1>3 DEF OwnStep, ChainTypes
<1>8. ASSUME NEW t \in Session \ {s} PROVE ChainOK(t)'
  <2>1. ChainOK(t) BY <1>3 DEF ChainsOK
  <2>2. Committing(t) => op[t].commitId \in inFlight'
    BY <1>3, <2>1, OwnPublish DEF IdsApart, ChainOK
  <2>3. \A x \in Pending : x \in Pending'
    BY <1>5, PendingGrows
  <2>4. pc[t] = "cleanup" => op[t].watermark <= CompactWatermark'
    BY <1>3, <1>6, <2>1 DEF ChainOK, Op
  <2> QED BY <1>2, <2>1, <2>2, <2>3, <2>4 DEF ChainOK, IsActive, Busy, Committing
<1>9. ChainsOK' BY <1>1, <1>8 DEF ChainsOK, OwnStep
<1>10. ASSUME NEW t \in Session \ {s}
       PROVE  /\ Busy(s)' /\ Busy(t)' => op'[s].txnId # op'[t].txnId
              /\ Committing(s)' /\ Committing(t)' => op'[s].commitId # op'[t].commitId
  <2>1. ChainOK(t) BY <1>3 DEF ChainsOK
  <2>2. Busy(t) => op[t].txnId # TxnIdStart + nextTxnId
    BY <1>5, <2>1 DEF ChainOK, Pending
  <2>3. Committing(t) => op[t].commitId # currentTs
    BY <1>3, <2>1 DEF ChainOK, IInv, InFlightBelowClock, TypeOK
  <2> QED BY <1>1, <1>2, <1>3, <2>2, <2>3 DEF OwnStep, IdsApart, Busy, Committing
<1>11. IdsApart' BY <1>2, <1>3, <1>10 DEF IdsApart, Busy, Committing
<1> QED BY <1>7, <1>9, <1>11

-----------------------------------------------------------------------------
(* What a message does to the heap.                                        *)

\* Pending inserts keep their place until their own commit stamps them.
InsertsKept(s) ==
    \A i \in DOMAIN rows : rows[i].ins >= TxnIdStart =>
        /\ i \in DOMAIN rows'
        /\ \/ rows'[i].ins = rows[i].ins
           \/ pc[s] = "drained" /\ pc'[s] = "deletes" /\ rows[i].ins = op[s].txnId

\* The ranges a chain has parked are its old ones and rows it has just appended.
OwnRanges(s) ==
    IsActive(s)' \/ pc'[s] = "drained" =>
        \A i \in op'[s].app \cup op'[s].stmtApp :
            \/ IsActive(s) /\ op'[s].txnId = op[s].txnId /\ i \in op[s].app \cup op[s].stmtApp
            \/ i \in DOMAIN rows' /\ rows'[i].ins = op'[s].txnId

HeapStep(s) == HeapOK' /\ InsertsKept(s) /\ OwnRanges(s)

\* A row that was well stamped still is after a step that leaves it alone.
LEMMA RowOKGrows ==
    ASSUME TableInv, [Next]_tmVars, nextKey' \in Nat, nextKey' >= nextKey,
           NEW r \in Row, RowOK(r)
    PROVE  RowOK(r)'
<1>1. /\ nextTxnId \in Nat /\ nextTxnId' \in Nat /\ nextTxnId' >= nextTxnId
      /\ currentTs \in Nat /\ currentTs' \in Nat /\ currentTs' >= currentTs
  BY ClockStep DEF TableInv, IInv, TypeOK
<1>2. ASSUME NEW id \in Nat, StampOK(id) PROVE StampOK(id)'
  BY <1>1, <1>2, PendingGrows DEF StampOK
<1>3. r.ins \in Nat /\ r.del \in Nat /\ r.key \in Nat BY DEF Row
<1>4. r.key \in 1 .. nextKey' - 1 BY <1>3 DEF RowOK, TableInv, HeapOK
<1> QED BY <1>2, <1>3, <1>4 DEF RowOK

\* Messages that leave the heap alone.
LEMMA HeapUntouched ==
    ASSUME TableInv, [Next]_tmVars, UNCHANGED <<rows, nextKey>>, NEW s \in Session
    PROVE  HeapOK' /\ InsertsKept(s)
<1>1. \A i \in DOMAIN rows : rows[i] \in Row /\ RowOK(rows[i])
  BY LenProperties DEF TableInv, HeapOK
<1>2. nextKey' \in Nat /\ nextKey' >= nextKey BY DEF TableInv, HeapOK
<1>3. \A i \in DOMAIN rows : RowOK(rows[i])' BY <1>1, <1>2, RowOKGrows
<1> QED BY <1>1, <1>3 DEF HeapOK, InsertsKept, TableInv

\* The stamps a chain writes are good ones.
LEMMA ChainStamps ==
    ASSUME TableInv, NEW s \in Session
    PROVE  /\ Busy(s) => op[s].txnId \in Nat /\ StampOK(op[s].txnId) /\ op[s].txnId >= TxnIdStart
                         /\ op[s].txnId < NotDeleted
           /\ Committing(s) => op[s].commitId \in Nat /\ StampOK(op[s].commitId)
                               /\ op[s].commitId < TxnIdStart
<1> USE StampAssumption, TableAssumption, MaxTsAssumption
<1>1. op[s] \in Op /\ ChainOK(s) /\ IInv /\ nextTxnId \in Nat /\ nextTxnId < currentTs
      /\ currentTs \in 1 .. MaxTs
  BY DEF TableInv, ChainTypes, ChainsOK, IInv, TypeOK, IdsBelowClock
<1>2. ASSUME NEW x \in Pending PROVE x \in Nat /\ x >= TxnIdStart /\ x < NotDeleted
  BY <1>1 DEF Pending
<1>3. ASSUME NEW c \in inFlight PROVE c \in Nat /\ c < currentTs /\ c < TxnIdStart
  BY <1>1 DEF IInv, InFlightBelowClock, TypeOK
<1> QED BY <1>1, <1>2, <1>3 DEF ChainOK, StampOK

\* MarkDeleted, as DELETE and UPDATE use it, keeps the heap well stamped.
LEMMA MarksOK ==
    ASSUME TableInv, NEW s \in Session, Busy(s), NEW P
    PROVE  LET g == MarkDeleted(rows, P, op[s].txnId) IN
           /\ g \in Seq(Row) /\ Len(g) = Len(rows) /\ DOMAIN g = DOMAIN rows
           /\ \A i \in DOMAIN rows : g[i] \in Row /\ RowOK(g[i]) /\ g[i].ins = rows[i].ins
<1> DEFINE g == MarkDeleted(rows, P, op[s].txnId)
<1>1. op[s].txnId \in Nat /\ StampOK(op[s].txnId) BY ChainStamps
<1>2. rows \in Seq(Row) /\ \A i \in DOMAIN rows : rows[i] \in Row /\ RowOK(rows[i])
  BY LenProperties DEF TableInv, HeapOK
<1>3. g \in Seq(Row) /\ Len(g) = Len(rows) BY <1>1, <1>2, StampedRows
<1>4. DOMAIN g = DOMAIN rows BY DEF MarkDeleted
<1>5. ASSUME NEW i \in DOMAIN rows
      PROVE  g[i] \in Row /\ RowOK(g[i]) /\ g[i].ins = rows[i].ins
  BY <1>1, <1>2 DEF MarkDeleted, RowOK, Row
<1> QED BY <1>3, <1>4, <1>5

\* RestampDeletes with a good stamp or with "not deleted" keeps the heap well stamped.
LEMMA RestampOK ==
    ASSUME TableInv, NEW from \in Nat, NEW id \in Nat, StampOK(id) \/ id = NotDeleted
    PROVE  LET g == RestampDeletes(rows, from, id) IN
           /\ g \in Seq(Row) /\ Len(g) = Len(rows) /\ DOMAIN g = DOMAIN rows
           /\ \A i \in DOMAIN rows : g[i] \in Row /\ RowOK(g[i]) /\ g[i].ins = rows[i].ins
<1> DEFINE g == RestampDeletes(rows, from, id)
<1>1. rows \in Seq(Row) /\ \A i \in DOMAIN rows : rows[i] \in Row /\ RowOK(rows[i])
  BY LenProperties DEF TableInv, HeapOK
<1>2. g \in Seq(Row) /\ Len(g) = Len(rows) BY <1>1, RestampedRows
<1>3. DOMAIN g = DOMAIN rows BY DEF RestampDeletes
<1>4. ASSUME NEW i \in DOMAIN rows
      PROVE  g[i] \in Row /\ RowOK(g[i]) /\ g[i].ins = rows[i].ins
  BY <1>1 DEF RestampDeletes, RowOK, Row
<1> QED BY <1>2, <1>3, <1>4

\* Appending pending rows with fresh keys to a well stamped heap.
LEMMA AppendOK ==
    ASSUME TableInv, NEW s \in Session, Busy(s), NEW g \in Seq(Row), NEW keys \in Seq(Nat),
           nextKey' = nextKey + Len(keys),
           \A i \in DOMAIN g : RowOK(g[i]),
           \A k \in 1 .. Len(keys) : keys[k] \in nextKey .. nextKey + Len(keys) - 1,
           rows' = AppendRows(g, keys, op[s].txnId), Len(g) + Len(keys) <= MaxRows,
           [Next]_tmVars
    PROVE  /\ HeapOK'
           /\ DOMAIN rows' = 1 .. Len(g) + Len(keys)
           /\ \A i \in DOMAIN g : i \in DOMAIN rows' /\ rows'[i] = g[i]
           /\ \A i \in Len(g) + 1 .. Len(g) + Len(keys) : rows'[i].ins = op[s].txnId
<1> USE StampAssumption, TableAssumption, MaxTsAssumption
<1>1. op[s].txnId \in Nat /\ StampOK(op[s].txnId) BY ChainStamps
<1>2. /\ Len(g) \in Nat /\ DOMAIN g = 1 .. Len(g) /\ Len(keys) \in Nat
      /\ nextKey \in Nat \ {0}
      /\ \A i \in DOMAIN g : g[i] \in Row
  BY LenProperties DEF TableInv, HeapOK
<1>3. /\ rows' \in Seq(Row)
      /\ Len(rows') = Len(g) + Len(keys)
      /\ \A i \in 1 .. Len(g) : rows'[i] = g[i]
      /\ \A i \in Len(g) + 1 .. Len(g) + Len(keys) :
            rows'[i] = [key |-> keys[i - Len(g)], ins |-> op[s].txnId, del |-> NotDeleted]
  <2> DEFINE id == op[s].txnId
  <2>1. /\ AppendRows(g, keys, id) \in Seq(Row)
        /\ Len(AppendRows(g, keys, id)) = Len(g) + Len(keys)
        /\ \A i \in 1 .. Len(g) : AppendRows(g, keys, id)[i] = g[i]
        /\ \A i \in Len(g) + 1 .. Len(g) + Len(keys) :
              AppendRows(g, keys, id)[i]
                = [key |-> keys[i - Len(g)], ins |-> id, del |-> NotDeleted]
    BY <1>1, AppendedRows, Zenon
  <2>2. rows' = AppendRows(g, keys, id) OBVIOUS
  <2> QED BY ONLY <2>1, <2>2, Zenon
<1>4. DOMAIN rows' = 1 .. Len(g) + Len(keys) BY <1>3, LenProperties
<1>5. nextKey' \in Nat \ {0} /\ nextKey' >= nextKey BY <1>2
<1>6. \A i \in DOMAIN g : i \in DOMAIN rows' /\ rows'[i] = g[i]
  BY <1>2, <1>3, <1>4
<1>7. ASSUME NEW r \in Row, RowOK(r) PROVE RowOK(r)'
  BY <1>5, <1>7, RowOKGrows
<1>8. StampOK(op[s].txnId) => \A id \in Nat : id = op[s].txnId => StampOK(id)'
  <2>1. /\ nextTxnId \in Nat /\ nextTxnId' \in Nat /\ nextTxnId' >= nextTxnId
        /\ currentTs \in Nat /\ currentTs' \in Nat /\ currentTs' >= currentTs
    BY ClockStep DEF TableInv, IInv, TypeOK
  <2> QED BY <2>1, PendingGrows DEF StampOK
<1>9. ASSUME NEW i \in DOMAIN rows' PROVE RowOK(rows[i])'
  <2>1. CASE i \in 1 .. Len(g) BY <1>2, <1>3, <1>7, <2>1 DEF RowOK
  <2>2. CASE i \in Len(g) + 1 .. Len(g) + Len(keys)
    <3>1. i - Len(g) \in 1 .. Len(keys) BY <1>2, <2>2
    <3>2. keys[i - Len(g)] \in 1 .. nextKey' - 1 BY <1>2, <1>5, <3>1
    <3>3. /\ rows'[i].key = keys[i - Len(g)]
          /\ rows'[i].ins = op[s].txnId
          /\ rows'[i].del = NotDeleted
      <4>1. rows'[i] = [key |-> keys[i - Len(g)], ins |-> op[s].txnId, del |-> NotDeleted]
        BY ONLY <1>3, <2>2, Zenon
      <4> QED BY ONLY <4>1
    <3>4. \A id \in Nat : id = op[s].txnId => StampOK(id)'
      BY <1>1, <1>8
    <3>5. StampOK(rows[i].ins)'
      BY <1>1, <3>3, <3>4 DEF StampOK
    <3> QED BY <3>2, <3>3, <3>5 DEF RowOK
  <2> QED BY <1>2, <1>4, <2>1, <2>2
<1>10. ASSUME NEW i \in Len(g) + 1 .. Len(g) + Len(keys) PROVE rows'[i].ins = op[s].txnId
  <2>1. rows'[i] = [key |-> keys[i - Len(g)], ins |-> op[s].txnId, del |-> NotDeleted]
    BY ONLY <1>3, Zenon
  <2> QED BY ONLY <2>1
<1>11. Len(rows') <= MaxRows BY <1>3
<1> QED BY <1>3, <1>4, <1>5, <1>6, <1>9, <1>10, <1>11 DEF HeapOK

\* A heap of the same length whose inserts are the old ones.
LEMMA SameInserts ==
    ASSUME TableInv, [Next]_tmVars, NEW s \in Session, UNCHANGED nextKey,
           rows' \in Seq(Row), Len(rows') = Len(rows), DOMAIN rows' = DOMAIN rows,
           \A i \in DOMAIN rows : /\ rows'[i] \in Row /\ RowOK(rows'[i])
                                  /\ rows'[i].ins = rows[i].ins
    PROVE  HeapOK' /\ InsertsKept(s)
<1>1. nextKey \in Nat \ {0} /\ nextKey' \in Nat \ {0} /\ nextKey' >= nextKey /\ Len(rows) <= MaxRows
  BY DEF TableInv, HeapOK
<1>2. ASSUME NEW r \in Row, RowOK(r) PROVE RowOK(r)'
  BY <1>1, <1>2, RowOKGrows
<1>3. \A i \in DOMAIN rows' : RowOK(rows[i])'
  BY <1>2 DEF RowOK
<1> QED BY <1>1, <1>3 DEF HeapOK, InsertsKept

\* Every message keeps the heap well stamped, and pending inserts where they are.
LEMMA HeapSteps ==
    ASSUME TableInv, IInv', NEW s \in Session, Client(s) \/ Pipeline(s)
    PROVE  HeapStep(s)
<1> USE StampAssumption, TableAssumption, MaxTsAssumption
<1>n. [Next]_tmVars BY ManagerStep
<1>t. /\ pc \in [Session -> PC] /\ op \in [Session -> Op] /\ op[s] \in Op /\ ChainOK(s)
      /\ active \in [Session -> Txn \cup {NoTxn}]
      /\ rows \in Seq(Row) /\ Len(rows) \in Nat /\ Len(rows) <= MaxRows
      /\ DOMAIN rows = 1 .. Len(rows) /\ nextKey \in Nat \ {0}
      /\ \A i \in DOMAIN rows : rows[i] \in Row /\ RowOK(rows[i])
  BY LenProperties DEF TableInv, ChainTypes, ChainsOK, IInv, TypeOK, HeapOK
<1>u. UNCHANGED <<rows, nextKey>> => HeapOK' /\ InsertsKept(s)
  BY <1>n, HeapUntouched
<1> USE <1>t DEF HeapStep, IsActive
<1>1. ASSUME NEW e \in BOOLEAN, Begin(s, e) PROVE HeapStep(s)
  <2>1. op'[s].app = {} /\ op'[s].stmtApp = {} BY <1>1 DEF Begin, NoOp
  <2> QED BY <1>1, <1>u, <2>1 DEF Begin, OwnRanges
<1>2. CASE ReleaseReadOnly(s) \/ StatementFailed(s) \/ CommitEmpty(s) \/ RollbackDrain(s)
  BY <1>2, <1>u DEF ReleaseReadOnly, StatementFailed, CommitEmpty, RollbackDrain, Abort, NoTxn,
                    OwnRanges
<1>3. CASE IndexCommitFailed(s) \/ PublishCommit(s)
  BY <1>3, <1>u DEF IndexCommitFailed, PublishCommit, Publish, tmVars, ChainOK, OwnRanges
<1>4. ASSUME NEW m, NEW h, ScanReply(s, m, h) PROVE HeapStep(s)
  <2>1. op'[s] = [op[s] EXCEPT !.ids = m, !.hits = h] BY <1>4 DEF ScanReply
  <2>2. op'[s].app = op[s].app /\ op'[s].stmtApp = op[s].stmtApp /\ op'[s].txnId = op[s].txnId
    BY ONLY <1>t, <2>1 DEF Op
  <2> QED BY <1>4, <1>u, <2>2 DEF ScanReply, tmVars, OwnRanges
<1>5. CASE EmptyStatement(s)
  BY <1>5, <1>u DEF EmptyStatement, tmVars, OwnRanges
<1>6. CASE CommitDrain(s)
  <2>1. op'[s] = [op[s] EXCEPT !.commitId = currentTs] BY <1>6 DEF CommitDrain
  <2>2. op'[s].app = op[s].app /\ op'[s].stmtApp = op[s].stmtApp /\ op'[s].txnId = op[s].txnId
    BY ONLY <1>t, <2>1 DEF Op
  <2> QED BY <1>6, <1>u, <2>2 DEF CommitDrain, Commit, OwnRanges
<1>7. CASE StatementOk(s)
  <2>1. op' = [op EXCEPT ![s].app = @ \cup op[s].stmtApp, ![s].del = @ \/ op[s].stmtDel,
                        ![s].stmtApp = {}, ![s].stmtDel = FALSE]
    BY <1>7 DEF StatementOk
  <2>2. /\ op'[s].app = op[s].app \cup op[s].stmtApp /\ op'[s].stmtApp = {}
        /\ op'[s].txnId = op[s].txnId
    BY ONLY <1>t, <2>1 DEF Op
  <2>3. IsActive(s) BY <1>7 DEF StatementOk, ChainOK
  <2> QED BY <1>7, <1>u, <2>2, <2>3 DEF StatementOk, tmVars, OwnRanges
<1>8. CASE Insert(s)
  <2>1. Busy(s) BY <1>8 DEF Insert, Busy
  <2>2. <<nextKey>> \in Seq(Nat) /\ Len(<<nextKey>>) = 1 /\ <<nextKey>>[1] = nextKey
    OBVIOUS
  <2>3. /\ rows' = AppendRows(rows, <<nextKey>>, op[s].txnId)
        /\ nextKey' = nextKey + 1 /\ Len(rows) + 1 <= MaxRows
    BY <1>8 DEF Insert
  <2>4. \A k \in 1 .. Len(<<nextKey>>) :
           <<nextKey>>[k] \in nextKey .. nextKey + Len(<<nextKey>>) - 1
    BY <2>2
  <2>5. /\ HeapOK' /\ DOMAIN rows' = 1 .. Len(rows) + 1
        /\ \A i \in DOMAIN rows : i \in DOMAIN rows' /\ rows'[i] = rows[i]
        /\ \A i \in Len(rows) + 1 .. Len(rows) + 1 : rows'[i].ins = op[s].txnId
    <3> DEFINE keys == <<nextKey>>
    <3>1. keys \in Seq(Nat) /\ Len(keys) = 1 BY <2>2
    <3>2. /\ \A k \in 1 .. Len(keys) : keys[k] \in nextKey .. nextKey + Len(keys) - 1
          /\ rows' = AppendRows(rows, keys, op[s].txnId)
      BY <2>3, <2>4
    <3> HIDE DEF keys
    <3>3. nextKey' = nextKey + Len(keys) /\ Len(rows) + Len(keys) <= MaxRows BY <2>3, <3>1
    <3>4. /\ HeapOK' /\ DOMAIN rows' = 1 .. Len(rows) + Len(keys)
          /\ \A i \in DOMAIN rows : i \in DOMAIN rows' /\ rows'[i] = rows[i]
          /\ \A i \in Len(rows) + 1 .. Len(rows) + Len(keys) : rows'[i].ins = op[s].txnId
      <4>1. rows \in Seq(Row) /\ \A i \in DOMAIN rows : RowOK(rows[i]) OBVIOUS
      <4> QED BY ONLY TableInv, s \in Session, <1>n, <2>1, <3>1, <3>2, <3>3, <4>1, AppendOK, ZenonT(60)
    <3> QED BY <3>1, <3>4
  <2>6. op' = [op EXCEPT ![s].stmtApp = {Len(rows) + 1}] BY <1>8 DEF Insert
  <2>7. /\ op'[s].app = op[s].app /\ op'[s].stmtApp = {Len(rows) + 1}
        /\ op'[s].txnId = op[s].txnId
    BY ONLY <1>t, <2>6 DEF Op
  <2>8. IsActive(s) BY <1>8 DEF Insert, ChainOK
  <2> QED BY <2>5, <2>7, <2>8 DEF InsertsKept, OwnRanges
<1>9. CASE DeleteRows(s) \/ UpdateFailed(s)
  <2>1. Busy(s) /\ IsActive(s) BY <1>9 DEF DeleteRows, UpdateFailed, Busy, ChainOK
  <2>2. rows' = MarkDeleted(rows, op[s].ids, op[s].txnId) /\ UNCHANGED nextKey
    BY <1>9 DEF DeleteRows, UpdateFailed
  <2>3. /\ rows' \in Seq(Row) /\ Len(rows') = Len(rows) /\ DOMAIN rows' = DOMAIN rows
        /\ \A i \in DOMAIN rows : rows'[i] \in Row /\ RowOK(rows'[i]) /\ rows'[i].ins = rows[i].ins
    BY <2>1, <2>2, MarksOK
  <2>4. HeapOK' /\ InsertsKept(s) BY <1>n, <2>2, <2>3, SameInserts
  <2>5. \/ op' = [op EXCEPT ![s].ids = {}, ![s].hits = 0, ![s].stmtDel = TRUE]
        \/ op' = [op EXCEPT ![s].ids = {}, ![s].hits = 0]
    BY <1>9 DEF DeleteRows, UpdateFailed
  <2>6. op'[s].app = op[s].app /\ op'[s].stmtApp = op[s].stmtApp /\ op'[s].txnId = op[s].txnId
    BY ONLY <1>t, <2>5 DEF Op
  <2> QED BY <2>1, <2>4, <2>6 DEF OwnRanges
<1>10. CASE UpdateRows(s)
  <2> DEFINE n == op[s].hits
             g == MarkDeleted(rows, op[s].ids, op[s].txnId)
             keys == [i \in 1 .. n |-> nextKey + i - 1]
  <2>1. Busy(s) /\ IsActive(s) BY <1>10 DEF UpdateRows, Busy, ChainOK
  <2>2. n \in Nat BY <1>t DEF Op
  <2>3. /\ rows' = AppendRows(g, keys, op[s].txnId) /\ nextKey' = nextKey + n
        /\ Len(rows) + n <= MaxRows
        /\ op' = [op EXCEPT ![s].ids = {}, ![s].hits = 0, ![s].stmtDel = TRUE,
                            ![s].stmtApp = Len(rows) + 1 .. Len(rows) + n]
    BY <1>10 DEF UpdateRows
  <2>4. /\ g \in Seq(Row) /\ Len(g) = Len(rows) /\ DOMAIN g = DOMAIN rows
        /\ \A i \in DOMAIN rows : g[i] \in Row /\ RowOK(g[i]) /\ g[i].ins = rows[i].ins
    BY <2>1, MarksOK
  <2> HIDE DEF n, g
  <2>5. keys \in Seq(Nat) /\ Len(keys) = n
    <3>1. keys \in [1 .. n -> Nat] BY <2>2
    <3>2. keys \in Seq(Nat) BY <2>2, <3>1, SeqDef
    <3> QED BY <2>2, <3>1, <3>2, LenProperties
  <2>6. \A k \in 1 .. Len(keys) : keys[k] \in nextKey .. nextKey + Len(keys) - 1
    BY <2>2, <2>5
  <2> HIDE DEF keys
  <2>7. nextKey' = nextKey + Len(keys) /\ Len(g) + Len(keys) <= MaxRows
        /\ \A i \in DOMAIN g : RowOK(g[i])
    BY <2>3, <2>4, <2>5
  <2>8. /\ HeapOK' /\ DOMAIN rows' = 1 .. Len(g) + Len(keys)
        /\ \A i \in DOMAIN g : i \in DOMAIN rows' /\ rows'[i] = g[i]
        /\ \A i \in Len(g) + 1 .. Len(g) + Len(keys) : rows'[i].ins = op[s].txnId
    BY ONLY TableInv, s \in Session, <1>n, <2>1, <2>3, <2>4, <2>5, <2>6, <2>7, AppendOK, ZenonT(60)
  <2>9. /\ op'[s].app = op[s].app /\ op'[s].stmtApp = Len(rows) + 1 .. Len(rows) + n
        /\ op'[s].txnId = op[s].txnId
    BY ONLY <1>t, <2>3 DEF Op
  <2>10. \A i \in Len(rows) + 1 .. Len(rows) + n : i \in DOMAIN rows' /\ rows'[i].ins = op[s].txnId
    BY <2>2, <2>4, <2>5, <2>8
  <2>11. InsertsKept(s) BY <2>4, <2>8 DEF InsertsKept
  <2>12. OwnRanges(s) BY <2>1, <2>9, <2>10 DEF OwnRanges
  <2> QED BY <2>8, <2>11, <2>12
<1>11. CASE StampAppends(s)
  <2>1. /\ pc[s] = "drained" /\ pc'[s] = "deletes" /\ ~IsActive(s)'
        /\ rows' = CommitAppend(rows, op[s].app, op[s].commitId) /\ UNCHANGED nextKey
    BY <1>11 DEF StampAppends, tmVars, ChainOK
  <2>2. op[s].commitId \in Nat /\ StampOK(op[s].commitId)
    BY <2>1, ChainStamps DEF Committing
  <2>3. rows' \in Seq(Row) /\ Len(rows') = Len(rows)
    <3>1. rows \in Seq(Row) OBVIOUS
    <3> QED BY ONLY <2>1, <2>2, <3>1, StampedRows, StampAssumption
  <2>4. DOMAIN rows' = DOMAIN rows BY <2>1 DEF CommitAppend
  <2>5. ASSUME NEW i \in DOMAIN rows
        PROVE  /\ rows'[i] \in Row /\ RowOK(rows'[i])
               /\ rows'[i].ins = rows[i].ins \/ i \in op[s].app
    BY <2>1, <2>2 DEF CommitAppend, RowOK, Row
  <2>6. \A i \in op[s].app : rows[i].ins = op[s].txnId
    BY <2>1 DEF TableInv, RangesStillPending
  <2>7. ASSUME NEW r \in Row, RowOK(r) PROVE RowOK(r)'
    BY <1>n, <2>1, <2>7, RowOKGrows
  <2>8. \A i \in DOMAIN rows' : RowOK(rows[i])' BY <2>4, <2>5, <2>7 DEF RowOK
  <2>9. HeapOK' BY <2>1, <2>3, <2>8 DEF HeapOK
  <2>10. InsertsKept(s) BY <2>1, <2>4, <2>5, <2>6 DEF InsertsKept
  <2> QED BY <2>1, <2>9, <2>10 DEF OwnRanges
<1>12. CASE StampDeletes(s)
  <2>1. /\ pc[s] = "deletes" /\ pc'[s] = "publish" /\ ~IsActive(s)' /\ UNCHANGED nextKey
        /\ rows' = IF op[s].del THEN RestampDeletes(rows, op[s].txnId, op[s].commitId) ELSE rows
    BY <1>12 DEF StampDeletes, CommitAllDeletes, tmVars, ChainOK
  <2>2. op[s].txnId \in Nat /\ op[s].commitId \in Nat /\ StampOK(op[s].commitId)
    BY <2>1, ChainStamps DEF Committing, Busy
  <2>3. CASE op[s].del
    <3>1. /\ rows' \in Seq(Row) /\ Len(rows') = Len(rows) /\ DOMAIN rows' = DOMAIN rows
          /\ \A i \in DOMAIN rows : rows'[i] \in Row /\ RowOK(rows'[i]) /\ rows'[i].ins = rows[i].ins
      BY <2>1, <2>2, <2>3, RestampOK
    <3> QED BY <1>n, <2>1, <3>1, SameInserts DEF OwnRanges
  <2> QED BY <1>u, <2>1, <2>3 DEF OwnRanges
<1>13. CASE RollbackDeletes(s)
  <2>1. /\ pc[s] = "abort" /\ pc'[s] = "idle" /\ ~IsActive(s)' /\ UNCHANGED nextKey
        /\ rows' = IF op[s].del THEN RestampDeletes(rows, op[s].txnId, NotDeleted) ELSE rows
    BY <1>13 DEF RollbackDeletes, RevertAllDeletes, tmVars, ChainOK
  <2>2. op[s].txnId \in Nat BY <2>1, ChainStamps DEF Busy
  <2>3. CASE op[s].del
    <3>1. /\ rows' \in Seq(Row) /\ Len(rows') = Len(rows) /\ DOMAIN rows' = DOMAIN rows
          /\ \A i \in DOMAIN rows : rows'[i] \in Row /\ RowOK(rows'[i]) /\ rows'[i].ins = rows[i].ins
      BY <2>1, <2>2, <2>3, RestampOK
    <3> QED BY <1>n, <2>1, <3>1, SameInserts DEF OwnRanges
  <2> QED BY <1>u, <2>1, <2>3 DEF OwnRanges
<1>14. CASE MaybeCleanup(s)
  <2>1. /\ pc[s] = "cleanup" /\ pc'[s] = "idle" /\ ~IsActive(s)' /\ UNCHANGED nextKey
        /\ rows' = rows \/ rows' = Compact(rows, op[s].watermark)
    BY <1>14 DEF MaybeCleanup, tmVars, ChainOK
  <2>2. CASE rows' = rows BY <1>u, <2>1, <2>2 DEF OwnRanges
  <2>3. CASE rows' = Rebuilt(rows) /\ ~HasVersionAbove(rows, op[s].watermark)
    <3>1. rows' \in Seq(Row) /\ Len(rows') <= Len(rows) BY <2>3, RebuiltRows
    <3>2. Len(rows') \in Nat BY <3>1, LenProperties
    <3>3. \A k \in DOMAIN rows' : \E i \in DOMAIN rows :
             rows'[k] = [key |-> rows[i].key, ins |-> 0, del |-> NotDeleted]
      BY <2>3, RebuiltRows DEF LivePositions
    <3>4. ASSUME NEW k \in DOMAIN rows' PROVE RowOK(rows[k])'
      <4>1. PICK i \in DOMAIN rows : rows'[k] = [key |-> rows[i].key, ins |-> 0, del |-> NotDeleted]
        BY <3>3
      <4>2. rows[i].key \in 1 .. nextKey - 1 BY DEF RowOK
      <4>3. 0 < currentTs' BY DEF IInv, TypeOK
      <4> QED BY <2>1, <4>1, <4>2, <4>3 DEF RowOK, StampOK
    <3>5. HeapOK' BY <2>1, <3>1, <3>2, <3>4 DEF HeapOK
    <3>6. \A i \in DOMAIN rows : ~(rows[i].ins >= TxnIdStart)
      <4>1. op[s].watermark \in 0 .. MaxTs BY DEF Op
      <4> QED BY <2>3, <4>1 DEF HasVersionAbove, Row
    <3> QED BY <2>1, <3>5, <3>6 DEF InsertsKept, OwnRanges
  <2> QED BY <2>1, <2>2, <2>3 DEF Compact
<1>15. Reads(s) => HeapStep(s) BY <1>4, ReadsReply
<1> QED
  BY ONLY <1>1, <1>2, <1>3, <1>5, <1>6, <1>7, <1>8, <1>9, <1>10, <1>11, <1>12, <1>13, <1>14, <1>15,
          s \in Session, Client(s) \/ Pipeline(s), MessageKinds

-----------------------------------------------------------------------------
(* The invariant is inductive.                                             *)

\* A table as the bootstrap hands it over satisfies the invariant.
LEMMA InitTableInv == TableInit => TableInv
<1> SUFFICES ASSUME TableInit PROVE TableInv
  OBVIOUS
<1> USE StampAssumption, TableAssumption, MaxTsAssumption DEF TableInit
<1>1. IInv
  BY DEF IInv, TypeOK, ClockAboveHorizon, BootstrapQuiet, InFlightBelowClock,
         SnapshotsInPast, NoDirtySnapshot, IsActive, NoTxn
<1>2. NoOp \in Op BY DEF NoOp, Op
<1>3. ChainTypes BY <1>2 DEF ChainTypes, PC
<1>4. HeapOK
  <2>1. rows \in [1 .. InitRows -> Row] BY DEF Row
  <2>2. rows \in Seq(Row) BY <2>1, SeqDef
  <2>3. Len(rows) = InitRows BY <2>1, <2>2, LenProperties
  <2>4. \A i \in DOMAIN rows : RowOK(rows[i]) BY DEF RowOK, StampOK
  <2> QED BY <2>2, <2>3, <2>4 DEF HeapOK
<1>5. ChainsOK
  BY DEF ChainsOK, ChainOK, IsActive, NoTxn, Busy, Committing
<1>6. IdsApart BY DEF IdsApart, Busy, Committing
<1>7. RangesStillPending BY DEF RangesStillPending, IsActive, NoTxn
<1> QED BY <1>1, <1>3, <1>4, <1>5, <1>6, <1>7 DEF TableInv, IdsBelowClock

\* Every message of every session preserves the invariant.
LEMMA NextTableInv == TableInv /\ [TableNext]_vars => TableInv'
<1>1. ASSUME TableInv, NEW s \in Session, Client(s) \/ Pipeline(s)
      PROVE  TableInv'
  <2>0. IInv BY <1>1 DEF TableInv
  <2>1. [Next]_tmVars BY <1>1, ManagerStep
  <2>2. IInv' BY <2>0, <2>1, NextIInv
  <2>3. IdsBelowClock'
    BY <1>1, <2>0, <2>1, ClockStep DEF TableInv, IdsBelowClock
  <2>4. ChainTypes' /\ ChainsOK' /\ IdsApart' BY <1>1, <2>2, ChainsStep
  <2>5. HeapOK' /\ InsertsKept(s) /\ OwnRanges(s) BY <1>1, <2>2, HeapSteps DEF HeapStep
  <2>6. \A t \in Session \ {s} : pc'[t] = pc[t] /\ op'[t] = op[t] /\ active'[t] = active[t]
    BY <1>1, OthersKept
  <2>7. ASSUME NEW t \in Session, IsActive(t) \/ pc[t] = "drained", NEW i \in op[t].app \cup op[t].stmtApp
        PROVE  i \in DOMAIN rows /\ rows[i].ins = op[t].txnId /\ rows[i].ins >= TxnIdStart
    <3>1. Busy(t) BY <1>1, <2>7 DEF Busy, TableInv, ChainsOK, ChainOK
    <3> QED BY <1>1, <2>7, <3>1, ChainStamps DEF TableInv, RangesStillPending
  <2>8. ASSUME NEW t \in Session \ {s}, IsActive(t)' \/ pc'[t] = "drained",
               NEW i \in op'[t].app \cup op'[t].stmtApp
        PROVE  i \in DOMAIN rows' /\ rows'[i].ins = op'[t].txnId
    <3>1. IsActive(t) \/ pc[t] = "drained" BY <2>6, <2>8 DEF IsActive
    <3>2. i \in DOMAIN rows /\ rows[i].ins = op[t].txnId /\ rows[i].ins >= TxnIdStart
      BY <2>6, <2>7, <2>8, <3>1
    <3>3. Busy(t) BY <1>1, <3>1 DEF Busy, TableInv, ChainsOK, ChainOK
    <3>4. pc[s] = "drained" => op[s].txnId # op[t].txnId
      BY <1>1, <3>3 DEF TableInv, IdsApart, Busy
    <3> QED BY <2>5, <2>6, <3>2, <3>4 DEF InsertsKept
  <2>9. ASSUME IsActive(s)' \/ pc'[s] = "drained", NEW i \in op'[s].app \cup op'[s].stmtApp
        PROVE  i \in DOMAIN rows' /\ rows'[i].ins = op'[s].txnId
    <3>1. CASE IsActive(s) /\ op'[s].txnId = op[s].txnId /\ i \in op[s].app \cup op[s].stmtApp
      <4>1. i \in DOMAIN rows /\ rows[i].ins = op[s].txnId /\ rows[i].ins >= TxnIdStart
        BY <2>7, <3>1
      <4>2. pc[s] # "drained" BY <1>1, <3>1 DEF TableInv, ChainsOK, ChainOK
      <4> QED BY <2>5, <3>1, <4>1, <4>2 DEF InsertsKept
    <3> QED BY <2>5, <2>9, <3>1 DEF OwnRanges
  <2>10. RangesStillPending' BY <2>8, <2>9 DEF RangesStillPending
  <2> QED BY <2>2, <2>3, <2>4, <2>5, <2>10 DEF TableInv
<1>2. ASSUME TableInv, UNCHANGED vars PROVE TableInv'
  <2>1. UNCHANGED <<nextTxnId, currentTs, active, inFlight, horizon, phase, rows, nextKey, pc, op>>
    BY <1>2 DEF vars, tmVars, tableVars
  <2>2. IInv' BY <1>2, <2>1, NextIInv DEF TableInv, tmVars
  <2>3. CompactWatermark' = CompactWatermark
    BY <2>1 DEF CompactWatermark, WatermarkBounds, ActiveTxns, IsActive
  <2>4. ChainTypes' /\ IdsBelowClock' BY <1>2, <2>1 DEF TableInv, ChainTypes, IdsBelowClock
  <2>5. HeapOK' BY <1>2, <2>1 DEF TableInv, HeapOK, RowOK, StampOK, Pending
  <2>6. ChainsOK' BY <1>2, <2>1, <2>3 DEF TableInv, ChainsOK, ChainOK, Busy, Committing, Pending, IsActive
  <2>7. IdsApart' BY <1>2, <2>1 DEF TableInv, IdsApart, Busy, Committing
  <2>8. RangesStillPending' BY <1>2, <2>1 DEF TableInv, RangesStillPending, IsActive
  <2> QED BY <2>2, <2>4, <2>5, <2>6, <2>7, <2>8 DEF TableInv
<1> QED BY <1>1, <1>2 DEF TableNext

\* The invariant holds in every reachable state.
LEMMA TableInvHolds == TableSpec => []TableInv
BY InitTableInv, NextTableInv, PTL DEF TableSpec

-----------------------------------------------------------------------------
(* Invariants.                                                             *)

\* The invariant gives the types.
LEMMA TableTypes == TableInv => TableTypeOK
<1> USE StampAssumption, TableAssumption, MaxTsAssumption
<1> SUFFICES ASSUME TableInv PROVE TableTypeOK
  OBVIOUS
<1>1. TypeOK /\ pc \in [Session -> PC] /\ op \in [Session -> Op]
  BY DEF TableInv, IInv, ChainTypes
<1>2. Len(rows) <= MaxRows /\ nextKey \in Nat /\ \A i \in DOMAIN rows : rows[i] \in Row /\ RowOK(rows[i])
  BY LenProperties DEF TableInv, HeapOK
<1>3. ASSUME NEW id \in Nat, StampOK(id)
      PROVE  id \in 0 .. MaxTs \cup TxnIdStart .. TxnIdStart + nextTxnId - 1
  BY <1>1, <1>3 DEF TypeOK, StampOK, Pending
<1>4. ASSUME NEW i \in DOMAIN rows
      PROVE  /\ rows[i].key \in 1 .. nextKey - 1
             /\ rows[i].ins \in 0 .. MaxTs \cup TxnIdStart .. TxnIdStart + nextTxnId - 1
             /\ rows[i].del \in 0 .. MaxTs \cup TxnIdStart .. TxnIdStart + nextTxnId - 1
                                \cup {NotDeleted}
  BY <1>2, <1>3 DEF RowOK, Row
<1>5. ASSUME NEW s \in Session
      PROVE  /\ op[s].app \cup op[s].stmtApp \cup op[s].ids \subseteq 1 .. MaxRows
             /\ op[s].hits \in Nat
             /\ op[s].commitId \in 0 .. MaxTs /\ op[s].watermark \in 0 .. MaxTs
  BY <1>1 DEF Op
<1> QED BY <1>1, <1>2, <1>4, <1>5 DEF TableTypeOK

\* The rows of the heap carry stamps that the transaction manager has given out, and
\* the chains values of their types.
THEOREM TableTypeCorrect == TableSpec => []TableTypeOK
BY TableTypes, TableInvHolds, PTL

\* The row ids a transaction has parked hold its own pending rows until they are
\* stamped: no append, delete, rollback or compaction of another session moves or
\* restamps them, so the positional commit_append hits the rows it means.
THEOREM RangesCorrect == TableSpec => []RangesStillPending
<1>1. TableInv => RangesStillPending BY DEF TableInv
<1> QED BY <1>1, TableInvHolds, PTL

-----------------------------------------------------------------------------
(* Snapshots.                                                              *)

\* A snapshot, taken in the past or now, seen as data: it has no writes of its own,
\* sees no commit in flight and every commit up to the watermark.
IsSnapshot(txn) ==
    /\ txn.transactionId = 0
    /\ \A c \in inFlight : ~UseInsertedVersion(txn, c)
    /\ \A c \in 0 .. CompactWatermark : UseInsertedVersion(txn, c)

\* The data of an active transaction without its own id is a snapshot.
LEMMA ActiveSnapshot ==
    ASSUME TableInv, NEW s \in Session, IsActive(s)
    PROVE  IsSnapshot([Data(s) EXCEPT !.transactionId = 0])
<1> DEFINE txn == [Data(s) EXCEPT !.transactionId = 0]
<1>1. /\ txn.transactionId = 0
      /\ txn.horizon = active[s].snapHorizon /\ txn.inFlight = active[s].snapInFlight
  BY DEF Data
<1> HIDE DEF txn
<1>2. active[s] \in Txn /\ IInv /\ inFlight \in SUBSET (1 .. MaxTs)
  BY DEF TableInv, IInv, TypeOK, IsActive, NoTxn
<1>3. WatermarkVisibleToAll BY <1>2, WatermarkVisible
<1>4. CompactWatermark \in 0 .. MaxTs BY <1>2, WatermarkRange
<1>5. ASSUME NEW c \in inFlight PROVE ~UseInsertedVersion(txn, c)
  BY <1>1, <1>2 DEF IInv, NoDirtySnapshot, UseInsertedVersion, CommitVisible
<1>6. ASSUME NEW c \in 0 .. CompactWatermark PROVE UseInsertedVersion(txn, c)
  <2>1. c \in 0 .. MaxTs /\ c < TxnIdStart
    BY <1>4, TableAssumption, MaxTsAssumption, StampAssumption
  <2>2. CommitVisible(active[s], c)
    <3>1. CASE c = 0 BY <1>2, <3>1 DEF CommitVisible, Txn
    <3>2. CASE c # 0
      <4>1. c \in 1 .. CompactWatermark BY <1>4, <3>2
      <4> QED BY <1>3, <4>1 DEF WatermarkVisibleToAll
    <3> QED BY <3>1, <3>2
  <2> QED BY <1>1, <2>1, <2>2 DEF UseInsertedVersion, CommitVisible
<1>7. IsSnapshot(txn) BY <1>1, <1>5, <1>6 DEF IsSnapshot
<1> QED BY <1>7 DEF txn

\* So is the one that begin_transaction would hand out now.
LEMMA FreshSnapshot ==
    ASSUME TableInv
    PROVE  IsSnapshot(FreshData)
<1>1. FreshData.transactionId = 0 /\ FreshData.horizon = horizon /\ FreshData.inFlight = inFlight
  BY DEF FreshData
<1>2. IInv /\ inFlight \in SUBSET (1 .. MaxTs) /\ horizon \in Nat
  BY DEF TableInv, IInv, TypeOK
<1>3. WatermarkVisibleToAll BY <1>2, WatermarkVisible
<1>4. CompactWatermark \in 0 .. MaxTs BY <1>2, WatermarkRange
<1>5. ASSUME NEW c \in inFlight PROVE ~UseInsertedVersion(FreshData, c)
  BY <1>1 DEF UseInsertedVersion
<1>6. ASSUME NEW c \in 0 .. CompactWatermark PROVE UseInsertedVersion(FreshData, c)
  <2>1. c \in 0 .. MaxTs /\ c < TxnIdStart
    BY <1>4, TableAssumption, MaxTsAssumption, StampAssumption
  <2>2. c <= horizon /\ c \notin inFlight
    <3>1. CASE c = 0 BY <1>2, <3>1
    <3>2. CASE c # 0
      <4>1. c \in 1 .. CompactWatermark BY <1>4, <3>2
      <4> QED BY <1>3, <4>1 DEF WatermarkVisibleToAll
    <3> QED BY <3>1, <3>2
  <2> QED BY <1>1, <2>1, <2>2 DEF UseInsertedVersion
<1> QED BY <1>1, <1>5, <1>6 DEF IsSnapshot

\* No message changes what the heap shows to a snapshot.
LEMMA HeapViewStep ==
    ASSUME TableInv, IInv', NEW s \in Session, Client(s) \/ Pipeline(s),
           NEW txn, IsSnapshot(txn)
    PROVE  ViewKeys(txn, rows') = ViewKeys(txn, rows)
<1> USE StampAssumption, TableAssumption, MaxTsAssumption
<1>t. /\ op[s] \in Op /\ ChainOK(s) /\ txn.transactionId = 0
      /\ rows \in Seq(Row) /\ Len(rows) \in Nat /\ DOMAIN rows = 1 .. Len(rows)
      /\ \A i \in DOMAIN rows : rows[i] \in Row
  BY LenProperties DEF TableInv, ChainTypes, ChainsOK, HeapOK, IsSnapshot
<1>h. ASSUME NEW id \in Nat, id >= TxnIdStart PROVE ~UseInsertedVersion(txn, id)
  BY <1>t, <1>h, PendingHidden
<1>d. ~UseInsertedVersion(txn, NotDeleted) BY <1>h
<1>b. ASSUME Busy(s) PROVE op[s].txnId \in Nat /\ ~UseInsertedVersion(txn, op[s].txnId)
  BY <1>b, <1>h, ChainStamps
<1>c. ASSUME Committing(s) PROVE op[s].commitId \in Nat /\ ~UseInsertedVersion(txn, op[s].commitId)
  BY <1>c, <1>t, ChainStamps DEF IsSnapshot, ChainOK
<1>m. ASSUME Busy(s), NEW P, NEW i \in DOMAIN rows
      PROVE  LET g == MarkDeleted(rows, P, op[s].txnId) IN
             g[i].key = rows[i].key /\ (Visible(txn, g[i]) <=> Visible(txn, rows[i]))
  BY <1>b, <1>d, <1>m, <1>t DEF MarkDeleted, Visible, UseDeletedVersion, Row
<1>1. CASE UNCHANGED rows BY <1>1
<1>2. CASE Insert(s)
  <2>1. Busy(s) /\ rows' = AppendRows(rows, <<nextKey>>, op[s].txnId)
    BY <1>2 DEF Insert, Busy
  <2> DEFINE keys == <<nextKey>>
  <2>2. keys \in Seq(Nat) /\ Len(keys) = 1 BY DEF TableInv, HeapOK
  <2>3. rows' = AppendRows(rows, keys, op[s].txnId) BY <2>1
  <2> HIDE DEF keys
  <2>4. /\ rows' \in Seq(Row) /\ Len(rows') = Len(rows) + Len(keys)
        /\ \A i \in 1 .. Len(rows) : rows'[i] = rows[i]
        /\ \A i \in Len(rows) + 1 .. Len(rows) + Len(keys) :
              rows'[i] = [key |-> keys[i - Len(rows)], ins |-> op[s].txnId, del |-> NotDeleted]
    <3>1. rows \in Seq(Row) /\ op[s].txnId \in Nat BY <1>t, <1>b, <2>1
    <3> QED BY ONLY <2>2, <2>3, <3>1, AppendedRows, ZenonT(60)
  <2>5. ASSUME NEW i \in Len(rows) + 1 .. Len(rows') PROVE ~Visible(txn, rows'[i])
    <3>1. i \in Len(rows) + 1 .. Len(rows) + Len(keys) BY <2>4
    <3>2. rows'[i] = [key |-> keys[i - Len(rows)], ins |-> op[s].txnId, del |-> NotDeleted]
      BY ONLY <2>4, <3>1, Zenon
    <3>3. rows'[i].ins = op[s].txnId BY ONLY <3>2
    <3> QED BY <1>b, <2>1, <3>3 DEF Visible
  <2>6. Len(rows') >= Len(rows) BY <1>t, <2>2, <2>4
  <2>7. rows \in Seq(Row) BY <1>t
  <2>8. \A i \in 1 .. Len(rows) :
           rows'[i].key = rows[i].key /\ (Visible(txn, rows'[i]) <=> Visible(txn, rows[i]))
    BY <2>4
  <2> QED BY ONLY <2>4, <2>5, <2>6, <2>7, <2>8, AppendedView, ZenonT(60)
<1>3. CASE DeleteRows(s) \/ UpdateFailed(s)
  <2>1. Busy(s) /\ rows' = MarkDeleted(rows, op[s].ids, op[s].txnId)
    BY <1>3 DEF DeleteRows, UpdateFailed, Busy
  <2>2. DOMAIN rows' = DOMAIN rows BY <2>1 DEF MarkDeleted
  <2>3. \A i \in DOMAIN rows : rows'[i].key = rows[i].key /\ (Visible(txn, rows'[i]) <=> Visible(txn, rows[i]))
    BY <1>m, <2>1
  <2> QED BY <2>2, <2>3, RestampedView
<1>4. CASE UpdateRows(s)
  <2> DEFINE n == op[s].hits
             g == MarkDeleted(rows, op[s].ids, op[s].txnId)
             keys == [i \in 1 .. n |-> nextKey + i - 1]
  <2>1. Busy(s) /\ rows' = AppendRows(g, keys, op[s].txnId)
    BY <1>4 DEF UpdateRows, Busy
  <2>2. n \in Nat BY <1>t DEF Op
  <2>3. /\ g \in Seq(Row) /\ Len(g) = Len(rows) /\ DOMAIN g = DOMAIN rows
    BY <2>1, MarksOK
  <2>4. \A i \in DOMAIN rows : g[i].key = rows[i].key /\ (Visible(txn, g[i]) <=> Visible(txn, rows[i]))
    BY <1>m, <2>1
  <2> HIDE DEF n, g
  <2>5. keys \in Seq(Nat)
    <3>1. keys \in [1 .. n -> Nat] BY <2>2 DEF TableInv, HeapOK
    <3> QED BY <2>2, <3>1, SeqDef
  <2> HIDE DEF keys
  <2>6. /\ rows' \in Seq(Row) /\ Len(rows') = Len(g) + Len(keys)
        /\ \A i \in 1 .. Len(g) : rows'[i] = g[i]
        /\ \A i \in Len(g) + 1 .. Len(g) + Len(keys) :
              rows'[i] = [key |-> keys[i - Len(g)], ins |-> op[s].txnId, del |-> NotDeleted]
    BY ONLY <1>b, <2>1, <2>3, <2>5, AppendedRows, ZenonT(60)
  <2>7. ASSUME NEW i \in Len(g) + 1 .. Len(rows') PROVE ~Visible(txn, rows'[i])
    <3>1. i \in Len(g) + 1 .. Len(g) + Len(keys) BY <2>6
    <3>2. rows'[i] = [key |-> keys[i - Len(g)], ins |-> op[s].txnId, del |-> NotDeleted]
      BY ONLY <2>6, <3>1, Zenon
    <3>3. rows'[i].ins = op[s].txnId BY ONLY <3>2
    <3> QED BY <1>b, <2>1, <3>3 DEF Visible
  <2>8. Len(rows') >= Len(g) BY <1>t, <2>3, <2>5, <2>6, LenProperties
  <2>9. ViewKeys(txn, rows') = ViewKeys(txn, g)
    BY ONLY <2>3, <2>6, <2>7, <2>8, AppendedView, ZenonT(60)
  <2>10. ViewKeys(txn, g) = ViewKeys(txn, rows) BY <2>3, <2>4, RestampedView
  <2> QED BY <2>9, <2>10
<1>5. CASE StampAppends(s)
  <2>1. Busy(s) /\ Committing(s) /\ rows' = CommitAppend(rows, op[s].app, op[s].commitId)
    BY <1>5 DEF StampAppends, Busy, Committing
  <2>2. DOMAIN rows' = DOMAIN rows BY <2>1 DEF CommitAppend
  <2>3. \A i \in op[s].app : rows[i].ins = op[s].txnId
    BY <1>5 DEF StampAppends, TableInv, RangesStillPending
  <2>4. \A i \in DOMAIN rows : rows'[i].key = rows[i].key /\ (Visible(txn, rows'[i]) <=> Visible(txn, rows[i]))
    BY <1>b, <1>c, <1>t, <2>1, <2>3 DEF CommitAppend, Visible, Row
  <2> QED BY <2>2, <2>4, RestampedView
<1>6. ASSUME NEW id, ~UseInsertedVersion(txn, id), Busy(s),
             rows' = RestampDeletes(rows, op[s].txnId, id)
      PROVE  ViewKeys(txn, rows') = ViewKeys(txn, rows)
  <2>1. DOMAIN rows' = DOMAIN rows BY <1>6 DEF RestampDeletes
  <2>2. \A i \in DOMAIN rows : rows'[i].key = rows[i].key /\ (Visible(txn, rows'[i]) <=> Visible(txn, rows[i]))
    BY <1>b, <1>t, <1>6 DEF RestampDeletes, Visible, UseDeletedVersion, Row
  <2> QED BY <2>1, <2>2, RestampedView
<1>7. CASE StampDeletes(s)
  BY <1>1, <1>6, <1>7, <1>c DEF StampDeletes, CommitAllDeletes, Busy, Committing
<1>8. CASE RollbackDeletes(s)
  BY <1>1, <1>6, <1>8, <1>d DEF RollbackDeletes, RevertAllDeletes, Busy
<1>9. CASE MaybeCleanup(s)
  <2>1. pc[s] = "cleanup" /\ (rows' = rows \/ rows' = Compact(rows, op[s].watermark))
    BY <1>9 DEF MaybeCleanup
  <2>2. op[s].watermark \in 0 .. MaxTs /\ op[s].watermark <= CompactWatermark
    BY <1>t, <2>1 DEF Op, ChainOK
  <2>3. CompactWatermark \in 0 .. MaxTs BY WatermarkRange DEF TableInv
  <2>4. op[s].watermark \in Nat /\ op[s].watermark < TxnIdStart BY <2>2
  <2>5. \A c \in 0 .. op[s].watermark : UseInsertedVersion(txn, c)
    BY <2>2, <2>3 DEF IsSnapshot
  <2>6. ViewKeys(txn, Compact(rows, op[s].watermark)) = ViewKeys(txn, rows)
    BY <1>t, <2>4, <2>5, CompactedView
  <2> QED BY <2>1, <2>6
<1> QED BY <1>1, <1>2, <1>3, <1>4, <1>5, <1>7, <1>8, <1>9
     DEF Client, Pipeline, Begin, ReleaseReadOnly, Scan, IndexScan, ScanReply, EmptyStatement, StatementFailed, CommitDrain,
         CommitEmpty, IndexCommitFailed, RollbackDrain, StatementOk, PublishCommit

\* How a message moves the horizon and the ids in flight.
LEMMA FreshStep ==
    ASSUME NEW s \in Session, Client(s) \/ Pipeline(s)
    PROVE  \/ UNCHANGED <<horizon, inFlight>>
           \/ UNCHANGED <<horizon, rows>> /\ inFlight' = inFlight \cup {currentTs}
           \/ PublishCommit(s)
<1>1. CASE Client(s)
  BY <1>1 DEF Client, Begin, BeginTransaction, ReleaseReadOnly, Abort, Insert, Scan, IndexScan, ScanReply,
         EmptyStatement, DeleteRows, UpdateRows, UpdateFailed, StatementFailed, CommitDrain, Commit,
         CommitEmpty, IndexCommitFailed, RollbackDrain, tmVars
<1>2. CASE Pipeline(s)
  BY <1>2 DEF Pipeline, StatementOk, CommitDrain, Commit, CommitEmpty, Abort, StampAppends,
         StampDeletes, MaybeCleanup, RollbackDeletes, tmVars
<1> QED BY <1>1, <1>2

\* Only a publish changes what a new transaction would see.
LEMMA FreshViewStep ==
    ASSUME TableInv, IInv', NEW s \in Session, Client(s) \/ Pipeline(s), ~PublishCommit(s)
    PROVE  FreshView' = FreshView
<1>1. FreshView = ViewKeys(FreshData, rows) /\ FreshView' = ViewKeys(FreshData', rows')
  BY DEF FreshView, KeysAt, VisibleRows, ViewKeys
<1>2. CASE UNCHANGED <<horizon, inFlight>>
  <2>1. FreshData' = FreshData BY <1>2 DEF FreshData
  <2>2. ViewKeys(FreshData, rows') = ViewKeys(FreshData, rows) BY FreshSnapshot, HeapViewStep
  <2> QED BY <1>1, <2>1, <2>2
<1>3. CASE UNCHANGED <<horizon, rows>> /\ inFlight' = inFlight \cup {currentTs}
  <2>1. \A i \in DOMAIN rows : rows[i] \in Row /\ RowOK(rows[i]) BY LenProperties DEF TableInv, HeapOK
  <2>2. horizon \in Nat /\ currentTs \in 1 .. MaxTs /\ nextTxnId \in Nat /\ horizon < currentTs
    BY DEF TableInv, IInv, TypeOK, ClockAboveHorizon
  <2>3. ASSUME NEW id \in Nat
        PROVE  UseInsertedVersion(FreshData', id) <=> UseInsertedVersion(FreshData, id)
    BY <1>3, <2>2 DEF UseInsertedVersion, FreshData
  <2>4. \A i \in DOMAIN rows : Visible(FreshData', rows[i]) <=> Visible(FreshData, rows[i])
    BY <2>1, <2>3 DEF Visible, UseDeletedVersion, Row
  <2>5. ViewKeys(FreshData', rows) = ViewKeys(FreshData, rows) BY <2>4 DEF ViewKeys
  <2> QED BY <1>1, <1>3, <2>5
<1> QED BY <1>2, <1>3, FreshStep

\* No message changes what the snapshot of a running transaction holds.
LEMMA SnapshotViewStep ==
    ASSUME TableInv, IInv', NEW s \in Session, Client(s) \/ Pipeline(s),
           NEW t \in Session, IsActive(t), active'[t] = active[t]
    PROVE  SnapshotView(t)' = SnapshotView(t)
<1> DEFINE txn == [Data(t) EXCEPT !.transactionId = 0]
<1>1. txn' = txn BY DEF Data
<1>2. SnapshotView(t) = ViewKeys(txn, rows) /\ SnapshotView(t)' = ViewKeys(txn', rows')
  BY DEF SnapshotView, KeysAt, VisibleRows, ViewKeys
<1>3. IsSnapshot(txn) BY ActiveSnapshot
<1> HIDE DEF txn
<1>4. ViewKeys(txn, rows') = ViewKeys(txn, rows) BY <1>3, HeapViewStep
<1> QED BY <1>1, <1>2, <1>4

\* Statements, commits, rollbacks and compactions of any session leave the snapshot of
\* every running transaction as it was, and only the publish barrier changes what a
\* new transaction sees.
THEOREM SnapshotsNeverChange == TableSpec => SnapshotsStable
<1>1. ASSUME TableInv, TableInv', [TableNext]_vars
      PROVE  \/ /\ \A s \in Session : IsActive(s) /\ active'[s] = active[s] =>
                      SnapshotView(s)' = SnapshotView(s)
                /\ (inFlight' \subseteq inFlight /\ inFlight' # inFlight) \/ FreshView' = FreshView
             \/ UNCHANGED vars
  <2>1. ASSUME NEW s \in Session, Client(s) \/ Pipeline(s)
        PROVE  /\ \A t \in Session : IsActive(t) /\ active'[t] = active[t] =>
                     SnapshotView(t)' = SnapshotView(t)
               /\ (inFlight' \subseteq inFlight /\ inFlight' # inFlight) \/ FreshView' = FreshView
    <3>1. IInv' BY <1>1 DEF TableInv
    <3>2. \A t \in Session : IsActive(t) /\ active'[t] = active[t] => SnapshotView(t)' = SnapshotView(t)
      BY <1>1, <2>1, <3>1, SnapshotViewStep
    <3>3. PublishCommit(s) => inFlight' \subseteq inFlight /\ inFlight' # inFlight
      BY DEF PublishCommit, Publish
    <3>4. ~PublishCommit(s) => FreshView' = FreshView
      BY <1>1, <2>1, <3>1, FreshViewStep
    <3> QED BY <3>2, <3>3, <3>4
  <2> QED BY <1>1, <2>1 DEF TableNext
<1> QED BY <1>1, TableInvHolds, PTL DEF TableSpec, SnapshotsStable
=============================================================================
