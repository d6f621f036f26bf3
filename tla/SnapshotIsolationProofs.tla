---------------------- MODULE SnapshotIsolationProofs ----------------------
(***************************************************************************)
(* A table is snapshot isolated as long as the statements mark rows of     *)
(* their snapshots: the message chains of MvccTable implement              *)
(* SnapshotStore, for any number of sessions, with and without an index.   *)
(***************************************************************************)
EXTENDS MvccTableProofs

-----------------------------------------------------------------------------
(* The invariant of the refinement, on top of TableInv.                    *)

\* The session's transaction runs or is being committed.
Open(s) == IsActive(s) \/ Committing(s)

\* The stamps of the session's own writes.
Mine(s, id) == id = op[s].txnId \/ (Committing(s) /\ id = op[s].commitId)

\* A new transaction sees the stamp.
Fresh(id) == id < TxnIdStart /\ id <= horizon /\ id \notin inFlight

UniqueKeys == \A i, j \in DOMAIN rows : rows[i].key = rows[j].key => i = j

\* A commit id on a row is published or in flight.
Announced(id) == id < TxnIdStart => id <= horizon \/ id \in inFlight

StampsAnnounced == \A i \in DOMAIN rows : Announced(rows[i].ins) /\ Announced(rows[i].del)

\* No row is deleted for everybody before it is there for everybody.
InsertedFirst == \A i \in DOMAIN rows : Fresh(rows[i].del) => Fresh(rows[i].ins)

\* Between two statements the statement has parked its ranges.
StatementParked(s) ==
    pc[s] \in {"open", "scanned", "commit", "drained", "deletes", "publish"} =>
        op[s].stmtApp = {} /\ ~op[s].stmtDel

\* The chain knows every row it appended, until it has stamped them.
AppendsKnown(s) ==
    \A i \in DOMAIN rows : Open(s) /\ rows[i].ins = op[s].txnId =>
        /\ pc[s] \notin {"deletes", "publish"}
        /\ i \in op[s].app \cup op[s].stmtApp

\* The chain knows that it marked rows, unless the statement that did has failed.
MarksKnown(s) ==
    \A i \in DOMAIN rows : Open(s) /\ rows[i].del = op[s].txnId =>
        /\ pc[s] # "publish"
        /\ op[s].del \/ op[s].stmtDel \/ pc[s] = "failed"

\* What a transaction has marked it could see.
MarksSeen(s) ==
    \A i \in DOMAIN rows : Open(s) /\ Mine(s, rows[i].del) =>
        Mine(s, rows[i].ins) \/ Fresh(rows[i].ins)

SessionIso(s) ==
    /\ StatementParked(s)
    /\ AppendsKnown(s)
    /\ MarksKnown(s)
    /\ MarksSeen(s)

IsoInv ==
    /\ UniqueKeys
    /\ StampsAnnounced
    /\ InsertedFirst
    /\ ScansInView
    /\ \A s \in Session : SessionIso(s)

-----------------------------------------------------------------------------
(* What a message does to the rows, unless it compacts the table.          *)

\* An insert stamp only changes when its own commit stamps it.
InsertStep(s, i) ==
    \/ rows'[i].ins = rows[i].ins
    \/ /\ pc[s] = "drained" /\ pc'[s] = "deletes" /\ i \in op[s].app
       /\ rows[i].ins = op[s].txnId /\ rows'[i].ins = op[s].commitId

\* A delete mark is set by the statement, stamped by its commit or taken back by
\* its rollback.
DeleteStep(s, i) ==
    \/ rows'[i].del = rows[i].del
    \/ /\ pc[s] = "scanned" /\ i \in op[s].ids
       /\ rows[i].del = NotDeleted /\ rows'[i].del = op[s].txnId
    \/ /\ pc[s] = "deletes" /\ pc'[s] = "publish"
       /\ rows[i].del = op[s].txnId /\ rows'[i].del = op[s].commitId
    \/ pc[s] = "abort" /\ rows[i].del = op[s].txnId /\ rows'[i].del = NotDeleted

\* A new row is a pending one of the statement, with a key of its own.
NewRow(s, i) ==
    /\ pc[s] \in {"open", "scanned"} /\ pc'[s] = "effect"
    /\ i \in op'[s].stmtApp
    /\ rows'[i].key = nextKey + i - Len(rows) - 1
    /\ rows'[i].ins = op[s].txnId /\ rows'[i].del = NotDeleted

RowsStep(s) ==
    /\ DOMAIN rows \subseteq DOMAIN rows'
    /\ \A i \in DOMAIN rows : /\ rows'[i].key = rows[i].key
                              /\ InsertStep(s, i) /\ DeleteStep(s, i)
    /\ \A i \in DOMAIN rows' \ DOMAIN rows : NewRow(s, i)

\* delete_rows changes nothing but free delete marks.
LEMMA MarksStep ==
    ASSUME TableInv, NEW s \in Session, Busy(s)
    PROVE  LET g == MarkDeleted(rows, op[s].ids, op[s].txnId) IN
           /\ g \in Seq(Row) /\ Len(g) = Len(rows) /\ DOMAIN g = DOMAIN rows
           /\ \A i \in DOMAIN rows :
                 /\ g[i].key = rows[i].key /\ g[i].ins = rows[i].ins
                 /\ \/ g[i].del = rows[i].del
                    \/ i \in op[s].ids /\ rows[i].del = NotDeleted /\ g[i].del = op[s].txnId
<1> DEFINE g == MarkDeleted(rows, op[s].ids, op[s].txnId)
<1>1. g \in Seq(Row) /\ Len(g) = Len(rows) /\ DOMAIN g = DOMAIN rows BY MarksOK
<1>2. \A i \in DOMAIN rows : rows[i] \in Row BY LenProperties DEF TableInv, HeapOK
<1>3. ASSUME NEW i \in DOMAIN rows
      PROVE  /\ g[i].key = rows[i].key /\ g[i].ins = rows[i].ins
             /\ \/ g[i].del = rows[i].del
                \/ i \in op[s].ids /\ rows[i].del = NotDeleted /\ g[i].del = op[s].txnId
  BY <1>2 DEF MarkDeleted, Row
<1> QED BY <1>1, <1>3

\* Appending n fresh rows behind a heap g of the same length as the table's.
LEMMA AppendStep ==
    ASSUME TableInv, NEW s \in Session, Busy(s), NEW g \in Seq(Row), Len(g) = Len(rows),
           NEW n \in Nat, NEW keys \in [1 .. n -> Nat],
           \A k \in 1 .. n : keys[k] = nextKey + k - 1,
           rows' = AppendRows(g, keys, op[s].txnId)
    PROVE  /\ DOMAIN rows' = 1 .. Len(rows) + n
           /\ \A i \in DOMAIN rows : rows'[i] = g[i]
           /\ \A i \in Len(rows) + 1 .. Len(rows) + n :
                 /\ rows'[i].key = nextKey + i - Len(rows) - 1
                 /\ rows'[i].ins = op[s].txnId /\ rows'[i].del = NotDeleted
<1>1. keys \in Seq(Nat) /\ Len(keys) = n
  <2>1. keys \in Seq(Nat) BY SeqDef
  <2> QED BY <2>1, LenProperties
<1>2. op[s].txnId \in Nat BY ChainStamps
<1>3. rows \in Seq(Row) /\ Len(rows) \in Nat /\ DOMAIN rows = 1 .. Len(rows) /\ nextKey \in Nat
  BY LenProperties DEF TableInv, HeapOK
<1>4. /\ rows' \in Seq(Row) /\ Len(rows') = Len(g) + Len(keys)
      /\ \A i \in 1 .. Len(g) : rows'[i] = g[i]
      /\ \A i \in Len(g) + 1 .. Len(g) + Len(keys) :
            rows'[i] = [key |-> keys[i - Len(g)], ins |-> op[s].txnId, del |-> NotDeleted]
  <2>1. g \in Seq(Row) /\ rows' = AppendRows(g, keys, op[s].txnId) OBVIOUS
  <2> QED BY ONLY <1>1, <1>2, <2>1, AppendedRows, ZenonT(60)
<1>5. DOMAIN rows' = 1 .. Len(rows) + n BY <1>1, <1>4, LenProperties
<1>6. \A i \in DOMAIN rows : rows'[i] = g[i] BY <1>3, <1>4
<1>7. ASSUME NEW i \in Len(rows) + 1 .. Len(rows) + n
      PROVE  /\ rows'[i].key = nextKey + i - Len(rows) - 1
             /\ rows'[i].ins = op[s].txnId /\ rows'[i].del = NotDeleted
  <2>1. i \in Len(g) + 1 .. Len(g) + Len(keys) BY <1>1
  <2>2. rows'[i] = [key |-> keys[i - Len(g)], ins |-> op[s].txnId, del |-> NotDeleted]
    BY ONLY <1>4, <2>1, Zenon
  <2>3. /\ rows'[i].key = keys[i - Len(g)] /\ rows'[i].ins = op[s].txnId
        /\ rows'[i].del = NotDeleted
    BY ONLY <2>2
  <2>4. i - Len(g) \in 1 .. n BY <1>1, <1>3
  <2>5. keys[i - Len(g)] = nextKey + (i - Len(g)) - 1 BY <2>4
  <2> QED BY <1>3, <2>3, <2>5
<1> QED BY <1>5, <1>6, <1>7

\* Every message changes the rows in one of these ways.
LEMMA RowsSteps ==
    ASSUME TableInv, NEW s \in Session, Client(s) \/ Pipeline(s), pc[s] # "cleanup"
    PROVE  RowsStep(s)
<1>t. /\ pc \in [Session -> PC] /\ op \in [Session -> Op] /\ op[s] \in Op /\ nextKey \in Nat
      /\ rows \in Seq(Row) /\ Len(rows) \in Nat /\ DOMAIN rows = 1 .. Len(rows)
      /\ \A i \in DOMAIN rows : rows[i] \in Row
  BY LenProperties DEF TableInv, ChainTypes, HeapOK
<1> USE DEF RowsStep, InsertStep, DeleteStep
<1>1. CASE UNCHANGED rows BY <1>1
<1>2. CASE Insert(s)
  <2> DEFINE keys == <<nextKey>>
  <2>1. keys \in [1 .. 1 -> Nat] /\ \A k \in 1 .. 1 : keys[k] = nextKey + k - 1 BY <1>t
  <2>2. Busy(s) /\ rows' = AppendRows(rows, keys, op[s].txnId) BY <1>2 DEF Insert, Busy
  <2> HIDE DEF keys
  <2>3. /\ DOMAIN rows' = 1 .. Len(rows) + 1
        /\ \A i \in DOMAIN rows : rows'[i] = rows[i]
        /\ \A i \in Len(rows) + 1 .. Len(rows) + 1 :
              /\ rows'[i].key = nextKey + i - Len(rows) - 1
              /\ rows'[i].ins = op[s].txnId /\ rows'[i].del = NotDeleted
    <3>1. rows \in Seq(Row) /\ Len(rows) = Len(rows) /\ 1 \in Nat BY <1>t
    <3> QED BY ONLY TableInv, s \in Session, <2>1, <2>2, <3>1, AppendStep, ZenonT(60)
  <2>4. op' = [op EXCEPT ![s].stmtApp = {Len(rows) + 1}] BY <1>2 DEF Insert
  <2>5. op'[s].stmtApp = {Len(rows) + 1} BY ONLY <1>t, <2>4 DEF Op
  <2>6. pc[s] = "open" /\ pc'[s] = "effect" BY <1>2, <1>t DEF Insert
  <2>7. \A i \in DOMAIN rows' \ DOMAIN rows : i \in Len(rows) + 1 .. Len(rows) + 1
    BY <1>t, <2>3
  <2>8. \A i \in DOMAIN rows' \ DOMAIN rows : NewRow(s, i)
    BY <2>3, <2>5, <2>6, <2>7 DEF NewRow
  <2> QED BY <1>t, <2>3, <2>8
<1>3. CASE DeleteRows(s) \/ UpdateFailed(s)
  <2>1. Busy(s) /\ rows' = MarkDeleted(rows, op[s].ids, op[s].txnId) /\ pc[s] = "scanned"
    BY <1>3 DEF DeleteRows, UpdateFailed, Busy
  <2> QED BY <2>1, MarksStep
<1>4. CASE UpdateRows(s)
  <2> DEFINE n == op[s].hits
             g == MarkDeleted(rows, op[s].ids, op[s].txnId)
             keys == [i \in 1 .. n |-> nextKey + i - 1]
  <2>1. /\ Busy(s) /\ pc[s] = "scanned" /\ pc'[s] = "effect"
        /\ rows' = AppendRows(g, keys, op[s].txnId)
        /\ op' = [op EXCEPT ![s].ids = {}, ![s].hits = 0, ![s].stmtDel = TRUE,
                            ![s].stmtApp = Len(rows) + 1 .. Len(rows) + n]
    BY <1>4, <1>t DEF UpdateRows, Busy
  <2>2. n \in Nat BY <1>t DEF Op
  <2>3. /\ g \in Seq(Row) /\ Len(g) = Len(rows)
        /\ \A i \in DOMAIN rows :
              /\ g[i].key = rows[i].key /\ g[i].ins = rows[i].ins
              /\ \/ g[i].del = rows[i].del
                 \/ i \in op[s].ids /\ rows[i].del = NotDeleted /\ g[i].del = op[s].txnId
    BY <2>1, MarksStep
  <2>4. op'[s].stmtApp = Len(rows) + 1 .. Len(rows) + n BY ONLY <1>t, <2>1 DEF Op
  <2> HIDE DEF n, g
  <2>5. keys \in [1 .. n -> Nat] /\ \A k \in 1 .. n : keys[k] = nextKey + k - 1 BY <1>t, <2>2
  <2> HIDE DEF keys
  <2>6. /\ DOMAIN rows' = 1 .. Len(rows) + n
        /\ \A i \in DOMAIN rows : rows'[i] = g[i]
        /\ \A i \in Len(rows) + 1 .. Len(rows) + n :
              /\ rows'[i].key = nextKey + i - Len(rows) - 1
              /\ rows'[i].ins = op[s].txnId /\ rows'[i].del = NotDeleted
    BY ONLY TableInv, s \in Session, <2>1, <2>2, <2>3, <2>5, AppendStep, ZenonT(60)
  <2>7. \A i \in DOMAIN rows' \ DOMAIN rows : i \in Len(rows) + 1 .. Len(rows) + n
    BY <1>t, <2>2, <2>6
  <2>8. \A i \in DOMAIN rows' \ DOMAIN rows : NewRow(s, i)
    BY <2>1, <2>4, <2>6, <2>7 DEF NewRow
  <2>9. DOMAIN rows \subseteq DOMAIN rows' BY <1>t, <2>2, <2>6
  <2> QED BY <2>1, <2>3, <2>6, <2>8, <2>9
<1>5. CASE StampAppends(s)
  <2>1. /\ pc[s] = "drained" /\ pc'[s] = "deletes"
        /\ rows' = CommitAppend(rows, op[s].app, op[s].commitId)
    BY <1>5, <1>t DEF StampAppends
  <2>2. \A i \in op[s].app : rows[i].ins = op[s].txnId
    BY <2>1 DEF TableInv, RangesStillPending
  <2> QED BY <1>t, <2>1, <2>2 DEF CommitAppend, Row
<1>6. CASE StampDeletes(s)
  BY <1>6, <1>t, <1>1 DEF StampDeletes, CommitAllDeletes, RestampDeletes, Row
<1>7. CASE RollbackDeletes(s)
  BY <1>7, <1>t, <1>1 DEF RollbackDeletes, RevertAllDeletes, RestampDeletes, Row
<1> QED BY <1>1, <1>2, <1>3, <1>4, <1>5, <1>6, <1>7
     DEF Client, Pipeline, Begin, ReleaseReadOnly, Scan, IndexScan, ScanReply, EmptyStatement, StatementFailed, CommitDrain,
         CommitEmpty, IndexCommitFailed, RollbackDrain, StatementOk, PublishCommit, MaybeCleanup

-----------------------------------------------------------------------------
(* Which stamps belong to whom, and who sees them.                         *)

\* Stamps of rows as numbers, against the ids of the sessions and of the manager.
LEMMA RowStamps ==
    ASSUME TableInv
    PROVE  /\ currentTs \in Nat /\ currentTs < TxnIdStart /\ nextTxnId \in Nat
           /\ TxnIdStart + nextTxnId < NotDeleted /\ TxnIdStart \in Nat /\ NotDeleted \in Nat
           /\ \A i \in DOMAIN rows :
                 /\ rows[i] \in Row
                 /\ rows[i].key \in Nat /\ rows[i].key < nextKey
                 /\ rows[i].ins \in Nat /\ rows[i].del \in Nat
                 /\ rows[i].ins # currentTs /\ rows[i].del # currentTs
                 /\ rows[i].ins # TxnIdStart + nextTxnId /\ rows[i].del # TxnIdStart + nextTxnId
<1> USE StampAssumption, TableAssumption, MaxTsAssumption
<1>1. /\ nextTxnId \in Nat /\ nextTxnId < currentTs /\ currentTs \in 1 .. MaxTs
      /\ nextKey \in Nat /\ \A i \in DOMAIN rows : rows[i] \in Row /\ RowOK(rows[i])
  BY LenProperties DEF TableInv, IInv, TypeOK, IdsBelowClock, HeapOK
<1>2. ASSUME NEW id \in Nat, StampOK(id) \/ id = NotDeleted
      PROVE  id # currentTs /\ id # TxnIdStart + nextTxnId
  BY <1>1, <1>2 DEF StampOK, Pending
<1>3. ASSUME NEW i \in DOMAIN rows
      PROVE  /\ rows[i].key \in Nat /\ rows[i].key < nextKey
             /\ rows[i].ins \in Nat /\ rows[i].del \in Nat
             /\ StampOK(rows[i].ins) /\ (StampOK(rows[i].del) \/ rows[i].del = NotDeleted)
  BY <1>1 DEF RowOK, Row
<1> QED BY <1>1, <1>2, <1>3

\* Nobody new sees the stamps of an unpublished transaction, and they are nobody else's.
LEMMA MineHidden ==
    ASSUME TableInv, NEW s \in Session
    PROVE  /\ Open(s) => Busy(s)
           /\ Busy(s) => /\ op[s].txnId \in Nat /\ op[s].txnId >= TxnIdStart
                         /\ op[s].txnId # NotDeleted /\ ~Fresh(op[s].txnId)
           /\ Committing(s) => /\ op[s].commitId \in Nat /\ op[s].commitId < TxnIdStart
                               /\ op[s].commitId \in inFlight /\ ~Fresh(op[s].commitId)
           /\ \A t \in Session \ {s} : Busy(s) /\ Open(t) =>
                 /\ ~Mine(t, op[s].txnId)
                 /\ Committing(s) => ~Mine(t, op[s].commitId)
<1> USE StampAssumption
<1>1. ASSUME NEW t \in Session
      PROVE  /\ Open(t) => Busy(t)
             /\ Busy(t) => op[t].txnId \in Nat /\ op[t].txnId >= TxnIdStart /\ op[t].txnId # NotDeleted
             /\ Committing(t) => /\ op[t].commitId \in Nat /\ op[t].commitId < TxnIdStart
                                 /\ op[t].commitId \in inFlight
  <2>1. ChainOK(t) BY DEF TableInv, ChainsOK
  <2>2. Open(t) => Busy(t) BY <2>1 DEF ChainOK, Open, Busy, Committing
  <2> QED BY <2>1, <2>2, ChainStamps DEF ChainOK
<1>2. ASSUME NEW t \in Session \ {s}, Busy(s), Open(t)
      PROVE  ~Mine(t, op[s].txnId) /\ (Committing(s) => ~Mine(t, op[s].commitId))
  BY <1>1, <1>2 DEF TableInv, IdsApart, Mine
<1> QED BY <1>1, <1>2 DEF Fresh

\* Whatever happens, a published stamp stays visible and an announced one announced;
\* only a publish makes its own id visible.
LEMMA FreshIds ==
    ASSUME TableInv, NEW s \in Session, Client(s) \/ Pipeline(s), NEW id \in Nat, Announced(id)
    PROVE  /\ Announced(id)'
           /\ Fresh(id)' <=> Fresh(id) \/ (PublishCommit(s) /\ id = op[s].commitId)
<1>1. /\ horizon \in Nat /\ currentTs \in Nat /\ horizon < currentTs /\ TxnIdStart \in Nat
      /\ inFlight \in SUBSET Nat
      /\ \A c \in inFlight : c < TxnIdStart
  BY StampAssumption, TableAssumption, MaxTsAssumption
     DEF TableInv, IInv, TypeOK, ClockAboveHorizon, InFlightBelowClock
<1>2. CASE UNCHANGED <<horizon, inFlight>> /\ ~PublishCommit(s)
  BY <1>2 DEF Announced, Fresh
<1>3. CASE UNCHANGED horizon /\ inFlight' = inFlight \cup {currentTs} /\ ~PublishCommit(s)
  BY <1>1, <1>3 DEF Announced, Fresh
<1>4. CASE PublishCommit(s)
  <2> DEFINE c == op[s].commitId
  <2>1. c \in inFlight /\ inFlight' = inFlight \ {c} /\ horizon' = Max({horizon, c})
    BY <1>4 DEF PublishCommit, Publish
  <2> HIDE DEF c
  <2>2. horizon' \in {horizon, c} /\ horizon' >= horizon /\ horizon' >= c
    <3>1. horizon \in Int /\ c \in Int BY <1>1, <2>1
    <3> QED BY ONLY <2>1, <3>1, MaxOfTwo
  <2>3. c \in Nat /\ c < TxnIdStart BY <1>1, <2>1
  <2>4. PublishCommit(s) /\ id = op[s].commitId <=> id = c BY <1>4 DEF c
  <2>5. Announced(id)' BY ONLY Announced(id), id \in Nat, <1>1, <2>1, <2>2, <2>3 DEF Announced
  <2>6. Fresh(id)' <=> Fresh(id) \/ id = c
    BY ONLY Announced(id), id \in Nat, <1>1, <2>1, <2>2, <2>3 DEF Announced, Fresh
  <2> QED BY ONLY <2>4, <2>5, <2>6
<1> QED BY <1>2, <1>3, <1>4, FreshStep

\* A transaction sees its own stamps and stamps that everybody new sees.
LEMMA SeenIsFresh ==
    ASSUME TableInv, NEW s \in Session, IsActive(s), NEW id \in Nat
    PROVE  /\ UseInsertedVersion(Data(s), id) =>
                 \/ id = op[s].txnId
                 \/ Fresh(id) /\ UseInsertedVersion([Data(s) EXCEPT !.transactionId = 0], id)
           /\ Data(s).transactionId = op[s].txnId
<1>1. /\ Data(s).transactionId = op[s].txnId /\ Data(s).horizon = active[s].snapHorizon
      /\ Data(s).inFlight = active[s].snapInFlight
  BY DEF TableInv, ChainsOK, ChainOK, Data
<1>2. /\ active[s].snapHorizon \in Nat /\ active[s].snapHorizon <= horizon /\ horizon \in Nat
      /\ \A c \in inFlight : ~(c <= active[s].snapHorizon /\ c \notin active[s].snapInFlight)
  BY DEF TableInv, IInv, TypeOK, SnapshotsInPast, NoDirtySnapshot, CommitVisible, IsActive, Txn, NoTxn
<1>3. /\ [Data(s) EXCEPT !.transactionId = 0].horizon = active[s].snapHorizon
      /\ [Data(s) EXCEPT !.transactionId = 0].inFlight = active[s].snapInFlight
  BY DEF Data
<1> QED BY <1>1, <1>2, <1>3 DEF UseInsertedVersion, Fresh

-----------------------------------------------------------------------------
(* The invariant is inductive.                                             *)

\* Every key names one row.
LEMMA KeysStep ==
    ASSUME TableInv, UniqueKeys, NEW s \in Session, RowsStep(s), rows' \in Seq(Row)
    PROVE  UniqueKeys'
<1>1. /\ nextKey \in Nat /\ Len(rows) \in Nat /\ DOMAIN rows = 1 .. Len(rows)
      /\ DOMAIN rows' = 1 .. Len(rows')  /\ Len(rows') \in Nat
      /\ \A i \in DOMAIN rows : rows[i].key \in Nat /\ rows[i].key < nextKey
  BY RowStamps, LenProperties DEF TableInv, HeapOK
<1>2. \A i \in DOMAIN rows : rows'[i].key = rows[i].key BY DEF RowsStep
<1>3. \A i \in DOMAIN rows' \ DOMAIN rows : rows'[i].key = nextKey + i - Len(rows) - 1
  BY DEF RowsStep, NewRow
<1>4. ASSUME NEW i \in DOMAIN rows', NEW j \in DOMAIN rows', rows'[i].key = rows'[j].key
      PROVE  i = j
  <2>1. CASE i \in DOMAIN rows /\ j \in DOMAIN rows BY <1>2, <1>4, <2>1 DEF UniqueKeys
  <2>2. CASE i \in DOMAIN rows /\ j \notin DOMAIN rows
    <3>1. rows'[i].key < nextKey /\ rows'[i].key \in Nat BY <1>1, <1>2, <2>2
    <3>2. rows'[j].key >= nextKey BY <1>1, <1>3, <2>2
    <3> QED BY <1>1, <1>4, <3>1, <3>2
  <2>3. CASE i \notin DOMAIN rows /\ j \in DOMAIN rows
    <3>1. rows'[j].key < nextKey /\ rows'[j].key \in Nat BY <1>1, <1>2, <2>3
    <3>2. rows'[i].key >= nextKey BY <1>1, <1>3, <2>3
    <3> QED BY <1>1, <1>4, <3>1, <3>2
  <2>4. CASE i \notin DOMAIN rows /\ j \notin DOMAIN rows
    BY <1>1, <1>3, <1>4, <2>4
  <2> QED BY <2>1, <2>2, <2>3, <2>4
<1> QED BY <1>4 DEF UniqueKeys

\* A stamp a message writes on a row is a hidden one; what is visible stays.
LEMMA StampStep ==
    ASSUME TableInv, StampsAnnounced, NEW s \in Session, RowsStep(s)
    PROVE  /\ \A i \in DOMAIN rows :
                 /\ \/ rows'[i].ins = rows[i].ins
                    \/ /\ ~Fresh(rows[i].ins) /\ ~Fresh(rows'[i].ins)
                       /\ Announced(rows'[i].ins) /\ rows'[i].ins \in Nat
                 /\ \/ rows'[i].del = rows[i].del
                    \/ ~Fresh(rows'[i].del) /\ Announced(rows'[i].del) /\ rows'[i].del \in Nat
           /\ \A i \in DOMAIN rows' \ DOMAIN rows :
                 /\ ~Fresh(rows'[i].ins) /\ Announced(rows'[i].ins) /\ rows'[i].ins \in Nat
                 /\ ~Fresh(rows'[i].del) /\ Announced(rows'[i].del) /\ rows'[i].del \in Nat
<1> USE StampAssumption
<1>1. Busy(s) => /\ op[s].txnId \in Nat /\ ~Fresh(op[s].txnId) /\ Announced(op[s].txnId)
  BY MineHidden DEF Announced
<1>2. Committing(s) => /\ op[s].commitId \in Nat /\ ~Fresh(op[s].commitId)
                       /\ Announced(op[s].commitId)
  BY MineHidden DEF Announced
<1>3. NotDeleted \in Nat /\ ~Fresh(NotDeleted) /\ Announced(NotDeleted) BY DEF Fresh, Announced
<1>4. ASSUME NEW i \in DOMAIN rows
      PROVE  /\ \/ rows'[i].ins = rows[i].ins
                \/ /\ ~Fresh(rows[i].ins) /\ ~Fresh(rows'[i].ins)
                   /\ Announced(rows'[i].ins) /\ rows'[i].ins \in Nat
             /\ \/ rows'[i].del = rows[i].del
                \/ ~Fresh(rows'[i].del) /\ Announced(rows'[i].del) /\ rows'[i].del \in Nat
  <2>1. InsertStep(s, i) /\ DeleteStep(s, i) BY DEF RowsStep
  <2> HIDE DEF Fresh, Announced
  <2> QED BY <1>1, <1>2, <1>3, <2>1 DEF InsertStep, DeleteStep, Busy, Committing
<1>5. ASSUME NEW i \in DOMAIN rows' \ DOMAIN rows
      PROVE  /\ ~Fresh(rows'[i].ins) /\ Announced(rows'[i].ins) /\ rows'[i].ins \in Nat
             /\ ~Fresh(rows'[i].del) /\ Announced(rows'[i].del) /\ rows'[i].del \in Nat
  <2>1. NewRow(s, i) BY DEF RowsStep
  <2> QED BY <1>1, <1>3, <2>1 DEF NewRow, Busy
<1> QED BY <1>4, <1>5

\* A message leaves the commit ids on the rows announced.
LEMMA AnnouncedStep ==
    ASSUME TableInv, StampsAnnounced, NEW s \in Session, Client(s) \/ Pipeline(s), RowsStep(s)
    PROVE  StampsAnnounced'
<1>1. ASSUME NEW id \in Nat, Announced(id) PROVE Announced(id)' BY <1>1, FreshIds
<1>2. \A i \in DOMAIN rows : /\ rows[i].ins \in Nat /\ Announced(rows[i].ins)
                             /\ rows[i].del \in Nat /\ Announced(rows[i].del)
  BY RowStamps DEF StampsAnnounced
<1>3. \A i \in DOMAIN rows' : /\ rows'[i].ins \in Nat /\ Announced(rows'[i].ins)
                              /\ rows'[i].del \in Nat /\ Announced(rows'[i].del)
  <2> HIDE DEF Announced
  <2> QED BY <1>2, StampStep
<1>4. ASSUME NEW i \in DOMAIN rows' PROVE Announced(rows[i].ins)' /\ Announced(rows[i].del)'
  BY <1>1, <1>3 DEF Announced
<1> QED BY <1>4 DEF StampsAnnounced

\* A published delete is the delete of a published row.
LEMMA InsertedFirstStep ==
    ASSUME TableInv, IsoInv, NEW s \in Session, Client(s) \/ Pipeline(s), RowsStep(s)
    PROVE  InsertedFirst'
<1> SUFFICES ASSUME NEW i \in DOMAIN rows', Fresh(rows[i].del)'
             PROVE  Fresh(rows[i].ins)'
  BY DEF InsertedFirst
<1>1. ASSUME NEW id \in Nat, Announced(id)
      PROVE  Fresh(id)' <=> Fresh(id) \/ (PublishCommit(s) /\ id = op[s].commitId)
  BY <1>1, FreshIds
<1>2. StampsAnnounced /\ InsertedFirst BY DEF IsoInv
<1>3. \A j \in DOMAIN rows : /\ rows[j].ins \in Nat /\ Announced(rows[j].ins)
                             /\ rows[j].del \in Nat /\ Announced(rows[j].del)
  BY <1>2, RowStamps DEF StampsAnnounced
<1>4. CASE PublishCommit(s)
  <2>1. rows' = rows /\ Open(s) /\ pc[s] = "publish" /\ Mine(s, op[s].commitId)
    BY <1>4 DEF PublishCommit, Open, Committing, Mine
  <2>2. SessionIso(s) BY DEF IsoInv
  <2>3. Fresh(rows[i].del) \/ rows[i].del = op[s].commitId
    BY <1>1, <1>3, <2>1 DEF Fresh
  <2>4. Fresh(rows[i].ins) \/ rows[i].ins = op[s].commitId
    <3>1. CASE Fresh(rows[i].del) BY <1>2, <2>1, <3>1 DEF InsertedFirst
    <3>2. CASE rows[i].del = op[s].commitId
      BY <2>1, <2>2, <3>2 DEF SessionIso, MarksSeen, AppendsKnown, Mine
    <3> QED BY <2>3, <3>1, <3>2
  <2> QED BY <1>1, <1>3, <1>4, <2>1, <2>4 DEF Fresh
<1>5. CASE ~PublishCommit(s)
  <2>1. /\ i \in DOMAIN rows
        /\ rows'[i].del = rows[i].del /\ Fresh(rows[i].del)
    <3>1. ASSUME NEW id \in Nat, Announced(id), id = rows'[i].del PROVE Fresh(id)
      <4>1. Fresh(id)' BY <3>1 DEF Fresh
      <4> QED BY <1>1, <1>5, <3>1, <4>1
    <3> HIDE DEF Fresh, Announced
    <3> QED BY <1>2, <1>3, <3>1, StampStep
  <2>2. Fresh(rows[i].ins) BY <1>2, <2>1 DEF InsertedFirst
  <2>3. rows'[i].ins = rows[i].ins
    <3> HIDE DEF Fresh, Announced
    <3> QED BY <1>2, <2>1, <2>2, StampStep
  <2>4. Fresh(rows'[i].ins) /\ rows'[i].ins \in Nat /\ Announced(rows'[i].ins)
    BY <1>3, <2>1, <2>2, <2>3
  <2>5. ASSUME NEW id \in Nat, Announced(id), Fresh(id), id = rows'[i].ins PROVE Fresh(rows[i].ins)'
    <3>1. Fresh(id)' BY <1>1, <2>5
    <3> QED BY <2>5, <3>1 DEF Fresh
  <2> QED BY <2>4, <2>5
<1> QED BY <1>4, <1>5

\* The rows of a session's transaction are left alone by the messages of the others.
LEMMA OtherRows ==
    ASSUME TableInv, NEW s \in Session, Client(s) \/ Pipeline(s), RowsStep(s),
           NEW t \in Session \ {s}, Open(t)
    PROVE  /\ Open(t)' /\ \A id : Mine(t, id)' <=> Mine(t, id)
           /\ \A i \in DOMAIN rows :
                 /\ Mine(t, rows[i].ins) \/ Mine(t, rows'[i].ins) => rows'[i].ins = rows[i].ins
                 /\ Mine(t, rows[i].del) \/ Mine(t, rows'[i].del) => rows'[i].del = rows[i].del
           /\ \A i \in DOMAIN rows' \ DOMAIN rows :
                 ~Mine(t, rows'[i].ins) /\ ~Mine(t, rows'[i].del)
<1>1. pc'[t] = pc[t] /\ op'[t] = op[t] /\ active'[t] = active[t] BY OthersKept
<1>2. /\ Busy(s) => ~Mine(t, op[s].txnId)
      /\ Committing(s) => ~Mine(t, op[s].commitId)
  BY MineHidden DEF Busy, Committing
<1>3. ~Mine(t, NotDeleted)
  <2>1. /\ op[t].txnId # NotDeleted
        /\ Committing(t) => op[t].commitId \in Nat /\ op[t].commitId < TxnIdStart
    BY MineHidden
  <2> QED BY <2>1, StampAssumption DEF Mine
<1>4. Open(t)' /\ \A id : Mine(t, id)' <=> Mine(t, id)
  BY <1>1 DEF Open, IsActive, Committing, Mine
<1>5. ASSUME NEW i \in DOMAIN rows
      PROVE  /\ Mine(t, rows[i].ins) \/ Mine(t, rows'[i].ins) => rows'[i].ins = rows[i].ins
             /\ Mine(t, rows[i].del) \/ Mine(t, rows'[i].del) => rows'[i].del = rows[i].del
  <2>1. InsertStep(s, i) /\ DeleteStep(s, i) BY DEF RowsStep
  <2> QED BY <1>2, <1>3, <2>1 DEF InsertStep, DeleteStep, Busy, Committing
<1>6. ASSUME NEW i \in DOMAIN rows' \ DOMAIN rows
      PROVE  ~Mine(t, rows'[i].ins) /\ ~Mine(t, rows'[i].del)
  <2>1. NewRow(s, i) BY DEF RowsStep
  <2> QED BY <1>2, <1>3, <2>1 DEF NewRow, Busy
<1> QED BY <1>4, <1>5, <1>6

\* The invariant of a session is not disturbed by the messages of the others.
LEMMA OtherSessionIso ==
    ASSUME TableInv, IsoInv, NEW s \in Session, Client(s) \/ Pipeline(s), RowsStep(s),
           NEW t \in Session \ {s}
    PROVE  SessionIso(t)'
<1>1. pc'[t] = pc[t] /\ op'[t] = op[t] /\ active'[t] = active[t] BY OthersKept
<1>2. SessionIso(t) /\ StampsAnnounced BY DEF IsoInv
<1>3. StatementParked(t)' BY <1>1, <1>2 DEF SessionIso, StatementParked
<1>4. CASE ~Open(t)
  <2>1. ~Open(t)' BY <1>1, <1>4 DEF Open, IsActive, Committing
  <2> QED BY <1>3, <2>1 DEF SessionIso, AppendsKnown, MarksKnown, MarksSeen
<1>5. CASE Open(t)
  <2>1. /\ Open(t)' /\ \A id : Mine(t, id)' <=> Mine(t, id)
        /\ \A i \in DOMAIN rows :
              /\ Mine(t, rows[i].ins) \/ Mine(t, rows'[i].ins) => rows'[i].ins = rows[i].ins
              /\ Mine(t, rows[i].del) \/ Mine(t, rows'[i].del) => rows'[i].del = rows[i].del
        /\ \A i \in DOMAIN rows' \ DOMAIN rows :
              ~Mine(t, rows'[i].ins) /\ ~Mine(t, rows'[i].del)
    BY <1>5, OtherRows
  <2>2. Mine(t, op[t].txnId) BY DEF Mine
  <2>3. AppendsKnown(t)'
    BY <1>1, <1>2, <1>5, <2>1, <2>2 DEF AppendsKnown, SessionIso
  <2>4. MarksKnown(t)'
    BY <1>1, <1>2, <1>5, <2>1, <2>2 DEF MarksKnown, SessionIso
  <2>5. MarksSeen(t)'
    <3> SUFFICES ASSUME NEW i \in DOMAIN rows', Mine(t, rows'[i].del)
                 PROVE  Mine(t, rows'[i].ins) \/ Fresh(rows[i].ins)'
      BY <2>1 DEF MarksSeen, Mine
    <3>1. i \in DOMAIN rows /\ Mine(t, rows[i].del) BY <2>1
    <3>2. Mine(t, rows[i].ins) \/ Fresh(rows[i].ins)
      BY <1>2, <1>5, <3>1 DEF SessionIso, MarksSeen
    <3>3. CASE Mine(t, rows[i].ins) BY <2>1, <3>1, <3>3
    <3>4. CASE Fresh(rows[i].ins)
      <4>1. rows'[i].ins = rows[i].ins
        <5> HIDE DEF Fresh, Announced
        <5> QED BY <1>2, <3>1, <3>4, StampStep
      <4>2. rows[i].ins \in Nat /\ Announced(rows[i].ins)
        BY <1>2, <3>1, RowStamps DEF StampsAnnounced
      <4>3. ASSUME NEW id \in Nat, Announced(id), Fresh(id), id = rows'[i].ins
            PROVE  Fresh(rows[i].ins)'
        <5>1. Fresh(id)' BY <4>3, FreshIds
        <5> QED BY <4>3, <5>1 DEF Fresh
      <4> QED BY <3>4, <4>1, <4>2, <4>3
    <3> QED BY <3>2, <3>3, <3>4
  <2> QED BY <1>3, <2>3, <2>4, <2>5 DEF SessionIso
<1> QED BY <1>4, <1>5

\* A message of a transaction that goes on keeps what the transaction has marked
\* among the rows it could see.
LEMMA OwnMarksSeen ==
    ASSUME TableInv, IsoInv, NEW s \in Session, Client(s) \/ Pipeline(s), RowsStep(s),
           Open(s), \A id : Mine(s, id)' <=> Mine(s, id)
    PROVE  MarksSeen(s)'
<1>1. SessionIso(s) /\ StampsAnnounced BY DEF IsoInv
<1>2. ~Mine(s, NotDeleted)
  <2>1. /\ op[s].txnId # NotDeleted
        /\ Committing(s) => op[s].commitId \in Nat /\ op[s].commitId < TxnIdStart
    BY MineHidden
  <2> QED BY <2>1, StampAssumption DEF Mine
<1>3. ASSUME NEW i \in DOMAIN rows, Mine(s, rows[i].ins) \/ Fresh(rows[i].ins)
      PROVE  Mine(s, rows'[i].ins) \/ Fresh(rows[i].ins)'
  <2>1. CASE Mine(s, rows[i].ins)
    <3>1. InsertStep(s, i) BY DEF RowsStep
    <3> QED BY <2>1, <3>1 DEF InsertStep, Mine, Committing
  <2>2. CASE Fresh(rows[i].ins)
    <3>1. rows'[i].ins = rows[i].ins
      <4> HIDE DEF Fresh, Announced
      <4> QED BY <1>1, <2>2, StampStep
    <3>2. rows[i].ins \in Nat /\ Announced(rows[i].ins) BY <1>1, RowStamps DEF StampsAnnounced
    <3>3. ASSUME NEW id \in Nat, Announced(id), Fresh(id), id = rows'[i].ins
          PROVE  Fresh(rows[i].ins)'
      <4>1. Fresh(id)' BY <3>3, FreshIds
      <4> QED BY <3>3, <4>1 DEF Fresh
    <3> QED BY <2>2, <3>1, <3>2, <3>3
  <2> QED BY <1>3, <2>1, <2>2
<1>4. ASSUME NEW i \in DOMAIN rows', Mine(s, rows'[i].del)
      PROVE  Mine(s, rows'[i].ins) \/ Fresh(rows[i].ins)'
  <2>1. i \in DOMAIN rows BY <1>2, <1>4 DEF RowsStep, NewRow
  <2>2. DeleteStep(s, i) BY <2>1 DEF RowsStep
  <2>3. Mine(s, rows[i].del) \/ (pc[s] = "scanned" /\ i \in op[s].ids)
    BY <1>2, <1>4, <2>2 DEF DeleteStep, Mine, Committing
  <2>4. Mine(s, rows[i].ins) \/ Fresh(rows[i].ins)
    <3>1. CASE Mine(s, rows[i].del) BY <1>1, <2>1, <3>1 DEF SessionIso, MarksSeen
    <3>2. CASE pc[s] = "scanned" /\ i \in op[s].ids
      <4>1. UseInsertedVersion(Data(s), rows[i].ins)
        BY <3>2 DEF IsoInv, ScansInView, VisibleRows, Visible
      <4>2. IsActive(s) BY <3>2 DEF TableInv, ChainsOK, ChainOK
      <4> QED BY <2>1, <4>1, <4>2, SeenIsFresh, RowStamps DEF Mine
    <3> QED BY <2>3, <3>1, <3>2
  <2> QED BY <1>3, <2>1, <2>4
<1> QED BY <1>4 DEF MarksSeen, Mine

\* Every message keeps the invariant of its own session.
LEMMA OwnSessionIso ==
    ASSUME TableInv, IsoInv, NEW s \in Session, Client(s) \/ Pipeline(s), RowsStep(s),
           pc[s] # "cleanup"
    PROVE  SessionIso(s)'
<1>t. /\ pc \in [Session -> PC] /\ op \in [Session -> Op] /\ op[s] \in Op /\ ChainOK(s)
      /\ active \in [Session -> Txn \cup {NoTxn}]
  BY DEF TableInv, ChainTypes, ChainsOK, IInv, TypeOK
<1>i. SessionIso(s) BY DEF IsoInv
<1>h. ASSUME Open(s) PROVE op[s].txnId # NotDeleted BY <1>h, MineHidden
<1>0. ASSUME pc'[s] \in {"idle", "abort", "cleanup"}, ~IsActive(s)' PROVE SessionIso(s)'
  BY <1>0 DEF SessionIso, StatementParked, AppendsKnown, MarksKnown, MarksSeen, Open,
              Committing
\* A statement's message that keeps the transaction's id.
<1>k. ASSUME IsActive(s), IsActive(s)', ~Committing(s), ~Committing(s)', op'[s].txnId = op[s].txnId
      PROVE  MarksSeen(s)'
  BY <1>k, OwnMarksSeen DEF Open, Mine
<1>1. ASSUME NEW e \in BOOLEAN, Begin(s, e) PROVE SessionIso(s)'
  <2>1. op'[s] = [NoOp EXCEPT !.explicit = e, !.txnId = TxnIdStart + nextTxnId]
    BY <1>1, <1>t DEF Begin
  <2>2. op'[s].txnId = TxnIdStart + nextTxnId /\ op'[s].stmtApp = {} /\ ~op'[s].stmtDel
    BY ONLY <2>1 DEF NoOp
  <2>3. rows' = rows /\ pc'[s] = "open" BY <1>1, <1>t DEF Begin
  <2>4. \A i \in DOMAIN rows : rows[i].ins # op'[s].txnId /\ rows[i].del # op'[s].txnId
    BY <2>2, RowStamps
  <2> QED BY <2>2, <2>3, <2>4
       DEF SessionIso, StatementParked, AppendsKnown, MarksKnown, MarksSeen, Mine, Committing
<1>2. CASE ReleaseReadOnly(s) \/ StatementFailed(s) \/ CommitEmpty(s) \/ RollbackDrain(s)
  BY <1>0, <1>2, <1>t DEF ReleaseReadOnly, StatementFailed, CommitEmpty, RollbackDrain, Abort,
                          NoTxn, IsActive
<1>3. CASE IndexCommitFailed(s) \/ PublishCommit(s) \/ RollbackDeletes(s)
  <2>1. pc'[s] \in {"idle", "abort", "cleanup"} /\ pc[s] \in {"drained", "publish", "abort"}
        /\ active' = active
    BY <1>3, <1>t DEF IndexCommitFailed, PublishCommit, Publish, RollbackDeletes, tmVars
  <2> QED BY <1>0, <1>t, <2>1 DEF ChainOK, IsActive
<1>4. CASE Reads(s)
  <2>1. PICK m \in SUBSET (1 .. MaxRows), h \in Nat : ScanReply(s, m, h) BY <1>4, ReadsReply
  <2>2. op'[s] = [op[s] EXCEPT !.ids = m, !.hits = h] BY <2>1, <1>t DEF ScanReply
  <2>3. /\ op'[s].txnId = op[s].txnId /\ op'[s].app = op[s].app
        /\ op'[s].stmtApp = op[s].stmtApp /\ op'[s].stmtDel = op[s].stmtDel /\ op'[s].del = op[s].del
    BY ONLY <1>t, <2>2 DEF Op
  <2>4. /\ rows' = rows /\ active' = active /\ pc[s] = "open" /\ pc'[s] = "scanned"
        /\ IsActive(s) /\ IsActive(s)' /\ ~Committing(s) /\ ~Committing(s)'
    BY <2>1, <1>t DEF ScanReply, tmVars, ChainOK, IsActive, Committing
  <2>5. MarksSeen(s)' BY <1>k, <2>3, <2>4
  <2> QED BY <1>i, <2>3, <2>4, <2>5
       DEF SessionIso, StatementParked, AppendsKnown, MarksKnown, Open
<1>5. CASE EmptyStatement(s)
  <2>1. /\ rows' = rows /\ active' = active /\ op' = op /\ pc[s] = "open" /\ pc'[s] = "effect"
        /\ IsActive(s) /\ IsActive(s)' /\ ~Committing(s) /\ ~Committing(s)'
    BY <1>5, <1>t DEF EmptyStatement, tmVars, ChainOK, IsActive, Committing
  <2>2. MarksSeen(s)' BY <1>k, <2>1
  <2> QED BY <1>i, <2>1, <2>2
       DEF SessionIso, StatementParked, AppendsKnown, MarksKnown, Open
<1>6. CASE StatementOk(s)
  <2>1. op' = [op EXCEPT ![s].app = @ \cup op[s].stmtApp, ![s].del = @ \/ op[s].stmtDel,
                        ![s].stmtApp = {}, ![s].stmtDel = FALSE]
    BY <1>6 DEF StatementOk
  <2>2. /\ op'[s].txnId = op[s].txnId /\ op'[s].app = op[s].app \cup op[s].stmtApp
        /\ op'[s].stmtApp = {} /\ op'[s].stmtDel = FALSE /\ op'[s].del = (op[s].del \/ op[s].stmtDel)
    BY ONLY <1>t, <2>1 DEF Op
  <2>3. /\ rows' = rows /\ active' = active /\ pc[s] = "effect" /\ pc'[s] \in {"open", "commit"}
        /\ IsActive(s) /\ IsActive(s)' /\ ~Committing(s) /\ ~Committing(s)'
    BY <1>6, <1>t DEF StatementOk, tmVars, ChainOK, IsActive, Committing
  <2>4. MarksSeen(s)' BY <1>k, <2>2, <2>3
  <2> QED BY <1>i, <2>2, <2>3, <2>4
       DEF SessionIso, StatementParked, AppendsKnown, MarksKnown, Open
<1>7. CASE Insert(s)
  <2>1. op' = [op EXCEPT ![s].stmtApp = {Len(rows) + 1}] BY <1>7 DEF Insert
  <2>2. /\ op'[s].txnId = op[s].txnId /\ op'[s].app = op[s].app
        /\ op'[s].stmtDel = op[s].stmtDel /\ op'[s].del = op[s].del
    BY ONLY <1>t, <2>1 DEF Op
  <2>3. /\ active' = active /\ pc[s] = "open" /\ pc'[s] = "effect"
        /\ IsActive(s) /\ IsActive(s)' /\ ~Committing(s) /\ ~Committing(s)'
    BY <1>7, <1>t DEF Insert, tmVars, ChainOK, IsActive, Committing
  <2>4. MarksSeen(s)' BY <1>k, <2>2, <2>3
  <2>5. AppendsKnown(s)'
    BY <1>i, <2>2, <2>3 DEF SessionIso, StatementParked, AppendsKnown, RowsStep, InsertStep, NewRow, Open
  <2>6. MarksKnown(s)'
    BY <1>h, <1>i, <2>2, <2>3 DEF SessionIso, MarksKnown, RowsStep, DeleteStep, NewRow, Open
  <2> QED BY <2>3, <2>4, <2>5, <2>6 DEF SessionIso, StatementParked
<1>8. CASE DeleteRows(s) \/ UpdateFailed(s)
  <2>1. \/ op' = [op EXCEPT ![s].ids = {}, ![s].hits = 0, ![s].stmtDel = TRUE] /\ pc'[s] = "effect"
        \/ op' = [op EXCEPT ![s].ids = {}, ![s].hits = 0] /\ pc'[s] = "failed"
    BY <1>8, <1>t DEF DeleteRows, UpdateFailed
  <2>2. /\ op'[s].txnId = op[s].txnId /\ op'[s].app = op[s].app /\ op'[s].del = op[s].del
        /\ op'[s].stmtApp = op[s].stmtApp /\ (op'[s].stmtDel \/ pc'[s] = "failed")
    BY ONLY <1>t, <2>1 DEF Op
  <2>3. /\ active' = active /\ pc[s] = "scanned" /\ pc'[s] \in {"effect", "failed"}
        /\ IsActive(s) /\ IsActive(s)' /\ ~Committing(s) /\ ~Committing(s)'
    BY <1>8, <1>t DEF DeleteRows, UpdateFailed, tmVars, ChainOK, IsActive, Committing
  <2>4. MarksSeen(s)' BY <1>k, <2>2, <2>3
  <2>5. AppendsKnown(s)'
    BY <1>i, <1>8, <2>2, <2>3
       DEF DeleteRows, UpdateFailed, SessionIso, AppendsKnown, RowsStep, InsertStep, NewRow,
           MarkDeleted, Open
  <2> QED BY <2>2, <2>3, <2>4, <2>5 DEF SessionIso, StatementParked, MarksKnown
<1>9. CASE UpdateRows(s)
  <2>1. op' = [op EXCEPT ![s].ids = {}, ![s].hits = 0, ![s].stmtDel = TRUE,
                         ![s].stmtApp = Len(rows) + 1 .. Len(rows) + op[s].hits]
    BY <1>9 DEF UpdateRows
  <2>2. op'[s].txnId = op[s].txnId /\ op'[s].app = op[s].app /\ op'[s].stmtDel
    BY ONLY <1>t, <2>1 DEF Op
  <2>3. /\ active' = active /\ pc[s] = "scanned" /\ pc'[s] = "effect"
        /\ IsActive(s) /\ IsActive(s)' /\ ~Committing(s) /\ ~Committing(s)'
    BY <1>9, <1>t DEF UpdateRows, tmVars, ChainOK, IsActive, Committing
  <2>4. MarksSeen(s)' BY <1>k, <2>2, <2>3
  <2>5. AppendsKnown(s)'
    BY <1>i, <2>2, <2>3 DEF SessionIso, StatementParked, AppendsKnown, RowsStep, InsertStep, NewRow, Open
  <2> QED BY <2>2, <2>3, <2>4, <2>5 DEF SessionIso, StatementParked, MarksKnown
<1>10. CASE CommitDrain(s)
  <2>1. op'[s] = [op[s] EXCEPT !.commitId = currentTs] BY <1>10, <1>t DEF CommitDrain
  <2>2. /\ op'[s].txnId = op[s].txnId /\ op'[s].app = op[s].app /\ op'[s].del = op[s].del
        /\ op'[s].stmtApp = op[s].stmtApp /\ op'[s].stmtDel = op[s].stmtDel
        /\ op'[s].commitId = currentTs
    BY ONLY <1>t, <2>1 DEF Op
  <2>3. rows' = rows /\ pc[s] \in {"open", "commit"} /\ pc'[s] = "drained" /\ IsActive(s)
    BY <1>10, <1>t DEF CommitDrain, AtCommit, Commit
  <2>4. ASSUME NEW i \in DOMAIN rows, Mine(s, rows[i].del)' PROVE Mine(s, rows[i].ins)' \/ Fresh(rows[i].ins)'
    <3>1. rows[i].del # currentTs /\ rows[i].ins \in Nat BY RowStamps
    <3>2. Mine(s, rows[i].del) BY <2>2, <2>3, <2>4, <3>1 DEF Mine
    <3>3. Mine(s, rows[i].ins) \/ Fresh(rows[i].ins)
      BY <1>i, <2>3, <3>2 DEF SessionIso, MarksSeen, Open
    <3>4. CASE Mine(s, rows[i].ins) BY <2>2, <2>3, <3>4 DEF Mine, Committing
    <3>5. CASE Fresh(rows[i].ins)
      <4>1. horizon' = horizon /\ inFlight' = inFlight \cup {currentTs}
        BY <1>10 DEF CommitDrain, Commit
      <4>2. rows[i].ins # currentTs BY RowStamps
      <4> QED BY <2>3, <3>5, <4>1, <4>2 DEF Fresh
    <3> QED BY <3>3, <3>4, <3>5
  <2>5. MarksSeen(s)' BY <2>3, <2>4 DEF MarksSeen
  <2> QED BY <1>i, <2>2, <2>3, <2>5
       DEF SessionIso, StatementParked, AppendsKnown, MarksKnown, Open
<1>11. CASE StampAppends(s)
  <2>1. /\ pc[s] = "drained" /\ pc'[s] = "deletes" /\ op' = op /\ Open(s) /\ Committing(s)
        /\ Committing(s)' /\ Open(s)' /\ rows' = CommitAppend(rows, op[s].app, op[s].commitId)
    BY <1>11, <1>t DEF StampAppends, Open, Committing
  <2>2. MarksSeen(s)' BY <2>1, OwnMarksSeen DEF Mine
  <2>3. op[s].commitId # op[s].txnId /\ \A i \in DOMAIN rows : rows[i] \in Row
    BY <2>1, MineHidden, RowStamps, StampAssumption
  <2>4. ASSUME NEW i \in DOMAIN rows' PROVE rows'[i].ins # op[s].txnId /\ rows'[i].del = rows[i].del
    <3>1. i \in DOMAIN rows BY <2>1 DEF CommitAppend
    <3>2. rows[i].ins = op[s].txnId => i \in op[s].app
      BY <1>i, <2>1, <3>1 DEF SessionIso, StatementParked, AppendsKnown
    <3> QED BY <2>1, <2>3, <3>1, <3>2 DEF CommitAppend, Row
  <2>5. AppendsKnown(s)' BY <2>1, <2>4 DEF AppendsKnown
  <2>6. MarksKnown(s)'
    BY <1>i, <2>1, <2>4 DEF SessionIso, MarksKnown, CommitAppend
  <2> QED BY <1>i, <2>1, <2>2, <2>5, <2>6 DEF SessionIso, StatementParked
<1>12. CASE StampDeletes(s)
  <2>1. /\ pc[s] = "deletes" /\ pc'[s] = "publish" /\ op' = op /\ Open(s) /\ Committing(s)
        /\ Committing(s)' /\ Open(s)'
        /\ rows' = IF op[s].del THEN RestampDeletes(rows, op[s].txnId, op[s].commitId) ELSE rows
    BY <1>12, <1>t DEF StampDeletes, CommitAllDeletes, Open, Committing
  <2>2. MarksSeen(s)' BY <2>1, OwnMarksSeen DEF Mine
  <2>3. op[s].commitId # op[s].txnId /\ \A i \in DOMAIN rows : rows[i] \in Row
    BY <2>1, MineHidden, RowStamps, StampAssumption
  <2>4. ASSUME NEW i \in DOMAIN rows' PROVE rows'[i].del # op[s].txnId /\ rows'[i].ins # op[s].txnId
    <3>1. i \in DOMAIN rows BY <2>1 DEF RestampDeletes
    <3>2. rows[i].ins # op[s].txnId /\ (rows[i].del = op[s].txnId => op[s].del)
      BY <1>i, <2>1, <3>1 DEF SessionIso, StatementParked, AppendsKnown, MarksKnown
    <3> QED BY <2>1, <2>3, <3>1, <3>2 DEF RestampDeletes, Row
  <2> QED BY <1>i, <2>1, <2>2, <2>4
       DEF SessionIso, StatementParked, AppendsKnown, MarksKnown
<1>13. ~MaybeCleanup(s) BY DEF MaybeCleanup
<1> QED
  BY ONLY <1>1, <1>2, <1>3, <1>4, <1>5, <1>6, <1>7, <1>8, <1>9, <1>10, <1>11, <1>12, <1>13,
          s \in Session, Client(s) \/ Pipeline(s), MessageKinds

\* A chain that waits for its compaction does nothing else.
LEMMA OnlyCleanup ==
    ASSUME NEW s \in Session, Client(s) \/ Pipeline(s), pc[s] = "cleanup"
    PROVE  MaybeCleanup(s)
BY DEF Client, Pipeline, Begin, ReleaseReadOnly, Insert, Scan, IndexScan, ScanReply, EmptyStatement,
       DeleteRows, UpdateRows, UpdateFailed, StatementFailed, CommitDrain, CommitEmpty, AtCommit,
       IndexCommitFailed, RollbackDrain, StatementOk, StampAppends, StampDeletes, PublishCommit,
       RollbackDeletes

\* The message leaves a session's chain alone.
SameChain(t) ==
    /\ pc'[t] = pc[t] /\ op'[t] = op[t]
    /\ Open(t)' <=> Open(t)
    /\ \A id : Mine(t, id)' <=> Mine(t, id)

\* A message of a session without a transaction, which changes no other chain.
Untouched(s) ==
    /\ ~Open(s) /\ ~Open(s)'
    /\ \A t \in Session \ {s} : SameChain(t)
    /\ UNCHANGED tmVars

\* A compaction rebuilds a heap whose stamps belong to nobody.
Packs ==
    /\ \A i \in DOMAIN rows : \A t \in Session :
          Open(t) => ~Mine(t, rows[i].ins) /\ ~Mine(t, rows[i].del)
    /\ \A i \in DOMAIN rows' : /\ rows'[i].ins = 0 /\ rows'[i].del = NotDeleted
                                /\ \A t \in Session : Open(t) => ~Mine(t, 0) /\ ~Mine(t, NotDeleted)

\* A maybe_cleanup touches no chain but its own, and what it rebuilds is nobody's.
LEMMA CleanupStep ==
    ASSUME TableInv, UniqueKeys, NEW s \in Session, MaybeCleanup(s)
    PROVE  Untouched(s) /\ (rows' = rows \/ (Packs /\ UniqueKeys'))
<1> USE StampAssumption, TableAssumption, MaxTsAssumption
<1>t. /\ pc \in [Session -> PC] /\ op \in [Session -> Op] /\ op[s] \in Op /\ ChainOK(s) /\ IInv
      /\ rows \in Seq(Row) /\ DOMAIN rows = 1 .. Len(rows) /\ inFlight \in SUBSET (1 .. MaxTs)
      /\ \A i \in DOMAIN rows : rows[i] \in Row
  BY LenProperties DEF TableInv, ChainTypes, ChainsOK, IInv, TypeOK, HeapOK
<1>1. Untouched(s)
  <2>1. pc[s] = "cleanup" /\ pc'[s] = "idle" /\ active' = active /\ UNCHANGED tmVars
    BY <1>t DEF MaybeCleanup, tmVars
  <2>2. \A t \in Session \ {s} : pc'[t] = pc[t] /\ op'[t] = op[t] BY <1>t DEF MaybeCleanup
  <2>3. ~Open(s) /\ ~Open(s)' BY <1>t, <2>1 DEF Open, Committing, ChainOK, IsActive
  <2>4. ASSUME NEW t \in Session \ {s} PROVE SameChain(t)
    BY <2>1, <2>2 DEF SameChain, Open, Mine, Committing, IsActive
  <2> QED BY <2>1, <2>3, <2>4 DEF Untouched
<1>2. CASE rows' # rows
  <2>1. pc[s] = "cleanup" /\ rows' = Rebuilt(rows) /\ ~HasVersionAbove(rows, op[s].watermark)
    BY <1>2 DEF MaybeCleanup, Compact
  <2>2. op[s].watermark \in 0 .. MaxTs /\ op[s].watermark <= CompactWatermark
    BY <1>t, <2>1 DEF Op, ChainOK
  <2>3. CompactWatermark \in 0 .. MaxTs BY <1>t, WatermarkRange
  <2>4. \A c \in 0 .. CompactWatermark : c \notin inFlight
    BY FreshSnapshot, <1>t DEF IsSnapshot
  <2>5. ASSUME NEW i \in DOMAIN rows
        PROVE  /\ rows[i].ins \in 0 .. CompactWatermark
               /\ rows[i].del = NotDeleted \/ rows[i].del \in 0 .. CompactWatermark
    BY <1>t, <2>1, <2>2, <2>3 DEF HasVersionAbove, Row
  <2>6. ASSUME NEW t \in Session, Open(t), NEW id, id = NotDeleted \/ id \in 0 .. CompactWatermark
        PROVE  ~Mine(t, id)
    <3>1. /\ op[t].txnId \in Nat /\ op[t].txnId >= TxnIdStart /\ op[t].txnId # NotDeleted
          /\ Committing(t) => op[t].commitId \in inFlight
      BY <2>6, MineHidden
    <3> QED BY <1>t, <2>3, <2>4, <2>6, <3>1 DEF Mine
  <2>7. \A k \in DOMAIN rows' : \E i \in LivePositions(rows) :
           /\ Rank(LivePositions(rows), i) = k
           /\ rows'[k] = [key |-> rows[i].key, ins |-> 0, del |-> NotDeleted]
    BY <1>t, <2>1, RebuiltRows
  <2>8. Packs
    <3>1. 0 \in 0 .. CompactWatermark BY <2>3
    <3>2. \A k \in DOMAIN rows' : rows'[k].ins = 0 /\ rows'[k].del = NotDeleted BY <2>7
    <3> QED BY <2>5, <2>6, <3>1, <3>2 DEF Packs
  <2>9. UniqueKeys'
    <3>1. ASSUME NEW k \in DOMAIN rows', NEW l \in DOMAIN rows', rows'[k].key = rows'[l].key
          PROVE  k = l
      <4>1. PICK i \in LivePositions(rows) : /\ Rank(LivePositions(rows), i) = k
                                             /\ rows'[k] = [key |-> rows[i].key, ins |-> 0, del |-> NotDeleted]
        BY <2>7
      <4>2. PICK j \in LivePositions(rows) : /\ Rank(LivePositions(rows), j) = l
                                             /\ rows'[l] = [key |-> rows[j].key, ins |-> 0, del |-> NotDeleted]
        BY <2>7
      <4>3. i \in DOMAIN rows /\ j \in DOMAIN rows BY DEF LivePositions
      <4>4. rows[i].key = rows[j].key BY <3>1, <4>1, <4>2
      <4> QED BY <4>1, <4>2, <4>3, <4>4 DEF UniqueKeys
    <3> QED BY <3>1 DEF UniqueKeys
  <2> QED BY <1>1, <2>8, <2>9
<1> QED BY <1>1, <1>2

\* Compacting the table keeps the invariant.
LEMMA CleanupIso ==
    ASSUME TableInv, TableInv', IsoInv, NEW s \in Session, MaybeCleanup(s)
    PROVE  /\ UniqueKeys' /\ StampsAnnounced' /\ InsertedFirst'
           /\ \A t \in Session : SessionIso(t)'
<1> USE StampAssumption, TableAssumption, MaxTsAssumption
<1>1. Untouched(s) /\ (rows' = rows \/ (Packs /\ UniqueKeys')) BY CleanupStep DEF IsoInv
<1>2. UNCHANGED <<horizon, inFlight>> /\ horizon \in Nat
  BY <1>1 DEF Untouched, tmVars, TableInv, IInv, TypeOK
<1>3. UniqueKeys' BY <1>1 DEF IsoInv, UniqueKeys
<1>4. StampsAnnounced' /\ InsertedFirst'
  <2>1. CASE rows' = rows
    BY <1>2, <2>1 DEF IsoInv, StampsAnnounced, Announced, InsertedFirst, Fresh
  <2>2. CASE Packs
    BY <1>2, <2>2 DEF Packs, StampsAnnounced, Announced, InsertedFirst, Fresh
  <2> QED BY <1>1, <2>1, <2>2
<1>5. SessionIso(s)'
  <2>1. ~Open(s)' /\ pc'[s] = "idle" BY <1>1 DEF Untouched, MaybeCleanup, TableInv, ChainTypes
  <2> QED BY <2>1 DEF SessionIso, StatementParked, AppendsKnown, MarksKnown, MarksSeen
<1>6. ASSUME NEW t \in Session \ {s} PROVE SessionIso(t)'
  <2>1. /\ SessionIso(t) /\ pc'[t] = pc[t] /\ op'[t] = op[t] /\ (Open(t)' <=> Open(t))
        /\ \A id : Mine(t, id)' <=> Mine(t, id)
    <3>1. SameChain(t) BY <1>1 DEF Untouched
    <3> QED BY <3>1 DEF IsoInv, SameChain
  <2>2. StatementParked(t)' BY <2>1 DEF SessionIso, StatementParked
  <2>3. CASE ~Open(t)
    <3>1. ~Open(t)' BY <2>1, <2>3
    <3> QED BY ONLY <2>2, <3>1 DEF SessionIso, AppendsKnown, MarksKnown, MarksSeen
  <2>4. CASE Open(t) /\ rows' = rows
    <3>1. AppendsKnown(t)' /\ MarksKnown(t)' BY <2>1, <2>4 DEF SessionIso, AppendsKnown, MarksKnown
    <3>2. MarksSeen(t)' BY <1>2, <2>1, <2>4 DEF SessionIso, MarksSeen, Mine, Fresh
    <3> QED BY <2>2, <3>1, <3>2 DEF SessionIso
  <2>5. CASE Open(t) /\ Packs
    <3>1. \A i \in DOMAIN rows' : ~Mine(t, rows'[i].ins) /\ ~Mine(t, rows'[i].del)
      BY <2>5 DEF Packs
    <3>2. AppendsKnown(t)' /\ MarksKnown(t)' BY <2>1, <3>1 DEF AppendsKnown, MarksKnown, Mine
    <3>3. MarksSeen(t)' BY <2>1, <3>1 DEF MarksSeen, Mine
    <3> QED BY <2>2, <3>2, <3>3 DEF SessionIso
  <2> QED BY <1>1, <2>3, <2>4, <2>5
<1> QED BY <1>3, <1>4, <1>5, <1>6

\* Every message of every session preserves the invariant, if the scans stay in view.
LEMMA NextIsoInv ==
    TableInv /\ TableInv' /\ IsoInv /\ [TableNext /\ ScansInView']_vars => IsoInv'
<1>1. ASSUME TableInv, TableInv', IsoInv, ScansInView', NEW s \in Session, Client(s) \/ Pipeline(s)
      PROVE  IsoInv'
  <2>1. CASE pc[s] # "cleanup"
    <3>1. RowsStep(s) BY <1>1, <2>1, RowsSteps
    <3>2. UniqueKeys' BY <1>1, <3>1, KeysStep DEF IsoInv, TableInv, HeapOK
    <3>3. StampsAnnounced' BY <1>1, <3>1, AnnouncedStep DEF IsoInv
    <3>4. InsertedFirst' BY <1>1, <3>1, InsertedFirstStep
    <3>5. \A t \in Session \ {s} : SessionIso(t)' BY <1>1, <3>1, OtherSessionIso
    <3>6. SessionIso(s)' BY <1>1, <2>1, <3>1, OwnSessionIso
    <3> QED BY <1>1, <3>2, <3>3, <3>4, <3>5, <3>6 DEF IsoInv
  <2>2. CASE pc[s] = "cleanup"
    <3>1. MaybeCleanup(s) BY <1>1, <2>2, OnlyCleanup
    <3> QED BY <1>1, <3>1, CleanupIso DEF IsoInv
  <2> QED BY <2>1, <2>2
<1>2. ASSUME IsoInv, UNCHANGED vars PROVE IsoInv'
  <2>1. UNCHANGED <<nextTxnId, currentTs, active, inFlight, horizon, phase, rows, nextKey, pc, op>>
    BY <1>2 DEF vars, tmVars, tableVars
  <2>2. UniqueKeys' /\ StampsAnnounced' /\ InsertedFirst'
    BY <1>2, <2>1 DEF IsoInv, UniqueKeys, StampsAnnounced, Announced, InsertedFirst, Fresh
  <2>3. ASSUME NEW t \in Session PROVE SessionIso(t)'
    <3>1. SessionIso(t) BY <1>2 DEF IsoInv
    <3>2. StatementParked(t)' /\ AppendsKnown(t)' /\ MarksKnown(t)'
      BY <2>1, <3>1 DEF SessionIso, StatementParked, AppendsKnown, MarksKnown, Open, IsActive, Committing
    <3>3. MarksSeen(t)'
      BY <2>1, <3>1 DEF SessionIso, MarksSeen, Mine, Fresh, Open, IsActive, Committing
    <3> QED BY <3>2, <3>3 DEF SessionIso
  <2>4. ScansInView' BY <1>2, <2>1 DEF IsoInv, ScansInView, VisibleRows, Data
  <2> QED BY <2>2, <2>3, <2>4 DEF IsoInv
<1> QED BY <1>1, <1>2 DEF TableNext

\* A table as the bootstrap hands it over satisfies the invariant.
LEMMA InitIsoInv == TableInit => IsoInv
<1> SUFFICES ASSUME TableInit PROVE IsoInv
  OBVIOUS
<1> USE StampAssumption, TableAssumption, MaxTsAssumption DEF TableInit
<1>1. UniqueKeys /\ StampsAnnounced /\ InsertedFirst
  BY DEF UniqueKeys, StampsAnnounced, Announced, InsertedFirst, Fresh
<1>2. ASSUME NEW s \in Session PROVE SessionIso(s)
  <2>1. pc[s] = "idle" /\ ~IsActive(s) BY DEF IsActive, NoTxn
  <2> QED BY <2>1 DEF SessionIso, StatementParked, AppendsKnown, MarksKnown, MarksSeen,
                      Open, Committing
<1>3. ScansInView BY DEF ScansInView
<1> QED BY <1>1, <1>2, <1>3 DEF IsoInv

-----------------------------------------------------------------------------
(* The refinement, step by step.                                           *)

\* The rows of a set of stamps, by their keys.
InsertedBy(s) == {rows[i].key : i \in {j \in DOMAIN rows : Mine(s, rows[j].ins)}}
DeletedBy(s) == {rows[i].key : i \in {j \in DOMAIN rows : Mine(s, rows[j].del)}}

LEMMA OwnSets ==
    ASSUME NEW s
    PROVE  /\ OwnInserts(s) = IF Open(s) THEN InsertedBy(s) ELSE {}
           /\ OwnDeletes(s) = IF Open(s) THEN DeletedBy(s) ELSE {}
           /\ OwnInserts(s)' = IF Open(s)' THEN InsertedBy(s)' ELSE {}
           /\ OwnDeletes(s)' = IF Open(s)' THEN DeletedBy(s)' ELSE {}
<1>1. /\ Open(s) => OwnInserts(s) = InsertedBy(s) /\ OwnDeletes(s) = DeletedBy(s)
      /\ Open(s)' => OwnInserts(s)' = InsertedBy(s)' /\ OwnDeletes(s)' = DeletedBy(s)'
  BY DEF OwnInserts, OwnDeletes, Own, KeysAt, Open, InsertedBy, DeletedBy, Mine
<1>2. /\ ~Open(s) => OwnInserts(s) = {} /\ OwnDeletes(s) = {}
      /\ ~Open(s)' => OwnInserts(s)' = {} /\ OwnDeletes(s)' = {}
  BY DEF OwnInserts, OwnDeletes, Own, Open
<1> QED BY <1>1, <1>2

LEMMA FreshViewSet ==
    /\ FreshView = {rows[i].key : i \in {j \in DOMAIN rows : Fresh(rows[j].ins) /\ ~Fresh(rows[j].del)}}
    /\ FreshView' = {rows'[i].key : i \in {j \in DOMAIN rows' : Fresh(rows[j].ins)' /\ ~Fresh(rows[j].del)'}}
BY DEF FreshView, KeysAt, VisibleRows, Visible, UseDeletedVersion, UseInsertedVersion, FreshData, Fresh

\* What the other sessions contribute to the store.
SameForOthers(s) ==
    \A t \in Session \ {s} :
        /\ StoreStatus(t)' = StoreStatus(t) /\ OpenSnapshot(t)' = OpenSnapshot(t)
        /\ OwnInserts(t)' = OwnInserts(t) /\ OwnDeletes(t)' = OwnDeletes(t)

\* The moves of the store, in terms of the session that makes them.
LEMMA StoreBegins ==
    ASSUME NEW s \in Session, SameForOthers(s),
           StoreStatus(s) = "none", StoreStatus(s)' = "active", OpenSnapshot(s)' = FreshView,
           OwnInserts(s)' = OwnInserts(s), OwnDeletes(s)' = OwnDeletes(s), FreshView' = FreshView
    PROVE  Store!StoreBegin(s)
BY DEF SameForOthers, Store!StoreBegin

LEMMA StoreCommits ==
    ASSUME NEW s \in Session, SameForOthers(s),
           StoreStatus(s) = "active", StoreStatus(s)' = "committing", OpenSnapshot(s)' = {},
           OwnInserts(s)' = OwnInserts(s), OwnDeletes(s)' = OwnDeletes(s), FreshView' = FreshView
    PROVE  Store!StoreCommit(s)
BY DEF SameForOthers, Store!StoreCommit

LEMMA StorePublishes ==
    ASSUME NEW s \in Session, SameForOthers(s),
           StoreStatus(s) = "committing", StoreStatus(s)' = "none",
           OpenSnapshot(s)' = OpenSnapshot(s), OwnInserts(s)' = {}, OwnDeletes(s)' = {},
           FreshView' = (FreshView \cup OwnInserts(s)) \ OwnDeletes(s)
    PROVE  Store!StorePublish(s)
BY DEF SameForOthers, Store!StorePublish

LEMMA StoreAborts ==
    ASSUME NEW s \in Session, SameForOthers(s),
           StoreStatus(s) # "none", StoreStatus(s)' = "none",
           OpenSnapshot(s)' = {}, OwnInserts(s)' = {}, OwnDeletes(s)' = {}, FreshView' = FreshView
    PROVE  Store!StoreAbort(s)
BY DEF SameForOthers, Store!StoreAbort

LEMMA StoreStutters ==
    ASSUME NEW s \in Session, SameForOthers(s),
           StoreStatus(s)' = StoreStatus(s), OpenSnapshot(s)' = OpenSnapshot(s),
           OwnInserts(s)' = OwnInserts(s), OwnDeletes(s)' = OwnDeletes(s), FreshView' = FreshView
    PROVE  UNCHANGED Store!storeVars
BY DEF SameForOthers, Store!storeVars

LEMMA StoreWrites ==
    ASSUME NEW s \in Session, SameForOthers(s),
           StoreStatus(s) = "active", StoreStatus(s)' = "active", OpenSnapshot(s)' = OpenSnapshot(s),
           OwnInserts(s) \subseteq OwnInserts(s)', OwnDeletes(s) \subseteq OwnDeletes(s)',
           \A k \in OwnInserts(s)' \ OwnInserts(s) :
              /\ k \notin FreshView
              /\ \A t \in Session : /\ k \notin OpenSnapshot(t) /\ k \notin OwnInserts(t)
                                    /\ k \notin OwnDeletes(t),
           OwnDeletes(s)' \ OwnDeletes(s) \subseteq (OpenSnapshot(s) \cup OwnInserts(s)),
           FreshView' = FreshView
    PROVE  Store!StoreWrite(s)
<1> DEFINE new == OwnInserts(s)' \ OwnInserts(s)
           gone == OwnDeletes(s)' \ OwnDeletes(s)
<1>1. new \cap Store!Known = {} BY DEF Store!Known
<1>2. gone \subseteq Store!View(s) BY DEF Store!View
<1>3. /\ [t \in Session |-> OwnInserts(t)'] =
            [[t \in Session |-> OwnInserts(t)] EXCEPT ![s] = @ \cup new]
      /\ [t \in Session |-> OwnDeletes(t)'] =
            [[t \in Session |-> OwnDeletes(t)] EXCEPT ![s] = @ \cup gone]
      /\ [t \in Session |-> StoreStatus(t)'] = [t \in Session |-> StoreStatus(t)]
      /\ [t \in Session |-> OpenSnapshot(t)'] = [t \in Session |-> OpenSnapshot(t)]
  BY DEF SameForOthers
<1> HIDE DEF new, gone
<1>4. /\ [t \in Session |-> OwnInserts(t)'][s] \ [t \in Session |-> OwnInserts(t)][s] = new
      /\ [t \in Session |-> OwnDeletes(t)'][s] \ [t \in Session |-> OwnDeletes(t)][s] = gone
      /\ [t \in Session |-> StoreStatus(t)][s] = "active"
  BY DEF new, gone
<1> QED BY <1>1, <1>2, <1>3, <1>4 DEF Store!StoreWrite

-----------------------------------------------------------------------------
(* Which message makes which move.                                         *)

\* The other sessions contribute what they did before.
LEMMA OthersSame ==
    ASSUME TableInv, IInv', NEW s \in Session, Client(s) \/ Pipeline(s), RowsStep(s)
    PROVE  SameForOthers(s)
<1> SUFFICES ASSUME NEW t \in Session \ {s}
             PROVE  /\ StoreStatus(t)' = StoreStatus(t) /\ OpenSnapshot(t)' = OpenSnapshot(t)
                    /\ OwnInserts(t)' = OwnInserts(t) /\ OwnDeletes(t)' = OwnDeletes(t)
  BY DEF SameForOthers
<1>1. pc'[t] = pc[t] /\ op'[t] = op[t] /\ active'[t] = active[t] BY OthersKept
<1>2. StoreStatus(t)' = StoreStatus(t) BY <1>1 DEF StoreStatus, IsActive, Committing
<1>3. OpenSnapshot(t)' = OpenSnapshot(t)
  <2>1. IsActive(t) => SnapshotView(t)' = SnapshotView(t) BY <1>1, SnapshotViewStep
  <2>2. IsActive(t)' <=> IsActive(t) BY <1>1 DEF IsActive
  <2> QED BY <2>1, <2>2 DEF OpenSnapshot
<1>4. CASE ~Open(t)
  <2>1. ~Open(t)' BY <1>1, <1>4 DEF Open, IsActive, Committing
  <2> QED BY <1>2, <1>3, <1>4, <2>1, OwnSets
<1>5. CASE Open(t)
  <2>1. /\ Open(t)' /\ \A id : Mine(t, id)' <=> Mine(t, id)
        /\ \A i \in DOMAIN rows :
              /\ Mine(t, rows[i].ins) \/ Mine(t, rows'[i].ins) => rows'[i].ins = rows[i].ins
              /\ Mine(t, rows[i].del) \/ Mine(t, rows'[i].del) => rows'[i].del = rows[i].del
        /\ \A i \in DOMAIN rows' \ DOMAIN rows :
              ~Mine(t, rows'[i].ins) /\ ~Mine(t, rows'[i].del)
    BY <1>5, OtherRows
  <2>2. /\ DOMAIN rows \subseteq DOMAIN rows'
        /\ \A i \in DOMAIN rows : rows'[i].key = rows[i].key
    BY DEF RowsStep
  <2>3. /\ InsertedBy(t)' = {rows'[i].key : i \in {j \in DOMAIN rows' : Mine(t, rows'[j].ins)}}
        /\ DeletedBy(t)' = {rows'[i].key : i \in {j \in DOMAIN rows' : Mine(t, rows'[j].del)}}
    BY <2>1 DEF InsertedBy, DeletedBy, Mine
  <2>4. /\ {j \in DOMAIN rows' : Mine(t, rows'[j].ins)} = {j \in DOMAIN rows : Mine(t, rows[j].ins)}
        /\ {j \in DOMAIN rows' : Mine(t, rows'[j].del)} = {j \in DOMAIN rows : Mine(t, rows[j].del)}
    BY <2>1, <2>2
  <2>5. InsertedBy(t)' = InsertedBy(t) /\ DeletedBy(t)' = DeletedBy(t)
    <3>1. ASSUME NEW A \in SUBSET DOMAIN rows
          PROVE  {rows'[i].key : i \in A} = {rows[i].key : i \in A}
      BY <2>2
    <3> QED BY <2>3, <2>4, <3>1 DEF InsertedBy, DeletedBy
  <2> QED BY <1>2, <1>3, <1>5, <2>1, <2>5, OwnSets
<1> QED BY <1>4, <1>5

\* All keys anybody holds are keys of the heap.
LEMMA KnownKeys ==
    ASSUME TableInv, NEW t \in Session,
           NEW k \in FreshView \cup OpenSnapshot(t) \cup OwnInserts(t) \cup OwnDeletes(t)
    PROVE  k \in Nat /\ k < nextKey
<1>1. \E i \in DOMAIN rows : k = rows[i].key
  <2>1. CASE k \in FreshView BY <2>1 DEF FreshView, KeysAt, VisibleRows
  <2>2. CASE k \in OpenSnapshot(t) BY <2>2 DEF OpenSnapshot, SnapshotView, KeysAt, VisibleRows
  <2>3. CASE k \in OwnInserts(t) BY <2>3, OwnSets DEF InsertedBy
  <2>4. CASE k \in OwnDeletes(t) BY <2>4, OwnSets DEF DeletedBy
  <2> QED BY <2>1, <2>2, <2>3, <2>4
<1> QED BY <1>1, RowStamps

\* A message of a statement is a write of the store, perhaps an empty one.
LEMMA WriteStep ==
    ASSUME TableInv, IInv', IsoInv, NEW s \in Session, Client(s) \/ Pipeline(s), RowsStep(s),
           IsActive(s), active' = active, ~Committing(s), ~Committing(s)',
           op'[s].txnId = op[s].txnId, rows' \in Seq(Row)
    PROVE  Store!StoreWrite(s)
<1>1. SessionIso(s) /\ ChainOK(s) BY DEF IsoInv, TableInv, ChainsOK
<1>2. /\ IsActive(s)' /\ Open(s) /\ Open(s)' /\ op[s].txnId # NotDeleted
      /\ \A id : (Mine(s, id) <=> id = op[s].txnId) /\ (Mine(s, id)' <=> id = op[s].txnId)
  BY MineHidden DEF IsActive, Open, Mine
<1>3. pc[s] \notin {"drained", "deletes", "abort"} BY <1>1 DEF ChainOK
<1>4. /\ OwnInserts(s) = {rows[i].key : i \in {j \in DOMAIN rows : rows[j].ins = op[s].txnId}}
      /\ OwnDeletes(s) = {rows[i].key : i \in {j \in DOMAIN rows : rows[j].del = op[s].txnId}}
      /\ OwnInserts(s)' = {rows'[i].key : i \in {j \in DOMAIN rows' : rows'[j].ins = op[s].txnId}}
      /\ OwnDeletes(s)' = {rows'[i].key : i \in {j \in DOMAIN rows' : rows'[j].del = op[s].txnId}}
  BY <1>2, OwnSets DEF InsertedBy, DeletedBy
<1>5. /\ DOMAIN rows \subseteq DOMAIN rows'
      /\ \A i \in DOMAIN rows :
            /\ rows'[i].key = rows[i].key /\ rows'[i].ins = rows[i].ins
            /\ \/ rows'[i].del = rows[i].del
               \/ /\ pc[s] = "scanned" /\ i \in op[s].ids
                  /\ rows[i].del = NotDeleted /\ rows'[i].del = op[s].txnId
      /\ \A i \in DOMAIN rows' \ DOMAIN rows :
            rows'[i].key = nextKey + i - Len(rows) - 1 /\ rows'[i].del = NotDeleted
  BY <1>3 DEF RowsStep, InsertStep, DeleteStep, NewRow
<1>6. /\ StoreStatus(s) = "active" /\ StoreStatus(s)' = "active"
      /\ OpenSnapshot(s) = SnapshotView(s) /\ OpenSnapshot(s)' = OpenSnapshot(s)
  BY <1>2, SnapshotViewStep DEF StoreStatus, OpenSnapshot
<1>7. OwnInserts(s) \subseteq OwnInserts(s)' BY <1>4, <1>5
<1>8. OwnDeletes(s) \subseteq OwnDeletes(s)' BY <1>2, <1>4, <1>5
<1>9. ASSUME NEW k \in OwnInserts(s)' \ OwnInserts(s)
      PROVE  /\ k \notin FreshView
             /\ \A t \in Session : /\ k \notin OpenSnapshot(t) /\ k \notin OwnInserts(t)
                                   /\ k \notin OwnDeletes(t)
  <2>1. PICK i \in DOMAIN rows' : rows'[i].ins = op[s].txnId /\ k = rows'[i].key BY <1>4
  <2>2. i \notin DOMAIN rows BY <1>4, <1>5, <2>1
  <2>3. /\ nextKey \in Nat /\ Len(rows) \in Nat /\ DOMAIN rows = 1 .. Len(rows)
        /\ Len(rows') \in Nat /\ DOMAIN rows' = 1 .. Len(rows')
    BY LenProperties DEF TableInv, HeapOK
  <2>4. k >= nextKey BY <1>5, <2>1, <2>2, <2>3
  <2>5. \A n \in Nat : n < nextKey => ~(n >= nextKey) BY <2>3
  <2> QED BY <2>4, <2>5, KnownKeys
<1>10. ASSUME NEW k \in OwnDeletes(s)' \ OwnDeletes(s)
       PROVE  k \in OpenSnapshot(s) \cup OwnInserts(s)
  <2>1. PICK i \in DOMAIN rows' : rows'[i].del = op[s].txnId /\ k = rows'[i].key BY <1>4
  <2>2. i \in DOMAIN rows /\ k = rows[i].key BY <1>2, <1>5, <2>1
  <2>3. rows[i].del # op[s].txnId BY <1>4, <2>2
  <2>4. pc[s] = "scanned" /\ i \in op[s].ids /\ rows[i].del = NotDeleted
    BY <1>5, <2>1, <2>2, <2>3
  <2>5. UseInsertedVersion(Data(s), rows[i].ins)
    BY <2>4 DEF IsoInv, ScansInView, VisibleRows, Visible
  <2>6. CASE rows[i].ins = op[s].txnId BY <1>4, <2>2, <2>6
  <2>7. CASE UseInsertedVersion([Data(s) EXCEPT !.transactionId = 0], rows[i].ins)
    <3> DEFINE txn == [Data(s) EXCEPT !.transactionId = 0]
    <3>1. txn.transactionId = 0 BY DEF Data
    <3> HIDE DEF txn
    <3>2. ~UseInsertedVersion(txn, NotDeleted)
      BY <3>1, PendingHidden, StampAssumption
    <3>3. Visible(txn, rows[i]) BY <2>4, <2>7, <3>2 DEF Visible, UseDeletedVersion, txn
    <3>4. k \in KeysAt(VisibleRows(txn)) BY <2>2, <3>3 DEF KeysAt, VisibleRows
    <3> QED BY <1>6, <3>4 DEF SnapshotView, txn
  <2>8. rows[i].ins \in Nat BY <2>2, RowStamps
  <2> QED BY <2>5, <2>6, <2>7, <2>8, SeenIsFresh
<1>11. ~PublishCommit(s) BY DEF PublishCommit, Committing
<1>12. FreshView' = FreshView BY <1>11, FreshViewStep
<1>13. SameForOthers(s) BY OthersSame
<1>14. OwnDeletes(s)' \ OwnDeletes(s) \subseteq (OpenSnapshot(s) \cup OwnInserts(s)) BY <1>10
<1> QED BY ONLY s \in Session, <1>6, <1>7, <1>8, <1>9, <1>12, <1>13, <1>14, StoreWrites

\* Stamping the rows of a commit changes nothing for anybody.
LEMMA StampsStutter ==
    ASSUME TableInv, IInv', NEW s \in Session, StampAppends(s) \/ StampDeletes(s), RowsStep(s)
    PROVE  UNCHANGED Store!storeVars
<1>s. Client(s) \/ Pipeline(s) BY DEF Pipeline
<1>1. /\ Committing(s) /\ Committing(s)' /\ op' = op /\ active' = active /\ ~IsActive(s)
      /\ pc[s] \in {"drained", "deletes"}
  BY DEF StampAppends, StampDeletes, Committing, tmVars, TableInv, ChainTypes, ChainsOK, ChainOK
<1>2. /\ Open(s) /\ Open(s)' /\ ~IsActive(s)' /\ \A id : Mine(s, id)' <=> Mine(s, id)
  BY <1>1 DEF Open, IsActive, Mine
<1>3. /\ DOMAIN rows' = DOMAIN rows
      /\ \A i \in DOMAIN rows : /\ rows'[i].key = rows[i].key
                                /\ Mine(s, rows'[i].ins) <=> Mine(s, rows[i].ins)
                                /\ Mine(s, rows'[i].del) <=> Mine(s, rows[i].del)
  BY <1>1 DEF RowsStep, InsertStep, DeleteStep, NewRow, Mine
<1>4. InsertedBy(s)' = InsertedBy(s) /\ DeletedBy(s)' = DeletedBy(s)
  <2>1. /\ InsertedBy(s)' = {rows'[i].key : i \in {j \in DOMAIN rows' : Mine(s, rows'[j].ins)}}
        /\ DeletedBy(s)' = {rows'[i].key : i \in {j \in DOMAIN rows' : Mine(s, rows'[j].del)}}
    BY <1>2 DEF InsertedBy, DeletedBy, Mine
  <2>2. /\ {j \in DOMAIN rows' : Mine(s, rows'[j].ins)} = {j \in DOMAIN rows : Mine(s, rows[j].ins)}
        /\ {j \in DOMAIN rows' : Mine(s, rows'[j].del)} = {j \in DOMAIN rows : Mine(s, rows[j].del)}
    BY <1>3
  <2>3. ASSUME NEW A \in SUBSET DOMAIN rows
        PROVE  {rows'[i].key : i \in A} = {rows[i].key : i \in A}
    BY <1>3
  <2> QED BY <2>1, <2>2, <2>3 DEF InsertedBy, DeletedBy
<1>5. OwnInserts(s)' = OwnInserts(s) /\ OwnDeletes(s)' = OwnDeletes(s) BY <1>2, <1>4, OwnSets
<1>6. StoreStatus(s)' = StoreStatus(s) /\ OpenSnapshot(s)' = OpenSnapshot(s)
  BY <1>1, <1>2 DEF StoreStatus, OpenSnapshot
<1>7. ~PublishCommit(s) BY <1>1 DEF PublishCommit
<1>8. FreshView' = FreshView BY <1>s, <1>7, FreshViewStep
<1>9. SameForOthers(s) BY <1>s, OthersSame
<1> QED BY ONLY s \in Session, <1>5, <1>6, <1>8, <1>9, StoreStutters

\* The publish barrier makes all writes of the transaction visible, and only those.
LEMMA PublishStep ==
    ASSUME TableInv, IInv', IsoInv, NEW s \in Session, PublishCommit(s), RowsStep(s)
    PROVE  Store!StorePublish(s)
<1>s. Client(s) \/ Pipeline(s) BY DEF Pipeline
<1> DEFINE c == op[s].commitId
<1>1. /\ pc[s] = "publish" /\ pc'[s] \in {"idle", "cleanup"} /\ rows' = rows /\ active' = active
      /\ Committing(s)
      /\ ~IsActive(s) /\ ~IsActive(s)' /\ ~Committing(s)' /\ Open(s) /\ ~Open(s)'
  BY DEF PublishCommit, Publish, Committing, Open, IsActive, TableInv, ChainTypes, ChainsOK, ChainOK
<1>2. SessionIso(s) /\ UniqueKeys /\ StampsAnnounced /\ InsertedFirst BY DEF IsoInv
<1>3. \A i \in DOMAIN rows :
         /\ Mine(s, rows[i].ins) <=> rows[i].ins = c
         /\ Mine(s, rows[i].del) <=> rows[i].del = c
  BY <1>1, <1>2 DEF SessionIso, AppendsKnown, MarksKnown, Mine
<1>4. ~Fresh(c) BY <1>1, MineHidden
<1>5. \A i \in DOMAIN rows :
         /\ Fresh(rows[i].ins)' <=> Fresh(rows[i].ins) \/ rows[i].ins = c
         /\ Fresh(rows[i].del)' <=> Fresh(rows[i].del) \/ rows[i].del = c
  <2>1. ASSUME NEW id \in Nat, Announced(id)
        PROVE  Fresh(id)' <=> Fresh(id) \/ id = c
    BY <1>s, <2>1, FreshIds
  <2>2. \A i \in DOMAIN rows : /\ rows[i].ins \in Nat /\ Announced(rows[i].ins)
                               /\ rows[i].del \in Nat /\ Announced(rows[i].del)
    BY <1>2, RowStamps DEF StampsAnnounced
  <2> HIDE DEF c
  <2> QED BY <1>1, <2>1, <2>2 DEF Fresh
<1> HIDE DEF c
<1>6. /\ OwnInserts(s) = {rows[i].key : i \in {j \in DOMAIN rows : rows[j].ins = c}}
      /\ OwnDeletes(s) = {rows[i].key : i \in {j \in DOMAIN rows : rows[j].del = c}}
      /\ OwnInserts(s)' = {} /\ OwnDeletes(s)' = {}
  BY <1>1, <1>3, OwnSets DEF InsertedBy, DeletedBy
<1>7. FreshView' = (FreshView \cup OwnInserts(s)) \ OwnDeletes(s)
  <2>1. FreshView = {rows[i].key : i \in {j \in DOMAIN rows : Fresh(rows[j].ins) /\ ~Fresh(rows[j].del)}}
    BY FreshViewSet
  <2>2. FreshView' = {rows[i].key : i \in {j \in DOMAIN rows :
                         /\ Fresh(rows[j].ins) \/ rows[j].ins = c
                         /\ ~(Fresh(rows[j].del) \/ rows[j].del = c)}}
    <3>1. FreshView' = {rows'[i].key : i \in {j \in DOMAIN rows' :
                           Fresh(rows[j].ins)' /\ ~Fresh(rows[j].del)'}}
      BY FreshViewSet
    <3>2. {j \in DOMAIN rows' : Fresh(rows[j].ins)' /\ ~Fresh(rows[j].del)'}
            = {j \in DOMAIN rows : /\ Fresh(rows[j].ins) \/ rows[j].ins = c
                                   /\ ~(Fresh(rows[j].del) \/ rows[j].del = c)}
      BY <1>1, <1>5
    <3> QED BY <1>1, <3>1, <3>2
  <2>3. ASSUME NEW k \in FreshView' PROVE k \in (FreshView \cup OwnInserts(s)) \ OwnDeletes(s)
    <3>1. PICK i \in DOMAIN rows : /\ k = rows[i].key
                                   /\ Fresh(rows[i].ins) \/ rows[i].ins = c
                                   /\ ~(Fresh(rows[i].del) \/ rows[i].del = c)
      BY <2>2, <2>3
    <3>2. k \notin OwnDeletes(s) BY <1>2, <1>6, <3>1 DEF UniqueKeys
    <3> QED BY <1>6, <2>1, <3>1, <3>2
  <2>4. ASSUME NEW k \in (FreshView \cup OwnInserts(s)) \ OwnDeletes(s) PROVE k \in FreshView'
    <3>1. PICK i \in DOMAIN rows : /\ k = rows[i].key
                                   /\ \/ Fresh(rows[i].ins) /\ ~Fresh(rows[i].del)
                                      \/ rows[i].ins = c
      BY <1>6, <2>1, <2>4
    <3>2. rows[i].del # c BY <1>6, <2>4, <3>1
    <3>3. rows[i].ins = c => ~Fresh(rows[i].del) BY <1>2, <1>4 DEF InsertedFirst
    <3> QED BY <2>2, <3>1, <3>2, <3>3
  <2> QED BY <2>3, <2>4
<1>8. /\ StoreStatus(s) = "committing" /\ StoreStatus(s)' = "none"
      /\ OpenSnapshot(s)' = OpenSnapshot(s)
  BY <1>1 DEF StoreStatus, OpenSnapshot
<1>9. SameForOthers(s) BY <1>s, OthersSame
<1> QED BY ONLY s \in Session, <1>6, <1>7, <1>8, <1>9, StorePublishes

\* BEGIN takes what a new transaction sees as the snapshot, and starts without writes.
LEMMA BeginStep ==
    ASSUME TableInv, IInv', NEW s \in Session, NEW e \in BOOLEAN, Begin(s, e), RowsStep(s)
    PROVE  Store!StoreBegin(s)
<1>s. Client(s) \/ Pipeline(s) BY DEF Client
<1>t. /\ pc \in [Session -> PC] /\ op \in [Session -> Op]
      /\ active \in [Session -> Txn \cup {NoTxn}] /\ nextTxnId \in Nat
  BY DEF TableInv, ChainTypes, IInv, TypeOK
<1>1. /\ pc[s] = "idle" /\ pc'[s] = "open" /\ rows' = rows /\ ~IsActive(s) /\ ~Committing(s)
      /\ ~Committing(s)' /\ UNCHANGED <<horizon, inFlight>>
      /\ active'[s] = [txnId |-> nextTxnId, startTime |-> currentTs, snapHorizon |-> horizon,
                       snapInFlight |-> inFlight]
      /\ op'[s] = [NoOp EXCEPT !.explicit = e, !.txnId = TxnIdStart + nextTxnId]
  BY <1>t DEF Begin, BeginTransaction, Committing
<1>2. op'[s].txnId = TxnIdStart + nextTxnId BY ONLY <1>1 DEF NoOp
<1>3. IsActive(s)' BY <1>1, <1>t DEF IsActive
<1>4. \A i \in DOMAIN rows' : rows'[i].ins # op'[s].txnId /\ rows'[i].del # op'[s].txnId
  BY <1>1, <1>2, RowStamps
<1>5. InsertedBy(s)' = {} /\ DeletedBy(s)' = {}
  BY <1>1, <1>4 DEF InsertedBy, DeletedBy, Mine
<1>6. OwnInserts(s)' = OwnInserts(s) /\ OwnDeletes(s)' = OwnDeletes(s)
  BY <1>1, <1>3, <1>5, OwnSets DEF Open
<1>7. OpenSnapshot(s)' = FreshView
  <2>1. [Data(s) EXCEPT !.transactionId = 0]' = FreshData
    BY <1>1 DEF Data, FreshData
  <2> QED BY <1>1, <1>3, <2>1 DEF OpenSnapshot, SnapshotView, FreshView, KeysAt, VisibleRows
<1>8. StoreStatus(s) = "none" /\ StoreStatus(s)' = "active" BY <1>1, <1>3 DEF StoreStatus
<1>9. ~PublishCommit(s) BY <1>1 DEF PublishCommit
<1>10. FreshView' = FreshView BY <1>s, <1>9, FreshViewStep
<1>11. SameForOthers(s) BY <1>s, OthersSame
<1> QED BY ONLY s \in Session, <1>6, <1>7, <1>8, <1>10, <1>11, StoreBegins

\* The drain of a COMMIT decides the outcome and shows nothing yet.
LEMMA DrainStep ==
    ASSUME TableInv, IInv', NEW s \in Session, CommitDrain(s), Client(s) \/ Pipeline(s), RowsStep(s)
    PROVE  Store!StoreCommit(s)
<1>t. /\ pc \in [Session -> PC] /\ op \in [Session -> Op] /\ op[s] \in Op
      /\ active \in [Session -> Txn \cup {NoTxn}]
  BY DEF TableInv, ChainTypes, IInv, TypeOK
<1>1. /\ IsActive(s) /\ ~IsActive(s)' /\ ~Committing(s) /\ Committing(s)' /\ rows' = rows
      /\ op'[s] = [op[s] EXCEPT !.commitId = currentTs]
  BY <1>t DEF CommitDrain, AtCommit, Commit, IsActive, NoTxn, Committing
<1>2. op'[s].txnId = op[s].txnId /\ op'[s].commitId = currentTs BY ONLY <1>t, <1>1 DEF Op
<1>3. \A i \in DOMAIN rows : /\ Mine(s, rows[i].ins)' <=> Mine(s, rows[i].ins)
                             /\ Mine(s, rows[i].del)' <=> Mine(s, rows[i].del)
  <2>1. \A i \in DOMAIN rows : rows[i].ins # currentTs /\ rows[i].del # currentTs BY RowStamps
  <2> QED BY <1>1, <1>2, <2>1 DEF Mine
<1>4. InsertedBy(s)' = InsertedBy(s) /\ DeletedBy(s)' = DeletedBy(s)
  BY <1>1, <1>3 DEF InsertedBy, DeletedBy
<1>5. OwnInserts(s)' = OwnInserts(s) /\ OwnDeletes(s)' = OwnDeletes(s)
  BY <1>1, <1>4, OwnSets DEF Open
<1>6. StoreStatus(s) = "active" /\ StoreStatus(s)' = "committing" /\ OpenSnapshot(s)' = {}
  BY <1>1 DEF StoreStatus, OpenSnapshot
<1>7. ~PublishCommit(s) BY <1>1 DEF PublishCommit, Committing
<1>8. FreshView' = FreshView BY <1>7, FreshViewStep
<1>9. SameForOthers(s) BY OthersSame
<1> QED BY ONLY s \in Session, <1>5, <1>6, <1>8, <1>9, StoreCommits

\* A transaction that ends without a publish disappears without a trace.
LEMMA EndStep ==
    ASSUME TableInv, IInv', NEW s \in Session, Client(s) \/ Pipeline(s), RowsStep(s),
           Open(s), ~Open(s)', ~PublishCommit(s)
    PROVE  Store!StoreAbort(s)
<1>1. /\ StoreStatus(s) # "none" /\ StoreStatus(s)' = "none" /\ OpenSnapshot(s)' = {}
  BY DEF Open, StoreStatus, OpenSnapshot
<1>2. OwnInserts(s)' = {} /\ OwnDeletes(s)' = {} BY OwnSets
<1>3. FreshView' = FreshView BY FreshViewStep
<1>4. SameForOthers(s) BY OthersSame
<1> QED BY ONLY s \in Session, <1>1, <1>2, <1>3, <1>4, StoreAborts

\* Nobody sees a compaction.
LEMMA CleanupStutters ==
    ASSUME TableInv, IInv', IsoInv, NEW s \in Session, MaybeCleanup(s)
    PROVE  UNCHANGED Store!storeVars
<1>s. Client(s) \/ Pipeline(s) BY DEF Pipeline
<1>1. Untouched(s) /\ (rows' = rows \/ Packs) BY CleanupStep DEF IsoInv
<1>2. UNCHANGED tmVars /\ active' = active BY <1>1 DEF Untouched, tmVars
<1>3. ~PublishCommit(s) BY DEF PublishCommit, MaybeCleanup
<1>4. FreshView' = FreshView BY <1>s, <1>3, FreshViewStep
<1>5. ASSUME NEW t \in Session
      PROVE  /\ StoreStatus(t)' = StoreStatus(t) /\ OpenSnapshot(t)' = OpenSnapshot(t)
             /\ OwnInserts(t)' = OwnInserts(t) /\ OwnDeletes(t)' = OwnDeletes(t)
  <2>1. /\ Open(t)' <=> Open(t)
        /\ Open(t) => pc'[t] = pc[t] /\ op'[t] = op[t] /\ \A id : Mine(t, id)' <=> Mine(t, id)
    <3>1. CASE t = s BY <1>1, <3>1 DEF Untouched
    <3>2. CASE t # s
      <4>1. SameChain(t) BY <1>1, <3>2 DEF Untouched
      <4> QED BY <4>1 DEF SameChain
    <3> QED BY <3>1, <3>2
  <2>2. StoreStatus(t)' = StoreStatus(t)
    BY <1>2, <2>1 DEF StoreStatus, Open, IsActive, Committing
  <2>3. OpenSnapshot(t)' = OpenSnapshot(t)
    <3>1. IsActive(t) => SnapshotView(t)' = SnapshotView(t) BY <1>s, <1>2, SnapshotViewStep
    <3>2. IsActive(t)' <=> IsActive(t) BY <1>2 DEF IsActive
    <3> QED BY <3>1, <3>2 DEF OpenSnapshot
  <2>4. CASE ~Open(t)
    <3>1. ~Open(t)' BY <2>1, <2>4
    <3>2. OwnInserts(t) = {} /\ OwnDeletes(t) = {} /\ OwnInserts(t)' = {} /\ OwnDeletes(t)' = {}
      BY ONLY <2>4, <3>1, OwnSets
    <3> QED BY ONLY <2>2, <2>3, <3>2
  <2>5. CASE Open(t) /\ rows' = rows
    <3>1. InsertedBy(t)' = InsertedBy(t) /\ DeletedBy(t)' = DeletedBy(t)
      BY <2>1, <2>5 DEF InsertedBy, DeletedBy, Mine
    <3> QED BY <2>1, <2>2, <2>3, <2>5, <3>1, OwnSets
  <2>6. CASE Open(t) /\ Packs
    <3>1. InsertedBy(t) = {} /\ DeletedBy(t) = {} BY <2>6 DEF InsertedBy, DeletedBy, Packs
    <3>2. \A i \in DOMAIN rows' : ~Mine(t, rows'[i].ins) /\ ~Mine(t, rows'[i].del)
      BY <2>6 DEF Packs
    <3>3. InsertedBy(t)' = {} /\ DeletedBy(t)' = {}
      BY <2>1, <2>6, <3>2 DEF InsertedBy, DeletedBy, Mine
    <3> QED BY <2>1, <2>2, <2>3, <2>6, <3>1, <3>3, OwnSets
  <2> QED BY <1>1, <2>4, <2>5, <2>6
<1> QED BY <1>4, <1>5 DEF Store!storeVars

\* Every message of every session is a move of the store or invisible.
LEMMA StepRefines ==
    ASSUME TableInv, TableInv', IsoInv, NEW s \in Session, Client(s) \/ Pipeline(s),
           pc[s] # "cleanup"
    PROVE  [Store!StoreNext]_(Store!storeVars)
<1>r. RowsStep(s) BY RowsSteps
<1>t. /\ pc \in [Session -> PC] /\ op \in [Session -> Op] /\ op[s] \in Op /\ ChainOK(s) /\ IInv'
      /\ active \in [Session -> Txn \cup {NoTxn}] /\ rows' \in Seq(Row) /\ SessionIso(s)
  BY DEF TableInv, ChainTypes, ChainsOK, IInv, TypeOK, HeapOK, IsoInv
<1> USE DEF Store!StoreNext
<1>w. ASSUME IsActive(s), active' = active, ~Committing(s), ~Committing(s)',
             op'[s].txnId = op[s].txnId
      PROVE  Store!StoreNext
  <2>1. Store!StoreWrite(s) BY <1>r, <1>t, <1>w, WriteStep
  <2> QED BY <2>1
<1>e. ASSUME Open(s), ~Open(s)', ~PublishCommit(s) PROVE Store!StoreNext
  <2>1. Store!StoreAbort(s) BY <1>r, <1>t, <1>e, EndStep
  <2> QED BY <2>1
<1>1. ASSUME NEW x \in BOOLEAN, Begin(s, x) PROVE Store!StoreNext
  <2>1. Store!StoreBegin(s) BY <1>1, <1>r, <1>t, BeginStep
  <2> QED BY <2>1
<1>2. CASE ReleaseReadOnly(s) \/ StatementFailed(s) \/ CommitEmpty(s) \/ RollbackDrain(s)
  <2>1. Open(s) /\ ~Open(s)' /\ ~PublishCommit(s)
    BY <1>2, <1>t DEF ReleaseReadOnly, StatementFailed, CommitEmpty, AtCommit, RollbackDrain, Abort,
                      NoTxn, IsActive, Open, Committing, PublishCommit
  <2> QED BY <1>e, <2>1
<1>3. CASE IndexCommitFailed(s)
  <2>1. Open(s) /\ ~Open(s)' /\ ~PublishCommit(s)
    BY <1>3, <1>t DEF IndexCommitFailed, tmVars, ChainOK, IsActive, Open, Committing, PublishCommit
  <2> QED BY <1>e, <2>1
<1>4. CASE Reads(s)
  <2>0. PICK m, h : ScanReply(s, m, h) BY <1>4, ReadsReply
  <2>1. op' = [op EXCEPT ![s].ids = m, ![s].hits = h] BY <2>0 DEF ScanReply
  <2>2. op'[s].txnId = op[s].txnId BY ONLY <1>t, <2>1 DEF Op
  <2>3. active' = active /\ IsActive(s) /\ ~Committing(s) /\ ~Committing(s)'
    BY <2>0, <1>t DEF ScanReply, tmVars, ChainOK, Committing
  <2> QED BY <1>w, <2>2, <2>3
<1>5. CASE EmptyStatement(s)
  BY <1>5, <1>t, <1>w DEF EmptyStatement, tmVars, ChainOK, Committing
<1>6. CASE StatementOk(s)
  <2>1. op' = [op EXCEPT ![s].app = @ \cup op[s].stmtApp, ![s].del = @ \/ op[s].stmtDel,
                        ![s].stmtApp = {}, ![s].stmtDel = FALSE]
    BY <1>6 DEF StatementOk
  <2>2. op'[s].txnId = op[s].txnId BY ONLY <1>t, <2>1 DEF Op
  <2>3. active' = active /\ IsActive(s) /\ ~Committing(s) /\ ~Committing(s)'
    BY <1>6, <1>t DEF StatementOk, tmVars, ChainOK, Committing
  <2> QED BY <1>w, <2>2, <2>3
<1>7. CASE Insert(s)
  <2>1. op' = [op EXCEPT ![s].stmtApp = {Len(rows) + 1}] BY <1>7 DEF Insert
  <2>2. op'[s].txnId = op[s].txnId BY ONLY <1>t, <2>1 DEF Op
  <2>3. active' = active /\ IsActive(s) /\ ~Committing(s) /\ ~Committing(s)'
    BY <1>7, <1>t DEF Insert, tmVars, ChainOK, Committing
  <2> QED BY <1>w, <2>2, <2>3
<1>8. CASE DeleteRows(s) \/ UpdateFailed(s)
  <2>1. op' = [op EXCEPT ![s].ids = {}, ![s].hits = 0, ![s].stmtDel = TRUE] \/ op' = [op EXCEPT ![s].ids = {}, ![s].hits = 0]
    BY <1>8 DEF DeleteRows, UpdateFailed
  <2>2. op'[s].txnId = op[s].txnId BY ONLY <1>t, <2>1 DEF Op
  <2>3. active' = active /\ IsActive(s) /\ ~Committing(s) /\ ~Committing(s)'
    BY <1>8, <1>t DEF DeleteRows, UpdateFailed, tmVars, ChainOK, Committing
  <2> QED BY <1>w, <2>2, <2>3
<1>9. CASE UpdateRows(s)
  <2>1. op' = [op EXCEPT ![s].ids = {}, ![s].hits = 0, ![s].stmtDel = TRUE,
                         ![s].stmtApp = Len(rows) + 1 .. Len(rows) + op[s].hits]
    BY <1>9 DEF UpdateRows
  <2>2. op'[s].txnId = op[s].txnId BY ONLY <1>t, <2>1 DEF Op
  <2>3. active' = active /\ IsActive(s) /\ ~Committing(s) /\ ~Committing(s)'
    BY <1>9, <1>t DEF UpdateRows, tmVars, ChainOK, Committing
  <2> QED BY <1>w, <2>2, <2>3
<1>10. CASE CommitDrain(s)
  <2>1. Store!StoreCommit(s) BY <1>10, <1>r, <1>t, DrainStep
  <2> QED BY <2>1
<1>11. CASE StampAppends(s) \/ StampDeletes(s)
  BY <1>11, <1>r, <1>t, StampsStutter
<1>12. CASE PublishCommit(s)
  <2>1. Store!StorePublish(s) BY <1>12, <1>r, <1>t, PublishStep
  <2> QED BY <2>1
<1>13. CASE RollbackDeletes(s)
  <2>1. ~Open(s) /\ ~Open(s)' /\ ~IsActive(s) /\ ~IsActive(s)' /\ ~PublishCommit(s)
        /\ ~Committing(s) /\ ~Committing(s)'
    BY <1>13, <1>t DEF RollbackDeletes, tmVars, ChainOK, IsActive, Open, Committing, PublishCommit
  <2>2. /\ StoreStatus(s)' = StoreStatus(s) /\ OpenSnapshot(s)' = OpenSnapshot(s)
        /\ OwnInserts(s)' = OwnInserts(s) /\ OwnDeletes(s)' = OwnDeletes(s)
    BY <2>1, OwnSets DEF StoreStatus, OpenSnapshot
  <2>3. FreshView' = FreshView BY <1>t, <2>1, FreshViewStep
  <2>4. SameForOthers(s) BY <1>r, <1>t, OthersSame
  <2>5. UNCHANGED Store!storeVars BY ONLY s \in Session, <2>2, <2>3, <2>4, StoreStutters
  <2> QED BY <2>5
<1>14. ~MaybeCleanup(s) BY DEF MaybeCleanup
<1> QED
  BY ONLY <1>1, <1>2, <1>3, <1>4, <1>5, <1>6, <1>7, <1>8, <1>9, <1>10, <1>11, <1>12, <1>13, <1>14,
          s \in Session, Client(s) \/ Pipeline(s), MessageKinds

\* A table is snapshot isolated, with and without an index, for any number of sessions
\* and whatever their statements, as long as what a statement is about to mark its
\* transaction sees: SnapshotStore's snapshots, private writes, one-step commits and
\* traceless aborts are what the message chains implement, across compactions too.
THEOREM SnapshotIsolated == InViewSpec => SnapshotIsolation
<1>1. TableInit => Store!StoreInit
  <2> SUFFICES ASSUME TableInit PROVE Store!StoreInit
    OBVIOUS
  <2>1. \A s \in Session : ~IsActive(s) /\ ~Committing(s) /\ ~Open(s)
    BY DEF TableInit, IsActive, NoTxn, Committing, Open
  <2>2. \A s \in Session : /\ StoreStatus(s) = "none" /\ OpenSnapshot(s) = {}
                           /\ OwnInserts(s) = {} /\ OwnDeletes(s) = {}
    BY <2>1, OwnSets DEF StoreStatus, OpenSnapshot
  <2> QED BY <2>2 DEF Store!StoreInit
<1>2. TableInv /\ TableInv' /\ IsoInv /\ [TableNext]_vars => [Store!StoreNext]_(Store!storeVars)
  <2>1. ASSUME TableInv, TableInv', IsoInv, NEW s \in Session, Client(s) \/ Pipeline(s)
        PROVE  [Store!StoreNext]_(Store!storeVars)
    <3>1. CASE pc[s] # "cleanup" BY <2>1, <3>1, StepRefines
    <3>2. CASE pc[s] = "cleanup"
      <4>1. MaybeCleanup(s) /\ IInv' BY <2>1, <3>2, OnlyCleanup DEF TableInv
      <4> QED BY <2>1, <4>1, CleanupStutters
    <3> QED BY <3>1, <3>2
  <2>2. ASSUME UNCHANGED vars PROVE UNCHANGED Store!storeVars
    BY <2>2 DEF vars, tmVars, tableVars, Store!storeVars, FreshView, StoreStatus, OpenSnapshot,
                OwnInserts, OwnDeletes, Own, KeysAt, VisibleRows, FreshData, SnapshotView, Data,
                IsActive, Committing
  <2> QED BY <2>1, <2>2 DEF TableNext
<1>3. TableInv /\ TableInv' /\ IsoInv /\ [TableNext /\ ScansInView']_vars => IsoInv'
  BY NextIsoInv
<1>4. [TableNext /\ ScansInView']_vars => [TableNext]_vars
  OBVIOUS
<1>5. InViewSpec => TableSpec BY <1>4, PTL DEF InViewSpec, TableSpec
<1>6. InViewSpec => []IsoInv
  BY <1>3, <1>5, InitIsoInv, TableInvHolds, PTL DEF InViewSpec
<1> QED BY <1>1, <1>2, <1>5, <1>6, TableInvHolds, PTL
    DEF TableSpec, SnapshotIsolation, Store!StoreSpec
=============================================================================
