---------------------------- MODULE DropGcProofs ----------------------------
(***************************************************************************)
(* Proofs about CREATE TABLE, DROP TABLE and the sweep of dropped tables:  *)
(* for any number of sessions, tables and disk agents.                     *)
(***************************************************************************)
EXTENDS DropGc, TxnManagerProofs, SequenceTheorems

-----------------------------------------------------------------------------
(* The inductive invariant: types and stamps.                              *)

ClassRow == [ins : Nat, del : Nat]

Op == [txnId : Nat, commitId : 0 .. MaxTs, dropped : SUBSET Oid, created : SUBSET Oid,
       wrote : BOOLEAN, gone : SUBSET Oid]

Notice == [kind : {"disk", "index"}, set : BOOLEAN]

\* The transaction ids given out so far.
Pending == TxnIdStart .. TxnIdStart + nextTxnId - 1

\* A stamp is a commit id the clock has passed or the id of a transaction.
StampOK(id) == id < currentTs \/ id \in Pending

ClassOK ==
    /\ class \in [Oid -> ClassRow]
    /\ \A o \in Oid : /\ StampOK(class[o].ins) \/ class[o].ins = NotDeleted
                      /\ StampOK(class[o].del) \/ class[o].del = NotDeleted

TombsOK ==
    /\ tombs \in [Subscriber -> SUBSET Tombstone]
    /\ \A u \in Subscriber : \A t \in tombs[u] : StampOK(t.at)

GcTypes ==
    /\ IInv /\ nextTxnId < currentTs
    /\ storages \cup files \cup engines \cup indexFiles \cup diskAgents \subseteq Oid
    /\ mailbox \in [Subscriber -> SUBSET (1 .. MaxTs)]
    /\ notices \in Seq(Notice)
    /\ hasDropped \in [{"disk", "index"} -> BOOLEAN]
    /\ lastBroadcast \in 0 .. MaxTs
    /\ pc \in [Session -> PC]
    /\ op \in [Session -> Op]
    /\ todo \in [Session -> SUBSET Subscriber]
    /\ fate \in [Oid -> {"live", "committed", "published"}]

-----------------------------------------------------------------------------
(* The inductive invariant: chains.                                        *)

Committing(s) == pc[s] \in {"remap", "index", "deletes", "publish"}

\* The transaction runs or is being committed.
Open(s) == pc[s] \in {"open", "register", "mark", "announce"} \/ Committing(s)

\* The chain still uses the transaction's id.
Busy(s) == Open(s) \/ pc[s] \in {"revert", "unmark"}

ChainOK(s) ==
    /\ IsActive(s) <=> pc[s] \in {"open", "register", "mark", "announce"}
    /\ IsActive(s) => op[s].txnId = TxnIdStart + active[s].txnId
    /\ Busy(s) => op[s].txnId \in Pending
    /\ Committing(s) => op[s].commitId \in inFlight

IdsApart ==
    \A s, t \in Session : s # t =>
        /\ Busy(s) /\ Busy(t) => op[s].txnId # op[t].txnId
        /\ Committing(s) /\ Committing(t) => op[s].commitId # op[t].commitId

Mine(s, id) == id = op[s].txnId \/ (Committing(s) /\ id = op[s].commitId)

\* A new transaction sees the stamp.
Fresh(id) == id < TxnIdStart /\ id <= horizon /\ id \notin inFlight

-----------------------------------------------------------------------------
(* The inductive invariant: tables.                                        *)

\* The chain has created the storage of the table and has not erased it again.
Holds(s, o) == o \in op[s].created /\ (pc[s] = "erase" => Owner[o] \in todo[s])

\* A table in the making has a storage, one creator, and a row that only he sees.
CreatedOK(s) ==
    \A o \in op[s].created :
        /\ pc[s] # "idle" /\ o \notin InitTables
        /\ Holds(s, o) =>
              /\ o \in storages
              /\ class[o].ins = NotDeleted \/ (Busy(s) /\ Mine(s, class[o].ins))

OneCreator ==
    \A s, t \in Session : \A o \in Oid : Holds(s, o) /\ Holds(t, o) => s = t

\* The row of a table that a chain drops is his own or visible to everybody new.
DroppedOK(s) ==
    \A o \in op[s].dropped :
        /\ Open(s) => Mine(s, class[o].ins) \/ Fresh(class[o].ins)
        /\ Committing(s) => fate[o] # "live"

\* A commit has stamped its rows before it is published, a rollback has removed them
\* before it takes its tombstones back.
ClassStamped(s) ==
    pc[s] \in {"deletes", "publish", "unmark"} => \A o \in Oid : class[o].ins # op[s].txnId

\* What a chain takes away is its drop, its published drop or its own creation.
GoneOK(s) ==
    \A o \in op[s].gone :
        /\ pc[s] \in {"mark", "announce"} => o \in op[s].dropped
        /\ pc[s] \in {"revert", "unmark"} => o \in op[s].created
        /\ pc[s] \in {"unregister", "erase"} => o \in op[s].created \/ fate[o] = "published"
        /\ pc[s] = "erase" =>
              /\ (o \in op[s].created /\ Owner[o] \notin todo[s]) \/ o \notin engines
              /\ o \in op[s].created \/ Owner[o] \in todo[s] \/ o \notin storages

SessionOK(s) == ChainOK(s) /\ CreatedOK(s) /\ DroppedOK(s) /\ ClassStamped(s) /\ GoneOK(s)

\* A tombstone with a commit id is one of a decided drop, one with a transaction's id
\* one of that transaction's drops.
TombsOwned ==
    \A u \in Subscriber : \A t \in tombs[u] :
        /\ t.at < TxnIdStart => fate[t.oid] # "live"
        /\ \A s \in Session : Busy(s) /\ t.at = op[s].txnId => t.oid \in op[s].dropped

\* The chain of a published drop has yet to erase the table.
Leaving(s, o) == pc[s] \in {"unregister", "erase"} /\ o \in op[s].gone \ op[s].created

\* The tables of the bootstrap keep their row; those of a published drop are never
\* created again, and their storage goes.
TablesOK ==
    /\ \A o \in InitTables : class[o].ins = 0
    /\ files \subseteq storages
    /\ \A o \in Oid : fate[o] = "published" =>
          /\ Fresh(class[o].ins)
          /\ o \notin storages \cup engines \/ \E s \in Session : Leaving(s, o)

GcInv ==
    /\ GcTypes /\ ClassOK /\ TombsOK
    /\ (\A s \in Session : SessionOK(s)) /\ IdsApart /\ OneCreator
    /\ TombsOwned /\ TablesOK
    /\ UncommittedDropKeepsTable
    /\ IndexBeforeDisk

-----------------------------------------------------------------------------
(* Stamps, the manager and the other sessions.                             *)

\* Commit ids, transaction ids and the mark of a row that lives are apart.
LEMMA StampFacts ==
    /\ TxnIdStart \in Nat /\ TxnIdStart > 0 /\ NotDeleted \in Nat /\ MaxTs \in Nat /\ MaxTs > 0
    /\ MaxTs < TxnIdStart /\ TxnIdStart + MaxTs < NotDeleted
BY StampAssumption, MaxTsAssumption, DropAssumption

\* The horizon of the broadcast is one of the clock.
LEMMA BroadcastHorizon == IInv => LowestActiveSnapshotHorizon \in 0 .. MaxTs
<1> SUFFICES ASSUME IInv PROVE LowestActiveSnapshotHorizon \in 0 .. MaxTs
  OBVIOUS
<1>1. horizon \in 0 .. MaxTs
  BY StampFacts DEF IInv, TypeOK, ClockAboveHorizon
<1>2. ASSUME ActiveTxns # {}
      PROVE  Min({t.snapHorizon : t \in ActiveTxns}) \in 0 .. MaxTs
  <2> DEFINE H == {t.snapHorizon : t \in ActiveTxns}
  <2>1. ASSUME NEW t \in ActiveTxns PROVE t.snapHorizon \in Nat /\ t.snapHorizon <= horizon
    <3>1. PICK s \in Session : IsActive(s) /\ t = active[s] BY DEF ActiveTxns
    <3>2. active[s] \in Txn BY <3>1 DEF IInv, TypeOK, IsActive, NoTxn
    <3> QED BY <3>1, <3>2 DEF IInv, SnapshotsInPast, Txn
  <2>2. H \in SUBSET Nat /\ H # {} /\ \A h \in H : h \in Nat /\ h <= horizon
    BY <1>2, <2>1
  <2> HIDE DEF H
  <2>3. Min(H) \in H BY <2>2, MinOfNats
  <2>4. \A h \in H : h \in 0 .. MaxTs BY <2>2, <1>1, MaxTsAssumption
  <2>5. Min(H) \in 0 .. MaxTs BY <2>3, <2>4
  <2> QED BY <2>5 DEF H
<1> QED BY <1>1, <1>2 DEF LowestActiveSnapshotHorizon

\* Every step of a chain is one of the manager, or none.
LEMMA ManagerStep ==
    ASSUME GcInv, [DropNext]_vars
    PROVE  [Next]_tmVars
<1>1. \A s \in Session : Committing(s) => op[s].commitId \in inFlight
  BY DEF GcInv, SessionOK, ChainOK
<1>2. ASSUME NEW s \in Session, Client(s) PROVE [Next]_tmVars
  <2>1. BeginTransaction(s) \/ Commit(s) \/ Abort(s) \/ UNCHANGED tmVars
    BY <1>2, Zenon DEF Client, Begin, Write, CreateStorage, DropTables, StatementFailed, CommitEmpty,
              CommitDrain, IndexCommitFailed, RollbackDrain
  <2> QED BY <2>1 DEF Next
<1>3. ASSUME NEW s \in Session, Chain(s) PROVE [Next]_tmVars
  <2>1. CASE PublishCommit(s)
    <3>1. op[s].commitId \in inFlight /\ Publish(op[s].commitId)
      BY <1>1, <2>1 DEF PublishCommit, Committing
    <3> QED BY <3>1 DEF Next
  <2>2. CASE ~PublishCommit(s)
    BY <1>3, <2>2 DEF Chain, RegisterCollection, MarkDropped, RemapTombstones, UnmarkTombstones,
              AnnounceMarks, IndexCommitted, PublishDeletes, RevertCatalog, Unregister, EraseStorages, tmVars
  <2> QED BY <2>1, <2>2
<1>4. ASSUME NEW u \in Subscriber, SweepTombstones(u) PROVE [Next]_tmVars
  BY <1>4 DEF SweepTombstones
<1>5. CASE TakeNotice BY <1>5 DEF TakeNotice
<1>6. CASE UNCHANGED vars BY <1>6 DEF vars
<1> QED BY <1>2, <1>3, <1>4, <1>5, <1>6 DEF DropNext

\* A stamp that new snapshots see stays one.
LEMMA FreshKept ==
    ASSUME IInv, [Next]_tmVars, NEW id \in Nat, Fresh(id)
    PROVE  Fresh(id)'
<1> USE MaxTsAssumption DEF IInv, TypeOK, ClockAboveHorizon, Fresh
<1>1. ASSUME NEW f \in 1 .. (MaxTs - 1), RestoreCommitClock(f) PROVE Fresh(id)'
  <2>1. horizon \in Int /\ f \in Int /\ horizon' = Max({horizon, f}) BY <1>1 DEF RestoreCommitClock
  <2>2. horizon' \in {horizon, f} /\ horizon' >= horizon BY ONLY <2>1, MaxOfTwo
  <2> QED BY <1>1, <2>2 DEF RestoreCommitClock
<1>2. CASE StartServing BY <1>2 DEF StartServing
<1>3. ASSUME NEW s \in Session, BeginTransaction(s) PROVE Fresh(id)' BY <1>3 DEF BeginTransaction
<1>4. ASSUME NEW s \in Session, Commit(s) PROVE Fresh(id)' BY <1>4 DEF Commit
<1>5. ASSUME NEW s \in Session, Abort(s) PROVE Fresh(id)' BY <1>5 DEF Abort
<1>6. ASSUME NEW c \in inFlight, Publish(c) PROVE Fresh(id)'
  <2>1. horizon \in Int /\ c \in Int /\ horizon' = Max({horizon, c}) BY <1>6 DEF Publish
  <2>2. horizon' \in {horizon, c} /\ horizon' >= horizon BY ONLY <2>1, MaxOfTwo
  <2> QED BY <1>6, <2>2 DEF Publish
<1>7. CASE UNCHANGED tmVars BY <1>7 DEF tmVars
<1> QED BY <1>1, <1>2, <1>3, <1>4, <1>5, <1>6, <1>7 DEF Next

LEMMA RangeGrows ==
    ASSUME NEW a \in Nat, NEW m \in Nat, NEW k \in Nat, k >= m
    PROVE  \A id \in a .. a + m - 1 : id \in a .. a + k - 1
OBVIOUS

\* A stamp that the manager has given out stays one.
LEMMA StampKept ==
    ASSUME IInv, [Next]_tmVars, NEW id \in Nat, StampOK(id)
    PROVE  StampOK(id)'
<1>1. /\ nextTxnId \in Nat /\ nextTxnId' \in Nat /\ nextTxnId' >= nextTxnId
      /\ currentTs \in Nat /\ currentTs' \in Nat /\ currentTs' >= currentTs
  BY ClockStep, MaxTsAssumption DEF IInv, TypeOK
<1>2. id < currentTs => id < currentTs' BY <1>1
<1>3. ASSUME id \in Pending PROVE id \in Pending'
  <2>1. TxnIdStart \in Nat BY StampAssumption
  <2> QED BY <1>1, <1>3, <2>1, RangeGrows DEF Pending
<1> QED BY <1>2, <1>3 DEF StampOK

-----------------------------------------------------------------------------
(* What a step of a chain leaves alone.                                    *)

\* The chain of one session moves, those of the others stay.
ChainFrame(s) ==
    /\ \E p \in PC : pc' = [pc EXCEPT ![s] = p]
    /\ \E x \in Op : op' = [op EXCEPT ![s] = x]
    /\ \E d \in SUBSET Subscriber : todo' = [todo EXCEPT ![s] = d]

LEMMA ChainFrames ==
    ASSUME GcTypes, NEW s \in Session, Client(s) \/ Chain(s)
    PROVE  ChainFrame(s)
<1>t. pc \in [Session -> PC] /\ op \in [Session -> Op] /\ todo \in [Session -> SUBSET Subscriber]
  BY DEF GcTypes
<1>m. nextTxnId \in Nat /\ currentTs \in 0 .. MaxTs /\ TxnIdStart \in Nat
  BY StampFacts DEF GcTypes, IInv, TypeOK
<1>o. op[s] \in Op /\ pc[s] \in PC /\ todo[s] \in SUBSET Subscriber BY <1>t
<1>n. NoOp \in Op BY StampFacts DEF NoOp, Op
<1>p. pc = [pc EXCEPT ![s] = pc[s]] /\ op = [op EXCEPT ![s] = op[s]] /\ todo = [todo EXCEPT ![s] = todo[s]]
  BY <1>t
<1> USE DEF ChainFrame, Goto
<1>1. ASSUME Begin(s) PROVE ChainFrame(s)
  <2>1. [NoOp EXCEPT !.txnId = TxnIdStart + nextTxnId] \in Op BY <1>m, <1>n DEF Op
  <2>2. /\ pc' = [pc EXCEPT ![s] = "open"] /\ todo' = todo
        /\ op' = [op EXCEPT ![s] = [NoOp EXCEPT !.txnId = TxnIdStart + nextTxnId]]
    BY <1>1 DEF Begin
  <2> QED BY ONLY <1>p, <1>o, <2>1, <2>2 DEF ChainFrame, PC
<1>2. ASSUME Write(s) PROVE ChainFrame(s)
  BY <1>t, <1>m, <1>o, <1>n, <1>p, <1>2 DEF Write, PC, Op
<1>3. ASSUME NEW o \in Oid, CreateStorage(s, o) PROVE ChainFrame(s)
  BY <1>t, <1>m, <1>o, <1>n, <1>p, <1>3, ZenonT(40) DEF CreateStorage, PC, Op
<1>4. ASSUME NEW oids \in SUBSET Oid, DropTables(s, oids) PROVE ChainFrame(s)
  <2> DEFINE x == [op[s] EXCEPT !.dropped = @ \cup oids, !.gone = oids]
             d == {u \in Subscriber : SliceOf(u, oids) # {}}
  <2>1. x \in Op /\ d \in SUBSET Subscriber BY <1>o DEF Op
  <2>2. pc' = [pc EXCEPT ![s] = "mark"] /\ todo' = [todo EXCEPT ![s] = d] BY <1>4 DEF DropTables
  <2>3. op' = [op EXCEPT ![s] = x] BY <1>4, <1>t DEF DropTables
  <2> HIDE DEF x, d
  <2> QED BY ONLY <2>1, <2>2, <2>3 DEF ChainFrame, PC
<1>5. ASSUME StatementFailed(s) PROVE ChainFrame(s)
  BY <1>t, <1>m, <1>o, <1>n, <1>p, <1>5 DEF StatementFailed, PC, Op
<1>6. ASSUME CommitEmpty(s) PROVE ChainFrame(s)
  BY <1>t, <1>m, <1>o, <1>n, <1>p, <1>6 DEF CommitEmpty, PC, Op
<1>7. ASSUME CommitDrain(s) PROVE ChainFrame(s)
  BY <1>t, <1>m, <1>o, <1>n, <1>p, <1>7 DEF CommitDrain, PC, Op
<1>8. ASSUME IndexCommitFailed(s) PROVE ChainFrame(s)
  BY <1>t, <1>m, <1>o, <1>n, <1>p, <1>8 DEF IndexCommitFailed, PC, Op
<1>9. ASSUME RollbackDrain(s) PROVE ChainFrame(s)
  BY <1>t, <1>m, <1>o, <1>n, <1>p, <1>9 DEF RollbackDrain, PC, Op
<1>10. ASSUME RegisterCollection(s) PROVE ChainFrame(s)
  BY <1>t, <1>m, <1>o, <1>n, <1>p, <1>10 DEF RegisterCollection, PC, Op
<1>11. ASSUME NEW u \in Subscriber, MarkDropped(s, u) PROVE ChainFrame(s)
  BY <1>t, <1>m, <1>o, <1>n, <1>p, <1>11 DEF MarkDropped, PC, Op
<1>12. ASSUME NEW u \in Subscriber, RemapTombstones(s, u) PROVE ChainFrame(s)
  BY <1>t, <1>m, <1>o, <1>n, <1>p, <1>12 DEF RemapTombstones, PC, Op
<1>13. ASSUME NEW u \in Subscriber, UnmarkTombstones(s, u) PROVE ChainFrame(s)
  BY <1>t, <1>m, <1>o, <1>n, <1>p, <1>13 DEF UnmarkTombstones, PC, Op
<1>14. ASSUME AnnounceMarks(s) PROVE ChainFrame(s)
  BY <1>t, <1>m, <1>o, <1>n, <1>p, <1>14 DEF AnnounceMarks, PC, Op
<1>15. ASSUME IndexCommitted(s) PROVE ChainFrame(s)
  BY <1>t, <1>m, <1>o, <1>n, <1>p, <1>15 DEF IndexCommitted, PC, Op
<1>16. ASSUME PublishDeletes(s) PROVE ChainFrame(s)
  BY <1>t, <1>m, <1>o, <1>n, <1>p, <1>16 DEF PublishDeletes, PC, Op
<1>17. ASSUME PublishCommit(s) PROVE ChainFrame(s)
  BY <1>t, <1>m, <1>o, <1>n, <1>p, <1>17 DEF PublishCommit, PC, Op
<1>18. ASSUME RevertCatalog(s) PROVE ChainFrame(s)
  BY <1>t, <1>m, <1>o, <1>n, <1>p, <1>18 DEF RevertCatalog, PC, Op
<1>19. ASSUME Unregister(s) PROVE ChainFrame(s)
  BY <1>t, <1>m, <1>o, <1>n, <1>p, <1>19 DEF Unregister, PC, Subscriber
<1>20. ASSUME NEW a \in Agent, EraseStorages(s, a) PROVE ChainFrame(s)
  BY <1>t, <1>m, <1>o, <1>n, <1>p, <1>20 DEF EraseStorages, PC, Op
<1> QED BY <1>1, <1>2, <1>3, <1>4, <1>5, <1>6, <1>7, <1>8, <1>9, <1>10, <1>11, <1>12, <1>13, <1>14, <1>15, <1>16, <1>17, <1>18, <1>19, <1>20 DEF Client, Chain

\* Which messages of a chain touch the catalog, the files, the engines, ....
LEMMA WhoWrites ==
    ASSUME NEW s \in Session, Client(s) \/ Chain(s)
    PROVE  /\ \/ UNCHANGED class \/ RegisterCollection(s) \/ IndexCommitted(s) \/ PublishDeletes(s)
              \/ RevertCatalog(s) \/ \E oids \in SUBSET Oid : DropTables(s, oids)
           /\ \/ UNCHANGED <<storages, files>>
              \/ \E o \in Oid : CreateStorage(s, o)
              \/ \E a \in Agent : EraseStorages(s, a)
           /\ UNCHANGED engines \/ RegisterCollection(s) \/ Unregister(s)
           /\ UNCHANGED indexFiles /\ (UNCHANGED diskAgents \/ Unregister(s))
           /\ UNCHANGED fate \/ CommitDrain(s) \/ PublishCommit(s)
           /\ \/ UNCHANGED tombs
              \/ \E u \in Subscriber : MarkDropped(s, u) \/ RemapTombstones(s, u) \/ UnmarkTombstones(s, u)
           /\ UNCHANGED <<mailbox, lastBroadcast>> \/ TryTriggerCleanup
           /\ (UNCHANGED notices \/ AnnounceMarks(s)) /\ UNCHANGED hasDropped
<1>1. CASE Client(s)
  BY <1>1, Zenon DEF Client, Begin, Write, CreateStorage, DropTables, StatementFailed, CommitEmpty, CommitDrain,
              IndexCommitFailed, RollbackDrain, physVars, gcVars
<1>2. CASE Chain(s)
  BY <1>2, Zenon DEF Chain, RegisterCollection, MarkDropped, RemapTombstones, UnmarkTombstones,
              AnnounceMarks, IndexCommitted, PublishDeletes, PublishCommit, RevertCatalog, Unregister,
              EraseStorages, physVars, gcVars
<1> QED BY <1>1, <1>2

\* The other sessions: neither their chains nor their transactions move.
LEMMA OthersKept ==
    ASSUME GcInv, NEW s \in Session, Client(s) \/ Chain(s), NEW t \in Session, t # s
    PROVE  pc'[t] = pc[t] /\ op'[t] = op[t] /\ todo'[t] = todo[t] /\ active'[t] = active[t]
<1>1. GcTypes /\ active \in [Session -> Txn \cup {NoTxn}] BY DEF GcInv, GcTypes, IInv, TypeOK
<1>2. ChainFrame(s) BY <1>1, ChainFrames
<1>3. pc'[t] = pc[t] /\ op'[t] = op[t] /\ todo'[t] = todo[t]
  BY <1>1, <1>2 DEF ChainFrame, GcTypes
<1>4. BeginTransaction(s) \/ Commit(s) \/ Abort(s) \/ UNCHANGED active
  <2>1. CASE Client(s)
    BY <2>1, Zenon DEF Client, Begin, Write, CreateStorage, DropTables, StatementFailed, CommitEmpty,
              CommitDrain, IndexCommitFailed, RollbackDrain, tmVars
  <2>2. CASE Chain(s)
    BY <2>2, Zenon DEF Chain, RegisterCollection, MarkDropped, RemapTombstones, UnmarkTombstones,
              AnnounceMarks, IndexCommitted, PublishDeletes, PublishCommit, RevertCatalog, Unregister,
              EraseStorages, tmVars, Publish
  <2> QED BY <2>1, <2>2
<1>5. active'[t] = active[t]
  BY <1>1, <1>4 DEF BeginTransaction, Commit, Abort
<1> QED BY <1>3, <1>5

\* The clock, the horizons and the chains keep their types.
LEMMA TypesNext ==
    ASSUME GcInv, [DropNext]_vars
    PROVE  GcTypes'
<1>1. GcTypes BY DEF GcInv
<1>2. [Next]_tmVars BY ManagerStep
<1>3. IInv' /\ (nextTxnId < currentTs)'
  BY <1>1, <1>2, NextIInv, ClockStep DEF GcTypes
<1>4. ASSUME TryTriggerCleanup
      PROVE  (mailbox \in [Subscriber -> SUBSET (1 .. MaxTs)] /\ lastBroadcast \in 0 .. MaxTs)'
  <2> DEFINE h == LowestActiveSnapshotHorizon'
  <2>1. h \in 0 .. MaxTs
    <3>1. IInv => LowestActiveSnapshotHorizon \in 0 .. MaxTs BY BroadcastHorizon
    <3>2. (IInv => LowestActiveSnapshotHorizon \in 0 .. MaxTs)' BY BroadcastHorizon, PTL
    <3> QED BY <1>3, <3>2
  <2>2. IF h > lastBroadcast
        THEN /\ lastBroadcast' = h
             /\ mailbox' = [u \in Subscriber |->
                               IF hasDropped[KindOf(u)] THEN mailbox[u] \cup {h} ELSE mailbox[u]]
        ELSE UNCHANGED <<lastBroadcast, mailbox>>
    BY <1>4 DEF TryTriggerCleanup
  <2>3. lastBroadcast \in 0 .. MaxTs /\ mailbox \in [Subscriber -> SUBSET (1 .. MaxTs)]
    BY <1>1 DEF GcTypes
  <2> HIDE DEF h
  <2>4. CASE h > lastBroadcast
    <3>1. h \in 1 .. MaxTs BY <2>1, <2>3, <2>4, StampFacts
    <3> QED BY <2>1, <2>2, <2>3, <2>4, <3>1
  <2>5. CASE ~(h > lastBroadcast) BY <2>2, <2>3, <2>5
  <2> QED BY <2>4, <2>5
<1>5. ASSUME NEW s \in Session, Client(s) \/ Chain(s) PROVE GcTypes'
  <2>1. ChainFrame(s) BY <1>1, <1>5, ChainFrames
  <2>2. (pc \in [Session -> PC] /\ op \in [Session -> Op] /\ todo \in [Session -> SUBSET Subscriber])'
    BY <1>1, <2>1 DEF ChainFrame, GcTypes
  <2>3. (mailbox \in [Subscriber -> SUBSET (1 .. MaxTs)] /\ lastBroadcast \in 0 .. MaxTs)'
    <3>1. UNCHANGED <<mailbox, lastBroadcast>> \/ TryTriggerCleanup BY <1>5, WhoWrites, Zenon
    <3> QED BY <1>1, <1>4, <3>1 DEF GcTypes
  <2>4. (storages \cup files \subseteq Oid)'
    <3>1. \/ UNCHANGED <<storages, files>>
          \/ \E o \in Oid : CreateStorage(s, o)
          \/ \E a \in Agent : EraseStorages(s, a)
      BY <1>5, WhoWrites, Zenon
    <3> QED BY <1>1, <3>1 DEF GcTypes, CreateStorage, EraseStorages
  <2>5. (engines \subseteq Oid)'
    <3>1. UNCHANGED engines \/ RegisterCollection(s) \/ Unregister(s) BY <1>5, WhoWrites, Zenon
    <3>2. op[s].created \subseteq Oid BY <1>1 DEF GcTypes, Op
    <3> QED BY <1>1, <3>1, <3>2 DEF GcTypes, RegisterCollection, Unregister
  <2>6. (indexFiles \cup diskAgents \subseteq Oid)'
    <3>1. UNCHANGED indexFiles /\ (UNCHANGED diskAgents \/ Unregister(s)) BY <1>5, WhoWrites, Zenon
    <3> QED BY <1>1, <3>1 DEF GcTypes, Unregister
  <2>7. (notices \in Seq(Notice) /\ hasDropped \in [{"disk", "index"} -> BOOLEAN])'
    <3>1. (UNCHANGED notices \/ AnnounceMarks(s)) /\ UNCHANGED hasDropped BY <1>5, WhoWrites, Zenon
    <3>2. Announced \in Seq(Notice) BY DEF Announced, Notice
    <3>3. notices \o Announced \in Seq(Notice) BY <1>1, <3>2, ConcatProperties DEF GcTypes
    <3> QED BY <1>1, <3>1, <3>3 DEF GcTypes, AnnounceMarks
  <2>8. (fate \in [Oid -> {"live", "committed", "published"}])'
    <3>1. UNCHANGED fate \/ CommitDrain(s) \/ PublishCommit(s) BY <1>5, WhoWrites, Zenon
    <3> QED BY <1>1, <3>1 DEF GcTypes, CommitDrain, PublishCommit
  <2> QED BY <1>3, <2>2, <2>3, <2>4, <2>5, <2>6, <2>7, <2>8 DEF GcTypes
<1>6. ASSUME NEW u \in Subscriber, SweepTombstones(u) PROVE GcTypes'
  <2>1. Min(mailbox[u]) \in mailbox[u]
    <3>1. mailbox[u] \in SUBSET Nat /\ mailbox[u] # {} BY <1>1, <1>6 DEF GcTypes, SweepTombstones
    <3> QED BY <3>1, MinOfNats
  <2>2. (mailbox \in [Subscriber -> SUBSET (1 .. MaxTs)])' BY <1>1, <1>6 DEF GcTypes, SweepTombstones
  <2>3. (notices \in Seq(Notice))'
    <3>1. [kind |-> KindOf(u), set |-> FALSE] \in Notice BY DEF KindOf, Notice
    <3>2. Append(notices, [kind |-> KindOf(u), set |-> FALSE]) \in Seq(Notice)
      BY <1>1, <3>1, AppendProperties DEF GcTypes
    <3> QED BY <1>1, <1>6, <3>2 DEF GcTypes, SweepTombstones
  <2>4. (storages \cup files \cup engines \cup indexFiles \cup diskAgents \subseteq Oid)'
    BY <1>1, <1>6 DEF GcTypes, SweepTombstones
  <2>5. UNCHANGED <<hasDropped, lastBroadcast, pc, op, todo, fate>> BY <1>6 DEF SweepTombstones
  <2> QED BY <1>1, <1>3, <2>2, <2>3, <2>4, <2>5 DEF GcTypes
<1>7. CASE TakeNotice
  <2>1. notices \in Seq(Notice) /\ notices # <<>> BY <1>1, <1>7 DEF GcTypes, TakeNotice
  <2>2. Head(notices) \in Notice /\ Tail(notices) \in Seq(Notice) BY <2>1, HeadTailProperties
  <2>3. (notices \in Seq(Notice) /\ hasDropped \in [{"disk", "index"} -> BOOLEAN])'
    BY <1>1, <1>7, <2>2 DEF GcTypes, TakeNotice, Notice
  <2>4. UNCHANGED <<physVars, mailbox, lastBroadcast, pc, op, todo, fate>> BY <1>7 DEF TakeNotice
  <2> QED BY <1>1, <1>3, <2>3, <2>4 DEF GcTypes, physVars
<1>8. CASE UNCHANGED vars
  <2>1. UNCHANGED <<physVars, gcVars, pc, op, todo, fate>> BY <1>8 DEF vars
  <2> QED BY <1>1, <1>3, <2>1 DEF GcTypes, physVars, gcVars
<1> QED BY <1>5, <1>6, <1>7, <1>8 DEF DropNext

-----------------------------------------------------------------------------
(* What a step of a chain does to the catalog, the tables and the          *)
(* tombstones.                                                             *)

\* The stamps of the pg_class rows.
InsStep(s) ==
    \A o \in Oid :
        \/ class'[o].ins = class[o].ins
        \/ /\ pc[s] = "register" /\ o \in op[s].created
           /\ class[o].ins = NotDeleted /\ class'[o].ins = op[s].txnId
        \/ pc[s] = "index" /\ class[o].ins = op[s].txnId /\ class'[o].ins = op[s].commitId
        \/ pc[s] = "revert" /\ class[o].ins = op[s].txnId /\ class'[o].ins = NotDeleted

DelStep(s) ==
    \A o \in Oid :
        \/ class'[o].del \in {class[o].del, NotDeleted}
        \/ pc[s] = "open" /\ class'[o].del = op[s].txnId
        \/ pc[s] = "deletes" /\ class'[o].del = op[s].commitId

LEMMA ClassSteps ==
    ASSUME GcInv, NEW s \in Session, Client(s) \/ Chain(s)
    PROVE  class' \in [Oid -> ClassRow] /\ InsStep(s) /\ DelStep(s)
<1>1. class \in [Oid -> ClassRow] /\ DOMAIN class = Oid BY DEF GcInv, ClassOK
<1>2. \A o \in Oid : class[o] \in ClassRow /\ class[o].ins \in Nat /\ class[o].del \in Nat
  BY <1>1 DEF ClassRow
<1>3. op[s].txnId \in Nat /\ op[s].commitId \in Nat /\ NotDeleted \in Nat
  BY StampFacts DEF GcInv, GcTypes, Op
<1> DEFINE Row(o) == class'[o] \in ClassRow
                     /\ (\/ class'[o].ins = class[o].ins
                         \/ /\ pc[s] = "register" /\ o \in op[s].created
                            /\ class[o].ins = NotDeleted /\ class'[o].ins = op[s].txnId
                         \/ pc[s] = "index" /\ class[o].ins = op[s].txnId /\ class'[o].ins = op[s].commitId
                         \/ pc[s] = "revert" /\ class[o].ins = op[s].txnId /\ class'[o].ins = NotDeleted)
                     /\ (\/ class'[o].del \in {class[o].del, NotDeleted}
                         \/ pc[s] = "open" /\ class'[o].del = op[s].txnId
                         \/ pc[s] = "deletes" /\ class'[o].del = op[s].commitId)
           Map == class' = [o \in Oid |-> class'[o]]
           Goal == Map /\ \A o \in Oid : Row(o)
<1>4. ASSUME UNCHANGED class PROVE Goal
  BY <1>1, <1>2, <1>4
<1>5. ASSUME RegisterCollection(s) PROVE Goal
  <2>1. pc[s] = "register" /\ class' = [o \in Oid |-> IF o \in op[s].created /\ class[o] = NoRow
                               THEN [ins |-> op[s].txnId, del |-> NotDeleted] ELSE class[o]]
    BY <1>5 DEF RegisterCollection
  <2>2. ASSUME NEW o \in Oid PROVE Row(o)
    <3>1. CASE o \in op[s].created /\ class[o] = NoRow
      <4>1. class'[o] = [ins |-> op[s].txnId, del |-> NotDeleted] BY <2>1, <3>1
      <4> QED BY <1>3, <2>1, <3>1, <4>1 DEF NoRow, ClassRow
    <3>2. CASE ~(o \in op[s].created /\ class[o] = NoRow)
      <4>1. class'[o] = class[o] BY <2>1, <3>2
      <4> QED BY <1>2, <4>1
    <3> QED BY <3>1, <3>2
  <2> QED BY <2>1, <2>2
<1>6. ASSUME IndexCommitted(s) PROVE Goal
  <2>1. pc[s] = "index" /\ class' = [o \in Oid |-> IF class[o].ins = op[s].txnId
                               THEN [class[o] EXCEPT !.ins = op[s].commitId] ELSE class[o]]
    BY <1>6 DEF IndexCommitted
  <2>2. ASSUME NEW o \in Oid PROVE Row(o)
    <3>1. CASE class[o].ins = op[s].txnId
      <4>1. class'[o] = [class[o] EXCEPT !.ins = op[s].commitId] BY <2>1, <3>1
      <4> QED BY <1>2, <1>3, <2>1, <3>1, <4>1 DEF ClassRow
    <3>2. CASE class[o].ins # op[s].txnId
      <4>1. class'[o] = class[o] BY <2>1, <3>2
      <4> QED BY <1>2, <4>1
    <3> QED BY <3>1, <3>2
  <2> QED BY <2>1, <2>2
<1>7. ASSUME PublishDeletes(s) PROVE Goal
  <2>1. pc[s] = "deletes" /\ class' = [o \in Oid |-> IF class[o].del = op[s].txnId
                               THEN [class[o] EXCEPT !.del = op[s].commitId] ELSE class[o]]
    BY <1>1, <1>7 DEF PublishDeletes, CommitAllDeletes, RestampDeletes
  <2>2. ASSUME NEW o \in Oid PROVE Row(o)
    <3>1. CASE class[o].del = op[s].txnId
      <4>1. class'[o] = [class[o] EXCEPT !.del = op[s].commitId] BY <2>1, <3>1
      <4> QED BY <1>2, <1>3, <2>1, <4>1 DEF ClassRow
    <3>2. CASE class[o].del # op[s].txnId
      <4>1. class'[o] = class[o] BY <2>1, <3>2
      <4> QED BY <1>2, <4>1
    <3> QED BY <3>1, <3>2
  <2> QED BY <2>1, <2>2
<1>8. ASSUME RevertCatalog(s) PROVE Goal
  <2>1. pc[s] = "revert" /\ class' = [o \in Oid |-> IF class[o].ins = op[s].txnId THEN NoRow
                               ELSE RevertAllDeletes(class, op[s].txnId)[o]]
    BY <1>8 DEF RevertCatalog
  <2>2. ASSUME NEW o \in Oid PROVE Row(o)
    <3>1. CASE class[o].ins = op[s].txnId
      <4>1. class'[o] = NoRow BY <2>1, <3>1
      <4> QED BY <1>3, <2>1, <3>1, <4>1 DEF NoRow, ClassRow
    <3>2. CASE class[o].ins # op[s].txnId
      <4>1. class'[o] = IF class[o].del = op[s].txnId
                        THEN [class[o] EXCEPT !.del = NotDeleted] ELSE class[o]
        BY <1>1, <2>1, <3>2 DEF RevertAllDeletes, RestampDeletes
      <4>2. CASE class[o].del = op[s].txnId
        <5>1. class'[o] = [class[o] EXCEPT !.del = NotDeleted] BY <4>1, <4>2
        <5> QED BY <1>2, <1>3, <5>1 DEF ClassRow
      <4>3. CASE class[o].del # op[s].txnId
        <5>1. class'[o] = class[o] BY <4>1, <4>3
        <5> QED BY <1>2, <5>1
      <4> QED BY <4>2, <4>3
    <3> QED BY <3>1, <3>2
  <2> QED BY <2>1, <2>2
<1>9. ASSUME NEW oids \in SUBSET Oid, DropTables(s, oids) PROVE Goal
  <2>1. pc[s] = "open" /\ class' = [o \in Oid |-> IF o \in oids /\ class[o].del = NotDeleted
                               THEN [class[o] EXCEPT !.del = op[s].txnId] ELSE class[o]]
    BY <1>1, <1>9 DEF DropTables, MarkDeleted
  <2>2. ASSUME NEW o \in Oid PROVE Row(o)
    <3>1. CASE o \in oids /\ class[o].del = NotDeleted
      <4>1. class'[o] = [class[o] EXCEPT !.del = op[s].txnId] BY <2>1, <3>1
      <4> QED BY <1>2, <1>3, <2>1, <4>1 DEF ClassRow
    <3>2. CASE ~(o \in oids /\ class[o].del = NotDeleted)
      <4>1. class'[o] = class[o] BY <2>1, <3>2
      <4> QED BY <1>2, <4>1
    <3> QED BY <3>1, <3>2
  <2> QED BY <2>1, <2>2
<1>10. Goal
  <2>1. \/ UNCHANGED class \/ RegisterCollection(s) \/ IndexCommitted(s) \/ PublishDeletes(s)
        \/ RevertCatalog(s) \/ \E oids \in SUBSET Oid : DropTables(s, oids)
    BY WhoWrites, Zenon
  <2> HIDE DEF Goal
  <2> QED BY <1>4, <1>5, <1>6, <1>7, <1>8, <1>9, <2>1 DEF Goal
<1> QED BY <1>10 DEF InsStep, DelStep

\* The tombstones: new under the transaction's id, or restamped with the commit id.
TombStep(s) ==
    \A u \in Subscriber : \A x \in tombs'[u] :
        \/ x \in tombs[u]
        \/ pc[s] = "mark" /\ x.at = op[s].txnId /\ x.oid \in op[s].gone
        \/ /\ pc[s] = "remap" /\ x.at = op[s].commitId
           /\ \E y \in tombs[u] : y.at = op[s].txnId /\ y.oid = x.oid

LEMMA TombSteps ==
    ASSUME GcInv, NEW s \in Session, Client(s) \/ Chain(s)
    PROVE  tombs' \in [Subscriber -> SUBSET Tombstone] /\ TombStep(s)
<1>1. tombs \in [Subscriber -> SUBSET Tombstone] BY DEF GcInv, TombsOK
<1>2. op[s].txnId \in Nat /\ op[s].commitId \in Nat /\ op[s].gone \subseteq Oid
  BY StampFacts DEF GcInv, GcTypes, Op
<1> DEFINE Goal == tombs' \in [Subscriber -> SUBSET Tombstone] /\ TombStep(s)
<1>3. ASSUME UNCHANGED tombs PROVE Goal
  BY <1>1, <1>3 DEF TombStep
<1>4. ASSUME NEW u \in Subscriber, MarkDropped(s, u) PROVE Goal
  <2> DEFINE oids == SliceOf(u, op[s].gone)
             kept == IF u = IndexMgr THEN {t \in tombs[u] : t.oid \notin oids} ELSE tombs[u]
             new == [oid : oids, at : {op[s].txnId}]
  <2>1. pc[s] = "mark" /\ tombs' = [tombs EXCEPT ![u] = kept \cup new]
    BY <1>4 DEF MarkDropped, MarkStamp
  <2>2. oids \subseteq op[s].gone BY DEF SliceOf
  <2>3. kept \subseteq tombs[u] OBVIOUS
  <2>4. \A x \in new : x \in Tombstone /\ x.at = op[s].txnId /\ x.oid \in op[s].gone
    <3> HIDE DEF oids
    <3> QED BY <1>2, <2>2 DEF Tombstone
  <2> HIDE DEF oids, kept, new
  <2> QED BY <1>1, <2>1, <2>3, <2>4 DEF TombStep
<1>5. ASSUME NEW u \in Subscriber, RemapTombstones(s, u) PROVE Goal
  <2> DEFINE new == {IF t.at = op[s].txnId THEN [t EXCEPT !.at = op[s].commitId] ELSE t : t \in tombs[u]}
  <2>1. pc[s] = "remap" /\ tombs' = [tombs EXCEPT ![u] = new]
    BY <1>1, <1>5 DEF RemapTombstones
  <2>2. ASSUME NEW x \in new
        PROVE  /\ x \in Tombstone
               /\ \/ x \in tombs[u]
                  \/ x.at = op[s].commitId /\ \E y \in tombs[u] : y.at = op[s].txnId /\ y.oid = x.oid
    <3>1. PICK t \in tombs[u] : x = IF t.at = op[s].txnId THEN [t EXCEPT !.at = op[s].commitId] ELSE t
      OBVIOUS
    <3>2. t \in Tombstone BY <1>1
    <3>3. CASE t.at = op[s].txnId
      <4>1. x = [t EXCEPT !.at = op[s].commitId] BY <3>1, <3>3
      <4>2. x \in Tombstone /\ x.at = op[s].commitId /\ x.oid = t.oid
        BY <1>2, <3>2, <4>1 DEF Tombstone
      <4> QED BY <3>3, <4>2
    <3>4. CASE t.at # op[s].txnId
      <4>1. x = t BY <3>1, <3>4
      <4> QED BY <3>2, <4>1
    <3> QED BY <3>3, <3>4
  <2> HIDE DEF new
  <2> QED BY <1>1, <2>1, <2>2 DEF TombStep
<1>6. ASSUME NEW u \in Subscriber, UnmarkTombstones(s, u) PROVE Goal
  <2>1. tombs' = [tombs EXCEPT ![u] = {t \in @ : t.at # op[s].txnId}]
    BY <1>6 DEF UnmarkTombstones
  <2> QED BY <1>1, <2>1 DEF TombStep
<1>7. \/ UNCHANGED tombs
      \/ \E u \in Subscriber : MarkDropped(s, u) \/ RemapTombstones(s, u) \/ UnmarkTombstones(s, u)
  BY WhoWrites, Zenon
<1> HIDE DEF Goal
<1>8. Goal BY <1>3, <1>4, <1>5, <1>6, <1>7
<1> QED BY <1>8 DEF Goal

\* A sweep takes tombstones below the horizon, and only those tables.
Swept(u) == {t.oid : t \in {t \in tombs[u] : t.at <= MaxTs}}

LEMMA SweepSteps ==
    ASSUME GcInv, NEW u \in Subscriber, SweepTombstones(u)
    PROVE  /\ tombs' \in [Subscriber -> SUBSET Tombstone]
           /\ \A v \in Subscriber : tombs'[v] \subseteq tombs[v]
           /\ UNCHANGED <<tmVars, class, storages, pc, op, todo, fate>>
           /\ files \ Swept(u) \subseteq files' /\ files' \subseteq files
           /\ engines \ Swept(u) \subseteq engines' /\ engines' \subseteq engines
<1>1. tombs \in [Subscriber -> SUBSET Tombstone] /\ mailbox[u] \in SUBSET Nat /\ mailbox[u] # {}
      /\ \A h \in mailbox[u] : h \in Nat /\ h <= MaxTs
  BY StampFacts DEF GcInv, TombsOK, GcTypes, SweepTombstones
<1>2. Min(mailbox[u]) \in Nat /\ Min(mailbox[u]) <= MaxTs
  BY <1>1, MinOfNats
<1> DEFINE h == Min(mailbox[u])
           swept == {t.oid : t \in {t \in tombs[u] : t.at < h}}
           kept == {t \in tombs[u] : t.at >= h}
<1>3. /\ tombs' = [tombs EXCEPT ![u] = kept]
      /\ \/ engines' = engines \ swept /\ UNCHANGED files
         \/ files' = files \ swept /\ UNCHANGED engines
      /\ UNCHANGED <<tmVars, class, storages, pc, op, todo, fate>>
  BY DEF SweepTombstones
<1>4. swept \subseteq Swept(u)
  <2>1. ASSUME NEW t \in tombs[u], t.at < h PROVE t.at <= MaxTs
    <3>1. t.at \in Nat BY <1>1 DEF Tombstone
    <3> QED BY <1>2, <2>1, <3>1, StampFacts
  <2> QED BY <2>1 DEF Swept
<1>5. kept \subseteq tombs[u] OBVIOUS
<1> HIDE DEF h, swept, kept
<1> QED BY <1>1, <1>3, <1>4, <1>5

\* Rows and tombstones carry stamps that the manager has given out.
LEMMA StampsNext ==
    ASSUME GcInv, [DropNext]_vars
    PROVE  ClassOK' /\ TombsOK'
<1>1. IInv /\ [Next]_tmVars BY ManagerStep DEF GcInv, GcTypes
<1>2. \A id \in Nat : StampOK(id) => StampOK(id)' BY <1>1, StampKept
<1>3. /\ class \in [Oid -> ClassRow] /\ tombs \in [Subscriber -> SUBSET Tombstone]
      /\ \A o \in Oid : /\ class[o].ins \in Nat /\ (StampOK(class[o].ins) \/ class[o].ins = NotDeleted)
                        /\ class[o].del \in Nat /\ (StampOK(class[o].del) \/ class[o].del = NotDeleted)
      /\ \A v \in Subscriber : \A x \in tombs[v] : x.at \in Nat /\ StampOK(x.at)
  BY DEF GcInv, ClassOK, TombsOK, ClassRow, Tombstone
<1>4. ASSUME NEW s \in Session
      PROVE  /\ Busy(s) => op[s].txnId \in Nat /\ StampOK(op[s].txnId)
             /\ Committing(s) => op[s].commitId \in Nat /\ StampOK(op[s].commitId)
  <2>1. SessionOK(s) /\ IInv /\ op[s] \in Op BY DEF GcInv, GcTypes
  <2> QED BY <2>1, StampFacts DEF SessionOK, ChainOK, StampOK, IInv, TypeOK, InFlightBelowClock, Op
<1>5. ASSUME NEW s \in Session, Client(s) \/ Chain(s) PROVE ClassOK' /\ TombsOK'
  <2>1. class' \in [Oid -> ClassRow] /\ InsStep(s) /\ DelStep(s) BY <1>5, ClassSteps
  <2>2. tombs' \in [Subscriber -> SUBSET Tombstone] /\ TombStep(s) BY <1>5, TombSteps
  <2>3. ASSUME NEW o \in Oid, NEW id, id = class'[o].ins PROVE StampOK(id)' \/ id = NotDeleted
    <3>1. \/ id = class[o].ins \/ id = NotDeleted
          \/ Busy(s) /\ id = op[s].txnId
          \/ Committing(s) /\ id = op[s].commitId
      BY <2>1, <2>3 DEF InsStep, Busy, Open, Committing
    <3> HIDE DEF StampOK
    <3> QED BY <1>2, <1>3, <1>4, <3>1
  <2>4. ASSUME NEW o \in Oid, NEW id, id = class'[o].del PROVE StampOK(id)' \/ id = NotDeleted
    <3>1. \/ id = class[o].del \/ id = NotDeleted
          \/ Busy(s) /\ id = op[s].txnId
          \/ Committing(s) /\ id = op[s].commitId
      BY <2>1, <2>4 DEF DelStep, Busy, Open, Committing
    <3> QED BY <1>2, <1>3, <1>4, <3>1
  <2>5. ASSUME NEW u \in Subscriber, NEW x \in tombs'[u], NEW id, id = x.at PROVE StampOK(id)'
    <3>1. \/ x \in tombs[u]
          \/ Busy(s) /\ id = op[s].txnId
          \/ Committing(s) /\ id = op[s].commitId
      BY <2>2, <2>5 DEF TombStep, Busy, Open, Committing
    <3> QED BY <1>2, <1>3, <1>4, <2>5, <3>1
  <2> QED BY <2>1, <2>2, <2>3, <2>4, <2>5 DEF ClassOK, TombsOK
<1>6. ASSUME UNCHANGED class, tombs' \in [Subscriber -> SUBSET Tombstone],
             \A v \in Subscriber : tombs'[v] \subseteq tombs[v]
      PROVE  ClassOK' /\ TombsOK'
  <2>1. ASSUME NEW v \in Subscriber, NEW x \in tombs'[v], NEW id, id = x.at PROVE StampOK(id)'
    BY <1>2, <1>3, <1>6, <2>1
  <2>2. ASSUME NEW o \in Oid, NEW id, id \in {class'[o].ins, class'[o].del}
        PROVE StampOK(id)' \/ id = NotDeleted
    BY <1>2, <1>3, <1>6, <2>2
  <2> QED BY <1>3, <1>6, <2>1, <2>2 DEF ClassOK, TombsOK
<1>7. ASSUME NEW u \in Subscriber, SweepTombstones(u) PROVE ClassOK' /\ TombsOK'
  BY <1>6, <1>7, SweepSteps
<1>8. CASE TakeNotice BY <1>3, <1>6, <1>8 DEF TakeNotice
<1>9. CASE UNCHANGED vars BY <1>3, <1>6, <1>9 DEF vars, gcVars
<1> QED BY <1>5, <1>7, <1>8, <1>9 DEF DropNext

-----------------------------------------------------------------------------
(* The chain of the session that takes the step.                           *)

\* Its transaction id and commit id stay or are new, and it holds no storage that
\* another chain has created.
OpStep(s) ==
    /\ Busy(s)' => \/ Busy(s) /\ op'[s].txnId = op[s].txnId /\ op[s].dropped \subseteq op'[s].dropped
                   \/ op'[s].txnId = TxnIdStart + nextTxnId
    /\ Committing(s)' => \/ Committing(s) /\ op'[s].commitId = op[s].commitId
                         \/ op'[s].commitId = currentTs
    /\ \A o \in Oid : Holds(s, o)' => Holds(s, o) \/ o \notin storages
    /\ \A c \in inFlight \ inFlight' : Committing(s) /\ c = op[s].commitId

OwnStep(s) == SessionOK(s)' /\ OpStep(s)

\* Stamps that new snapshots see stay visible to them.
FreshStable == \A id \in Nat : Fresh(id) => Fresh(id)'

\* What the proofs about one chain use of the other parts of the invariant.
ManagerFacts(s) ==
    /\ active \in [Session -> Txn \cup {NoTxn}]
    /\ nextTxnId \in Nat /\ currentTs \in 1 .. MaxTs
    /\ \A c \in inFlight : c \in Nat /\ c < currentTs
    /\ op[s] \in Op /\ op[s].txnId \in Nat /\ op[s].commitId \in 0 .. MaxTs
    /\ op[s].dropped \cup op[s].created \cup op[s].gone \subseteq Oid
    /\ \A o \in Oid : class[o].ins \in Nat
    /\ \A id \in Pending : id \in Nat /\ TxnIdStart <= id /\ id < NotDeleted

LEMMA OwnFacts ==
    ASSUME GcInv, NEW s \in Session
    PROVE  SessionOK(s) /\ ManagerFacts(s)
<1>1. SessionOK(s) /\ IInv /\ op[s] \in Op /\ class \in [Oid -> ClassRow] /\ nextTxnId < currentTs
  BY DEF GcInv, GcTypes, ClassOK
<1>2. nextTxnId \in Nat /\ currentTs \in 1 .. MaxTs BY <1>1 DEF IInv, TypeOK
<1>3. ASSUME NEW id \in Pending PROVE id \in Nat /\ TxnIdStart <= id /\ id < NotDeleted
  BY <1>1, <1>2, StampFacts DEF Pending
<1>4. \A c \in inFlight : c \in Nat /\ c < currentTs
  BY <1>1 DEF IInv, TypeOK, InFlightBelowClock
<1> QED BY <1>1, <1>2, <1>3, <1>4 DEF ManagerFacts, Op, ClassRow, IInv, TypeOK

LEMMA ChainTypes ==
    GcInv => pc \in [Session -> PC] /\ op \in [Session -> Op] /\ todo \in [Session -> SUBSET Subscriber]
BY DEF GcInv, GcTypes

\* Rows that a running chain has written, or that everybody new sees, stay so.
LEMMA OpenRows ==
    ASSUME GcInv, NEW s \in Session, Client(s) \/ Chain(s), FreshStable,
           Open(s), Open(s)', op'[s].txnId = op[s].txnId,
           Committing(s) => Committing(s)' /\ op'[s].commitId = op[s].commitId,
           NEW o \in Oid
    PROVE  /\ Mine(s, class[o].ins) => Mine(s, class[o].ins)'
           /\ Fresh(class[o].ins) => Fresh(class[o].ins)'
           /\ class[o].ins = NotDeleted => class'[o].ins = NotDeleted \/ Mine(s, class[o].ins)'
<1>1. InsStep(s) BY ClassSteps
<1>2. SessionOK(s) /\ ManagerFacts(s) BY OwnFacts
<1>3. op[s].txnId \in Pending BY <1>2 DEF SessionOK, ChainOK, Busy
<1>4. TxnIdStart <= op[s].txnId /\ op[s].txnId < NotDeleted /\ op[s].commitId < TxnIdStart
  BY <1>2, <1>3, StampFacts DEF ManagerFacts
<1>5. pc[s] # "revert" /\ (pc[s] = "index" => Committing(s)) BY DEF Open, Committing
<1>6. \/ class'[o].ins = class[o].ins
      \/ class[o].ins = NotDeleted /\ class'[o].ins = op[s].txnId
      \/ Committing(s) /\ class[o].ins = op[s].txnId /\ class'[o].ins = op[s].commitId
  BY <1>1, <1>5 DEF InsStep
<1>7. ASSUME Mine(s, class[o].ins) PROVE Mine(s, class[o].ins)'
  BY <1>2, <1>4, <1>6, <1>7, StampFacts DEF Mine, ManagerFacts
<1>8. ASSUME Fresh(class[o].ins) PROVE Fresh(class[o].ins)'
  <2>1. class'[o].ins = class[o].ins BY <1>4, <1>6, <1>8, <1>2, StampFacts DEF Fresh, ManagerFacts
  <2>2. ASSUME NEW id \in Nat, id = class[o].ins PROVE Fresh(class[o].ins)'
    <3>1. Fresh(id)' BY <1>8, <2>2 DEF FreshStable
    <3> QED BY <2>1, <2>2, <3>1 DEF Fresh
  <2> QED BY <1>2, <2>2 DEF ManagerFacts
<1>9. class[o].ins = NotDeleted => class'[o].ins = NotDeleted \/ Mine(s, class[o].ins)'
  BY <1>4, <1>6 DEF Mine
<1> QED BY <1>7, <1>8, <1>9

\* A message that leaves the manager, the storages and the fates alone, and the chain
\* as far as it was.
MovesOn(s) ==
    /\ Open(s) /\ Open(s)' /\ (Committing(s) <=> Committing(s)')
    /\ op'[s].txnId = op[s].txnId /\ op'[s].commitId = op[s].commitId
    /\ op'[s].dropped = op[s].dropped /\ op'[s].created = op[s].created
    /\ UNCHANGED <<tmVars, storages, fate>>

LEMMA MovesOnOwn ==
    ASSUME GcInv, NEW s \in Session, Client(s) \/ Chain(s), FreshStable, MovesOn(s)
    PROVE  ChainOK(s)' /\ CreatedOK(s)' /\ DroppedOK(s)' /\ OpStep(s)
<1>1. SessionOK(s) /\ ManagerFacts(s) BY OwnFacts
<1>2. \A o \in Oid : /\ Mine(s, class[o].ins) => Mine(s, class[o].ins)'
                     /\ Fresh(class[o].ins) => Fresh(class[o].ins)'
                     /\ class[o].ins = NotDeleted => class'[o].ins = NotDeleted \/ Mine(s, class[o].ins)'
  BY OpenRows DEF MovesOn
<1>3. ChainOK(s)'
  BY <1>1 DEF SessionOK, ChainOK, MovesOn, tmVars, IsActive, Busy, Open, Committing, Pending
<1>4. CreatedOK(s)'
  BY <1>1, <1>2 DEF SessionOK, ManagerFacts, CreatedOK, Holds, MovesOn, Busy, Open, Committing
<1>5. DroppedOK(s)'
  BY <1>1, <1>2 DEF SessionOK, ManagerFacts, DroppedOK, MovesOn
<1>6. OpStep(s)
  BY <1>1 DEF OpStep, MovesOn, Holds, Busy, Open, Committing, tmVars
<1> QED BY <1>3, <1>4, <1>5, <1>6

\* The messages of a chain that is under way.
LEMMA UnderwayOwn ==
    ASSUME GcInv, NEW s \in Session, Client(s) \/ Chain(s), FreshStable,
           \/ Write(s) \/ RegisterCollection(s) \/ AnnounceMarks(s) \/ PublishDeletes(s)
           \/ IndexCommitted(s) \/ \E u \in Subscriber : MarkDropped(s, u) \/ RemapTombstones(s, u)
    PROVE  OwnStep(s)
<1>1. SessionOK(s) /\ ManagerFacts(s) BY OwnFacts
<1> DEFINE Goal == MovesOn(s) /\ ClassStamped(s)' /\ GoneOK(s)'
<1>2. ASSUME Write(s) PROVE Goal
  <2>1. /\ pc[s] = "open" /\ pc'[s] = "open" /\ UNCHANGED <<tmVars, storages, fate>>
        /\ op'[s] = [op[s] EXCEPT !.wrote = TRUE]
    BY <1>2, ChainTypes DEF Write, physVars
  <2>2. MovesOn(s) /\ op'[s].gone = op[s].gone
    BY <1>1, <2>1 DEF ManagerFacts, Op, MovesOn, Open, Committing
  <2> QED BY <2>1, <2>2 DEF ClassStamped, GoneOK
<1>3. ASSUME RegisterCollection(s) PROVE Goal
  <2>1. /\ pc[s] = "register" /\ pc'[s] = "open" /\ UNCHANGED <<tmVars, storages, fate>> /\ op' = op
    BY <1>3, ChainTypes DEF RegisterCollection, Goto
  <2> QED BY <2>1 DEF MovesOn, Open, Committing, ClassStamped, GoneOK
<1>4. ASSUME AnnounceMarks(s) PROVE Goal
  <2>1. /\ pc[s] = "announce" /\ pc'[s] = "open" /\ UNCHANGED <<tmVars, storages, fate>>
        /\ op'[s] = [op[s] EXCEPT !.gone = {}]
    BY <1>4, ChainTypes DEF AnnounceMarks, Goto, physVars
  <2>2. MovesOn(s) BY <1>1, <2>1 DEF ManagerFacts, Op, MovesOn, Open, Committing
  <2> QED BY <2>1, <2>2 DEF ClassStamped, GoneOK
<1>5. ASSUME PublishDeletes(s) PROVE Goal
  <2>1. /\ pc[s] = "deletes" /\ pc'[s] = "publish" /\ UNCHANGED <<tmVars, storages, fate>> /\ op' = op
    BY <1>5, ChainTypes DEF PublishDeletes, Goto, physVars
  <2>2. \A o \in Oid : class'[o].ins = class[o].ins
    BY <2>1, ClassSteps DEF InsStep
  <2> QED BY <1>1, <2>1, <2>2 DEF SessionOK, MovesOn, Open, Committing, ClassStamped, GoneOK
<1>6. ASSUME IndexCommitted(s) PROVE Goal
  <2>1. /\ pc[s] = "index" /\ pc'[s] = "deletes" /\ UNCHANGED <<tmVars, storages, fate>> /\ op' = op
        /\ class' = [o \in Oid |-> IF class[o].ins = op[s].txnId
                                   THEN [class[o] EXCEPT !.ins = op[s].commitId] ELSE class[o]]
    BY <1>6, ChainTypes DEF IndexCommitted, Goto, physVars
  <2>2. op[s].txnId \in Pending BY <1>1, <2>1 DEF SessionOK, ChainOK, Busy, Open, Committing
  <2>3. op[s].commitId # op[s].txnId BY <1>1, <2>2, StampFacts DEF ManagerFacts
  <2>4. ASSUME NEW o \in Oid PROVE class'[o].ins # op[s].txnId
    <3>1. CASE class[o].ins = op[s].txnId
      <4>1. class'[o] = [class[o] EXCEPT !.ins = op[s].commitId] BY <2>1, <3>1
      <4>2. class[o] \in ClassRow BY DEF GcInv, ClassOK
      <4> QED BY <2>3, <4>1, <4>2 DEF ClassRow
    <3>2. CASE class[o].ins # op[s].txnId BY <2>1, <3>2
    <3> QED BY <3>1, <3>2
  <2> QED BY <2>1, <2>4 DEF MovesOn, Open, Committing, ClassStamped, GoneOK
<1>7. ASSUME NEW u \in Subscriber, MarkDropped(s, u) PROVE Goal
  <2>1. /\ pc[s] = "mark" /\ pc'[s] \in {"announce", "mark"} /\ UNCHANGED <<tmVars, storages, fate>> /\ op' = op
    BY <1>7, ChainTypes DEF MarkDropped, Goto, physVars
  <2> QED BY <1>1, <2>1 DEF SessionOK, MovesOn, Open, Committing, ClassStamped, GoneOK
<1>8. ASSUME NEW u \in Subscriber, RemapTombstones(s, u) PROVE Goal
  <2>1. /\ pc[s] = "remap" /\ pc'[s] \in {"index", "remap"} /\ UNCHANGED <<tmVars, storages, fate>> /\ op' = op
    BY <1>8, ChainTypes DEF RemapTombstones, Goto, physVars
  <2> QED BY <1>1, <2>1 DEF SessionOK, MovesOn, Open, Committing, ClassStamped, GoneOK
<1>9. Goal
  <2> HIDE DEF Goal
  <2> QED BY <1>2, <1>3, <1>4, <1>5, <1>6, <1>7, <1>8
<1>10. ChainOK(s)' /\ CreatedOK(s)' /\ DroppedOK(s)' /\ OpStep(s) BY <1>9, MovesOnOwn
<1> QED BY <1>9, <1>10 DEF OwnStep, SessionOK

\* BEGIN, and the messages after which the chain is over and forgets what it did.
LEMMA FreshChainOwn ==
    ASSUME GcInv, NEW s \in Session, FreshStable,
           Begin(s) \/ StatementFailed(s) \/ CommitEmpty(s) \/ IndexCommitFailed(s)
    PROVE  OwnStep(s)
<1>1. SessionOK(s) /\ ManagerFacts(s) BY OwnFacts
<1> DEFINE Empty == op'[s].dropped = {} /\ op'[s].created = {} /\ op'[s].gone = {}
           Goal == Empty /\ pc'[s] \in {"open", "idle"} /\ ChainOK(s)' /\ OpStep(s)
<1>2. ASSUME Begin(s) PROVE Goal
  <2>1. /\ pc[s] = "idle" /\ pc'[s] = "open" /\ BeginTransaction(s)
        /\ op'[s] = [NoOp EXCEPT !.txnId = TxnIdStart + nextTxnId]
    BY <1>2, ChainTypes DEF Begin, Goto
  <2>2. Empty /\ op'[s].txnId = TxnIdStart + nextTxnId BY <2>1 DEF NoOp
  <2>3. active'[s].txnId = nextTxnId /\ nextTxnId' = nextTxnId + 1 /\ UNCHANGED inFlight
    BY <1>1, <2>1 DEF BeginTransaction, ManagerFacts
  <2>4. op'[s].txnId \in TxnIdStart .. TxnIdStart + nextTxnId' - 1
    BY <1>1, <2>2, <2>3, StampFacts DEF ManagerFacts
  <2>5. ChainOK(s)'
    BY <1>1, <2>1, <2>2, <2>3, <2>4 DEF ChainOK, ManagerFacts, IsActive, Busy, Open, Committing, Pending
  <2>6. OpStep(s)
    BY <2>1, <2>2, <2>3 DEF OpStep, Holds, Busy, Open, Committing
  <2> QED BY <2>1, <2>2, <2>5, <2>6
<1>3. ASSUME StatementFailed(s) \/ CommitEmpty(s) PROVE Goal
  <2>1. pc[s] = "open" /\ pc'[s] = "idle" /\ Abort(s) /\ op'[s] = NoOp
    BY <1>3, ChainTypes DEF StatementFailed, CommitEmpty, Goto
  <2>2. Empty BY <2>1 DEF NoOp
  <2>3. active'[s].txnId = -1 /\ UNCHANGED inFlight
    BY <1>1, <2>1 DEF Abort, ManagerFacts, NoTxn
  <2>4. ChainOK(s)'
    BY <2>1, <2>3 DEF ChainOK, IsActive, Busy, Open, Committing
  <2>5. OpStep(s)
    BY <2>1, <2>2, <2>3 DEF OpStep, Holds, Busy, Open, Committing
  <2> QED BY <2>1, <2>2, <2>4, <2>5
<1>4. ASSUME IndexCommitFailed(s) PROVE Goal
  <2>1. pc[s] = "index" /\ pc'[s] = "idle" /\ UNCHANGED tmVars /\ op'[s] = NoOp
    BY <1>4, ChainTypes DEF IndexCommitFailed, Goto
  <2>2. Empty BY <2>1 DEF NoOp
  <2>3. ChainOK(s)'
    BY <1>1, <2>1 DEF SessionOK, ChainOK, IsActive, Busy, Open, Committing, tmVars
  <2>4. OpStep(s)
    BY <2>1, <2>2 DEF OpStep, Holds, Busy, Open, Committing, tmVars
  <2> QED BY <2>1, <2>2, <2>3, <2>4
<1>5. Goal
  <2> HIDE DEF Goal
  <2> QED BY <1>2, <1>3, <1>4
<1>6. CreatedOK(s)' /\ DroppedOK(s)' /\ ClassStamped(s)' /\ GoneOK(s)'
  BY <1>5 DEF CreatedOK, DroppedOK, ClassStamped, GoneOK
<1> QED BY <1>5, <1>6 DEF OwnStep, SessionOK

\* CREATE TABLE gives a new oid its storage.
LEMMA CreateStorageOwn ==
    ASSUME GcInv, NEW s \in Session, NEW p \in Oid, CreateStorage(s, p), FreshStable
    PROVE  OwnStep(s)
<1>1. SessionOK(s) /\ ManagerFacts(s) BY OwnFacts
<1>2. /\ pc[s] = "open" /\ pc'[s] = "register" /\ UNCHANGED <<tmVars, class, fate>>
      /\ class[p] = NoRow /\ p \notin storages /\ storages' = storages \cup {p}
      /\ op'[s] = [op[s] EXCEPT !.created = @ \cup {p}]
  BY ChainTypes DEF CreateStorage, Goto
<1>3. /\ op'[s].txnId = op[s].txnId /\ op'[s].commitId = op[s].commitId
      /\ op'[s].dropped = op[s].dropped /\ op'[s].gone = op[s].gone
      /\ op'[s].created = op[s].created \cup {p}
  BY <1>1, <1>2 DEF ManagerFacts, Op
<1>4. class[p].ins = NotDeleted /\ p \notin InitTables
  BY <1>2, StampFacts DEF NoRow, GcInv, TablesOK
<1>5. ChainOK(s)'
  BY <1>1, <1>2, <1>3 DEF SessionOK, ChainOK, tmVars, IsActive, Busy, Open, Committing, Pending
<1>6. CreatedOK(s)'
  BY <1>1, <1>2, <1>3, <1>4 DEF SessionOK, CreatedOK, Holds, Mine, Busy, Open, Committing
<1>7. DroppedOK(s)'
  BY <1>1, <1>2, <1>3 DEF SessionOK, DroppedOK, Mine, Fresh, Open, Committing, tmVars
<1>8. ClassStamped(s)' /\ GoneOK(s)'
  BY <1>2 DEF ClassStamped, GoneOK
<1>9. OpStep(s)
  BY <1>2, <1>3 DEF OpStep, Holds, Busy, Open, Committing, tmVars
<1> QED BY <1>5, <1>6, <1>7, <1>8, <1>9 DEF OwnStep, SessionOK

\* DROP TABLE of tables that the snapshot shows: their rows are the transaction's own
\* or published before.
LEMMA DropTablesOwn ==
    ASSUME GcInv, NEW s \in Session, NEW oids \in SUBSET Oid, DropTables(s, oids), FreshStable
    PROVE  OwnStep(s)
<1>1. SessionOK(s) /\ ManagerFacts(s) BY OwnFacts
<1>2. /\ pc[s] = "open" /\ pc'[s] = "mark" /\ UNCHANGED <<tmVars, storages, fate>>
      /\ \A o \in oids : Visible(Data(s), class[o])
      /\ op'[s] = [op[s] EXCEPT !.dropped = @ \cup oids, !.gone = oids]
  BY ChainTypes DEF DropTables, Goto, physVars
<1>3. /\ op'[s].txnId = op[s].txnId /\ op'[s].commitId = op[s].commitId
      /\ op'[s].dropped = op[s].dropped \cup oids /\ op'[s].gone = oids
      /\ op'[s].created = op[s].created
  BY <1>1, <1>2 DEF ManagerFacts, Op
<1>4. \A o \in Oid : class'[o].ins = class[o].ins
  <2>1. Client(s) BY DEF Client
  <2> QED BY <1>2, <2>1, ClassSteps DEF InsStep
<1>5. ASSUME NEW o \in oids PROVE Mine(s, class[o].ins) \/ Fresh(class[o].ins)
  <2>1. UseInsertedVersion(Data(s), class[o].ins) BY <1>2 DEF Visible
  <2>2. IsActive(s) /\ op[s].txnId = TxnIdStart + active[s].txnId
    BY <1>1, <1>2 DEF SessionOK, ChainOK
  <2>3. CASE class[o].ins = Data(s).transactionId
    BY <2>2, <2>3 DEF Data, Mine
  <2>4. CASE class[o].ins < TxnIdStart /\ class[o].ins <= active[s].snapHorizon
                                       /\ class[o].ins \notin active[s].snapInFlight
    <3>1. IInv BY DEF GcInv, GcTypes
    <3>2. class[o].ins \notin inFlight
      BY <2>2, <2>4, <3>1 DEF IInv, NoDirtySnapshot, CommitVisible
    <3>3. active[s] \in Txn BY <1>1, <2>2 DEF ManagerFacts, IsActive, NoTxn
    <3>4. class[o].ins <= horizon
      BY <1>1, <2>2, <2>4, <3>1, <3>3 DEF ManagerFacts, IInv, TypeOK, SnapshotsInPast, Txn
    <3> QED BY <2>4, <3>2, <3>4 DEF Fresh
  <2> QED BY <2>1, <2>3, <2>4 DEF UseInsertedVersion, Data
<1>6. ChainOK(s)'
  BY <1>1, <1>2, <1>3 DEF SessionOK, ChainOK, tmVars, IsActive, Busy, Open, Committing, Pending
<1>7. CreatedOK(s)'
  BY <1>1, <1>2, <1>3, <1>4 DEF SessionOK, ManagerFacts, CreatedOK, Holds, Mine, Busy, Open, Committing
<1>8. DroppedOK(s)'
  BY <1>1, <1>2, <1>3, <1>4, <1>5 DEF SessionOK, ManagerFacts, DroppedOK, Mine, Fresh, Open, Committing, tmVars
<1>9. ClassStamped(s)' /\ GoneOK(s)'
  BY <1>2, <1>3 DEF ClassStamped, GoneOK
<1>10. OpStep(s)
  BY <1>2, <1>3 DEF OpStep, Holds, Busy, Open, Committing, tmVars
<1> QED BY <1>6, <1>7, <1>8, <1>9, <1>10 DEF OwnStep, SessionOK

\* COMMIT takes the transaction's drops past the point of no return.
LEMMA CommitDrainOwn ==
    ASSUME GcInv, NEW s \in Session, CommitDrain(s), FreshStable
    PROVE  OwnStep(s)
<1>1. SessionOK(s) /\ ManagerFacts(s) BY OwnFacts
<1>2. /\ pc[s] = "open" /\ pc'[s] \in {"index", "remap"} /\ Commit(s) /\ UNCHANGED <<class, storages>>
      /\ fate' = [o \in Oid |-> IF o \in op[s].dropped /\ fate[o] = "live" THEN "committed" ELSE fate[o]]
      /\ op'[s] = [op[s] EXCEPT !.commitId = currentTs]
  BY ChainTypes DEF CommitDrain, Goto, physVars
<1>3. /\ op'[s].txnId = op[s].txnId /\ op'[s].commitId = currentTs
      /\ op'[s].dropped = op[s].dropped /\ op'[s].gone = op[s].gone
      /\ op'[s].created = op[s].created
  BY <1>1, <1>2 DEF ManagerFacts, Op
<1>4. active'[s].txnId = -1 /\ inFlight' = inFlight \cup {currentTs} /\ UNCHANGED nextTxnId
  BY <1>1, <1>2 DEF Commit, ManagerFacts, NoTxn
<1>5. Open(s) /\ Open(s)' /\ ~Committing(s) /\ Committing(s)' BY <1>2 DEF Open, Committing
<1>6. \A o \in Oid : /\ Mine(s, class[o].ins) => Mine(s, class[o].ins)'
                     /\ Fresh(class[o].ins) => Fresh(class[o].ins)'
  <2>1. Client(s) BY DEF Client
  <2> QED BY <1>3, <1>5, <2>1, OpenRows
<1>7. ChainOK(s)'
  BY <1>1, <1>2, <1>3, <1>4 DEF SessionOK, ChainOK, IsActive, Busy, Open, Committing, Pending
<1>8. CreatedOK(s)'
  BY <1>1, <1>2, <1>3, <1>5, <1>6 DEF SessionOK, ManagerFacts, CreatedOK, Holds, Busy
<1>9. DroppedOK(s)'
  BY <1>1, <1>2, <1>3, <1>5, <1>6 DEF SessionOK, ManagerFacts, DroppedOK
<1>10. ClassStamped(s)' /\ GoneOK(s)'
  BY <1>2 DEF ClassStamped, GoneOK
<1>11. OpStep(s)
  BY <1>2, <1>3, <1>4, <1>5 DEF OpStep, Holds, Busy, Open
<1> QED BY <1>7, <1>8, <1>9, <1>10, <1>11 DEF OwnStep, SessionOK

\* The commit is published: what it dropped goes, and everybody new sees its rows.
LEMMA PublishCommitOwn ==
    ASSUME GcInv, NEW s \in Session, PublishCommit(s), FreshStable
    PROVE  OwnStep(s)
<1>1. SessionOK(s) /\ ManagerFacts(s) BY OwnFacts
<1>2. /\ pc[s] = "publish" /\ pc'[s] \in {"idle", "unregister"} /\ Publish(op[s].commitId)
      /\ fate' = [o \in Oid |-> IF o \in op[s].dropped THEN "published" ELSE fate[o]]
      /\ op'[s] = [NoOp EXCEPT !.gone = op[s].dropped]
  BY ChainTypes DEF PublishCommit, Goto
<1>3. op'[s].dropped = {} /\ op'[s].created = {} /\ op'[s].gone = op[s].dropped
  BY <1>2 DEF NoOp
<1>4. inFlight' = inFlight \ {op[s].commitId} /\ UNCHANGED active BY <1>2 DEF Publish
<1>5. ChainOK(s)'
  BY <1>1, <1>2, <1>4 DEF SessionOK, ChainOK, IsActive, Busy, Open, Committing
<1>6. CreatedOK(s)' /\ DroppedOK(s)' /\ ClassStamped(s)'
  BY <1>2, <1>3 DEF CreatedOK, DroppedOK, ClassStamped
<1>7. GoneOK(s)'
  BY <1>1, <1>2, <1>3 DEF GoneOK, ManagerFacts
<1>8. OpStep(s)
  BY <1>2, <1>3, <1>4 DEF OpStep, Holds, Busy, Open, Committing
<1> QED BY <1>5, <1>6, <1>7, <1>8 DEF OwnStep, SessionOK

\* ROLLBACK takes away what the transaction created.
LEMMA RollbackDrainOwn ==
    ASSUME GcInv, NEW s \in Session, RollbackDrain(s), FreshStable
    PROVE  OwnStep(s)
<1>1. SessionOK(s) /\ ManagerFacts(s) BY OwnFacts
<1>2. /\ pc[s] = "open" /\ pc'[s] = "revert" /\ Abort(s) /\ UNCHANGED <<class, storages, fate>>
      /\ op'[s] = [op[s] EXCEPT !.gone = op[s].created]
  BY ChainTypes DEF RollbackDrain, Goto, physVars
<1>3. /\ op'[s].txnId = op[s].txnId /\ op'[s].commitId = op[s].commitId
      /\ op'[s].dropped = op[s].dropped /\ op'[s].created = op[s].created
      /\ op'[s].gone = op[s].created
  BY <1>1, <1>2 DEF ManagerFacts, Op
<1>4. active'[s].txnId = -1 /\ UNCHANGED <<inFlight, nextTxnId>>
  BY <1>1, <1>2 DEF Abort, ManagerFacts, NoTxn
<1>5. ChainOK(s)'
  BY <1>1, <1>2, <1>3, <1>4 DEF SessionOK, ChainOK, IsActive, Busy, Open, Committing, Pending
<1>6. CreatedOK(s)'
  BY <1>1, <1>2, <1>3 DEF SessionOK, CreatedOK, Holds, Mine, Busy, Open, Committing
<1>7. DroppedOK(s)' /\ ClassStamped(s)' /\ GoneOK(s)'
  BY <1>2, <1>3 DEF DroppedOK, ClassStamped, GoneOK, Open, Committing
<1>8. OpStep(s)
  BY <1>2, <1>3, <1>4 DEF OpStep, Holds, Busy, Open, Committing
<1> QED BY <1>5, <1>6, <1>7, <1>8 DEF OwnStep, SessionOK

\* The rows of the transaction are gone from pg_class.
LEMMA RevertCatalogOwn ==
    ASSUME GcInv, NEW s \in Session, RevertCatalog(s), FreshStable
    PROVE  OwnStep(s)
<1>1. SessionOK(s) /\ ManagerFacts(s) BY OwnFacts
<1>2. /\ pc[s] = "revert" /\ op' = op /\ UNCHANGED <<tmVars, storages, fate>>
      /\ pc'[s] \in {"unmark", "unregister"} \/ (pc'[s] = "idle" /\ op[s].created = {})
      /\ class' = [o \in Oid |-> IF class[o].ins = op[s].txnId THEN NoRow
                                 ELSE RevertAllDeletes(class, op[s].txnId)[o]]
  BY ChainTypes DEF RevertCatalog, Goto, physVars
<1>3. op[s].txnId \in Pending /\ op[s].txnId < NotDeleted
  BY <1>1, <1>2 DEF SessionOK, ChainOK, Busy, ManagerFacts
<1>4. InsStep(s)
  <2>1. Chain(s) BY DEF Chain
  <2> QED BY <2>1, ClassSteps
<1>5. ASSUME NEW o \in Oid
      PROVE  /\ class'[o].ins # op[s].txnId
             /\ class[o].ins \in {op[s].txnId, NotDeleted} => class'[o].ins = NotDeleted
  <2>1. CASE class[o].ins = op[s].txnId
    <3>1. class'[o].ins = NotDeleted BY <1>2, <2>1 DEF NoRow
    <3> QED BY <1>1, <1>3, <3>1, StampFacts DEF ManagerFacts
  <2>2. CASE class[o].ins # op[s].txnId
    <3>1. class'[o].ins = class[o].ins BY <1>2, <1>4, <2>2 DEF InsStep
    <3> QED BY <2>2, <3>1
  <2> QED BY <2>1, <2>2
<1>6. ChainOK(s)'
  BY <1>1, <1>2 DEF SessionOK, ChainOK, tmVars, IsActive, Busy, Open, Committing, Pending
<1>7. CreatedOK(s)'
  BY <1>1, <1>2, <1>5 DEF SessionOK, ManagerFacts, CreatedOK, Holds, Mine, Busy, Open, Committing
<1>8. DroppedOK(s)' /\ ClassStamped(s)'
  BY <1>2, <1>5 DEF DroppedOK, ClassStamped, Open, Committing
<1>9. GoneOK(s)'
  BY <1>1, <1>2 DEF SessionOK, GoneOK
<1>10. OpStep(s)
  BY <1>2 DEF OpStep, Holds, Busy, Open, Committing, tmVars
<1> QED BY <1>6, <1>7, <1>8, <1>9, <1>10 DEF OwnStep, SessionOK

LEMMA UnmarkTombstonesOwn ==
    ASSUME GcInv, NEW s \in Session, NEW u \in Subscriber, UnmarkTombstones(s, u), FreshStable
    PROVE  OwnStep(s)
<1>1. SessionOK(s) /\ ManagerFacts(s) BY OwnFacts
<1>2. /\ pc[s] = "unmark" /\ op' = op /\ UNCHANGED <<tmVars, class, storages, fate>>
      /\ pc'[s] \in {"unmark", "unregister"} \/ (pc'[s] = "idle" /\ op[s].created = {})
  BY ChainTypes DEF UnmarkTombstones, Goto, physVars
<1>3. ChainOK(s)'
  BY <1>1, <1>2 DEF SessionOK, ChainOK, tmVars, IsActive, Busy, Open, Committing, Pending
<1>4. \A o \in op[s].created : class[o].ins = NotDeleted
  BY <1>1, <1>2 DEF SessionOK, CreatedOK, ClassStamped, ManagerFacts, Holds, Mine, Committing
<1>5. CreatedOK(s)'
  BY <1>1, <1>2, <1>4 DEF SessionOK, CreatedOK, Holds
<1>6. DroppedOK(s)' /\ ClassStamped(s)' /\ GoneOK(s)'
  BY <1>1, <1>2 DEF SessionOK, DroppedOK, ClassStamped, GoneOK, Open, Committing
<1>7. OpStep(s)
  BY <1>2 DEF OpStep, Holds, Busy, Open, Committing, tmVars
<1> QED BY <1>3, <1>5, <1>6, <1>7 DEF OwnStep, SessionOK

\* The engines of what goes are removed before a storage is.
LEMMA UnregisterOwn ==
    ASSUME GcInv, NEW s \in Session, Unregister(s), FreshStable
    PROVE  OwnStep(s)
<1>1. SessionOK(s) /\ ManagerFacts(s) BY OwnFacts
<1>2. /\ pc[s] = "unregister" /\ pc'[s] = "erase" /\ op' = op /\ UNCHANGED <<tmVars, class, storages, fate>>
      /\ engines' = engines \ op[s].gone
      /\ todo'[s] = {a \in Agent : SliceOf(a, op[s].gone) # {}}
  BY ChainTypes DEF Unregister, Goto
<1>3. ASSUME NEW o \in op[s].gone PROVE Owner[o] \in todo'[s]
  <2>1. o \in Oid /\ Owner[o] \in Agent /\ Owner[o] # IndexMgr
    BY <1>1, DropAssumption DEF ManagerFacts
  <2>2. o \in SliceOf(Owner[o], op[s].gone) BY <2>1 DEF SliceOf
  <2> QED BY <1>2, <2>1, <2>2
<1>4. ChainOK(s)'
  BY <1>1, <1>2 DEF SessionOK, ChainOK, tmVars, IsActive, Busy, Open, Committing
<1>5. CreatedOK(s)'
  BY <1>1, <1>2 DEF SessionOK, CreatedOK, Holds, Mine, Busy, Open, Committing
<1>6. DroppedOK(s)' /\ ClassStamped(s)'
  BY <1>2 DEF DroppedOK, ClassStamped, Open, Committing
<1>7. GoneOK(s)'
  BY <1>1, <1>2, <1>3 DEF SessionOK, GoneOK
<1>8. OpStep(s)
  BY <1>2 DEF OpStep, Holds, Busy, Open, Committing, tmVars
<1> QED BY <1>4, <1>5, <1>6, <1>7, <1>8 DEF OwnStep, SessionOK

\* One agent erases the storages it owns.
LEMMA EraseStoragesOwn ==
    ASSUME GcInv, NEW s \in Session, NEW a \in Agent, EraseStorages(s, a), FreshStable
    PROVE  OwnStep(s)
<1>1. SessionOK(s) /\ ManagerFacts(s) BY OwnFacts
<1>2. /\ pc[s] = "erase" /\ a \in todo[s] /\ UNCHANGED <<tmVars, class, engines, fate>>
      /\ storages' = storages \ SliceOf(a, op[s].gone)
      /\ todo'[s] = todo[s] \ {a}
      /\ (pc'[s] = "erase" /\ op'[s] = op[s]) \/ (pc'[s] = "idle" /\ op'[s] = NoOp)
  BY ChainTypes DEF EraseStorages, Goto
<1>3. SliceOf(a, op[s].gone) = {o \in op[s].gone : Owner[o] = a}
  BY DropAssumption DEF SliceOf
<1>4. CASE pc'[s] = "erase" /\ op'[s] = op[s]
  <2>1. ChainOK(s)'
    BY <1>1, <1>2, <1>4 DEF SessionOK, ChainOK, tmVars, IsActive, Busy, Open, Committing
  <2>2. CreatedOK(s)'
    BY <1>1, <1>2, <1>3, <1>4 DEF SessionOK, CreatedOK, Holds, Busy, Open, Committing
  <2>3. DroppedOK(s)' /\ ClassStamped(s)'
    BY <1>4 DEF DroppedOK, ClassStamped, Open, Committing
  <2>4. GoneOK(s)'
    BY <1>1, <1>2, <1>3, <1>4 DEF SessionOK, GoneOK
  <2>5. OpStep(s)
    BY <1>2, <1>4 DEF OpStep, Holds, Busy, Open, Committing, tmVars
  <2> QED BY <2>1, <2>2, <2>3, <2>4, <2>5 DEF OwnStep, SessionOK
<1>5. CASE pc'[s] = "idle" /\ op'[s] = NoOp
  <2>1. op'[s].dropped = {} /\ op'[s].created = {} /\ op'[s].gone = {} BY <1>5 DEF NoOp
  <2>2. ChainOK(s)'
    BY <1>1, <1>2, <1>5 DEF SessionOK, ChainOK, tmVars, IsActive, Busy, Open, Committing
  <2>3. CreatedOK(s)' /\ DroppedOK(s)' /\ ClassStamped(s)' /\ GoneOK(s)'
    BY <1>5, <2>1 DEF CreatedOK, DroppedOK, ClassStamped, GoneOK
  <2>4. OpStep(s)
    BY <1>2, <1>5, <2>1 DEF OpStep, Holds, Busy, Open, Committing, tmVars
  <2> QED BY <2>2, <2>3, <2>4 DEF OwnStep, SessionOK
<1> QED BY <1>2, <1>4, <1>5

LEMMA OwnSteps ==
    ASSUME GcInv, NEW s \in Session, Client(s) \/ Chain(s), FreshStable
    PROVE  OwnStep(s)
BY UnderwayOwn, FreshChainOwn, CreateStorageOwn, DropTablesOwn, CommitDrainOwn, PublishCommitOwn,
   RollbackDrainOwn, RevertCatalogOwn, UnmarkTombstonesOwn, UnregisterOwn, EraseStoragesOwn
   DEF Client, Chain

-----------------------------------------------------------------------------
(* The tables under a step of a chain.                                     *)

StorageStep(s) ==
    \A o \in Oid :
        \/ o \in storages' <=> o \in storages
        \/ pc[s] = "open" /\ o \notin storages /\ class[o].ins = NotDeleted
        \/ /\ pc[s] = "erase" /\ o \in op[s].gone /\ Owner[o] \in todo[s]
           /\ o \notin storages'

EngineStep(s) ==
    \A o \in Oid :
        \/ o \in engines' <=> o \in engines
        \/ pc[s] = "register" /\ o \in op[s].created
        \/ pc[s] = "unregister" /\ o \in op[s].gone /\ o \notin engines'

FateStep(s) ==
    \A o \in Oid :
        \/ fate'[o] = fate[o]
        \/ pc[s] = "open" /\ fate[o] = "live" /\ fate'[o] = "committed"
        \/ pc[s] = "publish" /\ o \in op[s].dropped /\ fate'[o] = "published"

\* The files are those of the storages, and go with them.
FileStep(s) ==
    /\ files \subseteq storages => files' \subseteq storages'
    /\ \A o \in Oid : o \in files => o \in files' \/ o \notin storages'

LEMMA TableSteps ==
    ASSUME GcInv, NEW s \in Session, Client(s) \/ Chain(s)
    PROVE  StorageStep(s) /\ EngineStep(s) /\ FateStep(s) /\ FileStep(s)
<1>1. op[s].gone \subseteq Oid /\ op[s].created \subseteq Oid /\ op[s].dropped \subseteq Oid
  BY DEF GcInv, GcTypes, Op
<1>2. ASSUME NEW a \in Agent, EraseStorages(s, a)
      PROVE  /\ pc[s] = "erase" /\ a \in todo[s]
             /\ storages' = storages \ {o \in op[s].gone : Owner[o] = a}
             /\ files' = files \ ({o \in op[s].gone : Owner[o] = a} \cap storages)
  <2>1. SliceOf(a, op[s].gone) = {o \in op[s].gone : Owner[o] = a} BY DropAssumption DEF SliceOf
  <2> QED BY <1>2, <2>1 DEF EraseStorages, FilesErased
<1>3. ASSUME NEW p \in Oid, CreateStorage(s, p)
      PROVE  /\ pc[s] = "open" /\ p \notin storages /\ class[p].ins = NotDeleted
             /\ storages' = storages \cup {p} /\ files' = files \cup {p}
  BY <1>3 DEF CreateStorage, NoRow
<1>4. \/ UNCHANGED <<storages, files>>
      \/ \E o \in Oid : CreateStorage(s, o)
      \/ \E a \in Agent : EraseStorages(s, a)
  BY WhoWrites, Zenon
<1>5. StorageStep(s) /\ FileStep(s)
  <2>1. CASE UNCHANGED <<storages, files>> BY <2>1 DEF StorageStep, FileStep
  <2>2. ASSUME NEW p \in Oid, CreateStorage(s, p) PROVE StorageStep(s) /\ FileStep(s)
    BY <1>3, <2>2 DEF StorageStep, FileStep
  <2>3. ASSUME NEW a \in Agent, EraseStorages(s, a) PROVE StorageStep(s) /\ FileStep(s)
    BY <1>2, <2>3 DEF StorageStep, FileStep
  <2> QED BY <1>4, <2>1, <2>2, <2>3
<1>6. EngineStep(s)
  <2>1. UNCHANGED engines \/ RegisterCollection(s) \/ Unregister(s) BY WhoWrites, Zenon
  <2> QED BY <2>1 DEF EngineStep, RegisterCollection, Unregister
<1>7. FateStep(s)
  <2>1. UNCHANGED fate \/ CommitDrain(s) \/ PublishCommit(s) BY WhoWrites, Zenon
  <2> QED BY <2>1 DEF FateStep, CommitDrain, PublishCommit
<1> QED BY <1>5, <1>6, <1>7

\* The ids of two chains, a commit id and a stamp that everybody new sees are apart.
LEMMA Apart ==
    ASSUME GcInv, NEW s \in Session, Busy(s), NEW o \in Oid
    PROVE  /\ op[s].txnId # NotDeleted /\ op[s].commitId # NotDeleted /\ op[s].commitId # op[s].txnId
           /\ Fresh(class[o].ins) => class[o].ins # NotDeleted /\ ~Mine(s, class[o].ins)
           /\ \A t \in Session \ {s} : Busy(t) =>
                 op[t].txnId # op[s].txnId /\ op[t].commitId # op[s].txnId
<1>1. SessionOK(s) /\ ManagerFacts(s) BY OwnFacts
<1>2. op[s].txnId \in Pending BY <1>1 DEF SessionOK, ChainOK
<1>3. TxnIdStart <= op[s].txnId /\ op[s].txnId < NotDeleted /\ op[s].commitId < TxnIdStart
  BY <1>1, <1>2, StampFacts DEF ManagerFacts
<1>4. op[s].txnId # NotDeleted /\ op[s].commitId # NotDeleted /\ op[s].commitId # op[s].txnId
  BY <1>1, <1>3, StampFacts DEF ManagerFacts
<1>5. ASSUME Fresh(class[o].ins) PROVE class[o].ins # NotDeleted /\ ~Mine(s, class[o].ins)
  BY <1>1, <1>3, <1>5, StampFacts DEF Fresh, Mine, SessionOK, ChainOK, ManagerFacts
<1>6. ASSUME NEW t \in Session \ {s}, Busy(t)
      PROVE  op[t].txnId # op[s].txnId /\ op[t].commitId # op[s].txnId
  <2>1. op[t].txnId # op[s].txnId BY <1>6 DEF GcInv, IdsApart
  <2>2. ManagerFacts(t) BY OwnFacts
  <2>3. op[t].commitId # op[s].txnId BY <1>1, <1>3, <2>2, StampFacts DEF ManagerFacts
  <2> QED BY <2>1, <2>3
<1> QED BY <1>4, <1>5, <1>6

\* A table that a chain holds is not one of a published drop.
LEMMA HeldNotPublished ==
    ASSUME GcInv, NEW s \in Session, NEW o \in Oid, Holds(s, o)
    PROVE  fate[o] # "published" /\ o \in storages /\ ~Fresh(class[o].ins)
<1>1. SessionOK(s) /\ ManagerFacts(s) BY OwnFacts
<1>2. o \in storages /\ (class[o].ins = NotDeleted \/ (Busy(s) /\ Mine(s, class[o].ins)))
  BY <1>1 DEF SessionOK, CreatedOK, Holds
<1>3. ~Fresh(class[o].ins)
  <2>1. CASE class[o].ins = NotDeleted BY <2>1, StampFacts DEF Fresh
  <2>2. CASE Busy(s) /\ Mine(s, class[o].ins) BY <2>2, Apart
  <2> QED BY <1>2, <2>1, <2>2
<1> QED BY <1>2, <1>3 DEF GcInv, TablesOK

\* The chains of the other sessions stay consistent under the step.
LEMMA OthersOK ==
    ASSUME GcInv, NEW s \in Session, Client(s) \/ Chain(s), [Next]_tmVars, FreshStable,
           NEW t \in Session, t # s
    PROVE  SessionOK(t)'
<1>1. pc'[t] = pc[t] /\ op'[t] = op[t] /\ todo'[t] = todo[t] /\ active'[t] = active[t]
  BY OthersKept
<1>2. SessionOK(t) /\ ManagerFacts(t) BY OwnFacts
<1>3. (Busy(t)' <=> Busy(t)) /\ (Open(t)' <=> Open(t)) /\ (Committing(t)' <=> Committing(t))
  BY <1>1 DEF Busy, Open, Committing
<1>4. OpStep(s) BY OwnSteps DEF OwnStep
<1>5. InsStep(s) BY ClassSteps
<1>6. StorageStep(s) /\ EngineStep(s) /\ FateStep(s) BY TableSteps
<1>7. SessionOK(s) /\ ManagerFacts(s) BY OwnFacts
<1>8. ASSUME NEW o \in Oid, Holds(t, o) PROVE ~Holds(s, o)
  BY <1>8 DEF GcInv, OneCreator
<1>9. ASSUME NEW o \in Oid
      PROVE  \/ class'[o].ins = class[o].ins
             \/ Holds(s, o) /\ Busy(s) /\ class[o].ins = NotDeleted /\ class'[o].ins = op[s].txnId
             \/ Busy(s) /\ class[o].ins = op[s].txnId /\ class'[o].ins \in {op[s].commitId, NotDeleted}
  BY <1>5 DEF InsStep, Holds, Busy, Open, Committing
<1>10. ChainOK(t)'
  <2>1. Busy(t) => op[t].txnId \in Pending'
    <3>1. /\ nextTxnId \in Nat /\ nextTxnId' \in Nat /\ nextTxnId' >= nextTxnId
          /\ TxnIdStart \in Nat
      BY ClockStep, StampFacts DEF GcInv, GcTypes, IInv, TypeOK
    <3> QED BY <1>2, <3>1, RangeGrows DEF SessionOK, ChainOK, Pending
  <2>2. Committing(t) => op[t].commitId \in inFlight'
    BY <1>2, <1>4 DEF SessionOK, ChainOK, OpStep, GcInv, IdsApart
  <2> QED BY <1>1, <1>2, <1>3, <2>1, <2>2 DEF SessionOK, ChainOK, IsActive
<1>11. CreatedOK(t)'
  <2>1. ASSUME NEW o \in op[t].created, Holds(t, o)
        PROVE  /\ o \in storages'
               /\ class'[o].ins = NotDeleted \/ (Busy(t) /\ Mine(t, class'[o].ins))
    <3>1. o \in Oid BY <1>2 DEF ManagerFacts
    <3>2. /\ o \in storages /\ ~Holds(s, o) /\ fate[o] # "published"
          /\ class[o].ins = NotDeleted \/ (Busy(t) /\ Mine(t, class[o].ins))
      BY <1>2, <1>8, <2>1, <3>1, HeldNotPublished DEF SessionOK, CreatedOK
    <3>3. o \in storages'
      BY <1>6, <1>7, <3>1, <3>2 DEF StorageStep, SessionOK, GoneOK, Holds
    <3>4. class'[o].ins = class[o].ins
      <4>1. Busy(s) => op[s].txnId # NotDeleted BY <3>1, Apart
      <4>2. Busy(s) /\ Busy(t) => op[t].txnId # op[s].txnId /\ op[t].commitId # op[s].txnId
        BY <3>1, Apart
      <4> QED BY <1>9, <3>1, <3>2, <4>1, <4>2 DEF Mine
    <3> QED BY <3>2, <3>3, <3>4
  <2> QED BY <1>1, <1>2, <1>3, <2>1 DEF SessionOK, CreatedOK, Holds, Mine
<1>12. DroppedOK(t)'
  <2>1. ASSUME NEW o \in op[t].dropped, Open(t) PROVE Mine(t, class[o].ins)' \/ Fresh(class[o].ins)'
    <3>1. o \in Oid /\ class[o].ins \in Nat BY <1>2 DEF ManagerFacts
    <3>2. Busy(t) /\ (Mine(t, class[o].ins) \/ Fresh(class[o].ins))
      BY <1>2, <2>1 DEF SessionOK, DroppedOK, Busy
    <3>3. class'[o].ins = class[o].ins
      <4>1. /\ op[t].txnId # NotDeleted /\ op[t].commitId # NotDeleted
            /\ Fresh(class[o].ins) => class[o].ins # NotDeleted
        BY <3>1, <3>2, Apart
      <4>2. Busy(s) => /\ op[t].txnId # op[s].txnId /\ op[t].commitId # op[s].txnId
                       /\ Fresh(class[o].ins) => ~Mine(s, class[o].ins)
        BY <3>1, <3>2, Apart
      <4> QED BY <1>9, <3>1, <3>2, <4>1, <4>2 DEF Mine
    <3>4. ASSUME NEW id \in Nat, id = class[o].ins, Fresh(class[o].ins) PROVE Fresh(class[o].ins)'
      <4>1. Fresh(id)' BY <3>4 DEF FreshStable
      <4> QED BY <3>3, <3>4, <4>1 DEF Fresh
    <3>5. Mine(t, class[o].ins) => Mine(t, class[o].ins)' BY <1>1, <1>3, <3>3 DEF Mine
    <3> QED BY <3>1, <3>2, <3>4, <3>5
  <2>2. ASSUME NEW o \in op[t].dropped, Committing(t) PROVE fate'[o] # "live"
    BY <1>2, <1>6, <2>2 DEF SessionOK, DroppedOK, FateStep, ManagerFacts
  <2> QED BY <1>1, <1>3, <2>1, <2>2 DEF DroppedOK
<1>13. ClassStamped(t)'
  <2>1. ASSUME pc[t] \in {"deletes", "publish", "unmark"}, NEW o \in Oid
        PROVE  class'[o].ins # op[t].txnId
    <3>1. Busy(t) /\ class[o].ins # op[t].txnId
      BY <1>2, <2>1 DEF SessionOK, ClassStamped, Busy, Open, Committing
    <3>2. op[t].txnId # NotDeleted
          /\ (Busy(s) => op[s].txnId # op[t].txnId /\ op[s].commitId # op[t].txnId)
      BY <3>1, Apart
    <3> QED BY <1>9, <3>1, <3>2
  <2> QED BY <1>1, <2>1 DEF ClassStamped
<1>14. GoneOK(t)'
  <2>1. ASSUME NEW o \in op[t].gone, fate[o] = "published" PROVE fate'[o] = "published"
    BY <1>2, <1>6, <2>1 DEF ManagerFacts, FateStep
  <2>2. ASSUME NEW o \in op[t].gone, pc[t] = "erase", o \notin engines,
               ~(o \in op[t].created /\ Owner[o] \notin todo[t])
        PROVE  o \notin engines'
    <3>1. o \in Oid /\ (o \in op[t].created \/ fate[o] = "published")
      BY <1>2, <2>2 DEF ManagerFacts, SessionOK, GoneOK
    <3>2. ~Holds(s, o)
      <4>1. CASE fate[o] = "published" BY <3>1, <4>1, HeldNotPublished
      <4>2. CASE o \in op[t].created
        <5>1. Holds(t, o) BY <2>2, <4>2 DEF Holds
        <5> QED BY <1>8, <3>1, <5>1
      <4> QED BY <3>1, <4>1, <4>2
    <3> QED BY <1>6, <2>2, <3>1, <3>2 DEF EngineStep, Holds
  <2>3. ASSUME NEW o \in op[t].gone, pc[t] = "erase", o \notin storages, o \notin op[t].created
        PROVE  o \notin storages'
    <3>1. o \in Oid /\ fate[o] = "published"
      BY <1>2, <2>3 DEF ManagerFacts, SessionOK, GoneOK
    <3>2. class[o].ins # NotDeleted
      BY <3>1, StampFacts DEF GcInv, TablesOK, Fresh
    <3> QED BY <1>6, <2>3, <3>1, <3>2 DEF StorageStep
  <2> QED BY <1>1, <1>2, <2>1, <2>2, <2>3 DEF SessionOK, GoneOK
<1> QED BY <1>10, <1>11, <1>12, <1>13, <1>14 DEF SessionOK

\* A step of a chain keeps ids apart and storages with one creator.
LEMMA ChainIds ==
    ASSUME GcInv, NEW s \in Session, Client(s) \/ Chain(s), FreshStable
    PROVE  IdsApart' /\ OneCreator'
<1>1. OpStep(s) BY OwnSteps DEF OwnStep
<1>2. ASSUME NEW t \in Session, t # s
      PROVE  /\ Busy(t)' <=> Busy(t)
             /\ Committing(t)' <=> Committing(t)
             /\ op'[t] = op[t]
             /\ \A o \in Oid : Holds(t, o)' <=> Holds(t, o)
  <2>1. pc'[t] = pc[t] /\ op'[t] = op[t] /\ todo'[t] = todo[t] BY <1>2, OthersKept
  <2> QED BY <2>1 DEF Busy, Open, Committing, Holds
<1>3. ASSUME NEW t \in Session, t # s
      PROVE  /\ Busy(s)' /\ Busy(t)' => op'[s].txnId # op'[t].txnId
             /\ Committing(s)' /\ Committing(t)' => op'[s].commitId # op'[t].commitId
             /\ \A o \in Oid : ~(Holds(s, o)' /\ Holds(t, o)')
  <2>1. SessionOK(t) /\ ManagerFacts(t) BY OwnFacts
  <2>2. ASSUME Busy(s)', Busy(t)' PROVE op'[s].txnId # op'[t].txnId
    <3>1. Busy(t) /\ op[t].txnId \in Pending /\ op'[t].txnId = op[t].txnId
      BY <1>2, <1>3, <2>1, <2>2 DEF SessionOK, ChainOK
    <3>2. op[t].txnId # TxnIdStart + nextTxnId
      BY <2>1, <3>1, StampFacts DEF ManagerFacts, Pending
    <3> QED BY <1>1, <1>3, <2>2, <3>1, <3>2 DEF OpStep, GcInv, IdsApart
  <2>3. ASSUME Committing(s)', Committing(t)' PROVE op'[s].commitId # op'[t].commitId
    <3>1. Committing(t) /\ op[t].commitId \in inFlight /\ op'[t].commitId = op[t].commitId
      BY <1>2, <1>3, <2>1, <2>3 DEF SessionOK, ChainOK
    <3>2. op[t].commitId # currentTs BY <2>1, <3>1 DEF ManagerFacts
    <3> QED BY <1>1, <1>3, <2>3, <3>1, <3>2 DEF OpStep, GcInv, IdsApart
  <2>4. ASSUME NEW o \in Oid, Holds(s, o)', Holds(t, o)' PROVE FALSE
    <3>1. Holds(t, o) BY <1>2, <1>3, <2>4
    <3>2. o \in storages BY <3>1, HeldNotPublished
    <3>3. Holds(s, o) BY <1>1, <2>4, <3>2 DEF OpStep
    <3> QED BY <1>3, <3>1, <3>3 DEF GcInv, OneCreator
  <2> QED BY <2>2, <2>3, <2>4
<1>4. IdsApart' BY <1>2, <1>3 DEF GcInv, IdsApart
<1>5. OneCreator' BY <1>2, <1>3 DEF GcInv, OneCreator
<1> QED BY <1>4, <1>5

\* A step of a chain keeps the tombstones with their drops.
LEMMA ChainTombs ==
    ASSUME GcInv, NEW s \in Session, Client(s) \/ Chain(s), FreshStable
    PROVE  TombsOwned'
<1>1. OpStep(s) BY OwnSteps DEF OwnStep
<1>2. TombStep(s) BY TombSteps
<1>3. FateStep(s) BY TableSteps
<1>4. SessionOK(s) /\ ManagerFacts(s) BY OwnFacts
<1>5. ASSUME NEW t \in Session, t # s
      PROVE  (Busy(t)' <=> Busy(t)) /\ op'[t] = op[t]
  <2>1. pc'[t] = pc[t] /\ op'[t] = op[t] BY <1>5, OthersKept
  <2> QED BY <2>1 DEF Busy, Open, Committing
<1>6. \A u \in Subscriber : \A x \in tombs[u] : x \in Tombstone /\ StampOK(x.at)
  BY DEF GcInv, TombsOK
<1>7. nextTxnId \in Nat /\ currentTs \in Nat /\ currentTs <= MaxTs
  BY <1>4, StampFacts DEF ManagerFacts
<1>8. ASSUME NEW u \in Subscriber, NEW x \in tombs'[u]
      PROVE  /\ x.at < TxnIdStart => fate'[x.oid] # "live"
             /\ \A t \in Session : Busy(t)' /\ x.at = op'[t].txnId => x.oid \in op'[t].dropped
  <2>1. CASE x \in tombs[u]
    <3>1. x \in Tombstone /\ x.oid \in Oid /\ x.at \in Nat /\ StampOK(x.at)
      BY <1>6, <2>1 DEF Tombstone
    <3>2. /\ x.at < TxnIdStart => fate[x.oid] # "live"
          /\ \A t \in Session : Busy(t) /\ x.at = op[t].txnId => x.oid \in op[t].dropped
      BY <2>1 DEF GcInv, TombsOwned
    <3>3. x.at < TxnIdStart => fate'[x.oid] # "live"
      BY <1>3, <3>1, <3>2 DEF FateStep
    <3>4. x.at # TxnIdStart + nextTxnId
      BY <1>7, <3>1, StampFacts DEF StampOK, Pending
    <3>5. ASSUME NEW t \in Session, Busy(t)', x.at = op'[t].txnId PROVE x.oid \in op'[t].dropped
      <4>1. CASE t = s BY <1>1, <3>2, <3>4, <3>5, <4>1 DEF OpStep
      <4>2. CASE t # s BY <1>5, <3>2, <3>5, <4>2
      <4> QED BY <4>1, <4>2
    <3> QED BY <3>3, <3>5
  <2>2. CASE pc[s] = "mark" /\ x.at = op[s].txnId /\ x.oid \in op[s].gone
    <3>1. Busy(s) /\ x.oid \in op[s].dropped /\ x.oid \in Oid
      BY <1>4, <2>2 DEF Busy, Open, SessionOK, GoneOK, ManagerFacts
    <3>2. op[s].txnId \in Pending /\ ~(op[s].txnId < TxnIdStart)
      BY <1>4, <3>1, StampFacts DEF SessionOK, ChainOK, ManagerFacts
    <3>3. op[s].txnId # TxnIdStart + nextTxnId
      BY <1>4, <1>7, <3>2, StampFacts DEF Pending, ManagerFacts
    <3>4. ASSUME NEW t \in Session, Busy(t)', x.at = op'[t].txnId PROVE x.oid \in op'[t].dropped
      <4>1. CASE t = s BY <1>1, <2>2, <3>1, <3>3, <3>4, <4>1 DEF OpStep
      <4>2. CASE t # s BY <1>5, <2>2, <3>1, <3>4, <4>2 DEF GcInv, IdsApart
      <4> QED BY <4>1, <4>2
    <3> QED BY <2>2, <3>2, <3>4
  <2>3. CASE /\ pc[s] = "remap" /\ x.at = op[s].commitId
             /\ \E y \in tombs[u] : y.at = op[s].txnId /\ y.oid = x.oid
    <3>1. PICK y \in tombs[u] : y.at = op[s].txnId /\ y.oid = x.oid BY <2>3
    <3>2. Busy(s) /\ Committing(s) BY <2>3 DEF Busy, Open, Committing
    <3>3. x.oid \in op[s].dropped /\ x.oid \in Oid
      BY <1>4, <3>1, <3>2 DEF GcInv, TombsOwned, ManagerFacts
    <3>4. fate'[x.oid] # "live"
      BY <1>3, <1>4, <3>2, <3>3 DEF SessionOK, DroppedOK, FateStep
    <3>5. x.at < TxnIdStart /\ x.at \in Nat BY <1>4, <2>3, StampFacts DEF ManagerFacts
    <3>6. ASSUME NEW t \in Session, Busy(t)' PROVE x.at # op'[t].txnId
      <4>1. \/ Busy(t) /\ op'[t].txnId = op[t].txnId
            \/ op'[t].txnId = TxnIdStart + nextTxnId
        BY <1>1, <1>5, <3>6 DEF OpStep
      <4>2. Busy(t) => op[t].txnId \in Nat /\ TxnIdStart <= op[t].txnId
        BY OwnFacts DEF SessionOK, ChainOK, ManagerFacts
      <4> QED BY <1>7, <3>5, <4>1, <4>2, StampFacts
    <3> QED BY <3>4, <3>6
  <2> QED BY <1>2, <2>1, <2>2, <2>3 DEF TombStep
<1> QED BY <1>8 DEF TombsOwned

\* What the last messages of a chain are, and that only publish publishes.
LEMMA LastMessages ==
    ASSUME NEW s \in Session, Client(s) \/ Chain(s)
    PROVE  /\ pc[s] = "unregister" => Unregister(s)
           /\ pc[s] = "erase" => \E a \in Agent : EraseStorages(s, a)
           /\ pc[s] = "publish" => PublishCommit(s)
<1>1. CASE Client(s)
  <2>1. pc[s] \in {"idle", "open", "index"}
    BY <1>1 DEF Client, Begin, Write, CreateStorage, DropTables, StatementFailed, CommitEmpty, CommitDrain,
                IndexCommitFailed, RollbackDrain
  <2> QED BY <2>1
<1>2. CASE Chain(s)
  <2>1. \/ Unregister(s) \/ (\E a \in Agent : EraseStorages(s, a)) \/ PublishCommit(s)
        \/ pc[s] \in {"register", "mark", "remap", "unmark", "announce", "index", "deletes", "revert"}
    BY <1>2 DEF Chain, RegisterCollection, MarkDropped, RemapTombstones, UnmarkTombstones, AnnounceMarks,
                IndexCommitted, PublishDeletes, RevertCatalog
  <2>2. /\ Unregister(s) => pc[s] = "unregister"
        /\ \A a \in Agent : EraseStorages(s, a) => pc[s] = "erase"
        /\ PublishCommit(s) => pc[s] = "publish"
    BY DEF Unregister, EraseStorages, PublishCommit
  <2> QED BY <2>1, <2>2
<1> QED BY <1>1, <1>2

\* A chain that removes a table with a published drop does so to the end.
LEMMA LeavingStep ==
    ASSUME GcInv, NEW s \in Session, Client(s) \/ Chain(s), NEW o \in Oid, Leaving(s, o)
    PROVE  Leaving(s, o)' \/ o \notin storages' \cup engines'
<1>1. SessionOK(s) /\ ManagerFacts(s) BY OwnFacts
<1>2. CASE pc[s] = "unregister"
  <2>1. Unregister(s) BY <1>2, LastMessages
  <2>2. pc'[s] = "erase" /\ op' = op BY <2>1, ChainTypes DEF Unregister, Goto
  <2> QED BY <2>2 DEF Leaving
<1>3. CASE pc[s] = "erase"
  <2>1. PICK a \in Agent : EraseStorages(s, a) BY <1>3, LastMessages
  <2>2. /\ engines' = engines /\ storages' = storages \ SliceOf(a, op[s].gone)
        /\ (pc'[s] = "erase" /\ op'[s] = op[s]) \/ todo[s] = {a}
    BY <1>3, <2>1 DEF EraseStorages
  <2>3. o \in op[s].gone /\ o \notin op[s].created BY DEF Leaving
  <2>4. o \notin engines /\ (Owner[o] \in todo[s] \/ o \notin storages)
    BY <1>1, <1>3, <2>3 DEF SessionOK, GoneOK
  <2>5. CASE todo[s] = {a}
    <3>1. Owner[o] = a => o \in SliceOf(a, op[s].gone) BY <2>3 DEF SliceOf
    <3> QED BY <2>2, <2>4, <2>5, <3>1
  <2>6. CASE pc'[s] = "erase" /\ op'[s] = op[s] BY <2>3, <2>6 DEF Leaving
  <2> QED BY <2>2, <2>5, <2>6
<1> QED BY <1>2, <1>3 DEF Leaving

\* A step of a chain keeps the tables with their fate.
LEMMA ChainTables ==
    ASSUME GcInv, NEW s \in Session, Client(s) \/ Chain(s), FreshStable
    PROVE  TablesOK'
<1>1. InsStep(s) BY ClassSteps
<1>2. StorageStep(s) /\ EngineStep(s) /\ FateStep(s) /\ FileStep(s) BY TableSteps
<1>3. SessionOK(s) /\ ManagerFacts(s) BY OwnFacts
<1>4. ASSUME NEW o \in Oid, Fresh(class[o].ins) PROVE class'[o].ins = class[o].ins /\ Fresh(class[o].ins)'
  <2>1. class[o].ins # NotDeleted /\ class[o].ins \in Nat
    BY <1>3, <1>4, StampFacts DEF Fresh, ManagerFacts
  <2>2. Busy(s) => class[o].ins # op[s].txnId BY <1>4, Apart DEF Mine
  <2>3. class'[o].ins = class[o].ins
    BY <1>1, <2>1, <2>2 DEF InsStep, Busy, Open, Committing
  <2>4. ASSUME NEW id \in Nat, id = class[o].ins PROVE Fresh(class[o].ins)'
    <3>1. Fresh(id)' BY <1>4, <2>4 DEF FreshStable
    <3> QED BY <2>3, <2>4, <3>1 DEF Fresh
  <2> QED BY <2>1, <2>3, <2>4
<1>5. ASSUME NEW o \in InitTables PROVE class'[o].ins = 0
  <2>1. o \in Oid /\ class[o].ins = 0 BY DropAssumption DEF GcInv, TablesOK
  <2>2. Busy(s) => op[s].txnId # 0
    BY <1>3, StampFacts DEF SessionOK, ChainOK, ManagerFacts
  <2> QED BY <1>1, <2>1, <2>2, StampFacts DEF InsStep, Busy, Open, Committing
<1>6. (files \subseteq storages)' BY <1>2 DEF FileStep, GcInv, TablesOK
<1>7. ASSUME NEW o \in Oid, fate'[o] = "published", fate[o] # "published"
      PROVE  Fresh(class[o].ins)' /\ Leaving(s, o)'
  <2>1. pc[s] = "publish" /\ o \in op[s].dropped BY <1>2, <1>7 DEF FateStep
  <2>2. PublishCommit(s) BY <2>1, LastMessages
  <2>3. /\ Publish(op[s].commitId) /\ class' = class
        /\ op'[s] = [NoOp EXCEPT !.gone = op[s].dropped]
        /\ op[s].dropped # {} => pc'[s] = "unregister"
    BY <2>2, ChainTypes DEF PublishCommit, Goto
  <2>4. Leaving(s, o)' BY <2>1, <2>3 DEF Leaving, NoOp
  <2>5. Mine(s, class[o].ins) \/ Fresh(class[o].ins)
    BY <1>3, <2>1 DEF SessionOK, DroppedOK, Open, Committing
  <2>6. class[o].ins # op[s].txnId BY <1>3, <2>1 DEF SessionOK, ClassStamped
  <2>7. CASE Fresh(class[o].ins) BY <1>4, <2>4, <2>7
  <2>8. CASE class[o].ins = op[s].commitId
    <3>1. horizon \in Int /\ op[s].commitId \in Int /\ horizon' = Max({horizon, op[s].commitId})
      BY <1>3, <2>3, StampFacts DEF Publish, ManagerFacts, GcInv, GcTypes, IInv, TypeOK
    <3>2. horizon' >= op[s].commitId BY ONLY <3>1, MaxOfTwo
    <3>3. inFlight' = inFlight \ {op[s].commitId} BY <2>3 DEF Publish
    <3>4. op[s].commitId < TxnIdStart /\ op[s].commitId <= horizon'
      <4>1. horizon' \in Int BY ONLY <3>1, MaxOfTwo
      <4> QED BY <1>3, <3>2, <4>1, StampFacts DEF ManagerFacts
    <3> QED BY <2>3, <2>4, <2>8, <3>3, <3>4 DEF Fresh
  <2> QED BY <2>5, <2>6, <2>7, <2>8 DEF Mine
<1>8. ASSUME NEW o \in Oid, fate[o] = "published"
      PROVE  /\ Fresh(class[o].ins)'
             /\ o \notin storages' \cup engines' \/ \E t \in Session : Leaving(t, o)'
  <2>1. /\ Fresh(class[o].ins)
        /\ o \notin storages \cup engines \/ \E t \in Session : Leaving(t, o)
    BY <1>8 DEF GcInv, TablesOK
  <2>2. Fresh(class[o].ins)' BY <1>4, <2>1
  <2>3. CASE o \notin storages \cup engines
    <3>1. class[o].ins # NotDeleted BY <2>1, StampFacts DEF Fresh
    <3>2. o \notin storages' BY <1>2, <2>3, <3>1 DEF StorageStep
    <3>3. ~Holds(s, o) BY <2>1, HeldNotPublished
    <3>4. o \notin engines' BY <1>2, <2>3, <3>3 DEF EngineStep, Holds
    <3> QED BY <2>2, <3>2, <3>4
  <2>4. ASSUME NEW t \in Session, Leaving(t, o)
        PROVE  o \notin storages' \cup engines' \/ Leaving(t, o)'
    <3>1. CASE t = s BY <2>4, <3>1, LeavingStep
    <3>2. CASE t # s
      <4>1. pc'[t] = pc[t] /\ op'[t] = op[t] BY <3>2, OthersKept
      <4> QED BY <2>4, <4>1 DEF Leaving
    <3> QED BY <3>1, <3>2
  <2> QED BY <2>1, <2>2, <2>3, <2>4
<1> QED BY <1>5, <1>6, <1>7, <1>8 DEF TablesOK

\* A step of a chain leaves the tables of undecided drops, and the engines above their
\* storages.
LEMMA ChainKeepsTables ==
    ASSUME GcInv, NEW s \in Session, Client(s) \/ Chain(s), FreshStable
    PROVE  UncommittedDropKeepsTable' /\ IndexBeforeDisk'
<1>1. StorageStep(s) /\ EngineStep(s) /\ FateStep(s) /\ FileStep(s) BY TableSteps
<1>2. SessionOK(s) /\ ManagerFacts(s) BY OwnFacts
<1>3. ASSUME NEW o \in InitTables, fate'[o] = "live" PROVE o \in storages' \cap files' \cap engines'
  <2>1. o \in Oid /\ fate[o] = "live" BY <1>1, <1>3, DropAssumption DEF FateStep
  <2>2. o \in storages /\ o \in files /\ o \in engines
    BY <2>1 DEF GcInv, UncommittedDropKeepsTable
  <2>3. o \notin op[s].created BY <1>2 DEF SessionOK, CreatedOK
  <2>4. pc[s] \in {"unregister", "erase"} => o \notin op[s].gone
    BY <1>2, <2>1, <2>3 DEF SessionOK, GoneOK
  <2> QED BY <1>1, <2>1, <2>2, <2>3, <2>4 DEF StorageStep, EngineStep, FileStep
<1>4. ASSUME NEW o \in engines' PROVE o \in storages'
  <2>1. o \in Oid
    <3>1. UNCHANGED engines \/ RegisterCollection(s) \/ Unregister(s) BY WhoWrites, Zenon
    <3> QED BY <1>2, <1>4, <3>1 DEF GcInv, GcTypes, RegisterCollection, Unregister, ManagerFacts
  <2>2. CASE pc[s] = "register" /\ o \in op[s].created
    <3>1. o \in storages BY <2>1, <2>2, HeldNotPublished DEF Holds
    <3> QED BY <1>1, <2>1, <2>2, <3>1 DEF StorageStep
  <2>3. CASE o \in engines
    <3>1. o \in storages BY <2>3 DEF GcInv, IndexBeforeDisk
    <3>2. pc[s] = "erase" /\ o \in op[s].gone => Owner[o] \notin todo[s]
      BY <1>2, <2>3 DEF SessionOK, GoneOK
    <3> QED BY <1>1, <2>1, <3>1, <3>2 DEF StorageStep
  <2> QED BY <1>1, <1>4, <2>1, <2>2, <2>3 DEF EngineStep
<1> QED BY <1>3, <1>4 DEF UncommittedDropKeepsTable, IndexBeforeDisk

-----------------------------------------------------------------------------
(* Sweeps, notices and the induction step.                                 *)

\* A step outside the chains that only takes tombstones, files and engines away, and
\* none of a table whose drop is undecided.
LEMMA OutsideStep ==
    ASSUME GcInv, UNCHANGED <<tmVars, class, storages, pc, op, todo, fate>>,
           \A v \in Subscriber : tombs'[v] \subseteq tombs[v],
           files' \subseteq files, engines' \subseteq engines,
           \A o \in InitTables : fate[o] = "live" => (o \in files => o \in files') /\ (o \in engines => o \in engines')
    PROVE  /\ \A s \in Session : SessionOK(s)'
           /\ IdsApart' /\ OneCreator' /\ TombsOwned' /\ TablesOK'
           /\ UncommittedDropKeepsTable' /\ IndexBeforeDisk'
<1>1. ASSUME NEW s \in Session PROVE SessionOK(s)'
  <2>1. SessionOK(s) BY DEF GcInv
  <2>2. ChainOK(s)' BY <2>1 DEF SessionOK, ChainOK, IsActive, Busy, Open, Committing, Pending, tmVars
  <2>3. CreatedOK(s)' BY <2>1 DEF SessionOK, CreatedOK, Holds, Mine, Busy, Open, Committing
  <2>4. DroppedOK(s)' /\ ClassStamped(s)'
    BY <2>1 DEF SessionOK, DroppedOK, ClassStamped, Mine, Fresh, Open, Committing, tmVars
  <2>5. GoneOK(s)' BY <2>1 DEF SessionOK, GoneOK
  <2> QED BY <2>2, <2>3, <2>4, <2>5 DEF SessionOK
<1>2. IdsApart' BY DEF GcInv, IdsApart, Busy, Open, Committing
<1>3. OneCreator' BY DEF GcInv, OneCreator, Holds
<1>4. TombsOwned' BY DEF GcInv, TombsOwned, Busy, Open, Committing
<1>5. TablesOK' BY DEF GcInv, TablesOK, Fresh, Leaving, tmVars
<1>6. UncommittedDropKeepsTable' BY DEF GcInv, UncommittedDropKeepsTable
<1>7. IndexBeforeDisk' BY DEF GcInv, IndexBeforeDisk
<1> QED BY <1>1, <1>2, <1>3, <1>4, <1>5, <1>6, <1>7

\* Every step preserves the inductive invariant.
LEMMA NextGcInv == GcInv /\ [DropNext]_vars => GcInv'
<1> SUFFICES ASSUME GcInv, [DropNext]_vars PROVE GcInv'
  OBVIOUS
<1>1. [Next]_tmVars /\ IInv BY ManagerStep DEF GcInv, GcTypes
<1>2. FreshStable BY <1>1, FreshKept DEF FreshStable
<1>3. GcTypes' /\ ClassOK' /\ TombsOK' BY TypesNext, StampsNext
<1>4. ASSUME NEW s \in Session, Client(s) \/ Chain(s) PROVE GcInv'
  <2>1. ASSUME NEW t \in Session PROVE SessionOK(t)'
    <3>1. CASE t = s BY <1>2, <1>4, <3>1, OwnSteps DEF OwnStep
    <3>2. CASE t # s BY <1>1, <1>2, <1>4, <3>2, OthersOK
    <3> QED BY <3>1, <3>2
  <2>2. IdsApart' /\ OneCreator' BY <1>2, <1>4, ChainIds
  <2>3. TombsOwned' BY <1>2, <1>4, ChainTombs
  <2>4. TablesOK' BY <1>2, <1>4, ChainTables
  <2>5. UncommittedDropKeepsTable' /\ IndexBeforeDisk' BY <1>2, <1>4, ChainKeepsTables
  <2> QED BY <1>3, <2>1, <2>2, <2>3, <2>4, <2>5 DEF GcInv
<1>5. ASSUME NEW u \in Subscriber, SweepTombstones(u) PROVE GcInv'
  <2>1. /\ \A v \in Subscriber : tombs'[v] \subseteq tombs[v]
        /\ UNCHANGED <<tmVars, class, storages, pc, op, todo, fate>>
        /\ files \ Swept(u) \subseteq files' /\ files' \subseteq files
        /\ engines \ Swept(u) \subseteq engines' /\ engines' \subseteq engines
    BY <1>5, SweepSteps
  <2>2. \A o \in Swept(u) : fate[o] # "live"
    <3>1. ASSUME NEW t \in tombs[u], t.at <= MaxTs PROVE fate[t.oid] # "live"
      <4>1. t.at \in Nat BY DEF GcInv, TombsOK, Tombstone
      <4>2. t.at < TxnIdStart BY <3>1, <4>1, StampFacts
      <4> QED BY <4>2 DEF GcInv, TombsOwned
    <3> QED BY <3>1 DEF Swept
  <2> QED BY <1>3, <2>1, <2>2, OutsideStep DEF GcInv
<1>6. CASE TakeNotice \/ UNCHANGED vars
  <2>1. UNCHANGED <<tmVars, class, storages, files, engines, tombs, pc, op, todo, fate>>
    BY <1>6 DEF TakeNotice, vars, physVars, gcVars
  <2> QED BY <1>3, <2>1, OutsideStep DEF GcInv
<1> QED BY <1>4, <1>5, <1>6 DEF DropNext

\* The state in which the schedulers start satisfies the inductive invariant.
LEMMA InitGcInv == DropInit => GcInv
<1> SUFFICES ASSUME DropInit PROVE GcInv
  OBVIOUS
<1> USE DEF DropInit
<1>1. IInv
  BY StampFacts DEF IInv, TypeOK, ClockAboveHorizon, BootstrapQuiet, InFlightBelowClock, SnapshotsInPast,
                    NoDirtySnapshot, IsActive, NoTxn
<1>2. \A s \in Session : pc[s] = "idle" /\ op[s] = NoOp /\ active[s] = NoTxn OBVIOUS
<1>3. GcTypes
  <2>1. NoOp \in Op BY StampFacts DEF NoOp, Op
  <2>2. pc \in [Session -> PC] /\ op \in [Session -> Op] /\ todo \in [Session -> SUBSET Subscriber]
    BY <2>1 DEF PC
  <2>3. notices \in Seq(Notice) BY EmptySeq
  <2> QED BY <1>1, <2>2, <2>3, DropAssumption, StampFacts DEF GcTypes
<1>4. ClassOK /\ TombsOK
  <2>1. \A o \in Oid : /\ class[o] \in ClassRow /\ class[o].ins \in {0, NotDeleted}
                       /\ class[o].del = NotDeleted
    BY StampFacts DEF NoRow, ClassRow
  <2> QED BY <2>1 DEF ClassOK, TombsOK, StampOK
<1>5. ASSUME NEW s \in Session PROVE SessionOK(s)
  <2>1. op[s].created = {} /\ op[s].dropped = {} /\ op[s].gone = {} /\ active[s].txnId = -1
    BY <1>2 DEF NoOp, NoTxn
  <2> QED BY <1>2, <2>1 DEF SessionOK, ChainOK, CreatedOK, DroppedOK, ClassStamped, GoneOK, IsActive, Busy, Open, Committing
<1>6. IdsApart BY <1>2 DEF IdsApart, Busy, Open, Committing
<1>7. OneCreator BY <1>2 DEF OneCreator, Holds, NoOp
<1>8. TombsOwned BY DEF TombsOwned
<1>9. TablesOK /\ UncommittedDropKeepsTable /\ IndexBeforeDisk
  BY DropAssumption DEF TablesOK, UncommittedDropKeepsTable, IndexBeforeDisk
<1> QED BY <1>3, <1>4, <1>5, <1>6, <1>7, <1>8, <1>9 DEF GcInv

LEMMA GcInvHolds == DropSpec => []GcInv
BY InitGcInv, NextGcInv, PTL DEF DropSpec

-----------------------------------------------------------------------------
(* Theorems.                                                               *)

\* Rows, tombstones and horizons carry stamps that the transaction manager has given
\* out, in every reachable state.
THEOREM DropTypeCorrect == DropSpec => []DropTypeOK
<1>1. GcInv => DropTypeOK
  <2> SUFFICES ASSUME GcInv PROVE DropTypeOK
    OBVIOUS
  <2>1. GcTypes /\ ClassOK /\ TombsOK /\ TypeOK BY DEF GcInv, GcTypes, IInv
  <2>2. ASSUME NEW o \in Oid, NEW id \in {class[o].ins, class[o].del}
        PROVE  id \in 0 .. MaxTs \cup TxnIdStart .. TxnIdStart + nextTxnId - 1 \cup {NotDeleted}
    <3>1. id \in Nat /\ (StampOK(id) \/ id = NotDeleted) BY <2>1 DEF ClassOK, ClassRow
    <3>2. id < currentTs => id \in 0 .. MaxTs BY <2>1, <3>1, StampFacts DEF TypeOK
    <3> QED BY <3>1, <3>2 DEF StampOK, Pending
  <2> QED BY <2>1, <2>2 DEF DropTypeOK, GcTypes, TombsOK
<1> QED BY <1>1, GcInvHolds, PTL

\* A DROP stays revertible until its COMMIT is drained: no sweep, no other session's
\* commit, publish or rollback takes storage, file or engine of the table.
THEOREM UncommittedDropSafe == DropSpec => []UncommittedDropKeepsTable
<1>1. GcInv => UncommittedDropKeepsTable BY DEF GcInv
<1> QED BY <1>1, GcInvHolds, PTL

\* The index manager never keeps an engine over a storage that an agent has erased.
THEOREM EnginesOverStorages == DropSpec => []IndexBeforeDisk
<1>1. GcInv => IndexBeforeDisk BY DEF GcInv
<1> QED BY <1>1, GcInvHolds, PTL

\* When the chain of a committed DROP is through, storage, file and engine of the table
\* are gone for good.
THEOREM PublishedDropEnds == DropSpec => []PublishedDropLeavesNothing
<1>1. GcInv => PublishedDropLeavesNothing
  BY DEF GcInv, TablesOK, PublishedDropLeavesNothing, Leaving
<1> QED BY <1>1, GcInvHolds, PTL

-----------------------------------------------------------------------------
(* The broadcast reaches the index manager.                                *)

\* The flag of the index manager once the dispatcher has taken its notices.
FlagSet ==
    \/ \E i \in DOMAIN notices :
          /\ notices[i] = [kind |-> "index", set |-> TRUE]
          /\ \A j \in DOMAIN notices : j > i => notices[j].kind # "index"
    \/ hasDropped["index"] /\ \A i \in DOMAIN notices : notices[i].kind # "index"

\* A notice of an agent behind the others does not change it.
LEMMA FlagAppend ==
    ASSUME notices \in Seq(Notice), FlagSet, UNCHANGED hasDropped,
           notices' = Append(notices, [kind |-> "disk", set |-> FALSE])
    PROVE  FlagSet'
<1> DEFINE n == Len(notices)
<1>1. n \in Nat /\ DOMAIN notices = 1 .. n BY LenProperties
<1>2. DOMAIN notices' = 1 .. n + 1
      /\ (\A i \in 1 .. n : notices'[i] = notices[i])
      /\ notices'[n + 1] = [kind |-> "disk", set |-> FALSE]
  <2>1. [kind |-> "disk", set |-> FALSE] \in Notice BY DEF Notice
  <2> QED BY <2>1, AppendProperties, LenProperties
<1> HIDE DEF n
<1>3. notices'[n + 1].kind # "index"
  <2>1. [kind |-> "disk", set |-> FALSE].kind # "index" OBVIOUS
  <2> QED BY ONLY <1>2, <2>1, Zenon
<1>4. \A i \in 1 .. n + 1 : i \in 1 .. n \/ i = n + 1 BY <1>1
<1>5. \A i \in 1 .. n : i \in 1 .. n + 1 BY <1>1
<1>6. ASSUME NEW i \in DOMAIN notices, notices[i] = [kind |-> "index", set |-> TRUE],
             \A j \in DOMAIN notices : j > i => notices[j].kind # "index"
      PROVE  FlagSet'
  <2>1. i \in DOMAIN notices' /\ notices'[i] = [kind |-> "index", set |-> TRUE]
    BY <1>1, <1>2, <1>5, <1>6
  <2>2. \A j \in DOMAIN notices' : j > i => notices'[j].kind # "index"
    BY <1>1, <1>2, <1>3, <1>4, <1>6
  <2> QED BY <2>1, <2>2 DEF FlagSet
<1>7. ASSUME hasDropped["index"], \A i \in DOMAIN notices : notices[i].kind # "index"
      PROVE  FlagSet'
  <2>1. \A i \in DOMAIN notices' : notices'[i].kind # "index"
    BY <1>1, <1>2, <1>3, <1>4, <1>7
  <2> QED BY <1>7, <2>1 DEF FlagSet
<1> QED BY <1>6, <1>7 DEF FlagSet

\* Taking the oldest notice does not change it.
LEMMA FlagTake ==
    ASSUME GcTypes, FlagSet, TakeNotice
    PROVE  FlagSet'
<1>1. notices \in Seq(Notice) /\ notices # <<>> /\ hasDropped \in [{"disk", "index"} -> BOOLEAN]
  BY DEF GcTypes, TakeNotice
<1> DEFINE n == Len(notices)
<1>2. n \in Nat /\ n > 0 /\ DOMAIN notices = 1 .. n
  BY <1>1, LenProperties, EmptySeq
<1>3. /\ notices' = Tail(notices) /\ Head(notices) = notices[1]
      /\ hasDropped' = [hasDropped EXCEPT ![notices[1].kind] = notices[1].set]
  <2>1. Head(notices) = notices[1] BY ONLY <1>1
  <2>2. /\ notices' = Tail(notices)
        /\ hasDropped' = [hasDropped EXCEPT ![Head(notices).kind] = Head(notices).set]
    BY DEF TakeNotice
  <2> QED BY ONLY <2>1, <2>2, Zenon
<1>4. /\ DOMAIN notices' = 1 .. n - 1
      /\ \A i \in 1 .. n - 1 : notices'[i] = notices[i + 1]
  <2>1. notices' \in Seq(Notice) /\ Len(notices') = n - 1 /\ \A i \in 1 .. n - 1 : notices'[i] = notices[i + 1]
    BY <1>1, <1>3, HeadTailProperties
  <2> QED BY <2>1, LenProperties
<1>5. notices[1] \in Notice BY <1>1, <1>2
<1> HIDE DEF n
<1>6. ASSUME NEW i \in DOMAIN notices, notices[i] = [kind |-> "index", set |-> TRUE],
             \A j \in DOMAIN notices : j > i => notices[j].kind # "index"
      PROVE  FlagSet'
  <2>1. CASE i = 1
    <3>1. hasDropped'["index"] BY <1>1, <1>3, <1>6, <2>1
    <3>2. ASSUME NEW j \in 1 .. n - 1 PROVE notices'[j].kind # "index"
      <4>1. j + 1 \in 1 .. n /\ j + 1 > 1 BY <1>2
      <4> QED BY <1>2, <1>4, <1>6, <2>1, <4>1
    <3> QED BY <1>4, <3>1, <3>2 DEF FlagSet
  <2>2. CASE i # 1
    <3>1. i \in 1 .. n /\ i - 1 \in 1 .. n - 1 /\ (i - 1) + 1 = i BY <1>2, <2>2
    <3>2. notices'[i - 1] = [kind |-> "index", set |-> TRUE] BY <1>4, <1>6, <3>1
    <3>3. ASSUME NEW j \in 1 .. n - 1, j > i - 1 PROVE notices'[j].kind # "index"
      <4>1. j + 1 \in 1 .. n /\ j + 1 > i BY <1>2, <3>1, <3>3
      <4> QED BY <1>2, <1>4, <1>6, <4>1
    <3> QED BY <1>4, <3>1, <3>2, <3>3 DEF FlagSet
  <2> QED BY <2>1, <2>2
<1>7. ASSUME hasDropped["index"], \A i \in DOMAIN notices : notices[i].kind # "index"
      PROVE  FlagSet'
  <2>1. notices[1].kind # "index" BY <1>2, <1>7
  <2>2. hasDropped'["index"] BY <1>1, <1>3, <1>7, <2>1
  <2>3. ASSUME NEW j \in 1 .. n - 1 PROVE notices'[j].kind # "index"
    <3>1. j + 1 \in 1 .. n BY <1>2
    <3> QED BY <1>2, <1>4, <1>7, <3>1
  <2> QED BY <1>4, <2>2, <2>3 DEF FlagSet
<1> QED BY <1>6, <1>7 DEF FlagSet

LEMMA LastOfTwo ==
    ASSUME NEW a \in Seq(Notice), NEW b \in Seq(Notice), Len(b) = 2
    PROVE  DOMAIN (a \o b) = 1 .. Len(a) + 2 /\ (a \o b)[Len(a) + 2] = b[2]
<1>0. a \o b \in Seq(Notice) /\ Len(a \o b) = Len(a) + Len(b) BY ConcatProperties, Zenon
<1>1. a \o b \in Seq(Notice) /\ Len(a \o b) = Len(a) + 2 BY <1>0
<1>2. Len(a) \in Nat BY LenProperties
<1>3. Len(a) + 2 \in 1 .. Len(a) + Len(b) /\ ~(Len(a) + 2 <= Len(a)) /\ Len(a) + 2 - Len(a) = 2 BY <1>2
<1> QED BY <1>1, <1>3, ConcatProperties, LenProperties

\* The announcement of a drop sets it.
LEMMA FlagAnnounce ==
    ASSUME GcTypes, NEW s \in Session, AnnounceMarks(s)
    PROVE  FlagSet'
<1> DEFINE n == Len(notices)
<1>1. notices \in Seq(Notice) /\ n \in Nat BY LenProperties DEF GcTypes
<1>2. Announced \in Seq(Notice) /\ Len(Announced) = 2 /\ Announced[2] = [kind |-> "index", set |-> TRUE]
  BY DEF Announced, Notice
<1>3. notices' = notices \o Announced BY DEF AnnounceMarks
<1>4. DOMAIN notices' = 1 .. n + 2 /\ notices'[n + 2] = Announced[2]
  BY <1>1, <1>2, <1>3, LastOfTwo
<1> HIDE DEF n
<1>5. n + 2 \in 1 .. n + 2 /\ \A j \in 1 .. n + 2 : ~(j > n + 2) BY <1>1
<1> QED BY <1>2, <1>4, <1>5 DEF FlagSet

LEMMA AnnouncedNext ==
    ASSUME GcInv, TombstonesAnnounced, [DropNext]_vars
    PROVE  TombstonesAnnounced'
<1>1. GcTypes /\ notices \in Seq(Notice) BY DEF GcInv, GcTypes
<1>2. IndexMgr \in Subscriber BY DEF Subscriber
<1> DEFINE Marking == \E s \in Session : pc[s] \in {"mark", "announce"}
<1>3. TombstonesAnnounced <=> (tombs[IndexMgr] # {} => Marking \/ FlagSet)
  BY DEF TombstonesAnnounced, FlagSet
<1>4. TombstonesAnnounced' <=> (tombs'[IndexMgr] # {} => Marking' \/ FlagSet')
  BY DEF TombstonesAnnounced, FlagSet
<1>5. UNCHANGED <<notices, hasDropped>> => (FlagSet' <=> FlagSet) BY DEF FlagSet
<1>6. ASSUME NEW s \in Session, Client(s) \/ Chain(s) PROVE TombstonesAnnounced'
  <2>1. CASE AnnounceMarks(s) BY <1>1, <1>4, <2>1, FlagAnnounce
  <2>2. CASE ~AnnounceMarks(s)
    <3>1. UNCHANGED <<notices, hasDropped>> BY <1>6, <2>2, WhoWrites, Zenon
    <3>2. ASSUME NEW t \in Session, pc[t] \in {"mark", "announce"} PROVE Marking'
      <4>1. CASE t = s
        <5>1. \E u \in Subscriber : MarkDropped(s, u)
          <6>1. CASE Client(s)
            BY <3>2, <4>1, <6>1 DEF Client, Begin, Write, CreateStorage, DropTables, StatementFailed,
                      CommitEmpty, CommitDrain, IndexCommitFailed, RollbackDrain
          <6>2. CASE Chain(s)
            BY <2>2, <3>2, <4>1, <6>2 DEF Chain, RegisterCollection, RemapTombstones, UnmarkTombstones,
                      IndexCommitted, PublishDeletes, PublishCommit, RevertCatalog, Unregister, EraseStorages
          <6> QED BY <1>6, <6>1, <6>2
        <5>2. pc'[s] \in {"mark", "announce"} BY <5>1, ChainTypes DEF MarkDropped, Goto
        <5> QED BY <5>2
      <4>2. CASE t # s BY <1>6, <3>2, <4>2, OthersKept
      <4> QED BY <4>1, <4>2
    <3>3. CASE Marking BY <1>4, <3>2, <3>3
    <3>4. CASE ~Marking /\ FlagSet BY <1>4, <1>5, <3>1, <3>4
    <3>5. CASE ~Marking /\ tombs[IndexMgr] = {}
      <4>1. \/ UNCHANGED tombs
            \/ \E u \in Subscriber : MarkDropped(s, u) \/ RemapTombstones(s, u) \/ UnmarkTombstones(s, u)
        BY <1>6, WhoWrites, Zenon
      <4>2. \A u \in Subscriber : ~MarkDropped(s, u) BY <3>5 DEF MarkDropped
      <4>3. tombs \in [Subscriber -> SUBSET Tombstone] BY DEF GcInv, TombsOK
      <4>4. tombs'[IndexMgr] = {}
        BY <1>2, <3>5, <4>1, <4>2, <4>3 DEF RemapTombstones, UnmarkTombstones
      <4> QED BY <1>4, <4>4
    <3> QED BY <1>3, <3>3, <3>4, <3>5
  <2> QED BY <2>1, <2>2
<1>7. ASSUME NEW u \in Subscriber, SweepTombstones(u) PROVE TombstonesAnnounced'
  <2>1. tombs \in [Subscriber -> SUBSET Tombstone] BY DEF GcInv, TombsOK
  <2> DEFINE kept == {t \in tombs[u] : t.at >= Min(mailbox[u])}
  <2>2. /\ tombs' = [tombs EXCEPT ![u] = kept] /\ UNCHANGED <<hasDropped, pc>>
        /\ notices' = IF kept = {} THEN Append(notices, [kind |-> KindOf(u), set |-> FALSE]) ELSE notices
    BY <1>7 DEF SweepTombstones
  <2>3. kept \subseteq tombs[u] OBVIOUS
  <2> HIDE DEF kept
  <2>4. Marking' <=> Marking BY <2>2
  <2>5. tombs'[IndexMgr] \subseteq tombs[IndexMgr] BY <1>2, <2>1, <2>2, <2>3
  <2>6. CASE kept # {} BY <1>3, <1>4, <1>5, <2>2, <2>4, <2>5, <2>6
  <2>7. CASE kept = {} /\ u = IndexMgr BY <1>2, <1>4, <2>1, <2>2, <2>7
  <2>8. CASE kept = {} /\ u # IndexMgr
    <3>1. notices' = Append(notices, [kind |-> "disk", set |-> FALSE]) BY <2>2, <2>8 DEF KindOf
    <3>2. FlagSet => FlagSet' BY <1>1, <2>2, <3>1, FlagAppend
    <3> QED BY <1>3, <1>4, <2>4, <2>5, <3>2
  <2> QED BY <2>6, <2>7, <2>8
<1>8. CASE TakeNotice
  <2>1. UNCHANGED <<tombs, pc>> BY <1>8 DEF TakeNotice
  <2>2. FlagSet => FlagSet' BY <1>1, <1>8, FlagTake
  <2> QED BY <1>3, <1>4, <2>1, <2>2
<1>9. CASE UNCHANGED vars
  <2>1. UNCHANGED <<tombs, pc, notices, hasDropped>> BY <1>9 DEF vars, gcVars
  <2> QED BY <1>3, <1>4, <1>5, <2>1
<1> QED BY <1>6, <1>7, <1>8, <1>9 DEF DropNext

\* As long as the index manager holds a tombstone its flag is set or on its way to be
\* set, so the next horizon is sent to it.
THEOREM TombstonesAreAnnounced == DropSpec => []TombstonesAnnounced
<1>1. DropInit => TombstonesAnnounced BY DEF DropInit, TombstonesAnnounced, Subscriber
<1>2. GcInv /\ TombstonesAnnounced /\ [DropNext]_vars => TombstonesAnnounced' BY AnnouncedNext
<1> QED BY <1>1, <1>2, GcInvHolds, PTL DEF DropSpec
=============================================================================
