------------------------------- MODULE DropGc -------------------------------
(***************************************************************************)
(* CREATE TABLE, DROP TABLE and the garbage collection of dropped tables.  *)
(*                                                                         *)
(* A DROP marks the table in the index manager and in the disk agent that  *)
(* owns it (a tombstone under the transaction id).  COMMIT restamps the    *)
(* tombstones with the commit id, publishes, and removes index engine and  *)
(* storage at once; ROLLBACK takes the tombstones back.  Whatever is left  *)
(* is swept when the dispatcher broadcasts a horizon above the stamp.      *)
(*                                                                         *)
(* A step is one message handled by the dispatcher, the index manager or   *)
(* an agent.  Mailboxes are FIFO: a request is handled when no horizon is  *)
(* waiting before it, and the dispatcher takes its notices in order.       *)
(***************************************************************************)
EXTENDS TxnManager, RowVersions

CONSTANTS
    Oid,          \* table oids
    InitTables,   \* the tables that exist when the schedulers start
    Agent,        \* the disk agents of the pool
    Owner,        \* pool_idx_for_oid
    IndexMgr      \* the index manager, the other subscriber of the broadcast

ASSUME DropAssumption ==
    /\ InitTables \subseteq Oid
    /\ Owner \in [Oid -> Agent]
    /\ IndexMgr \notin Agent
    /\ MaxTs < TxnIdStart /\ TxnIdStart + MaxTs < NotDeleted

VARIABLES
    class,          \* the pg_class row of every table, with its version stamps
    storages,       \* storages_ of the agents
    files,          \* the .otbx files with their sidecars
    engines,        \* engines_ of the index manager
    indexFiles,     \* tables whose index disk agent still holds its files
    diskAgents,     \* disk_agents_per_oid_
    tombs,          \* dropped_storages_ of each agent, dropped_table_agents_
    mailbox,        \* horizons on their way to a subscriber
    notices,        \* on_drop_resource_marked and on_subscriber_empty messages
    hasDropped,     \* disk_has_dropped_, index_has_dropped_
    lastBroadcast,  \* last_broadcast_horizon_
    pc, op, todo,   \* the chains: next message, what they carry, whom they await
    fate            \* ghost: how far the drop of a table has got

physVars == <<storages, files, engines, indexFiles, diskAgents>>
gcVars == <<tombs, mailbox, notices, hasDropped, lastBroadcast>>
vars == <<tmVars, class, physVars, gcVars, pc, op, todo, fate>>

Subscriber == Agent \cup {IndexMgr}
KindOf(sub) == IF sub = IndexMgr THEN "index" ELSE "disk"

Tombstone == [oid : Oid, at : Nat]

NoOp == [txnId |-> 0, commitId |-> 0, dropped |-> {}, created |-> {}, wrote |-> FALSE, gone |-> {}]

PC == {"idle", "open", "register", "mark", "announce", "remap", "index", "deletes", "publish", "unmark",
       "revert", "unregister", "erase"}

\* The row of a table that does not exist: inserted by nobody.
NoRow == [ins |-> NotDeleted, del |-> NotDeleted]

Data(s) == [transactionId |-> TxnIdStart + active[s].txnId,
            horizon       |-> active[s].snapHorizon,
            inFlight      |-> active[s].snapInFlight]

FreshData == [transactionId |-> 0, horizon |-> horizon, inFlight |-> inFlight]

\* The tables of which a subscriber holds or will hold the tombstone.
SliceOf(sub, oids) == IF sub = IndexMgr THEN oids ELSE {o \in oids : Owner[o] = sub}

-----------------------------------------------------------------------------
DropInit ==
    /\ nextTxnId = 0 /\ currentTs = 1 /\ active = [s \in Session |-> NoTxn]
    /\ inFlight = {} /\ horizon = 0 /\ phase = "serving"
    /\ class = [o \in Oid |-> IF o \in InitTables THEN [ins |-> 0, del |-> NotDeleted] ELSE NoRow]
    /\ storages = InitTables /\ files = InitTables /\ engines = InitTables
    /\ indexFiles = InitTables /\ diskAgents = InitTables
    /\ tombs = [u \in Subscriber |-> {}]
    /\ mailbox = [u \in Subscriber |-> {}]
    /\ notices = <<>>
    /\ hasDropped = [k \in {"disk", "index"} |-> FALSE]
    /\ lastBroadcast = 0
    /\ pc = [s \in Session |-> "idle"]
    /\ op = [s \in Session |-> NoOp]
    /\ todo = [s \in Session |-> {}]
    /\ fate = [o \in Oid |-> "live"]

Goto(s, p) == pc' = [pc EXCEPT ![s] = p]

\* The dispatcher takes a request behind the notices that were there before.
AtDispatcher == notices = <<>>

\* try_trigger_cleanup_if_horizon_advanced, the tail of every handler that ends a
\* transaction.
TryTriggerCleanup ==
    LET h == LowestActiveSnapshotHorizon' IN
    IF h > lastBroadcast
    THEN /\ lastBroadcast' = h
         /\ mailbox' = [u \in Subscriber |->
                           IF hasDropped[KindOf(u)] THEN mailbox[u] \cup {h} ELSE mailbox[u]]
    ELSE UNCHANGED <<lastBroadcast, mailbox>>

-----------------------------------------------------------------------------
(* Statements of a transaction.                                            *)

Begin(s) ==
    /\ pc[s] = "idle" /\ AtDispatcher
    /\ BeginTransaction(s)
    /\ Goto(s, "open")
    /\ op' = [op EXCEPT ![s] = [NoOp EXCEPT !.txnId = TxnIdStart + nextTxnId]]
    /\ UNCHANGED <<class, physVars, gcVars, todo, fate>>

\* A DML statement on some other table: the transaction has something to commit.
Write(s) ==
    /\ pc[s] = "open" /\ ~op[s].wrote
    /\ op' = [op EXCEPT ![s].wrote = TRUE]
    /\ UNCHANGED <<tmVars, class, physVars, gcVars, pc, todo, fate>>

\* operator_create_collection: create_storage_disk, register_collection, and the row
\* of pg_class.
CreateStorage(s, o) ==
    /\ pc[s] = "open"
    /\ class[o] = NoRow /\ o \notin storages
    /\ storages' = storages \cup {o}
    /\ files' = files \cup {o}
    /\ op' = [op EXCEPT ![s].created = @ \cup {o}]
    /\ Goto(s, "register")
    /\ UNCHANGED <<tmVars, class, engines, indexFiles, diskAgents, gcVars, todo, fate>>

RegisterCollection(s) ==
    /\ pc[s] = "register"
    /\ mailbox[IndexMgr] = {}
    /\ engines' = engines \cup op[s].created
    /\ class' = [o \in Oid |-> IF o \in op[s].created /\ class[o] = NoRow
                               THEN [ins |-> op[s].txnId, del |-> NotDeleted] ELSE class[o]]
    /\ Goto(s, "open")
    /\ UNCHANGED <<tmVars, storages, files, indexFiles, diskAgents, gcVars, op, todo, fate>>

\* operator_dynamic_cascade_delete with the tables of the cascade, which pg_class
\* shows to the transaction: their rows are marked deleted (a row that carries a mark
\* is skipped), then the tables themselves.  Bound: a transaction drops a table once,
\* also when the mark of another transaction leaves it visible.
DropTables(s, oids) ==
    /\ pc[s] = "open"
    /\ oids # {} /\ oids \cap op[s].dropped = {}
    /\ \A o \in oids : Visible(Data(s), class[o])
    /\ class' = MarkDeleted(class, oids, op[s].txnId)
    /\ op' = [op EXCEPT ![s].dropped = @ \cup oids, ![s].gone = oids]
    /\ todo' = [todo EXCEPT ![s] = {u \in Subscriber : SliceOf(u, oids) # {}}]
    /\ Goto(s, "mark")
    /\ UNCHANGED <<tmVars, physVars, gcVars, fate>>

\* Mutant: the mark carries the transaction's start time, an id of commit-id space.
MarkStamp_StartTime(s) == active[s].startTime

\* dropped_at = ctx->txn.transaction_id.
MarkStamp(s) == op[s].txnId

\* mark_storage_dropped_many_inner and mark_table_dropped.  An agent collects
\* tombstones, the index manager keeps one per table and overwrites it.
MarkDropped(s, u) ==
    LET oids == SliceOf(u, op[s].gone)
        kept == IF u = IndexMgr THEN {t \in tombs[u] : t.oid \notin oids} ELSE tombs[u]
    IN
    /\ pc[s] = "mark" /\ u \in todo[s] /\ mailbox[u] = {}
    /\ tombs' = [tombs EXCEPT ![u] = kept \cup [oid : oids, at : {MarkStamp(s)}]]
    /\ todo' = [todo EXCEPT ![s] = @ \ {u}]
    /\ Goto(s, IF todo[s] = {u} THEN "announce" ELSE "mark")
    /\ UNCHANGED <<tmVars, class, physVars, mailbox, notices, hasDropped, lastBroadcast, op, fate>>

\* Mutant: only the disk is announced.
Announced_DiskOnly == <<[kind |-> "disk", set |-> TRUE]>>

\* Both flags, fire and forget.
Announced == <<[kind |-> "disk", set |-> TRUE], [kind |-> "index", set |-> TRUE]>>

AnnounceMarks(s) ==
    /\ pc[s] = "announce"
    /\ notices' = notices \o Announced
    /\ op' = [op EXCEPT ![s].gone = {}]
    /\ Goto(s, "open")
    /\ UNCHANGED <<tmVars, class, physVars, tombs, mailbox, hasDropped, lastBroadcast, todo, fate>>

\* A later statement of the transaction fails: revert_failed_txn ends it with
\* txn_abort_msg; tombstones and created storages stay.
StatementFailed(s) ==
    /\ pc[s] = "open" /\ AtDispatcher
    /\ Abort(s)
    /\ TryTriggerCleanup
    /\ Goto(s, "idle")
    /\ op' = [op EXCEPT ![s] = NoOp]
    /\ UNCHANGED <<class, physVars, tombs, notices, hasDropped, todo, fate>>

-----------------------------------------------------------------------------
(* COMMIT.                                                                 *)

HasAccumulated(s) == op[s].wrote \/ op[s].dropped # {} \/ op[s].created # {}

CommitEmpty(s) ==
    /\ pc[s] = "open" /\ AtDispatcher /\ ~HasAccumulated(s)
    /\ Abort(s)
    /\ TryTriggerCleanup
    /\ Goto(s, "idle")
    /\ op' = [op EXCEPT ![s] = NoOp]
    /\ UNCHANGED <<class, physVars, tombs, notices, hasDropped, todo, fate>>

\* txn_commit_drain_msg.
CommitDrain(s) ==
    /\ pc[s] = "open" /\ AtDispatcher /\ HasAccumulated(s)
    /\ Commit(s)
    /\ op' = [op EXCEPT ![s].commitId = currentTs]
    /\ todo' = [todo EXCEPT ![s] = IF op[s].dropped = {} THEN {} ELSE Subscriber]
    /\ Goto(s, IF op[s].dropped = {} THEN "index" ELSE "remap")
    /\ fate' = [o \in Oid |-> IF o \in op[s].dropped /\ fate[o] = "live" THEN "committed" ELSE fate[o]]
    /\ UNCHANGED <<class, physVars, gcVars>>

\* storage_dropped_committed, fanned out to every agent, then table_dropped_committed:
\* each waits for the reply.
RemapTombstones(s, u) ==
    /\ pc[s] = "remap" /\ u \in todo[s] /\ mailbox[u] = {}
    /\ u = IndexMgr => todo[s] = {IndexMgr}
    /\ tombs' = [tombs EXCEPT ![u] =
                    {IF t.at = op[s].txnId THEN [t EXCEPT !.at = op[s].commitId] ELSE t : t \in @}]
    /\ todo' = [todo EXCEPT ![s] = @ \ {u}]
    /\ Goto(s, IF todo[s] = {u} THEN "index" ELSE "remap")
    /\ UNCHANGED <<tmVars, class, physVars, mailbox, notices, hasDropped, lastBroadcast, op, fate>>

\* The index commits of the tables the transaction wrote to: one of them fails and
\* the operator returns, or they pass and the storage stamps follow: the rows of
\* CREATE, then the rows of DROP (storage_publish_commits, storage_publish_deletes).
IndexCommitFailed(s) ==
    /\ pc[s] = "index" /\ op[s].wrote
    /\ Goto(s, "idle")
    /\ op' = [op EXCEPT ![s] = NoOp]
    /\ UNCHANGED <<tmVars, class, physVars, gcVars, todo, fate>>

IndexCommitted(s) ==
    /\ pc[s] = "index"
    /\ class' = [o \in Oid |-> IF class[o].ins = op[s].txnId
                               THEN [class[o] EXCEPT !.ins = op[s].commitId] ELSE class[o]]
    /\ Goto(s, "deletes")
    /\ UNCHANGED <<tmVars, physVars, gcVars, op, todo, fate>>

PublishDeletes(s) ==
    /\ pc[s] = "deletes"
    /\ class' = CommitAllDeletes(class, op[s].txnId, op[s].commitId)
    /\ Goto(s, "publish")
    /\ UNCHANGED <<tmVars, physVars, gcVars, op, todo, fate>>

\* txn_publish_msg.
PublishCommit(s) ==
    /\ pc[s] = "publish" /\ AtDispatcher
    /\ Publish(op[s].commitId)
    /\ TryTriggerCleanup
    /\ fate' = [o \in Oid |-> IF o \in op[s].dropped THEN "published" ELSE fate[o]]
    /\ op' = [op EXCEPT ![s] = [NoOp EXCEPT !.gone = op[s].dropped]]
    /\ Goto(s, IF op[s].dropped = {} THEN "idle" ELSE "unregister")
    /\ UNCHANGED <<class, physVars, tombs, notices, hasDropped, todo>>

\* Mutant: the reply of the index manager is not awaited.
Unregister_NotAwaited(s) ==
    /\ pc[s] = "unregister"
    /\ todo' = [todo EXCEPT ![s] = {a \in Agent : SliceOf(a, op[s].gone) # {}}]
    /\ Goto(s, "erase")
    /\ UNCHANGED <<tmVars, class, physVars, gcVars, op, fate>>

\* unregister_collection of every table that goes: the engine and the addresses of
\* its index disk agents, which are sent nothing.
Unregister(s) ==
    /\ pc[s] = "unregister" /\ mailbox[IndexMgr] = {}
    /\ engines' = engines \ op[s].gone
    /\ diskAgents' = diskAgents \ op[s].gone
    /\ todo' = [todo EXCEPT ![s] = {a \in Agent : SliceOf(a, op[s].gone) # {}}]
    /\ Goto(s, "erase")
    /\ UNCHANGED <<tmVars, class, storages, files, indexFiles, gcVars, op, fate>>

\* Mutant: the entry is erased before its path is read, so the file stays.
FilesErased_PathLost(oids) == {}

\* drop_storage_one_local takes the path from the entry it erases.
FilesErased(oids) == oids \cap storages

\* drop_storage_many_inner: the entries, their files and sidecars.
EraseStorages(s, a) ==
    LET oids == SliceOf(a, op[s].gone) IN
    /\ pc[s] = "erase" /\ a \in todo[s] /\ mailbox[a] = {}
    /\ storages' = storages \ oids
    /\ files' = files \ FilesErased(oids)
    /\ todo' = [todo EXCEPT ![s] = @ \ {a}]
    /\ IF todo[s] = {a} THEN Goto(s, "idle") /\ op' = [op EXCEPT ![s] = NoOp] ELSE UNCHANGED <<pc, op>>
    /\ UNCHANGED <<tmVars, class, engines, indexFiles, diskAgents, gcVars, fate>>

-----------------------------------------------------------------------------
(* ROLLBACK.                                                               *)

\* txn_abort_drain_msg.
RollbackDrain(s) ==
    /\ pc[s] = "open" /\ AtDispatcher
    /\ Abort(s)
    /\ TryTriggerCleanup
    /\ op' = [op EXCEPT ![s].gone = op[s].created]
    /\ Goto(s, "revert")
    /\ UNCHANGED <<class, physVars, tombs, notices, hasDropped, todo, fate>>

\* storage_revert_appends and storage_revert_deletes of pg_class.
RevertCatalog(s) ==
    /\ pc[s] = "revert"
    /\ class' = [o \in Oid |-> IF class[o].ins = op[s].txnId THEN NoRow
                               ELSE RevertAllDeletes(class, op[s].txnId)[o]]
    /\ todo' = [todo EXCEPT ![s] = IF op[s].dropped = {} THEN {} ELSE Subscriber]
    /\ Goto(s, IF op[s].dropped # {} THEN "unmark" ELSE IF op[s].created = {} THEN "idle" ELSE "unregister")
    /\ UNCHANGED <<tmVars, physVars, gcVars, op, fate>>

\* storage_drop_aborted, then table_drop_aborted: the tombstones of this transaction.
UnmarkTombstones(s, u) ==
    /\ pc[s] = "unmark" /\ u \in todo[s] /\ mailbox[u] = {}
    /\ u = IndexMgr => todo[s] = {IndexMgr}
    /\ tombs' = [tombs EXCEPT ![u] = {t \in @ : t.at # op[s].txnId}]
    /\ todo' = [todo EXCEPT ![s] = @ \ {u}]
    /\ Goto(s, IF todo[s] # {u} THEN "unmark" ELSE IF op[s].created = {} THEN "idle" ELSE "unregister")
    /\ UNCHANGED <<tmVars, class, physVars, mailbox, notices, hasDropped, lastBroadcast, op, fate>>

-----------------------------------------------------------------------------
(* The broadcast at a subscriber, and the dispatcher's flags.              *)

\* on_horizon_advanced_inner of an agent and on_horizon_advanced of the index
\* manager, for the oldest horizon waiting: sweep, and tell when nothing is left.
SweepTombstones(u) ==
    LET h     == Min(mailbox[u])
        swept == {t.oid : t \in {t \in tombs[u] : t.at < h}}
        kept  == {t \in tombs[u] : t.at >= h}
    IN
    /\ mailbox[u] # {}
    /\ mailbox' = [mailbox EXCEPT ![u] = @ \ {h}]
    /\ tombs' = [tombs EXCEPT ![u] = kept]
    /\ notices' = IF kept = {} THEN Append(notices, [kind |-> KindOf(u), set |-> FALSE]) ELSE notices
    /\ IF u = IndexMgr
       THEN /\ engines' = engines \ swept
            /\ indexFiles' = indexFiles \ (swept \cap diskAgents)
            /\ diskAgents' = diskAgents \ swept
            /\ UNCHANGED <<storages, files>>
       ELSE /\ files' = files \ swept
            /\ UNCHANGED <<storages, engines, indexFiles, diskAgents>>
    /\ UNCHANGED <<tmVars, class, hasDropped, lastBroadcast, pc, op, todo, fate>>

\* on_drop_resource_marked and on_subscriber_empty.
TakeNotice ==
    /\ notices # <<>>
    /\ hasDropped' = [hasDropped EXCEPT ![Head(notices).kind] = Head(notices).set]
    /\ notices' = Tail(notices)
    /\ UNCHANGED <<tmVars, class, physVars, tombs, mailbox, lastBroadcast, pc, op, todo, fate>>

-----------------------------------------------------------------------------
\* The messages that need no decision of a client.
Chain(s) ==
    \/ RegisterCollection(s)
    \/ \E u \in Subscriber : MarkDropped(s, u) \/ RemapTombstones(s, u) \/ UnmarkTombstones(s, u)
    \/ AnnounceMarks(s)
    \/ IndexCommitted(s)
    \/ PublishDeletes(s)
    \/ PublishCommit(s)
    \/ RevertCatalog(s)
    \/ Unregister(s)
    \/ \E a \in Agent : EraseStorages(s, a)

Client(s) ==
    \/ Begin(s)
    \/ Write(s)
    \/ \E o \in Oid : CreateStorage(s, o)
    \/ \E oids \in SUBSET Oid : DropTables(s, oids)
    \/ StatementFailed(s)
    \/ CommitEmpty(s)
    \/ CommitDrain(s)
    \/ IndexCommitFailed(s)
    \/ RollbackDrain(s)

DropNext ==
    \/ \E s \in Session : Client(s) \/ Chain(s)
    \/ \E u \in Subscriber : SweepTombstones(u)
    \/ TakeNotice

DropSpec == DropInit /\ [][DropNext]_vars

-----------------------------------------------------------------------------
\* Type invariant: tombstones, horizons and the rows of pg_class carry stamps that the
\* transaction manager has given out.
DropTypeOK ==
    /\ TypeOK
    /\ \A o \in Oid : {class[o].ins, class[o].del} \subseteq
          0 .. MaxTs \cup TxnIdStart .. TxnIdStart + nextTxnId - 1 \cup {NotDeleted}
    /\ storages \cup files \cup engines \cup indexFiles \cup diskAgents \subseteq Oid
    /\ \A u \in Subscriber : tombs[u] \subseteq Tombstone /\ mailbox[u] \subseteq 1 .. MaxTs
    /\ lastBroadcast \in 0 .. MaxTs
    /\ pc \in [Session -> PC]
    /\ todo \in [Session -> SUBSET Subscriber]
    /\ fate \in [Oid -> {"live", "committed", "published"}]

\* operator_dynamic_cascade_delete: "A DROP inside a txn must be REVERTIBLE until
\* COMMIT", so "the backing .otbx and the index engine must still exist at abort
\* time".  Whatever other transactions commit, publish and sweep meanwhile, a table
\* that no COMMIT has drained keeps its storage, file and engine; a table created by
\* a transaction that is still at it may not have its engine yet.
UncommittedDropKeepsTable ==
    \A o \in InitTables : fate[o] = "live" => o \in storages \cap files \cap engines

\* operator_commit_transaction: "no index consumer references a collection whose
\* backing storage the disk actor is about to free".
IndexBeforeDisk == engines \subseteq storages

\* The index manager is told horizons as long as it holds tombstones: its flag is
\* set, or the notice that sets it is behind every notice that clears it, or the DROP
\* has not got to its announcement.
TombstonesAnnounced ==
    tombs[IndexMgr] # {} =>
        \/ \E s \in Session : pc[s] \in {"mark", "announce"}
        \/ \E i \in DOMAIN notices :
              /\ notices[i] = [kind |-> "index", set |-> TRUE]
              /\ \A j \in DOMAIN notices : j > i => notices[j].kind # "index"
        \/ hasDropped["index"] /\ \A i \in DOMAIN notices : notices[i].kind # "index"

\* A committed DROP ends: once its chain is through nothing of the table is left,
\* whoever sweeps, drops or rolls back a drop of the same table meanwhile.
PublishedDropLeavesNothing ==
    \A o \in Oid :
        \/ fate[o] # "published"
        \/ o \notin storages \cup files \cup engines
        \/ \E s \in Session : pc[s] \in {"unregister", "erase"} /\ o \in op[s].gone

=============================================================================
