----------------------------- MODULE TxnManager -----------------------------
(***************************************************************************)
(* transaction_manager_t (components/table/transaction_manager.{hpp,cpp}): *)
(* the commit clock, the snapshots it hands out and the watermark that     *)
(* compaction derives from them.                                           *)
(*                                                                         *)
(* Every public method runs under lock_, so every method is one action.    *)
(* start_time and commit_id are drawn from one counter; a commit id is     *)
(* first in flight (commit) and becomes visible with publish.  Any number  *)
(* of commits may be in flight and they publish in any order.              *)
(***************************************************************************)
EXTENDS Integers, FiniteSetsExt

CONSTANTS
    Session,   \* the session ids that key active_
    MaxTs      \* bound on current_timestamp_

ASSUME MaxTsAssumption == MaxTs \in Nat \ {0}

VARIABLES
    nextTxnId,     \* next_transaction_id_, counted from TRANSACTION_ID_START
    currentTs,     \* current_timestamp_
    active,        \* active_: the transaction of a session, or NoTxn
    inFlight,      \* in_flight_commits_
    horizon,       \* published_horizon_
    phase          \* "bootstrap" until the schedulers start, then "serving"

tmVars == <<nextTxnId, currentTs, active, inFlight, horizon, phase>>

-----------------------------------------------------------------------------
(* transaction_t::data(): the ids and the snapshot taken at BEGIN.         *)
Txn == [txnId : Nat, startTime : Nat, snapHorizon : Nat, snapInFlight : SUBSET (Nat \ {0})]

NoTxn == [txnId |-> -1, startTime |-> 0, snapHorizon |-> 0, snapInFlight |-> {}]

IsActive(s) == active[s].txnId # -1

ActiveTxns == {active[s] : s \in {t \in Session : IsActive(t)}}

\* Rules 3 to 5 of use_inserted_version: a committed stamp is visible when it is
\* at or below the snapshot's horizon and was not in flight at BEGIN.
CommitVisible(txn, c) == c <= txn.snapHorizon /\ c \notin txn.snapInFlight

\* Mutant: the in-flight lists of the active snapshots are forgotten.
WatermarkBounds_NoSnapshotLists ==
    {horizon} \cup {c - 1 : c \in inFlight} \cup {t.snapHorizon : t \in ActiveTxns}

\* Mutant: the ids in flight now are forgotten.
WatermarkBounds_NoInFlight ==
    {horizon}
      \cup {t.snapHorizon : t \in ActiveTxns}
      \cup {c - 1 : c \in UNION {t.snapInFlight : t \in ActiveTxns}}

\* compact_watermark(): the minimum of the published horizon, the smallest
\* in-flight id less one, and the same two bounds of every active snapshot.
WatermarkBounds ==
    {horizon}
      \cup {c - 1 : c \in inFlight}
      \cup {t.snapHorizon : t \in ActiveTxns}
      \cup {c - 1 : c \in UNION {t.snapInFlight : t \in ActiveTxns}}

CompactWatermark == Min(WatermarkBounds)

\* lowest_active_snapshot_horizon(): the horizon the DROP-GC broadcast carries.
LowestActiveSnapshotHorizon ==
    IF ActiveTxns = {} THEN horizon ELSE Min({t.snapHorizon : t \in ActiveTxns})

-----------------------------------------------------------------------------
Init ==
    /\ nextTxnId = 0
    /\ currentTs = 1
    /\ active = [s \in Session |-> NoTxn]
    /\ inFlight = {}
    /\ horizon = 0
    /\ phase = "bootstrap"

\* Mutant: only the horizon half of the clock is restored.
RestoreCommitClock_HorizonOnly(frontier) ==
    /\ phase = "bootstrap"
    /\ frontier > 0
    /\ horizon' = Max({horizon, frontier})
    /\ UNCHANGED <<nextTxnId, currentTs, active, inFlight, phase>>

\* restore_commit_clock(frontier), reached through seed_commit_clock_sync, which
\* skips a zero frontier; runs before the schedulers start.
RestoreCommitClock(frontier) ==
    /\ phase = "bootstrap"
    /\ frontier > 0
    /\ currentTs' = Max({currentTs, frontier + 1})
    /\ horizon' = Max({horizon, frontier})
    /\ UNCHANGED <<nextTxnId, active, inFlight, phase>>

\* The schedulers start and the engine takes statements.
StartServing ==
    /\ phase = "bootstrap"
    /\ phase' = "serving"
    /\ UNCHANGED <<nextTxnId, currentTs, active, inFlight, horizon>>

\* Mutant: the snapshot is the bare horizon, without the ids in flight.
BeginTransaction_HorizonOnly(s) ==
    /\ phase = "serving"
    /\ ~IsActive(s)
    /\ currentTs < MaxTs
    /\ active' = [active EXCEPT ![s] = [txnId        |-> nextTxnId,
                                        startTime    |-> currentTs,
                                        snapHorizon  |-> horizon,
                                        snapInFlight |-> {}]]
    /\ nextTxnId' = nextTxnId + 1
    /\ currentTs' = currentTs + 1
    /\ UNCHANGED <<inFlight, horizon, phase>>

\* begin_transaction for a session without one (a second call returns the first).
BeginTransaction(s) ==
    /\ phase = "serving"
    /\ ~IsActive(s)
    /\ currentTs < MaxTs
    /\ active' = [active EXCEPT ![s] = [txnId        |-> nextTxnId,
                                        startTime    |-> currentTs,
                                        snapHorizon  |-> horizon,
                                        snapInFlight |-> inFlight]]
    /\ nextTxnId' = nextTxnId + 1
    /\ currentTs' = currentTs + 1
    /\ UNCHANGED <<inFlight, horizon, phase>>

\* commit: allocates the commit id and parks it in flight; not yet visible.
Commit(s) ==
    /\ IsActive(s)
    /\ currentTs < MaxTs
    /\ currentTs' = currentTs + 1
    /\ active' = [active EXCEPT ![s] = NoTxn]
    /\ inFlight' = inFlight \cup {currentTs}
    /\ UNCHANGED <<nextTxnId, horizon, phase>>

\* Mutant: commits are published in the order of their ids.
Publish_InOrder(c) ==
    /\ c \in inFlight
    /\ c = Min(inFlight)
    /\ inFlight' = inFlight \ {c}
    /\ horizon' = Max({horizon, c})
    /\ UNCHANGED <<nextTxnId, currentTs, active, phase>>

\* publish: the commit pipeline's last step, in any order between pipelines.
Publish(c) ==
    /\ c \in inFlight
    /\ inFlight' = inFlight \ {c}
    /\ horizon' = Max({horizon, c})
    /\ UNCHANGED <<nextTxnId, currentTs, active, phase>>

\* Mutant: the session is marked idle but keeps its old snapshot.
Abort_KeepsSnapshot(s) ==
    /\ IsActive(s)
    /\ active' = [active EXCEPT ![s].txnId = -1]
    /\ UNCHANGED <<nextTxnId, currentTs, inFlight, horizon, phase>>

\* abort: releases the session; nothing else of the manager changes.
Abort(s) ==
    /\ IsActive(s)
    /\ active' = [active EXCEPT ![s] = NoTxn]
    /\ UNCHANGED <<nextTxnId, currentTs, inFlight, horizon, phase>>

Next ==
    \/ \E f \in 1 .. (MaxTs - 1) : RestoreCommitClock(f)
    \/ StartServing
    \/ \E s \in Session : BeginTransaction(s)
    \/ \E s \in Session : Commit(s)
    \/ \E s \in Session : Abort(s)
    \/ \E c \in inFlight : Publish(c)

Spec == Init /\ [][Next]_tmVars

-----------------------------------------------------------------------------
\* Type invariant of transaction_manager_t; a session without a transaction keeps nothing
\* of its last one.
TypeOK ==
    /\ nextTxnId \in Nat
    /\ currentTs \in 1 .. MaxTs
    /\ active \in [Session -> Txn \cup {NoTxn}]
    /\ inFlight \in SUBSET (1 .. MaxTs)
    /\ horizon \in Nat
    /\ phase \in {"bootstrap", "serving"}

\* The clock never reissues a published id: transaction_manager.hpp states
\* "Maintains the invariant current_timestamp_ >= published_horizon_ + 1"
\* for restore_commit_clock; publish must keep it although it only ever looks
\* at the horizon.
ClockAboveHorizon == currentTs >= horizon + 1

\* No snapshot sees a commit that has not been published: whatever the order
\* of begin, commit and publish, an id still in flight is above the horizon of
\* every live snapshot or in its in-flight list.
NoDirtySnapshot ==
    \A s \in Session : IsActive(s) =>
        \A c \in inFlight : ~CommitVisible(active[s], c)

\* compact_watermark(): every commit id at or below it is published, is seen by
\* every live snapshot and would be seen by one taken now.
WatermarkVisibleToAll ==
    \A c \in 1 .. CompactWatermark :
        /\ c <= horizon /\ c \notin inFlight
        /\ \A s \in Session : IsActive(s) => CommitVisible(active[s], c)

\* "A value computed now is never above a value computed later, so it can ride
\* actor messages without re-checks": no step lowers the watermark.
WatermarkMonotone == [][CompactWatermark <= CompactWatermark']_tmVars
=============================================================================
