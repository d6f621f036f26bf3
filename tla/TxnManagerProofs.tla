-------------------------- MODULE TxnManagerProofs --------------------------
(***************************************************************************)
(* Proofs about transaction_manager_t for any set of sessions and any      *)
(* bound on the clock.                                                     *)
(***************************************************************************)
EXTENDS TxnManager, WellFoundedInduction, NaturalsInduction, TLAPS

-----------------------------------------------------------------------------
(* Minimum and maximum.                                                    *)

\* The maximum of two numbers, as publish and restore_commit_clock use it.
LEMMA MaxOfTwo ==
    ASSUME NEW a \in Int, NEW b \in Int
    PROVE  /\ Max({a, b}) \in {a, b}
           /\ Max({a, b}) >= a
           /\ Max({a, b}) >= b
<1>1. \E x \in {a, b} : \A y \in {a, b} : x >= y
  <2>1. CASE a >= b BY <2>1
  <2>2. CASE b >= a BY <2>2
  <2> QED BY <2>1, <2>2
<1> QED BY <1>1 DEF Max

\* A non-empty set of naturals has a least element, and Min returns it.
LEMMA MinOfNats ==
    ASSUME NEW S \in SUBSET Nat, S # {}
    PROVE  Min(S) \in S /\ \A y \in S : Min(S) <= y
<1> DEFINE R == {ss \in Nat \X Nat : ss[1] < ss[2]}
<1>1. IsWellFoundedOn(R, Nat)
  BY NatLessThanWellFounded, Zenon DEF OpToRel
<1>2. \E x \in S : \A y \in S : ~ (<<y, x>> \in R)
  <2> HIDE DEF R
  <2> QED BY <1>1, WFMin, Zenon
<1>3. \E x \in S : \A y \in S : x <= y
  <2>1. PICK x \in S : \A y \in S : ~ (<<y, x>> \in R) BY <1>2
  <2>2. ASSUME NEW y \in S PROVE x <= y
    <3>1. <<y, x>> \in Nat \X Nat OBVIOUS
    <3>2. ~ (y < x) BY <2>1, <3>1
    <3> QED BY <3>2
  <2> QED BY <2>2
<1> QED BY <1>3 DEF Min

-----------------------------------------------------------------------------
(* The inductive invariant.                                                *)

\* No transaction runs and no commit is in flight before the schedulers start:
\* without it, restoring the clock could lift the horizon over an in-flight id.
BootstrapQuiet ==
    phase = "bootstrap" => inFlight = {} /\ \A s \in Session : ~IsActive(s)

\* Ids in flight were drawn from the clock.
InFlightBelowClock == \A c \in inFlight : c < currentTs

\* A live snapshot is in the past of the manager.
SnapshotsInPast ==
    \A s \in Session : IsActive(s) =>
        /\ active[s].snapHorizon <= horizon
        /\ \A c \in active[s].snapInFlight : c < currentTs

IInv ==
    /\ TypeOK
    /\ ClockAboveHorizon
    /\ BootstrapQuiet
    /\ InFlightBelowClock
    /\ SnapshotsInPast
    /\ NoDirtySnapshot

\* The state of a new transaction_manager_t satisfies the inductive invariant.
LEMMA InitIInv == Init => IInv
BY MaxTsAssumption
   DEF Init, IInv, TypeOK, ClockAboveHorizon, BootstrapQuiet, InFlightBelowClock,
       SnapshotsInPast, NoDirtySnapshot, IsActive, NoTxn

\* Every method of the manager preserves the inductive invariant.
LEMMA NextIInv == IInv /\ [Next]_tmVars => IInv'
<1> SUFFICES ASSUME IInv, [Next]_tmVars PROVE IInv'
  OBVIOUS
<1> USE MaxTsAssumption
<1> USE DEF IInv, TypeOK, ClockAboveHorizon, BootstrapQuiet, InFlightBelowClock,
            SnapshotsInPast, NoDirtySnapshot, IsActive, CommitVisible, Txn, NoTxn
<1>1. ASSUME NEW f \in 1 .. (MaxTs - 1), RestoreCommitClock(f) PROVE IInv'
  <2>1. /\ currentTs' \in {currentTs, f + 1} /\ currentTs' >= currentTs /\ currentTs' >= f + 1
        /\ horizon' \in {horizon, f} /\ horizon' >= horizon /\ horizon' >= f
    <3>1. f \in Int /\ f + 1 \in Int /\ currentTs \in Int /\ horizon \in Int
      OBVIOUS
    <3>2. currentTs' = Max({currentTs, f + 1}) /\ horizon' = Max({horizon, f})
      BY <1>1 DEF RestoreCommitClock
    <3> QED BY ONLY <3>1, <3>2, MaxOfTwo
  <2> QED BY <1>1, <2>1 DEF RestoreCommitClock
<1>2. CASE StartServing BY <1>2 DEF StartServing
<1>3. ASSUME NEW s \in Session, BeginTransaction(s) PROVE IInv'
  BY <1>3 DEF BeginTransaction
<1>4. ASSUME NEW s \in Session, Commit(s) PROVE IInv'
  BY <1>4 DEF Commit
<1>5. ASSUME NEW s \in Session, Abort(s) PROVE IInv'
  BY <1>5 DEF Abort
<1>6. ASSUME NEW c \in inFlight, Publish(c) PROVE IInv'
  <2>1. horizon' \in {horizon, c} /\ horizon' >= horizon /\ horizon' >= c
    BY <1>6, MaxOfTwo DEF Publish
  <2> QED BY <1>6, <2>1 DEF Publish
<1>7. CASE UNCHANGED tmVars BY <1>7 DEF tmVars
<1> QED BY <1>1, <1>2, <1>3, <1>4, <1>5, <1>6, <1>7 DEF Next

\* The invariant holds in every reachable state.
LEMMA IInvHolds == Spec => []IInv
BY InitIInv, NextIInv, PTL DEF Spec

-----------------------------------------------------------------------------
(* Invariants.                                                             *)

\* transaction_manager_t keeps its fields in their types.
THEOREM TypeCorrect == Spec => []TypeOK
<1>1. IInv => TypeOK BY DEF IInv
<1> QED BY <1>1, IInvHolds, PTL

\* current_timestamp_ stays above published_horizon_, so commit() never
\* allocates an id that a snapshot already counts as published.
THEOREM ClockCorrect == Spec => []ClockAboveHorizon
<1>1. IInv => ClockAboveHorizon BY DEF IInv
<1> QED BY <1>1, IInvHolds, PTL

\* No snapshot handed out by begin_transaction sees a commit whose publish has
\* not run, in whatever order concurrent pipelines commit and publish.
THEOREM SnapshotsClean == Spec => []NoDirtySnapshot
<1>1. IInv => NoDirtySnapshot BY DEF IInv
<1> QED BY <1>1, IInvHolds, PTL

-----------------------------------------------------------------------------
(* The compact watermark.                                                  *)

\* The bounds compact_watermark takes the minimum of, spelled out.
LEMMA BoundsMembers ==
    ASSUME NEW x
    PROVE  x \in WatermarkBounds <=>
             \/ x = horizon
             \/ \E c \in inFlight : x = c - 1
             \/ \E s \in Session : IsActive(s) /\ x = active[s].snapHorizon
             \/ \E s \in Session : IsActive(s) /\ \E c \in active[s].snapInFlight : x = c - 1
BY DEF WatermarkBounds, ActiveTxns

\* The watermark is one of its bounds and at most each of them.
WatermarkLeast ==
    /\ WatermarkBounds \in SUBSET Nat
    /\ CompactWatermark \in WatermarkBounds
    /\ \A x \in WatermarkBounds : CompactWatermark <= x

\* compact_watermark() is one of its bounds and none is below it.
LEMMA WatermarkIsLeast == IInv => WatermarkLeast
<1> SUFFICES ASSUME IInv PROVE WatermarkLeast
  OBVIOUS
<1>1. \A s \in Session : IsActive(s) => active[s] \in Txn
  BY DEF IInv, TypeOK, IsActive, NoTxn
<1>2. \A x \in WatermarkBounds : x \in Nat
  BY <1>1, BoundsMembers DEF IInv, TypeOK, Txn
<1>3. horizon \in WatermarkBounds BY BoundsMembers
<1> QED BY <1>2, <1>3, MinOfNats DEF CompactWatermark, WatermarkLeast

\* Every commit id at or below the watermark is seen by everybody.
LEMMA WatermarkVisible == IInv => WatermarkVisibleToAll
<1> SUFFICES ASSUME IInv PROVE WatermarkVisibleToAll
  OBVIOUS
<1> SUFFICES ASSUME NEW c \in 1 .. CompactWatermark
             PROVE  /\ c <= horizon /\ c \notin inFlight
                    /\ \A s \in Session : IsActive(s) => CommitVisible(active[s], c)
  BY DEF WatermarkVisibleToAll
<1>1. \A x \in WatermarkBounds : x \in Nat /\ CompactWatermark \in Nat /\ c \in Nat /\ c <= x
  BY WatermarkIsLeast DEF WatermarkLeast
<1>2. c <= horizon BY <1>1, BoundsMembers
<1>3. c \notin inFlight
  <2>1. \A d \in inFlight : d - 1 \in WatermarkBounds BY BoundsMembers
  <2> QED BY <1>1, <2>1 DEF IInv, TypeOK
<1>4. ASSUME NEW s \in Session, IsActive(s) PROVE CommitVisible(active[s], c)
  <2>1. active[s].snapHorizon \in WatermarkBounds BY <1>4, BoundsMembers
  <2>2. \A d \in active[s].snapInFlight : d - 1 \in WatermarkBounds
    BY <1>4, BoundsMembers
  <2>3. active[s] \in Txn BY <1>4 DEF IInv, TypeOK, IsActive, NoTxn
  <2> QED BY <1>1, <2>1, <2>2, <2>3 DEF CommitVisible, Txn
<1> QED BY <1>2, <1>3, <1>4

\* Every commit id at or below compact_watermark() is published and seen by
\* every live snapshot, so collapsing its version history loses nothing.
THEOREM WatermarkCorrect == Spec => []WatermarkVisibleToAll
BY WatermarkVisible, IInvHolds, PTL

\* Each bound after a step is at least some bound before it.
LEMMA BoundsGrow ==
    ASSUME IInv, [Next]_tmVars, NEW y \in WatermarkBounds'
    PROVE  \E x \in WatermarkBounds : x <= y
<1>0. \/ y = horizon'
      \/ \E c \in inFlight' : y = c - 1
      \/ \E s \in Session : IsActive(s)' /\ y = active'[s].snapHorizon
      \/ \E s \in Session : IsActive(s)' /\ \E c \in active'[s].snapInFlight : y = c - 1
  BY DEF WatermarkBounds, ActiveTxns, IsActive
<1>a. WatermarkBounds \in SUBSET Nat /\ horizon \in Nat /\ currentTs \in Nat
  BY WatermarkIsLeast DEF WatermarkLeast, IInv, TypeOK
<1>b. SUFFICES ASSUME y \notin WatermarkBounds
               PROVE  y \in Int /\ horizon <= y
  <2>1. CASE y \in WatermarkBounds
    <3>1. y <= y BY <2>1, <1>a
    <3> QED BY <2>1, <3>1
  <2>2. CASE y \in Int /\ horizon <= y
    <3>1. horizon \in WatermarkBounds BY BoundsMembers
    <3> QED BY <2>2, <3>1
  <2> QED BY <2>1, <2>2
<1>1. ASSUME NEW f \in 1 .. (MaxTs - 1), RestoreCommitClock(f)
      PROVE  y \in Int /\ horizon <= y
  <2>1. horizon' \in {horizon, f} /\ horizon' >= horizon
    BY <1>1, <1>a, MaxOfTwo DEF RestoreCommitClock
  <2>2. y = horizon'
    BY <1>0, <1>1, <1>b, BoundsMembers DEF RestoreCommitClock, IsActive
  <2> QED BY <2>1, <2>2, <1>a
<1>2. CASE StartServing
  BY <1>0, <1>2, <1>b, BoundsMembers DEF StartServing, IsActive
<1>3. ASSUME NEW s \in Session, BeginTransaction(s) PROVE y \in Int /\ horizon <= y
  BY <1>0, <1>3, <1>b, BoundsMembers DEF BeginTransaction, IsActive, IInv, TypeOK
<1>4. ASSUME NEW s \in Session, Commit(s) PROVE y \in Int /\ horizon <= y
  <2>1. y = currentTs - 1
    BY <1>0, <1>4, <1>b, BoundsMembers DEF Commit, IsActive, IInv, TypeOK, NoTxn
  <2> QED BY <2>1, <1>a DEF IInv, ClockAboveHorizon
<1>5. ASSUME NEW s \in Session, Abort(s) PROVE y \in Int /\ horizon <= y
  BY <1>0, <1>5, <1>b, BoundsMembers DEF Abort, IsActive, IInv, TypeOK, NoTxn
<1>6. ASSUME NEW c \in inFlight, Publish(c) PROVE y \in Int /\ horizon <= y
  <2>1. horizon' \in {horizon, c} /\ horizon' >= horizon /\ c \in Int
    <3>1. c \in Int /\ horizon \in Int /\ horizon' = Max({horizon, c})
      BY <1>6, <1>a DEF Publish, IInv, TypeOK
    <3> QED BY ONLY <3>1, MaxOfTwo
  <2>2. y = horizon'
    BY <1>0, <1>6, <1>b, BoundsMembers DEF Publish, IsActive
  <2> QED BY <2>1, <2>2, <1>a
<1>7. CASE UNCHANGED tmVars
  BY <1>0, <1>7, <1>b, BoundsMembers DEF tmVars, IsActive
<1> QED BY <1>1, <1>2, <1>3, <1>4, <1>5, <1>6, <1>7 DEF Next

\* No method of the manager lowers the watermark.
LEMMA WatermarkStep ==
    ASSUME IInv, IInv', [Next]_tmVars
    PROVE  CompactWatermark <= CompactWatermark'
<1>1. WatermarkLeast BY WatermarkIsLeast
<1>2. WatermarkLeast' BY WatermarkIsLeast, PTL
<1>3. PICK x \in WatermarkBounds : x <= CompactWatermark'
  BY <1>2, BoundsGrow DEF WatermarkLeast
<1> QED BY <1>1, <1>2, <1>3 DEF WatermarkLeast

\* compact_watermark() never moves down, so a value computed earlier and carried
\* by an actor message still bounds what every later snapshot can see.
THEOREM WatermarkNeverFalls == Spec => WatermarkMonotone
<1>1. IInv /\ IInv' /\ [Next]_tmVars => CompactWatermark <= CompactWatermark'
  BY WatermarkStep
<1> QED BY <1>1, IInvHolds, PTL DEF Spec, WatermarkMonotone

\* The clock and the transaction ids only grow, and stay apart.
LEMMA ClockStep ==
    ASSUME IInv, [Next]_tmVars
    PROVE  /\ nextTxnId' \in Nat /\ nextTxnId' >= nextTxnId
           /\ currentTs' \in Nat /\ currentTs' >= currentTs
           /\ nextTxnId < currentTs => nextTxnId' < currentTs'
<1> USE MaxTsAssumption DEF IInv, TypeOK
<1>1. ASSUME NEW f \in 1 .. (MaxTs - 1), RestoreCommitClock(f)
      PROVE  currentTs' \in Nat /\ currentTs' >= currentTs /\ nextTxnId' = nextTxnId
  <2>1. currentTs \in Int /\ f + 1 \in Int /\ currentTs' = Max({currentTs, f + 1})
    BY <1>1 DEF RestoreCommitClock
  <2>2. currentTs' \in {currentTs, f + 1} /\ currentTs' >= currentTs
    BY ONLY <2>1, MaxOfTwo
  <2> QED BY <1>1, <2>2 DEF RestoreCommitClock
<1>2. CASE StartServing BY <1>2 DEF StartServing
<1>3. ASSUME NEW s \in Session, BeginTransaction(s) \/ Commit(s) \/ Abort(s)
      PROVE  /\ nextTxnId' \in Nat /\ nextTxnId' >= nextTxnId
             /\ currentTs' \in Nat /\ currentTs' >= currentTs
             /\ nextTxnId < currentTs => nextTxnId' < currentTs'
  BY <1>3 DEF BeginTransaction, Commit, Abort
<1>4. ASSUME NEW c \in inFlight, Publish(c)
      PROVE  currentTs' = currentTs /\ nextTxnId' = nextTxnId
  BY <1>4 DEF Publish
<1>5. CASE UNCHANGED tmVars BY <1>5 DEF tmVars
<1> QED BY <1>1, <1>2, <1>3, <1>4, <1>5 DEF Next
=============================================================================
