--------------------------- MODULE SnapshotStore ---------------------------
(***************************************************************************)
(* What the transaction layer promises its clients, without commit ids,    *)
(* stamps, row positions or message chains: a set of rows, snapshots of    *)
(* it, private writes, and commits that change the set in one step.        *)
(***************************************************************************)
CONSTANT Session

VARIABLES
    db,       \* the rows a new transaction would see
    status,   \* "none", "active" or "committing"
    snap,     \* the rows the transaction's snapshot holds
    ins,      \* the rows it inserted
    del       \* the rows it deleted

storeVars == <<db, status, snap, ins, del>>

StoreInit ==
    /\ status = [s \in Session |-> "none"]
    /\ snap = [s \in Session |-> {}]
    /\ ins = [s \in Session |-> {}]
    /\ del = [s \in Session |-> {}]

\* What the session's own statements read.
View(s) == (snap[s] \cup ins[s]) \ del[s]

Known == db \cup UNION {snap[s] \cup ins[s] \cup del[s] : s \in Session}

StoreBegin(s) ==
    /\ status[s] = "none"
    /\ status' = [status EXCEPT ![s] = "active"]
    /\ snap' = [snap EXCEPT ![s] = db]
    /\ UNCHANGED <<db, ins, del>>

\* A statement inserts new rows and deletes rows of its own view; nobody else
\* notices.  Which of the matching rows it deletes is left open: a row that
\* another transaction has marked is skipped.
StoreWrite(s) ==
    /\ status[s] = "active"
    /\ \E new \in {ins'[s] \ ins[s]}, gone \in {del'[s] \ del[s]} :
          /\ new \cap Known = {}
          /\ gone \subseteq View(s)
          /\ ins' = [ins EXCEPT ![s] = @ \cup new]
          /\ del' = [del EXCEPT ![s] = @ \cup gone]
    /\ UNCHANGED <<db, status, snap>>

\* The outcome is decided, nothing is visible yet.
StoreCommit(s) ==
    /\ status[s] = "active"
    /\ status' = [status EXCEPT ![s] = "committing"]
    /\ snap' = [snap EXCEPT ![s] = {}]
    /\ UNCHANGED <<db, ins, del>>

\* All writes of the transaction become visible in one step.
StorePublish(s) ==
    /\ status[s] = "committing"
    /\ db' = (db \cup ins[s]) \ del[s]
    /\ status' = [status EXCEPT ![s] = "none"]
    /\ ins' = [ins EXCEPT ![s] = {}]
    /\ del' = [del EXCEPT ![s] = {}]
    /\ UNCHANGED snap

\* Rolled back, failed or abandoned: nothing becomes visible, ever.
StoreAbort(s) ==
    /\ status[s] # "none"
    /\ status' = [status EXCEPT ![s] = "none"]
    /\ snap' = [snap EXCEPT ![s] = {}]
    /\ ins' = [ins EXCEPT ![s] = {}]
    /\ del' = [del EXCEPT ![s] = {}]
    /\ UNCHANGED db

StoreNext ==
    \E s \in Session :
        StoreBegin(s) \/ StoreWrite(s) \/ StoreCommit(s) \/ StorePublish(s) \/ StoreAbort(s)

StoreSpec == StoreInit /\ [][StoreNext]_storeVars
=============================================================================
