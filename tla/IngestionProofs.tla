--------------------------- MODULE IngestionProofs ---------------------------
(***************************************************************************)
(* Proofs about Ingestion for any number of workers, queue entries, job    *)
(* rows, pages and items.                                                  *)
(***************************************************************************)
EXTENDS Ingestion, TLAPS

\* The local variables of a worker that is in the middle of a task.
WorkerOK(w) ==
    /\ pc[w] # "idle" => runs[w] \in Tasks
    /\ pc[w] \in {"idle", "lock"} => seen[w] = "expired"
    /\ pc[w] \in {"fetch", "items"} => page[w] \in 1..NumPages
    /\ pc[w] \in Reporting => job[w] \in Jobs

TypeInv == TypeOK /\ \A w \in Workers : WorkerOK(w)

\* The lock names the worker that is syncing, and only that worker.
LockInv == \A w \in Workers : pc[w] \in Syncing => lock = w

\* What the worker at the lock has made durable: every earlier page, and the
\* items of its page it has counted.
LedgerInv ==
    /\ PagesBefore(checkpoint) \subseteq ledger
    /\ \A w \in Workers :
        /\ pc[w] \in {"fetch", "items"} => PagesBefore(page[w]) \subseteq ledger
        /\ pc[w] = "items" =>
             \A i \in 1..item[w] : <<page[w], i>> \in ledger

\* A running row belongs to a worker at work or to one that has gone; a
\* worker's own row is running until it reports.
RowInv ==
    /\ OneRunningRow
    /\ \A w \in Workers : pc[w] \in {"fetch", "items", "failing"} =>
          jobs[job[w]] = "running"
    /\ \A w \in Workers : pc[w] = "settle" => jobs[job[w]] = "failed"
    /\ \A w \in Workers : job[w] \in Jobs => jobs[job[w]] # "none"
    /\ \A v, w \in Workers : job[v] = job[w] /\ job[v] # NoJob => v = w

IndInv == TypeInv /\ LockInv /\ LedgerInv /\ RowInv


-----------------------------------------------------------------------------
\* The stutter and every action keep the types: no lock is needed for that.
LEMMA TypeInvStep == TypeInv /\ [Next]_vars => TypeInv'
<1> SUFFICES ASSUME TypeInv, [Next]_vars
             PROVE  TypeInv'
    OBVIOUS
<1> USE ConstantsOK
<1> USE DEF TypeInv, TypeOK, WorkerOK, Statuses, JobStates, QueueState, Stages,
            Outcomes, Reporting, connVars, queueVars, workerVars
<1>1. ASSUME NEW t \in Tasks, Enqueue(t)
      PROVE  TypeInv'
    BY <1>1 DEF Enqueue
<1>2. ASSUME NEW t \in Tasks, RerunAbandoned(t)
      PROVE  TypeInv'
    BY <1>2 DEF RerunAbandoned
<1>3. ASSUME NEW w \in Workers, NEW t \in Tasks, StartTask(w, t)
      PROVE  TypeInv'
    BY <1>3 DEF StartTask
<1>4. ASSUME NEW w \in Workers, AcquireLock(w)
      PROVE  TypeInv'
    BY <1>4 DEF AcquireLock, LockFree
<1>5. ASSUME NEW w \in Workers, SkipDuplicate(w)
      PROVE  TypeInv'
    BY <1>5 DEF SkipDuplicate, GoTo, LockFree
<1>6. ASSUME NEW w \in Workers, AcquireFails(w)
      PROVE  TypeInv'
    BY <1>6 DEF AcquireFails, GoTo, LockFree, RetryOrGiveUp
<1>7. ASSUME NEW w \in Workers, RefuseDisconnected(w)
      PROVE  TypeInv'
    BY <1>7 DEF RefuseDisconnected, GoTo
<1>8. ASSUME NEW w \in Workers, SetupFails(w)
      PROVE  TypeInv'
    BY <1>8 DEF SetupFails, GoTo, RetryOrGiveUp
<1>9. ASSUME NEW w \in Workers, FetchPage(w)
      PROVE  TypeInv'
    BY <1>9 DEF FetchPage
<1>10. ASSUME NEW w \in Workers, ProcessItem(w)
      PROVE  TypeInv'
    BY <1>10 DEF ProcessItem, Items
<1>11. ASSUME NEW w \in Workers, RetryItem(w)
      PROVE  TypeInv'
    BY <1>11 DEF RetryItem
<1>12. ASSUME NEW w \in Workers, SaveCheckpoint(w)
      PROVE  TypeInv'
    BY <1>12 DEF SaveCheckpoint, PageDone
<1>13. ASSUME NEW w \in Workers, CompleteJob(w)
      PROVE  TypeInv'
    BY <1>13 DEF CompleteJob, PageDone, UpdateConnectorSyncStatus, GoTo
<1>14. ASSUME NEW w \in Workers, SyncRaises(w)
      PROVE  TypeInv'
    BY <1>14 DEF SyncRaises, GoTo
<1>15. ASSUME NEW w \in Workers, RecordFailure(w)
      PROVE  TypeInv'
    BY <1>15 DEF RecordFailure, StatusAfterFailure
<1>16. ASSUME NEW w \in Workers, FailureNotRecorded(w)
      PROVE  TypeInv'
    BY <1>16 DEF FailureNotRecorded, GoTo, RetryOrGiveUp
<1>17. ASSUME NEW w \in Workers, SettleFailed(w)
      PROVE  TypeInv'
    BY <1>17 DEF SettleFailed, LastAttempt, GoTo, RetryOrGiveUp
<1>18. ASSUME NEW w \in Workers, Cancel(w)
      PROVE  TypeInv'
    BY <1>18 DEF Cancel, GoTo, LockFree
<1>19. ASSUME NEW w \in Workers, EndTask(w)
      PROVE  TypeInv'
    BY <1>19 DEF EndTask, NextQueueStates, ReleaseLock, Forget
<1>20. ASSUME NEW w \in Workers, Crash(w)
      PROVE  TypeInv'
    BY <1>20 DEF Crash, Forget
<1>21. ASSUME NEW w \in Workers, NEW j \in Jobs, StartJob(w, j)
      PROVE  TypeInv'
    BY <1>21 DEF StartJob, InsertIngestionJob, Recovered, ResumePages
<1>22. ASSUME NEW j \in Jobs, Archive(j)
      PROVE  TypeInv'
    BY <1>22 DEF Archive
<1>23. ASSUME DisconnectConnector
      PROVE  TypeInv'
    BY <1>23 DEF DisconnectConnector
<1>24. ASSUME LockExpires
      PROVE  TypeInv'
    BY <1>24 DEF LockExpires
<1>25. ASSUME LoseLock
      PROVE  TypeInv'
    BY <1>25 DEF LoseLock
<1>27. ASSUME NEW w \in Workers, LoadConnector(w)
      PROVE  TypeInv'
    BY <1>27 DEF LoadConnector, PageDone
<1>28. ASSUME NEW w \in Workers, FallbackSession(w)
      PROVE  TypeInv'
    BY <1>28 DEF FallbackSession
<1>26. ASSUME UNCHANGED vars
      PROVE  TypeInv'
    BY <1>26 DEF vars
<1> QED
    BY <1>1, <1>2, <1>3, <1>4, <1>5, <1>6, <1>7, <1>8, <1>9,
       <1>10, <1>11, <1>12, <1>13, <1>14, <1>15, <1>16, <1>17, <1>18,
       <1>19, <1>20, <1>21, <1>22, <1>23, <1>24, <1>25, <1>26,
       <1>27, <1>28 DEF Next, Sync, SyncConnector,
       ScheduledReconciliation, ReplayIngestionRun

\* Every variable keeps its type, with or without a reliable lock.
THEOREM TypeCorrect == Spec => []TypeOK
<1>1. Init => TypeInv
    BY ConstantsOK DEF Init, InitWith, TypeInv, TypeOK, WorkerOK, Statuses, JobStates,
       QueueState, Stages, Outcomes, Reporting, Items
<1>2. TypeInv => TypeOK
    BY DEF TypeInv
<1> QED
    BY <1>1, <1>2, TypeInvStep, PTL DEF Spec

-----------------------------------------------------------------------------
\* With a lock that Redis does not forget, only its holder is syncing.
LEMMA LockInvStep ==
    ASSUME LockLoss = FALSE, TypeInv, LockInv, [Next]_vars
    PROVE  LockInv'
<1> USE ConstantsOK
<1> USE DEF LockInv, TypeInv, TypeOK, Syncing, connVars, queueVars, workerVars
<1>1. ASSUME NEW t \in Tasks, Enqueue(t)
      PROVE  LockInv'
    BY <1>1 DEF Enqueue
<1>2. ASSUME NEW t \in Tasks, RerunAbandoned(t)
      PROVE  LockInv'
    BY <1>2 DEF RerunAbandoned
<1>3. ASSUME NEW w \in Workers, NEW t \in Tasks, StartTask(w, t)
      PROVE  LockInv'
    BY <1>3 DEF StartTask
<1>4. ASSUME NEW w \in Workers, AcquireLock(w)
      PROVE  LockInv'
    BY <1>4 DEF AcquireLock, LockFree
<1>5. ASSUME NEW w \in Workers, SkipDuplicate(w)
      PROVE  LockInv'
    BY <1>5 DEF SkipDuplicate, GoTo, LockFree
<1>6. ASSUME NEW w \in Workers, AcquireFails(w)
      PROVE  LockInv'
    BY <1>6 DEF AcquireFails, GoTo, LockFree
<1>7. ASSUME NEW w \in Workers, RefuseDisconnected(w)
      PROVE  LockInv'
    BY <1>7 DEF RefuseDisconnected, GoTo
<1>8. ASSUME NEW w \in Workers, SetupFails(w)
      PROVE  LockInv'
    BY <1>8 DEF SetupFails, GoTo
<1>9. ASSUME NEW w \in Workers, NEW j \in Jobs, StartJob(w, j)
      PROVE  LockInv'
    BY <1>9 DEF StartJob, InsertIngestionJob, Recovered, ResumePages
<1>10. ASSUME NEW w \in Workers, FetchPage(w)
      PROVE  LockInv'
    BY <1>10 DEF FetchPage
<1>11. ASSUME NEW w \in Workers, ProcessItem(w)
      PROVE  LockInv'
    BY <1>11 DEF ProcessItem
<1>12. ASSUME NEW w \in Workers, RetryItem(w)
      PROVE  LockInv'
    BY <1>12 DEF RetryItem
<1>13. ASSUME NEW w \in Workers, SaveCheckpoint(w)
      PROVE  LockInv'
    BY <1>13 DEF SaveCheckpoint, PageDone
<1>14. ASSUME NEW w \in Workers, CompleteJob(w)
      PROVE  LockInv'
    BY <1>14 DEF CompleteJob, PageDone, GoTo, UpdateConnectorSyncStatus
<1>15. ASSUME NEW w \in Workers, SyncRaises(w)
      PROVE  LockInv'
    BY <1>15 DEF SyncRaises, GoTo
<1>16. ASSUME NEW w \in Workers, RecordFailure(w)
      PROVE  LockInv'
    BY <1>16 DEF RecordFailure
<1>17. ASSUME NEW w \in Workers, FailureNotRecorded(w)
      PROVE  LockInv'
    BY <1>17 DEF FailureNotRecorded, GoTo
<1>18. ASSUME NEW w \in Workers, SettleFailed(w)
      PROVE  LockInv'
    BY <1>18 DEF SettleFailed, GoTo
<1>19. ASSUME NEW w \in Workers, Cancel(w)
      PROVE  LockInv'
    BY <1>19 DEF Cancel, GoTo, LockFree
<1>20. ASSUME NEW w \in Workers, EndTask(w)
      PROVE  LockInv'
    BY <1>20 DEF EndTask, ReleaseLock, Forget
<1>21. ASSUME NEW w \in Workers, Crash(w)
      PROVE  LockInv'
    BY <1>21 DEF Crash, Forget
<1>22. ASSUME NEW j \in Jobs, Archive(j)
      PROVE  LockInv'
    BY <1>22 DEF Archive
<1>23. ASSUME DisconnectConnector
      PROVE  LockInv'
    BY <1>23 DEF DisconnectConnector
<1>24. ASSUME LockExpires
      PROVE  LockInv'
    BY <1>24 DEF LockExpires
<1>25. ASSUME LoseLock
      PROVE  LockInv'
    BY <1>25 DEF LoseLock
<1>27. ASSUME NEW w \in Workers, LoadConnector(w)
      PROVE  LockInv'
    BY <1>27 DEF LoadConnector, PageDone
<1>28. ASSUME NEW w \in Workers, FallbackSession(w)
      PROVE  LockInv'
    BY <1>28 DEF FallbackSession
<1>26. ASSUME UNCHANGED vars
      PROVE  LockInv'
    BY <1>26 DEF vars
<1> QED
    BY <1>1, <1>2, <1>3, <1>4, <1>5, <1>6, <1>7, <1>8, <1>9,
       <1>10, <1>11, <1>12, <1>13, <1>14, <1>15, <1>16, <1>17, <1>18,
       <1>19, <1>20, <1>21, <1>22, <1>23, <1>24, <1>25, <1>26,
       <1>27, <1>28 DEF Next, Sync, SyncConnector,
       ScheduledReconciliation, ReplayIngestionRun

\* At most one sync runs at a time, over all workers and replicas.
THEOREM OneSyncAtATime == LockLoss = FALSE /\ Spec => []NoConcurrentSync
<1> SUFFICES ASSUME LockLoss = FALSE PROVE Spec => []NoConcurrentSync
    OBVIOUS
<1>1. Init => TypeInv /\ LockInv
    BY ConstantsOK DEF Init, InitWith, TypeInv, TypeOK, WorkerOK, LockInv, Statuses,
       JobStates, QueueState, Stages, Outcomes, Reporting, Syncing, Items
<1>2. TypeInv /\ LockInv /\ [Next]_vars => (TypeInv /\ LockInv)'
    BY TypeInvStep, LockInvStep
<1>3. TypeInv /\ LockInv => NoConcurrentSync
    BY DEF LockInv, NoConcurrentSync
<1> QED
    BY <1>1, <1>2, <1>3, PTL DEF Spec

-----------------------------------------------------------------------------
\* The worker at the lock knows what is durable, because nobody else closes
\* the window under it.
LEMMA LedgerInvStep ==
    ASSUME LockLoss = FALSE, TypeInv, LockInv, LedgerInv, [Next]_vars
    PROVE  LedgerInv'
<1> USE ConstantsOK
<1> USE DEF LedgerInv, LockInv, TypeInv, TypeOK, WorkerOK, Syncing, PagesBefore,
            Items, connVars, queueVars, workerVars
<1>1. ASSUME NEW t \in Tasks, Enqueue(t)
      PROVE  LedgerInv'
    BY <1>1 DEF Enqueue
<1>2. ASSUME NEW t \in Tasks, RerunAbandoned(t)
      PROVE  LedgerInv'
    BY <1>2 DEF RerunAbandoned
<1>3. ASSUME NEW w \in Workers, NEW t \in Tasks, StartTask(w, t)
      PROVE  LedgerInv'
    BY <1>3 DEF StartTask
<1>4. ASSUME NEW w \in Workers, AcquireLock(w)
      PROVE  LedgerInv'
    BY <1>4 DEF AcquireLock, LockFree
<1>5. ASSUME NEW w \in Workers, SkipDuplicate(w)
      PROVE  LedgerInv'
    BY <1>5 DEF SkipDuplicate, GoTo, LockFree
<1>6. ASSUME NEW w \in Workers, AcquireFails(w)
      PROVE  LedgerInv'
    BY <1>6 DEF AcquireFails, GoTo, LockFree
<1>7. ASSUME NEW w \in Workers, RefuseDisconnected(w)
      PROVE  LedgerInv'
    BY <1>7 DEF RefuseDisconnected, GoTo
<1>8. ASSUME NEW w \in Workers, SetupFails(w)
      PROVE  LedgerInv'
    BY <1>8 DEF SetupFails, GoTo
<1>9. ASSUME NEW w \in Workers, NEW j \in Jobs, StartJob(w, j)
      PROVE  LedgerInv'
    BY <1>9 DEF StartJob, InsertIngestionJob, Recovered, ResumePages
<1>10. ASSUME NEW w \in Workers, FetchPage(w)
      PROVE  LedgerInv'
    BY <1>10 DEF FetchPage
<1>11. ASSUME NEW w \in Workers, ProcessItem(w)
      PROVE  LedgerInv'
    BY <1>11 DEF ProcessItem
<1>12. ASSUME NEW w \in Workers, RetryItem(w)
      PROVE  LedgerInv'
    BY <1>12 DEF RetryItem
<1>13. ASSUME NEW w \in Workers, SaveCheckpoint(w)
      PROVE  LedgerInv'
  <2>1. \A x \in Items : x[1] < page[w] + 1 => x \in ledger
    <3> SUFFICES ASSUME NEW p \in 1..NumPages, NEW i \in 1..ItemsPerPage,
                        p < page[w] + 1
                 PROVE  <<p, i>> \in ledger
        BY DEF Items
    <3>1. CASE p < page[w]
        BY <1>13, <3>1 DEF SaveCheckpoint, PageDone
    <3>2. CASE p = page[w]
        BY <1>13, <3>2 DEF SaveCheckpoint, PageDone
    <3> QED
        BY <3>1, <3>2
  <2>2. \A v \in Workers : v # w => pc[v] \notin {"fetch", "items"}
    BY <1>13 DEF SaveCheckpoint, PageDone
  <2>3. checkpoint' \in {checkpoint, page[w] + 1} /\ ledger' = ledger
    BY <1>13 DEF SaveCheckpoint
  <2>4. page'[w] = page[w] + 1 /\ pc'[w] = "fetch"
    BY <1>13 DEF SaveCheckpoint, PageDone
  <2>5. \A v \in Workers : v # w => pc'[v] = pc[v] /\ page'[v] = page[v]
    BY <1>13 DEF SaveCheckpoint
  <2> QED
    BY <2>1, <2>2, <2>3, <2>4, <2>5
<1>14. ASSUME NEW w \in Workers, CompleteJob(w)
      PROVE  LedgerInv'
    BY <1>14 DEF CompleteJob, PageDone, GoTo, UpdateConnectorSyncStatus
<1>15. ASSUME NEW w \in Workers, SyncRaises(w)
      PROVE  LedgerInv'
    BY <1>15 DEF SyncRaises, GoTo
<1>16. ASSUME NEW w \in Workers, RecordFailure(w)
      PROVE  LedgerInv'
    BY <1>16 DEF RecordFailure
<1>17. ASSUME NEW w \in Workers, FailureNotRecorded(w)
      PROVE  LedgerInv'
    BY <1>17 DEF FailureNotRecorded, GoTo
<1>18. ASSUME NEW w \in Workers, SettleFailed(w)
      PROVE  LedgerInv'
    BY <1>18 DEF SettleFailed, GoTo
<1>19. ASSUME NEW w \in Workers, Cancel(w)
      PROVE  LedgerInv'
    BY <1>19 DEF Cancel, GoTo, LockFree
<1>20. ASSUME NEW w \in Workers, EndTask(w)
      PROVE  LedgerInv'
    BY <1>20 DEF EndTask, ReleaseLock, Forget
<1>21. ASSUME NEW w \in Workers, Crash(w)
      PROVE  LedgerInv'
    BY <1>21 DEF Crash, Forget
<1>22. ASSUME NEW j \in Jobs, Archive(j)
      PROVE  LedgerInv'
    BY <1>22 DEF Archive
<1>23. ASSUME DisconnectConnector
      PROVE  LedgerInv'
    BY <1>23 DEF DisconnectConnector
<1>24. ASSUME LockExpires
      PROVE  LedgerInv'
    BY <1>24 DEF LockExpires
<1>25. ASSUME LoseLock
      PROVE  LedgerInv'
    BY <1>25 DEF LoseLock
<1>27. ASSUME NEW w \in Workers, LoadConnector(w)
      PROVE  LedgerInv'
    BY <1>27 DEF LoadConnector, PageDone
<1>28. ASSUME NEW w \in Workers, FallbackSession(w)
      PROVE  LedgerInv'
    BY <1>28 DEF FallbackSession
<1>26. ASSUME UNCHANGED vars
      PROVE  LedgerInv'
    BY <1>26 DEF vars
<1> QED
    BY <1>1, <1>2, <1>3, <1>4, <1>5, <1>6, <1>7, <1>8, <1>9,
       <1>10, <1>11, <1>12, <1>13, <1>14, <1>15, <1>16, <1>17, <1>18,
       <1>19, <1>20, <1>21, <1>22, <1>23, <1>24, <1>25, <1>26,
       <1>27, <1>28 DEF Next, Sync, SyncConnector,
       ScheduledReconciliation, ReplayIngestionRun

-----------------------------------------------------------------------------
\* A worker's own row is the running one until it reports on it.
LEMMA RowInvStep ==
    ASSUME LockLoss = FALSE, TypeInv, LockInv, RowInv, [Next]_vars
    PROVE  RowInv'
<1> USE ConstantsOK
<1> USE DEF RowInv, OneRunningRow, LockInv, TypeInv, TypeOK, WorkerOK, Syncing,
            Reporting, connVars, queueVars, workerVars
<1>1. ASSUME NEW t \in Tasks, Enqueue(t)
      PROVE  RowInv'
    BY <1>1 DEF Enqueue
<1>2. ASSUME NEW t \in Tasks, RerunAbandoned(t)
      PROVE  RowInv'
    BY <1>2 DEF RerunAbandoned
<1>3. ASSUME NEW w \in Workers, NEW t \in Tasks, StartTask(w, t)
      PROVE  RowInv'
    BY <1>3 DEF StartTask
<1>4. ASSUME NEW w \in Workers, AcquireLock(w)
      PROVE  RowInv'
    BY <1>4 DEF AcquireLock, LockFree
<1>5. ASSUME NEW w \in Workers, SkipDuplicate(w)
      PROVE  RowInv'
    BY <1>5 DEF SkipDuplicate, GoTo, LockFree
<1>6. ASSUME NEW w \in Workers, AcquireFails(w)
      PROVE  RowInv'
    BY <1>6 DEF AcquireFails, GoTo, LockFree
<1>7. ASSUME NEW w \in Workers, RefuseDisconnected(w)
      PROVE  RowInv'
    BY <1>7 DEF RefuseDisconnected, GoTo
<1>8. ASSUME NEW w \in Workers, SetupFails(w)
      PROVE  RowInv'
    BY <1>8 DEF SetupFails, GoTo
<1>9. ASSUME NEW w \in Workers, NEW j \in Jobs, StartJob(w, j)
      PROVE  RowInv'
    BY <1>9 DEF StartJob, InsertIngestionJob, Recovered, ResumePages
<1>10. ASSUME NEW w \in Workers, FetchPage(w)
      PROVE  RowInv'
    BY <1>10 DEF FetchPage
<1>11. ASSUME NEW w \in Workers, ProcessItem(w)
      PROVE  RowInv'
    BY <1>11 DEF ProcessItem
<1>12. ASSUME NEW w \in Workers, RetryItem(w)
      PROVE  RowInv'
    BY <1>12 DEF RetryItem
<1>13. ASSUME NEW w \in Workers, SaveCheckpoint(w)
      PROVE  RowInv'
    BY <1>13 DEF SaveCheckpoint, PageDone
<1>14. ASSUME NEW w \in Workers, CompleteJob(w)
      PROVE  RowInv'
    BY <1>14 DEF CompleteJob, PageDone, GoTo, UpdateConnectorSyncStatus
<1>15. ASSUME NEW w \in Workers, SyncRaises(w)
      PROVE  RowInv'
    BY <1>15 DEF SyncRaises, GoTo
<1>16. ASSUME NEW w \in Workers, RecordFailure(w)
      PROVE  RowInv'
    BY <1>16 DEF RecordFailure
<1>17. ASSUME NEW w \in Workers, FailureNotRecorded(w)
      PROVE  RowInv'
    BY <1>17 DEF FailureNotRecorded, GoTo
<1>18. ASSUME NEW w \in Workers, SettleFailed(w)
      PROVE  RowInv'
    BY <1>18 DEF SettleFailed, GoTo
<1>19. ASSUME NEW w \in Workers, Cancel(w)
      PROVE  RowInv'
    BY <1>19 DEF Cancel, GoTo, LockFree
<1>20. ASSUME NEW w \in Workers, EndTask(w)
      PROVE  RowInv'
    BY <1>20 DEF EndTask, ReleaseLock, Forget
<1>21. ASSUME NEW w \in Workers, Crash(w)
      PROVE  RowInv'
    BY <1>21 DEF Crash, Forget
<1>22. ASSUME NEW j \in Jobs, Archive(j)
      PROVE  RowInv'
    BY <1>22 DEF Archive
<1>23. ASSUME DisconnectConnector
      PROVE  RowInv'
    BY <1>23 DEF DisconnectConnector
<1>24. ASSUME LockExpires
      PROVE  RowInv'
    BY <1>24 DEF LockExpires
<1>25. ASSUME LoseLock
      PROVE  RowInv'
    BY <1>25 DEF LoseLock
<1>27. ASSUME NEW w \in Workers, LoadConnector(w)
      PROVE  RowInv'
    BY <1>27 DEF LoadConnector, PageDone
<1>28. ASSUME NEW w \in Workers, FallbackSession(w)
      PROVE  RowInv'
    BY <1>28 DEF FallbackSession
<1>26. ASSUME UNCHANGED vars
      PROVE  RowInv'
    BY <1>26 DEF vars
<1> QED
    BY <1>1, <1>2, <1>3, <1>4, <1>5, <1>6, <1>7, <1>8, <1>9,
       <1>10, <1>11, <1>12, <1>13, <1>14, <1>15, <1>16, <1>17, <1>18,
       <1>19, <1>20, <1>21, <1>22, <1>23, <1>24, <1>25, <1>26,
       <1>27, <1>28 DEF Next, Sync, SyncConnector,
       ScheduledReconciliation, ReplayIngestionRun

\* The inductive invariant holds at the start,
LEMMA IndInvInit == Init => IndInv
    BY ConstantsOK DEF Init, InitWith, IndInv, TypeInv, TypeOK, WorkerOK, LockInv,
       LedgerInv, RowInv, OneRunningRow, Statuses, JobStates, QueueState,
       Stages, Outcomes, Reporting, Syncing, Items, PagesBefore

\* it survives every step as long as Redis keeps the lock,
LEMMA IndInvStep ==
    ASSUME LockLoss = FALSE, IndInv, [Next]_vars
    PROVE  IndInv'
    BY TypeInvStep, LockInvStep, LedgerInvStep, RowInvStep DEF IndInv

\* and so it always holds.
LEMMA Invariance == ASSUME LockLoss = FALSE PROVE Spec => []IndInv
    BY IndInvInit, IndInvStep, PTL DEF Spec

\* The saved cursor never runs ahead of the durable items.
THEOREM CheckpointIsCovered == LockLoss = FALSE /\ Spec => []CheckpointCovered
<1> SUFFICES ASSUME LockLoss = FALSE PROVE Spec => []CheckpointCovered
    OBVIOUS
<1>1. IndInv => CheckpointCovered
    BY DEF IndInv, LedgerInv, CheckpointCovered
<1> QED
    BY <1>1, Invariance, PTL

\* One sync runs at a time, and at most one row of the connector says "running".
THEOREM AtMostOneRunningRow == LockLoss = FALSE /\ Spec => []OneAtATime
<1> SUFFICES ASSUME LockLoss = FALSE PROVE Spec => []OneAtATime
    OBVIOUS
<1>1. IndInv => OneRunningRow
    BY DEF IndInv, RowInv
<1>2. IndInv => NoConcurrentSync
    BY DEF IndInv, LockInv, NoConcurrentSync
<1>3. IndInv => OneAtATime
    BY <1>1, <1>2 DEF OneAtATime
<1> QED
    BY <1>3, Invariance, PTL

-----------------------------------------------------------------------------
\* Finished rows stay as they are.
HistoryStep ==
    \A j \in Jobs :
        /\ jobs[j] \in {"succeeded", "dead_lettered"} =>
              jobs'[j] \in {jobs[j], "none"}
        /\ jobs[j] = "failed" => jobs'[j] \in {"failed", "dead_lettered", "none"}

\* A step touches a row only to end it, to dead-letter it or to archive it.
LEMMA HistoryStepHolds ==
    ASSUME IndInv, [Next]_vars
    PROVE  HistoryStep
<1> USE ConstantsOK
<1> USE DEF HistoryStep, IndInv, RowInv, TypeInv, TypeOK, WorkerOK, Reporting,
            connVars, queueVars, workerVars
<1>1. ASSUME NEW t \in Tasks, Enqueue(t)
      PROVE  HistoryStep
    BY <1>1 DEF Enqueue
<1>2. ASSUME NEW t \in Tasks, RerunAbandoned(t)
      PROVE  HistoryStep
    BY <1>2 DEF RerunAbandoned
<1>3. ASSUME NEW w \in Workers, NEW t \in Tasks, StartTask(w, t)
      PROVE  HistoryStep
    BY <1>3 DEF StartTask
<1>4. ASSUME NEW w \in Workers, AcquireLock(w)
      PROVE  HistoryStep
    BY <1>4 DEF AcquireLock, LockFree
<1>5. ASSUME NEW w \in Workers, SkipDuplicate(w)
      PROVE  HistoryStep
    BY <1>5 DEF SkipDuplicate, GoTo, LockFree
<1>6. ASSUME NEW w \in Workers, AcquireFails(w)
      PROVE  HistoryStep
    BY <1>6 DEF AcquireFails, GoTo, LockFree
<1>7. ASSUME NEW w \in Workers, RefuseDisconnected(w)
      PROVE  HistoryStep
    BY <1>7 DEF RefuseDisconnected, GoTo
<1>8. ASSUME NEW w \in Workers, SetupFails(w)
      PROVE  HistoryStep
    BY <1>8 DEF SetupFails, GoTo
<1>9. ASSUME NEW w \in Workers, NEW j \in Jobs, StartJob(w, j)
      PROVE  HistoryStep
    BY <1>9 DEF StartJob, InsertIngestionJob, Recovered, ResumePages
<1>10. ASSUME NEW w \in Workers, FetchPage(w)
      PROVE  HistoryStep
    BY <1>10 DEF FetchPage
<1>11. ASSUME NEW w \in Workers, ProcessItem(w)
      PROVE  HistoryStep
    BY <1>11 DEF ProcessItem
<1>12. ASSUME NEW w \in Workers, RetryItem(w)
      PROVE  HistoryStep
    BY <1>12 DEF RetryItem
<1>13. ASSUME NEW w \in Workers, SaveCheckpoint(w)
      PROVE  HistoryStep
    BY <1>13 DEF SaveCheckpoint, PageDone
<1>14. ASSUME NEW w \in Workers, CompleteJob(w)
      PROVE  HistoryStep
    BY <1>14 DEF CompleteJob, PageDone, GoTo, UpdateConnectorSyncStatus
<1>15. ASSUME NEW w \in Workers, SyncRaises(w)
      PROVE  HistoryStep
    BY <1>15 DEF SyncRaises, GoTo
<1>16. ASSUME NEW w \in Workers, RecordFailure(w)
      PROVE  HistoryStep
    BY <1>16 DEF RecordFailure
<1>17. ASSUME NEW w \in Workers, FailureNotRecorded(w)
      PROVE  HistoryStep
    BY <1>17 DEF FailureNotRecorded, GoTo
<1>18. ASSUME NEW w \in Workers, SettleFailed(w)
      PROVE  HistoryStep
    BY <1>18 DEF SettleFailed, GoTo
<1>19. ASSUME NEW w \in Workers, Cancel(w)
      PROVE  HistoryStep
    BY <1>19 DEF Cancel, GoTo, LockFree
<1>20. ASSUME NEW w \in Workers, EndTask(w)
      PROVE  HistoryStep
    BY <1>20 DEF EndTask, ReleaseLock, Forget
<1>21. ASSUME NEW w \in Workers, Crash(w)
      PROVE  HistoryStep
    BY <1>21 DEF Crash, Forget
<1>22. ASSUME NEW j \in Jobs, Archive(j)
      PROVE  HistoryStep
    BY <1>22 DEF Archive
<1>23. ASSUME DisconnectConnector
      PROVE  HistoryStep
    BY <1>23 DEF DisconnectConnector
<1>24. ASSUME LockExpires
      PROVE  HistoryStep
    BY <1>24 DEF LockExpires
<1>25. ASSUME LoseLock
      PROVE  HistoryStep
    BY <1>25 DEF LoseLock
<1>27. ASSUME NEW w \in Workers, LoadConnector(w)
      PROVE  HistoryStep
    BY <1>27 DEF LoadConnector, PageDone
<1>28. ASSUME NEW w \in Workers, FallbackSession(w)
      PROVE  HistoryStep
    BY <1>28 DEF FallbackSession
<1>26. ASSUME UNCHANGED vars
      PROVE  HistoryStep
    BY <1>26 DEF vars
<1> QED
    BY <1>1, <1>2, <1>3, <1>4, <1>5, <1>6, <1>7, <1>8, <1>9,
       <1>10, <1>11, <1>12, <1>13, <1>14, <1>15, <1>16, <1>17, <1>18,
       <1>19, <1>20, <1>21, <1>22, <1>23, <1>24, <1>25, <1>26,
       <1>27, <1>28 DEF Next, Sync, SyncConnector,
       ScheduledReconciliation, ReplayIngestionRun

\* A run that has ended is never started again or turned into a success.
THEOREM HistoryNeverRewritten == LockLoss = FALSE /\ Spec => HistoryIsFinal
<1> SUFFICES ASSUME LockLoss = FALSE PROVE Spec => HistoryIsFinal
    OBVIOUS
<1>1. IndInv /\ [Next]_vars => [HistoryStep]_vars
    BY HistoryStepHolds
<1> QED
    BY <1>1, Invariance, PTL DEF Spec, HistoryIsFinal, HistoryStep

-----------------------------------------------------------------------------
\* A run succeeds only with its whole window durable.
LEMMA CompleteJobCovers ==
    ASSUME IndInv, NEW w \in Workers, CompleteJob(w)
    PROVE  ledger = Items
<1>1. ASSUME NEW p \in 1..NumPages, NEW i \in 1..ItemsPerPage
      PROVE  <<p, i>> \in ledger
  <2>1. CASE p < NumPages
    BY <2>1, ConstantsOK DEF CompleteJob, PageDone, IndInv, LedgerInv, PagesBefore,
       Items, TypeInv, TypeOK
  <2>2. CASE p = NumPages
    BY <2>2, ConstantsOK DEF CompleteJob, PageDone, IndInv, LedgerInv, TypeInv, TypeOK
  <2> QED
    BY <2>1, <2>2, ConstantsOK
<1> QED
    BY <1>1, ConstantsOK DEF Items, IndInv, TypeInv, TypeOK

SuccessStep ==
    \A j \in Jobs : jobs[j] # "succeeded" /\ jobs'[j] = "succeeded"
                        => ledger = Items

\* Only CompleteJob reports a success.
LEMMA SuccessStepHolds ==
    ASSUME IndInv, [Next]_vars
    PROVE  SuccessStep
<1> USE ConstantsOK
<1> USE DEF SuccessStep, IndInv, TypeInv, TypeOK, connVars, queueVars, workerVars
<1>1. ASSUME NEW t \in Tasks, Enqueue(t)
      PROVE  SuccessStep
    BY <1>1 DEF Enqueue
<1>2. ASSUME NEW t \in Tasks, RerunAbandoned(t)
      PROVE  SuccessStep
    BY <1>2 DEF RerunAbandoned
<1>3. ASSUME NEW w \in Workers, NEW t \in Tasks, StartTask(w, t)
      PROVE  SuccessStep
    BY <1>3 DEF StartTask
<1>4. ASSUME NEW w \in Workers, AcquireLock(w)
      PROVE  SuccessStep
    BY <1>4 DEF AcquireLock, LockFree
<1>5. ASSUME NEW w \in Workers, SkipDuplicate(w)
      PROVE  SuccessStep
    BY <1>5 DEF SkipDuplicate, GoTo, LockFree
<1>6. ASSUME NEW w \in Workers, AcquireFails(w)
      PROVE  SuccessStep
    BY <1>6 DEF AcquireFails, GoTo, LockFree
<1>7. ASSUME NEW w \in Workers, RefuseDisconnected(w)
      PROVE  SuccessStep
    BY <1>7 DEF RefuseDisconnected, GoTo
<1>8. ASSUME NEW w \in Workers, SetupFails(w)
      PROVE  SuccessStep
    BY <1>8 DEF SetupFails, GoTo
<1>9. ASSUME NEW w \in Workers, NEW j \in Jobs, StartJob(w, j)
      PROVE  SuccessStep
    BY <1>9 DEF StartJob, InsertIngestionJob, Recovered, ResumePages
<1>10. ASSUME NEW w \in Workers, FetchPage(w)
      PROVE  SuccessStep
    BY <1>10 DEF FetchPage
<1>11. ASSUME NEW w \in Workers, ProcessItem(w)
      PROVE  SuccessStep
    BY <1>11 DEF ProcessItem
<1>12. ASSUME NEW w \in Workers, RetryItem(w)
      PROVE  SuccessStep
    BY <1>12 DEF RetryItem
<1>13. ASSUME NEW w \in Workers, SaveCheckpoint(w)
      PROVE  SuccessStep
    BY <1>13 DEF SaveCheckpoint, PageDone
<1>14. ASSUME NEW w \in Workers, CompleteJob(w)
      PROVE  SuccessStep
    BY <1>14, CompleteJobCovers
<1>15. ASSUME NEW w \in Workers, SyncRaises(w)
      PROVE  SuccessStep
    BY <1>15 DEF SyncRaises, GoTo
<1>16. ASSUME NEW w \in Workers, RecordFailure(w)
      PROVE  SuccessStep
    BY <1>16 DEF RecordFailure
<1>17. ASSUME NEW w \in Workers, FailureNotRecorded(w)
      PROVE  SuccessStep
    BY <1>17 DEF FailureNotRecorded, GoTo
<1>18. ASSUME NEW w \in Workers, SettleFailed(w)
      PROVE  SuccessStep
    BY <1>18 DEF SettleFailed, GoTo
<1>19. ASSUME NEW w \in Workers, Cancel(w)
      PROVE  SuccessStep
    BY <1>19 DEF Cancel, GoTo, LockFree
<1>20. ASSUME NEW w \in Workers, EndTask(w)
      PROVE  SuccessStep
    BY <1>20 DEF EndTask, ReleaseLock, Forget
<1>21. ASSUME NEW w \in Workers, Crash(w)
      PROVE  SuccessStep
    BY <1>21 DEF Crash, Forget
<1>22. ASSUME NEW j \in Jobs, Archive(j)
      PROVE  SuccessStep
    BY <1>22 DEF Archive
<1>23. ASSUME DisconnectConnector
      PROVE  SuccessStep
    BY <1>23 DEF DisconnectConnector
<1>24. ASSUME LockExpires
      PROVE  SuccessStep
    BY <1>24 DEF LockExpires
<1>25. ASSUME LoseLock
      PROVE  SuccessStep
    BY <1>25 DEF LoseLock
<1>27. ASSUME NEW w \in Workers, LoadConnector(w)
      PROVE  SuccessStep
    BY <1>27 DEF LoadConnector, PageDone
<1>28. ASSUME NEW w \in Workers, FallbackSession(w)
      PROVE  SuccessStep
    BY <1>28 DEF FallbackSession
<1>26. ASSUME UNCHANGED vars
      PROVE  SuccessStep
    BY <1>26 DEF vars
<1> QED
    BY <1>1, <1>2, <1>3, <1>4, <1>5, <1>6, <1>7, <1>8, <1>9,
       <1>10, <1>11, <1>12, <1>13, <1>14, <1>15, <1>16, <1>17, <1>18,
       <1>19, <1>20, <1>21, <1>22, <1>23, <1>24, <1>25, <1>26,
       <1>27, <1>28 DEF Next, Sync, SyncConnector,
       ScheduledReconciliation, ReplayIngestionRun

\* A run is reported as succeeded only when its whole window is durable.
THEOREM SuccessNeedsEverything == LockLoss = FALSE /\ Spec => SuccessIsComplete
<1> SUFFICES ASSUME LockLoss = FALSE PROVE Spec => SuccessIsComplete
    OBVIOUS
<1>1. IndInv /\ [Next]_vars => [SuccessStep]_vars
    BY SuccessStepHolds
<1> QED
    BY <1>1, Invariance, PTL DEF Spec, SuccessIsComplete, SuccessStep

-----------------------------------------------------------------------------
\* Both modules speak of the same items and pages.
LEMMA SameItems == Contract!Items = Items /\ \A p : Contract!PagesBefore(p) = PagesBefore(p)
    BY DEF Contract!Items, Items, Contract!PagesBefore, PagesBefore

\* Every step is a step of SyncContract, or changes nothing it sees.
LEMMA ContractStep ==
    ASSUME LockLoss = FALSE, IndInv, IndInv', [Next]_vars
    PROVE  [Contract!Next]_Contract!cvars
<1> USE ConstantsOK
<1> USE DEF Contract!cvars, connVars
<1>1. ASSUME NEW t \in Tasks, Enqueue(t)
      PROVE  [Contract!Next]_Contract!cvars
    BY <1>1 DEF Enqueue
<1>2. ASSUME NEW t \in Tasks, RerunAbandoned(t)
      PROVE  [Contract!Next]_Contract!cvars
    BY <1>2 DEF RerunAbandoned
<1>3. ASSUME NEW w \in Workers, NEW t \in Tasks, StartTask(w, t)
      PROVE  [Contract!Next]_Contract!cvars
    BY <1>3 DEF StartTask
<1>4. ASSUME NEW w \in Workers, AcquireLock(w)
      PROVE  [Contract!Next]_Contract!cvars
    BY <1>4 DEF AcquireLock, LockFree
<1>5. ASSUME NEW w \in Workers, SkipDuplicate(w)
      PROVE  [Contract!Next]_Contract!cvars
    BY <1>5 DEF SkipDuplicate, GoTo, LockFree
<1>6. ASSUME NEW w \in Workers, AcquireFails(w)
      PROVE  [Contract!Next]_Contract!cvars
    BY <1>6 DEF AcquireFails, GoTo, LockFree
<1>7. ASSUME NEW w \in Workers, RefuseDisconnected(w)
      PROVE  [Contract!Next]_Contract!cvars
    BY <1>7 DEF RefuseDisconnected, GoTo
<1>8. ASSUME NEW w \in Workers, SetupFails(w)
      PROVE  [Contract!Next]_Contract!cvars
    BY <1>8 DEF SetupFails, GoTo
<1>9. ASSUME NEW w \in Workers, NEW j \in Jobs, StartJob(w, j)
      PROVE  [Contract!Next]_Contract!cvars
    BY <1>9 DEF StartJob, InsertIngestionJob, Recovered, ResumePages
<1>10. ASSUME NEW w \in Workers, FetchPage(w)
      PROVE  [Contract!Next]_Contract!cvars
    BY <1>10 DEF FetchPage
<1>11. ASSUME NEW w \in Workers, ProcessItem(w)
      PROVE  [Contract!Next]_Contract!cvars
  <2>1. <<page[w], item[w] + 1>> \in Items
    BY <1>11 DEF ProcessItem, IndInv, TypeInv, TypeOK, WorkerOK, Items
  <2>2. Contract!MakeDurable(<<page[w], item[w] + 1>>)
    BY <1>11 DEF ProcessItem, Contract!MakeDurable
  <2> QED
    BY <2>1, <2>2, SameItems DEF Contract!Next
<1>12. ASSUME NEW w \in Workers, RetryItem(w)
      PROVE  [Contract!Next]_Contract!cvars
    BY <1>12 DEF RetryItem
<1>13. ASSUME NEW w \in Workers, SaveCheckpoint(w)
      PROVE  [Contract!Next]_Contract!cvars
  <2>1. CASE checkpoint' = checkpoint
    BY <2>1, <1>13 DEF SaveCheckpoint
  <2>2. CASE checkpoint' = page[w] + 1
    <3>1. page[w] + 1 \in 1..NumPages
      BY <1>13 DEF SaveCheckpoint, PageDone, IndInv, TypeInv, TypeOK, WorkerOK
    <3>2. PagesBefore(page[w] + 1) \subseteq ledger
      BY <1>13, <2>2 DEF SaveCheckpoint, IndInv, LedgerInv, PagesBefore, Items
    <3>3. Contract!Save(page[w] + 1)
      BY <1>13, <2>2, <3>2, SameItems DEF SaveCheckpoint, Contract!Save
    <3> QED
      BY <3>1, <3>3 DEF Contract!Next
  <2> QED
    BY <1>13, <2>1, <2>2 DEF SaveCheckpoint
<1>14. ASSUME NEW w \in Workers, CompleteJob(w)
      PROVE  [Contract!Next]_Contract!cvars
  <2>1. ledger = Contract!Items
    BY <1>14, CompleteJobCovers, SameItems
  <2>2. UNCHANGED Contract!cvars \/ Contract!Close
    BY <1>14, <2>1 DEF CompleteJob, UpdateConnectorSyncStatus, Contract!Close
  <2> QED
    BY <2>2 DEF Contract!Next
<1>15. ASSUME NEW w \in Workers, SyncRaises(w)
      PROVE  [Contract!Next]_Contract!cvars
    BY <1>15 DEF SyncRaises, GoTo
<1>16. ASSUME NEW w \in Workers, RecordFailure(w)
      PROVE  [Contract!Next]_Contract!cvars
    BY <1>16 DEF RecordFailure
<1>17. ASSUME NEW w \in Workers, FailureNotRecorded(w)
      PROVE  [Contract!Next]_Contract!cvars
    BY <1>17 DEF FailureNotRecorded, GoTo
<1>18. ASSUME NEW w \in Workers, SettleFailed(w)
      PROVE  [Contract!Next]_Contract!cvars
    BY <1>18 DEF SettleFailed, GoTo
<1>19. ASSUME NEW w \in Workers, Cancel(w)
      PROVE  [Contract!Next]_Contract!cvars
    BY <1>19 DEF Cancel, GoTo, LockFree
<1>20. ASSUME NEW w \in Workers, EndTask(w)
      PROVE  [Contract!Next]_Contract!cvars
    BY <1>20 DEF EndTask, ReleaseLock, Forget
<1>21. ASSUME NEW w \in Workers, Crash(w)
      PROVE  [Contract!Next]_Contract!cvars
    BY <1>21 DEF Crash, Forget
<1>22. ASSUME NEW j \in Jobs, Archive(j)
      PROVE  [Contract!Next]_Contract!cvars
    BY <1>22 DEF Archive
<1>23. ASSUME DisconnectConnector
      PROVE  [Contract!Next]_Contract!cvars
    BY <1>23 DEF DisconnectConnector
<1>24. ASSUME LockExpires
      PROVE  [Contract!Next]_Contract!cvars
    BY <1>24 DEF LockExpires
<1>25. ASSUME LoseLock
      PROVE  [Contract!Next]_Contract!cvars
    BY <1>25 DEF LoseLock
<1>27. ASSUME NEW w \in Workers, LoadConnector(w)
      PROVE  [Contract!Next]_Contract!cvars
    BY <1>27 DEF LoadConnector, PageDone
<1>28. ASSUME NEW w \in Workers, FallbackSession(w)
      PROVE  [Contract!Next]_Contract!cvars
    BY <1>28 DEF FallbackSession
<1>26. ASSUME UNCHANGED vars
      PROVE  [Contract!Next]_Contract!cvars
    BY <1>26 DEF vars
<1> QED
    BY <1>1, <1>2, <1>3, <1>4, <1>5, <1>6, <1>7, <1>8, <1>9,
       <1>10, <1>11, <1>12, <1>13, <1>14, <1>15, <1>16, <1>17, <1>18,
       <1>19, <1>20, <1>21, <1>22, <1>23, <1>24, <1>25, <1>26,
       <1>27, <1>28 DEF Next, Sync, SyncConnector,
       ScheduledReconciliation, ReplayIngestionRun

\* The sync implements SyncContract.
THEOREM ImplementsContract == LockLoss = FALSE /\ Spec => KeepsContract
<1> SUFFICES ASSUME LockLoss = FALSE PROVE Spec => Contract!Spec
    BY DEF KeepsContract
<1>1. Init => Contract!Init
    BY DEF Init, InitWith, Contract!Init
<1>2. IndInv /\ IndInv' /\ [Next]_vars => [Contract!Next]_Contract!cvars
    BY ContractStep
<1> QED
    BY <1>1, <1>2, Invariance, PTL DEF Spec, Contract!Spec

-----------------------------------------------------------------------------
\* A deleted connector that no sync in flight believes to be alive.
DeletedStep == Deleted => Deleted'

\* No step revives such a connector, or lets a sync believe that it is alive.
LEMMA DeletedStepHolds ==
    ASSUME TypeInv, [Next]_vars
    PROVE  DeletedStep
<1> USE DEF DeletedStep, Deleted, TypeInv, TypeOK, WorkerOK, Syncing, connVars, queueVars,
            workerVars
<1>1. ASSUME NEW t \in Tasks, Enqueue(t)
      PROVE  DeletedStep
    BY <1>1 DEF Enqueue
<1>2. ASSUME NEW t \in Tasks, RerunAbandoned(t)
      PROVE  DeletedStep
    BY <1>2 DEF RerunAbandoned
<1>3. ASSUME NEW w \in Workers, NEW t \in Tasks, StartTask(w, t)
      PROVE  DeletedStep
    BY <1>3 DEF StartTask
<1>4. ASSUME NEW w \in Workers, AcquireLock(w)
      PROVE  DeletedStep
    BY <1>4 DEF AcquireLock, LockFree
<1>5. ASSUME NEW w \in Workers, SkipDuplicate(w)
      PROVE  DeletedStep
    BY <1>5 DEF SkipDuplicate, GoTo, LockFree
<1>6. ASSUME NEW w \in Workers, AcquireFails(w)
      PROVE  DeletedStep
    BY <1>6 DEF AcquireFails, GoTo, LockFree
<1>7. ASSUME NEW w \in Workers, RefuseDisconnected(w)
      PROVE  DeletedStep
    BY <1>7 DEF RefuseDisconnected, GoTo
<1>8. ASSUME NEW w \in Workers, LoadConnector(w)
      PROVE  DeletedStep
    BY <1>8 DEF LoadConnector, PageDone
<1>9. ASSUME NEW w \in Workers, SetupFails(w)
      PROVE  DeletedStep
    BY <1>9 DEF SetupFails, GoTo
<1>10. ASSUME NEW w \in Workers, NEW j \in Jobs, StartJob(w, j)
      PROVE  DeletedStep
    BY <1>10 DEF StartJob, InsertIngestionJob, Recovered, ResumePages
<1>11. ASSUME NEW w \in Workers, FetchPage(w)
      PROVE  DeletedStep
    BY <1>11 DEF FetchPage
<1>12. ASSUME NEW w \in Workers, ProcessItem(w)
      PROVE  DeletedStep
    BY <1>12 DEF ProcessItem
<1>13. ASSUME NEW w \in Workers, RetryItem(w)
      PROVE  DeletedStep
    BY <1>13 DEF RetryItem
<1>14. ASSUME NEW w \in Workers, SaveCheckpoint(w)
      PROVE  DeletedStep
    BY <1>14 DEF SaveCheckpoint, PageDone
<1>15. ASSUME NEW w \in Workers, CompleteJob(w)
      PROVE  DeletedStep
    BY <1>15 DEF CompleteJob, PageDone, GoTo, UpdateConnectorSyncStatus
<1>16. ASSUME NEW w \in Workers, SyncRaises(w)
      PROVE  DeletedStep
    BY <1>16 DEF SyncRaises, GoTo
<1>17. ASSUME NEW w \in Workers, RecordFailure(w)
      PROVE  DeletedStep
    BY <1>17 DEF RecordFailure, StatusAfterFailure
<1>18. ASSUME NEW w \in Workers, FallbackSession(w)
      PROVE  DeletedStep
    BY <1>18 DEF FallbackSession
<1>19. ASSUME NEW w \in Workers, FailureNotRecorded(w)
      PROVE  DeletedStep
    BY <1>19 DEF FailureNotRecorded, GoTo
<1>20. ASSUME NEW w \in Workers, SettleFailed(w)
      PROVE  DeletedStep
    BY <1>20 DEF SettleFailed, GoTo, LastAttempt
<1>21. ASSUME NEW w \in Workers, Cancel(w)
      PROVE  DeletedStep
    BY <1>21 DEF Cancel, GoTo, LockFree
<1>22. ASSUME NEW w \in Workers, EndTask(w)
      PROVE  DeletedStep
    BY <1>22 DEF EndTask, ReleaseLock, Forget
<1>23. ASSUME NEW w \in Workers, Crash(w)
      PROVE  DeletedStep
    BY <1>23 DEF Crash, Forget
<1>24. ASSUME NEW j \in Jobs, Archive(j)
      PROVE  DeletedStep
    BY <1>24 DEF Archive
<1>25. ASSUME DisconnectConnector
      PROVE  DeletedStep
    BY <1>25 DEF DisconnectConnector
<1>26. ASSUME LockExpires
      PROVE  DeletedStep
    BY <1>26 DEF LockExpires
<1>27. ASSUME LoseLock
      PROVE  DeletedStep
    BY <1>27 DEF LoseLock
<1>28. ASSUME UNCHANGED vars
      PROVE  DeletedStep
    BY <1>28 DEF vars
<1> QED
    BY <1>1, <1>2, <1>3, <1>4, <1>5, <1>6, <1>7, <1>8, <1>9, <1>10, <1>11,
       <1>12, <1>13, <1>14, <1>15, <1>16, <1>17, <1>18, <1>19, <1>20, <1>21, <1>22,
       <1>23, <1>24, <1>25, <1>26, <1>27, <1>28
    DEF Next, Sync, SyncConnector,
       ScheduledReconciliation, ReplayIngestionRun

\* Deletion is final once no sync in flight holds an older copy of the row;
\* this needs no lock at all.
THEOREM DeletionIsSettled == Spec => DeletionSettles
<1>1. Init => TypeInv
    BY IndInvInit DEF IndInv
<1>2. TypeInv /\ [Next]_vars => [DeletedStep]_vars
    BY DeletedStepHolds
<1> QED
    BY <1>1, <1>2, TypeInvStep, PTL DEF Spec, DeletionSettles, DeletedStep
=============================================================================
