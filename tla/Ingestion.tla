------------------------------ MODULE Ingestion ------------------------------
(***************************************************************************)
(* One connector's synchronisation as the ingestion workers run it:        *)
(* app/ingestion/workers/tasks.py (the arq task, its Redis lock and its    *)
(* retries), app/ingestion/service.py (the sync itself) and the two        *)
(* repositories that write the connector and the job rows.                 *)
(*                                                                         *)
(* Each action ends at a COMMIT or at the loss of a process: these are the *)
(* places where another process sees what happened.  A worker reads the    *)
(* connector row once and its session hands the same object back until a   *)
(* rollback expires it or a refresh re-reads it (sessions are created with *)
(* expire_on_commit=False), so every worker carries the status it last saw *)
(* in `seen`, and writes back what THAT copy says must change: reading the *)
(* row (LoadConnector) and writing it are different steps, with no row     *)
(* lock between them.                                                      *)
(*                                                                         *)
(* A sync window is what the source lists for one value of `since`:        *)
(* NumPages pages of ItemsPerPage items.  `ledger` is an auxiliary         *)
(* variable: the items of the current window whose documents are durable.  *)
(*                                                                         *)
(* A definition named X_Y is X with a plausible mistake; no specification  *)
(* uses it.  Checking a property with X_Y in the place of X shows that the *)
(* property would notice.                                                  *)
(***************************************************************************)
EXTENDS Naturals, FiniteSets

CONSTANTS
    Workers,        \* arq worker slots, over all replicas
    Tasks,          \* queue entries for this connector that may coexist
    Jobs,           \* ingestion_jobs rows in view (Archive frees one)
    NumPages,       \* pages of one sync window
    ItemsPerPage,   \* items of one page
    MaxJobTries,    \* MAX_JOB_TRIES
    LockLoss,       \* TRUE: Redis may forget the lock while its owner lives
    CheckpointsExpire, \* TRUE: a saved checkpoint may turn out unusable
    NoOne, Orphan,  \* lock values: free; held by a token nobody will release
    NoTask, NoJob

ASSUME ConstantsOK ==
    /\ NumPages \in Nat \ {0}
    /\ ItemsPerPage \in Nat
    /\ MaxJobTries \in Nat \ {0}
    /\ LockLoss \in BOOLEAN
    /\ CheckpointsExpire \in BOOLEAN
    /\ NoOne \notin Workers /\ Orphan \notin Workers /\ NoOne # Orphan
    /\ NoTask \notin Tasks
    /\ NoJob \notin Jobs

VARIABLES
    status,      \* connector_configs.status
    checkpoint,  \* config["_ingestion_checkpoint"]: next page, 0 when absent
    ledger,      \* items of the open window whose documents are committed
    jobs,        \* ingestion_jobs.status of every row in view
    lock,        \* ekip:ingestion:lock:<connector>
    queue,       \* state of every arq queue entry
    tries,       \* ctx["job_try"]: how often arq started the entry
    pc, runs, job, page, item, seen, outcome

connVars   == <<status, checkpoint, ledger>>
queueVars  == <<queue, tries>>
workerVars == <<pc, runs, job, page, item, seen, outcome>>
vars == <<connVars, jobs, lock, queueVars, workerVars>>

Statuses   == {"connecting", "active", "error", "disconnected"}
JobStates  == {"none", "running", "succeeded", "failed", "dead_lettered"}
QueueState == {"free", "queued", "started", "abandoned"}
Stages     == {"idle", "lock", "setup", "fetch", "items", "failing", "settle",
               "release"}
Outcomes   == {"none", "done", "retry", "cancelled"}

Items        == (1..NumPages) \X (1..ItemsPerPage)
PagesBefore(p) == {x \in Items : x[1] < p}

\* The part of a task that runs between acquiring and releasing the lock.
Syncing == {"setup", "fetch", "items", "failing", "settle"}
\* The part of it that owns a row of ingestion_jobs.
Reporting == {"fetch", "items", "failing", "settle"}

TypeOK ==
    /\ status \in Statuses
    /\ checkpoint \in 0..NumPages
    /\ ledger \subseteq Items
    /\ jobs \in [Jobs -> JobStates]
    /\ lock \in Workers \cup {NoOne, Orphan}
    /\ queue \in [Tasks -> QueueState]
    /\ tries \in [Tasks -> 0..MaxJobTries]
    /\ pc \in [Workers -> Stages]
    /\ runs \in [Workers -> Tasks \cup {NoTask}]
    /\ job \in [Workers -> Jobs \cup {NoJob}]
    /\ page \in [Workers -> 0..NumPages]
    /\ item \in [Workers -> 0..ItemsPerPage]
    /\ seen \in [Workers -> Statuses \cup {"expired"}]
    /\ outcome \in [Workers -> Outcomes]

\* register_connector leaves the row "connecting"; nothing has run yet.
InitWith(s) ==
    /\ status = s
    /\ checkpoint = 0
    /\ ledger = {}
    /\ jobs = [j \in Jobs |-> "none"]
    /\ lock = NoOne
    /\ queue = [t \in Tasks |-> "free"]
    /\ tries = [t \in Tasks |-> 0]
    /\ pc = [w \in Workers |-> "idle"]
    /\ runs = [w \in Workers |-> NoTask]
    /\ job = [w \in Workers |-> NoJob]
    /\ page = [w \in Workers |-> 0]
    /\ item = [w \in Workers |-> 0]
    /\ seen = [w \in Workers |-> "expired"]
    /\ outcome = [w \in Workers |-> "none"]

Init == InitWith("connecting")

-----------------------------------------------------------------------------
(* Producers of queue entries.                                             *)

Enqueue(t) ==
    /\ queue[t] = "free"
    /\ queue' = [queue EXCEPT ![t] = "queued"]
    /\ tries' = [tries EXCEPT ![t] = 0]
    /\ UNCHANGED <<connVars, jobs, lock, workerVars>>

\* POST /connectors/{id}/sync, a webhook event, or the sync that follows an
\* approved postmortem.  get_connector does not look at the status.
SyncConnector(t) == Enqueue(t)

\* POST .../runs/{job}/replay: only a dead-lettered run, as a new attempt.
ReplayIngestionRun(t, j) == jobs[j] = "dead_lettered" /\ Enqueue(t)

\* The hourly cron pass: list_active_connector_config_ids() selects only
\* these two statuses.
ScheduledReconciliation(t) == status \in {"active", "error"} /\ Enqueue(t)

\* DELETE /connectors/{id}: a fresh session reads and writes the row.
DisconnectConnector ==
    /\ status' = "disconnected"
    /\ UNCHANGED <<checkpoint, ledger, jobs, lock, queueVars, workerVars>>

-----------------------------------------------------------------------------
(* arq: starts an entry at most MaxJobTries times, one worker slot each.   *)

StartTask(w, t) ==
    /\ pc[w] = "idle"
    /\ queue[t] = "queued"
    /\ IF tries[t] < MaxJobTries
       THEN /\ tries' = [tries EXCEPT ![t] = @ + 1]
            /\ queue' = [queue EXCEPT ![t] = "started"]
            /\ pc' = [pc EXCEPT ![w] = "lock"]
            /\ runs' = [runs EXCEPT ![w] = t]
       ELSE /\ queue' = [queue EXCEPT ![t] = "free"]
            /\ UNCHANGED <<tries, pc, runs>>
    /\ UNCHANGED <<connVars, jobs, lock, job, page, item, seen, outcome>>

\* A dead worker's entry becomes available again once arq's in-progress key
\* has expired.
RerunAbandoned(t) ==
    /\ queue[t] = "abandoned"
    /\ queue' = [queue EXCEPT ![t] = "queued"]
    /\ UNCHANGED <<connVars, jobs, lock, tries, workerVars>>

\* _schedule_retry raises Retry unless this was the last attempt.
RetryOrGiveUp(w) == IF tries[runs[w]] >= MaxJobTries THEN "done" ELSE "retry"

GoTo(w, stage, o) ==
    /\ pc' = [pc EXCEPT ![w] = stage]
    /\ outcome' = [outcome EXCEPT ![w] = o]

-----------------------------------------------------------------------------
(* _acquire_connector_lock: SET key token EX ttl NX.                       *)

LockFree_NoNX == TRUE

LockFree == lock = NoOne

AcquireLock(w) ==
    /\ pc[w] = "lock"
    /\ LockFree
    /\ lock' = w
    /\ pc' = [pc EXCEPT ![w] = "setup"]
    /\ UNCHANGED <<connVars, jobs, queueVars, runs, job, page, item, seen,
                   outcome>>

\* The lock is taken: the task ends as a skipped duplicate, successfully.
SkipDuplicate(w) ==
    /\ pc[w] = "lock"
    /\ ~LockFree
    /\ GoTo(w, "release", "done")
    /\ UNCHANGED <<connVars, jobs, lock, queueVars, runs, job, page, item,
                   seen>>

\* Redis fails.  The SET may have been executed although its reply was lost.
AcquireFails(w) ==
    /\ pc[w] = "lock"
    /\ lock' \in IF LockFree THEN {lock, Orphan} ELSE {lock}
    /\ GoTo(w, "release", RetryOrGiveUp(w))
    /\ UNCHANGED <<connVars, jobs, queueVars, runs, job, page, item, seen>>

-----------------------------------------------------------------------------
(* _execute_ingestion_job, up to the first commit.                         *)

PageDone_Early(w) == pc[w] = "items"

PageDone(w) == pc[w] = "items" /\ item[w] = ItemsPerPage

\* session.get(ConnectorConfig): a SELECT if the session has no valid copy,
\* its own copy otherwise.
LoadConnector(w) ==
    /\ pc[w] \in {"setup", "failing"} \/ PageDone(w)
    /\ seen[w] = "expired"
    /\ seen' = [seen EXCEPT ![w] = status]
    /\ UNCHANGED <<connVars, jobs, lock, queueVars, pc, runs, job, page, item,
                   outcome>>

\* The connector was deleted by the user: no job row, no retry.
RefuseDisconnected(w) ==
    /\ pc[w] = "setup"
    /\ seen[w] = "disconnected"
    /\ GoTo(w, "release", "done")
    /\ UNCHANGED <<connVars, jobs, lock, queueVars, runs, job, page, item,
                   seen>>

\* No implementation, KMS or database trouble: rolled back, so no job row.
SetupFails(w) ==
    /\ pc[w] = "setup"
    /\ GoTo(w, "release", RetryOrGiveUp(w))
    /\ UNCHANGED <<connVars, jobs, lock, queueVars, runs, job, page, item,
                   seen>>

\* insert_ingestion_job: rows still "running" belong to a dead predecessor.
Recovered_None == {}
Recovered_Any == {k \in Jobs : jobs[k] # "none"}

Recovered == {k \in Jobs : jobs[k] = "running"}

InsertIngestionJob(j) ==
    /\ jobs[j] = "none"
    /\ jobs' = [k \in Jobs |-> IF k = j THEN "running"
                              ELSE IF k \in Recovered THEN "failed"
                              ELSE jobs[k]]

\* _load_ingestion_checkpoint: a checkpoint that is too old, or whose
\* configuration fingerprint no longer matches, is ignored.
ResumePages_Unchecked == {checkpoint}
ResumePages_FirstPage == {1}

ResumePages ==
    (IF checkpoint > 0 THEN {checkpoint} ELSE {1})
        \cup (IF CheckpointsExpire THEN {1} ELSE {})

StartJob(w, j) ==
    /\ pc[w] = "setup"
    /\ seen[w] \notin {"expired", "disconnected"}
    /\ InsertIngestionJob(j)
    /\ job' = [job EXCEPT ![w] = j]
    /\ \E p \in ResumePages : page' = [page EXCEPT ![w] = p]
    /\ pc' = [pc EXCEPT ![w] = "fetch"]
    /\ UNCHANGED <<connVars, lock, queueVars, runs, item, seen, outcome>>

-----------------------------------------------------------------------------
(* The fetch loop.                                                         *)

FetchPage(w) ==
    /\ pc[w] = "fetch"
    /\ item' = [item EXCEPT ![w] = 0]
    /\ pc' = [pc EXCEPT ![w] = "items"]
    /\ UNCHANGED <<connVars, jobs, lock, queueVars, runs, job, page, seen,
                   outcome>>

\* _process_one_item_with_retry: a changed item is committed with its
\* chunks, an unchanged one needs no commit; either way it is durable now.
ProcessItem(w) ==
    /\ pc[w] = "items"
    /\ item[w] < ItemsPerPage
    /\ item' = [item EXCEPT ![w] = @ + 1]
    /\ ledger' = ledger \cup {<<page[w], item[w] + 1>>}
    /\ UNCHANGED <<status, checkpoint, jobs, lock, queueVars, pc, runs, job,
                   page, seen, outcome>>

\* The connection dropped inside an item: the session is rolled back, which
\* expires every object in it, and the item is tried again.
RetryItem(w) ==
    /\ pc[w] = "items"
    /\ item[w] < ItemsPerPage
    /\ seen' = [seen EXCEPT ![w] = "expired"]
    /\ UNCHANGED <<connVars, jobs, lock, queueVars, pc, runs, job, page,
                   item, outcome>>

\* checkpoint_connector_sync, after the last item of a page that is not the
\* last one.  The refresh after the flush re-reads the row.
SaveCheckpoint(w) ==
    /\ PageDone(w)
    /\ page[w] < NumPages
    /\ seen[w] # "expired"
    /\ IF seen[w] = "disconnected"
       THEN UNCHANGED <<checkpoint, seen>>
       ELSE /\ checkpoint' = page[w] + 1
            /\ seen' = [seen EXCEPT ![w] = status]
    /\ page' = [page EXCEPT ![w] = @ + 1]
    /\ pc' = [pc EXCEPT ![w] = "fetch"]
    /\ UNCHANGED <<status, ledger, jobs, lock, queueVars, runs, job, item,
                   outcome>>

\* The last page is done: the row is written from the session's copy, and
\* an attribute that already has the new value there is not written at all.
\* A new last_synced_at closes the window.
UpdateConnectorSyncStatus_KeepsCheckpoint(w) ==
    IF seen[w] = "disconnected"
    THEN UNCHANGED connVars
    ELSE /\ status' = IF seen[w] = "active" THEN status ELSE "active"
         /\ ledger' = {}
         /\ UNCHANGED checkpoint

UpdateConnectorSyncStatus(w) ==
    IF seen[w] = "disconnected"
    THEN UNCHANGED connVars
    ELSE /\ status' = IF seen[w] = "active" THEN status ELSE "active"
         /\ checkpoint' = 0
         /\ ledger' = {}

CompleteJob(w) ==
    /\ PageDone(w)
    /\ page[w] = NumPages
    /\ seen[w] # "expired"
    /\ jobs' = [jobs EXCEPT ![job[w]] = "succeeded"]
    /\ UpdateConnectorSyncStatus(w)
    /\ GoTo(w, "release", "done")
    /\ UNCHANGED <<lock, queueVars, runs, job, page, item, seen>>

\* Anything in the loop raised (provider, safety limit, item, database), or
\* arq cancelled the task there.  The except block begins with a rollback,
\* which expires the session's copy.
SyncRaises(w) ==
    /\ pc[w] \in {"fetch", "items"}
    /\ \E o \in {"none", "cancelled"} : GoTo(w, "failing", o)
    /\ seen' = [seen EXCEPT ![w] = "expired"]
    /\ UNCHANGED <<connVars, jobs, lock, queueVars, runs, job, page, item>>

-----------------------------------------------------------------------------
(* The except block, and what the task does with the returned job.         *)

\* The row is read again and a deleted connector is left alone.
StatusAfterFailure_NoGuard(w) ==
    IF seen[w] = "error" THEN status ELSE "error"

StatusAfterFailure(w) ==
    IF seen[w] \in {"disconnected", "error"} THEN status ELSE "error"

RecordFailure(w) ==
    /\ pc[w] = "failing"
    /\ seen[w] # "expired"
    /\ jobs' = [jobs EXCEPT ![job[w]] = "failed"]
    /\ status' = StatusAfterFailure(w)
    /\ seen' = [seen EXCEPT ![w] = "expired"]
    /\ pc' = [pc EXCEPT ![w] = IF outcome[w] = "cancelled" THEN "release"
                                                            ELSE "settle"]
    /\ UNCHANGED <<checkpoint, ledger, lock, queueVars, runs, job,
                   page, item, outcome>>

\* The write failed: rolled back, and tried again on a fresh session.
FallbackSession(w) ==
    /\ pc[w] = "failing"
    /\ seen[w] # "expired"
    /\ seen' = [seen EXCEPT ![w] = "expired"]
    /\ UNCHANGED <<connVars, jobs, lock, queueVars, pc, runs, job, page, item,
                   outcome>>

\* The first write and every fallback session failed: the last error escapes.
FailureNotRecorded(w) ==
    /\ pc[w] = "failing"
    /\ GoTo(w, "release", RetryOrGiveUp(w))
    /\ UNCHANGED <<connVars, jobs, lock, queueVars, runs, job, page, item,
                   seen>>

\* A failed job is retried, and dead-lettered after the last attempt.
LastAttempt(w) == tries[runs[w]] >= MaxJobTries

SettleFailed(w) ==
    /\ pc[w] = "settle"
    /\ IF LastAttempt(w)
       THEN \/ jobs' = [jobs EXCEPT ![job[w]] = "dead_lettered"]
            \/ UNCHANGED jobs       \* the write itself failed
       ELSE UNCHANGED jobs
    /\ GoTo(w, "release", RetryOrGiveUp(w))
    /\ UNCHANGED <<connVars, lock, queueVars, runs, job, page,
                   item, seen>>

\* arq cancels the task (job timeout, worker shutdown) where nothing catches
\* CancelledError.  A cancelled SET may have been executed.
Cancel(w) ==
    /\ pc[w] \in {"lock", "setup", "failing", "settle"}
    /\ GoTo(w, "release", "cancelled")
    /\ lock' \in IF pc[w] = "lock" /\ LockFree THEN {lock, Orphan} ELSE {lock}
    /\ UNCHANGED <<connVars, jobs, queueVars, runs, job, page, item, seen>>

Forget(w) ==
    /\ pc' = [pc EXCEPT ![w] = "idle"]
    /\ runs' = [runs EXCEPT ![w] = NoTask]
    /\ job' = [job EXCEPT ![w] = NoJob]
    /\ page' = [page EXCEPT ![w] = 0]
    /\ item' = [item EXCEPT ![w] = 0]
    /\ seen' = [seen EXCEPT ![w] = "expired"]
    /\ outcome' = [outcome EXCEPT ![w] = "none"]

\* What arq does with the entry: a Retry requeues it; a cancelled one is run
\* again after a shutdown and given up after a timeout.
NextQueueStates(w) ==
    IF outcome[w] = "retry" THEN {"queued"}
    ELSE IF outcome[w] = "cancelled" THEN {"queued", "free"}
    ELSE {"free"}

\* _release_connector_lock deletes the key only if it still holds this
\* worker's token; if Redis fails, the key stays until its TTL.
ReleaseLock(w) ==
    lock' \in IF lock = w THEN {NoOne, Orphan} ELSE {lock}

EndTask(w) ==
    /\ pc[w] = "release"
    /\ ReleaseLock(w)
    /\ \E q \in NextQueueStates(w) : queue' = [queue EXCEPT ![runs[w]] = q]
    /\ Forget(w)
    /\ UNCHANGED <<connVars, jobs, tries>>

-----------------------------------------------------------------------------
(* The environment.                                                        *)

\* The worker process dies; its uncommitted work is rolled back.
Crash(w) ==
    /\ pc[w] # "idle"
    /\ lock' = IF lock = w THEN Orphan ELSE lock
    /\ queue' = [queue EXCEPT ![runs[w]] = "abandoned"]
    /\ Forget(w)
    /\ UNCHANGED <<connVars, jobs, tries>>

\* The TTL of a lock that nobody will release runs out.
LockExpires ==
    /\ lock = Orphan
    /\ lock' = NoOne
    /\ UNCHANGED <<connVars, jobs, queueVars, workerVars>>

\* Redis comes back without the key, or its owner stalls past the TTL.
LoseLock ==
    /\ LockLoss
    /\ lock # NoOne
    /\ lock' = NoOne
    /\ UNCHANGED <<connVars, jobs, queueVars, workerVars>>

\* Rows are never deleted: a finished one leaves the model's view, so that a
\* bounded set Jobs can stand for an unbounded history.
Archive(j) ==
    /\ jobs[j] \in {"succeeded", "failed", "dead_lettered"}
    /\ \A w \in Workers : job[w] # j
    /\ jobs' = [jobs EXCEPT ![j] = "none"]
    /\ UNCHANGED <<connVars, lock, queueVars, workerVars>>

-----------------------------------------------------------------------------
Sync(w) ==
    \/ AcquireLock(w) \/ SkipDuplicate(w) \/ AcquireFails(w)
    \/ LoadConnector(w) \/ RefuseDisconnected(w) \/ SetupFails(w)
    \/ \E j \in Jobs : StartJob(w, j)
    \/ FetchPage(w) \/ ProcessItem(w) \/ RetryItem(w)
    \/ SaveCheckpoint(w) \/ CompleteJob(w) \/ SyncRaises(w)
    \/ RecordFailure(w) \/ FallbackSession(w) \/ FailureNotRecorded(w)
    \/ SettleFailed(w) \/ Cancel(w) \/ EndTask(w) \/ Crash(w)

Next ==
    \/ \E t \in Tasks : \/ SyncConnector(t)
                        \/ ScheduledReconciliation(t)
                        \/ RerunAbandoned(t)
                        \/ \E j \in Jobs : ReplayIngestionRun(t, j)
                        \/ \E w \in Workers : StartTask(w, t)
    \/ \E w \in Workers : Sync(w)
    \/ \E j \in Jobs : Archive(j)
    \/ DisconnectConnector
    \/ LockExpires
    \/ LoseLock

Spec == Init /\ [][Next]_vars

(***************************************************************************)
(* Fairness.  A running process keeps running and the cron pass keeps      *)
(* coming, so what is continuously possible happens.  Failures of the      *)
(* network, the provider, Redis and the database may recur for ever, but   *)
(* not every single time, so a step that is tried again and again succeeds *)
(* again and again.  Nothing is assumed of users, cancellations or crashes.*)
(***************************************************************************)
Answer(w) ==
    \/ SkipDuplicate(w) \/ RefuseDisconnected(w)
    \/ SettleFailed(w) \/ EndTask(w)

FinishPage(w) == SaveCheckpoint(w) \/ CompleteJob(w)

Fairness ==
    /\ \A w \in Workers :
         /\ WF_vars(Answer(w))
         /\ SF_vars(AcquireLock(w))
         /\ \A s \in {"setup", "items", "failing"} :
              SF_vars(pc[w] = s /\ LoadConnector(w))
         /\ SF_vars(\E j \in Jobs : StartJob(w, j))
         /\ SF_vars(FetchPage(w))
         /\ SF_vars(ProcessItem(w))
         /\ SF_vars(FinishPage(w))
         /\ SF_vars(RecordFailure(w))
    /\ \A t \in Tasks :
         /\ WF_vars(\E w \in Workers : StartTask(w, t))
         /\ WF_vars(RerunAbandoned(t))
         /\ WF_vars(ScheduledReconciliation(t))
    /\ \A j \in Jobs : WF_vars(Archive(j))
    /\ WF_vars(LockExpires)

FairSpec == Spec /\ Fairness

\* The same connector after its first sync has ended.
SyncedSpec == InitWith("active") /\ [][Next]_vars /\ Fairness

-----------------------------------------------------------------------------
(* Properties.                                                             *)

\* At most one sync of the connector runs at any time, over all workers and
\* replicas ("no duplicate concurrent run for one connector").
NoConcurrentSync ==
    \A v, w \in Workers : pc[v] \in Syncing /\ pc[w] \in Syncing => v = w

\* At most one row says "running": a run that replaces a dead one closes the
\* dead one's row in the transaction that creates its own.
OneRunningRow ==
    \A j, k \in Jobs : jobs[j] = "running" /\ jobs[k] = "running" => j = k

\* What runs and what the rows say: one sync at a time.
OneAtATime == NoConcurrentSync /\ OneRunningRow

\* The saved cursor never runs ahead of the data: whoever resumes from it
\* finds every item of the earlier pages durable, whatever crashed in between.
CheckpointCovered == PagesBefore(checkpoint) \subseteq ledger

\* A run is reported as succeeded only when every item of its window is
\* durable, although several attempts by several workers may have shared it.
SuccessIsComplete ==
    [][\A j \in Jobs : jobs[j] # "succeeded" /\ jobs'[j] = "succeeded"
                          => ledger = Items]_vars

\* A finished run stays what it was: "succeeded" and "dead_lettered" are
\* final and a failed run never becomes a success or starts running again.
HistoryIsFinal ==
    [][\A j \in Jobs :
         /\ jobs[j] \in {"succeeded", "dead_lettered"} =>
                jobs'[j] \in {jobs[j], "none"}
         /\ jobs[j] = "failed" =>
                jobs'[j] \in {"failed", "dead_lettered", "none"}]_vars

\* Once a connector is deleted and every sync in flight has either dropped
\* its copy of the row or read it again, it stays deleted for ever: neither a
\* queued retry, nor a new sync, nor a failure report brings it back.
Deleted ==
    /\ status = "disconnected"
    /\ \A w \in Workers :
         pc[w] \in Syncing => seen[w] \in {"expired", "disconnected"}

DeletionSettles == [][Deleted => Deleted']_vars

\* A deleted connector stays deleted, whatever sync was in flight.
DisconnectIsFinal == [][status = "disconnected" => status' = "disconnected"]_vars

\* No run is stuck at "running" for ever while the connector exists: even if
\* its worker died, a later attempt closes its row.
NoStuckRun ==
    \A j \in Jobs :
        jobs[j] = "running" ~> (jobs[j] # "running" \/ status = "disconnected")

\* Attempts that each get through one page add up to a complete window: an
\* attempt resumes where the last one stopped.
KeepsCompleting ==
    []<>(status = "disconnected" \/ \E j \in Jobs : jobs[j] = "succeeded")

\* The sync keeps the promise of SyncContract, with the same cursor and the
\* same durable items.
Contract == INSTANCE SyncContract WITH
                NumPages <- NumPages, ItemsPerPage <- ItemsPerPage,
                ledger <- ledger, checkpoint <- checkpoint
KeepsContract == Contract!Spec

=============================================================================
