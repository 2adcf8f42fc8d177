SPECIFICATION SyncedSpec
CONSTANTS
    Workers = {w1}
    Tasks = {t1}
    Jobs = {j1, j2}
    NumPages = 2
    ItemsPerPage = 1
    MaxJobTries = 2
    LockLoss = TRUE
    CheckpointsExpire = FALSE
    NoOne = NoOne
    Orphan = Orphan
    NoTask = NoTask
    NoJob = NoJob
PROPERTIES
    NoStuckRun
    KeepsCompleting
