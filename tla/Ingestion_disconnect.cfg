SPECIFICATION Spec
CONSTANTS
    Workers = {w1, w2}
    Tasks = {t1, t2}
    Jobs = {j1, j2, j3}
    NumPages = 2
    ItemsPerPage = 1
    MaxJobTries = 2
    LockLoss = FALSE
    CheckpointsExpire = TRUE
    NoOne = NoOne
    Orphan = Orphan
    NoTask = NoTask
    NoJob = NoJob
PROPERTY DisconnectIsFinal
