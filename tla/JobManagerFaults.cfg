SPECIFICATION Spec
CONSTANTS
    j1 = j1
    j2 = j2
    Gpu = Gpu
    Key1 = Key1
    NoJob = NoJob
    NoKey = NoKey
    Jobs <- OneJob
    Threads = {t1, t2}
    Requests = {r1}
    Class <- GpuClass
    Limit <- OneGpu
    Key <- NoKeys
    Prio <- MCPrio
    LockTimeouts = TRUE
    UnknownProbe = TRUE
    TimelyHeartbeat = FALSE
    WorkerCrashes = TRUE
    MaxCrashes = 1
INVARIANTS SpawnOnce EarlyCancelNeverRuns
