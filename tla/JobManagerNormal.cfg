SPECIFICATION FairSpec
CONSTANTS
    j1 = j1
    j2 = j2
    Gpu = Gpu
    Key1 = Key1
    NoJob = NoJob
    NoKey = NoKey
    Jobs <- TwoJobs
    Threads = {t1}
    Requests = {r1}
    Class <- GpuClass
    Limit <- OneGpu
    Key <- NoKeys
    Prio <- MCPrio
    LockTimeouts = FALSE
    UnknownProbe = FALSE
    TimelyHeartbeat = TRUE
    WorkerCrashes = TRUE
    MaxCrashes = 0
INVARIANTS TypeOK ResourceLimit NoPhantomLease
PROPERTIES EveryJobSettles
