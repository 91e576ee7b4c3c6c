SPECIFICATION Spec
CONSTANTS
    b1 = b1
    b2 = b2
    w1 = w1
    w2 = w2
    backend = backend
    worker = worker
    Threads <- FourThreads
    Procs <- TwoProcs
    ProcOf <- Placement
    NoThread = NoThread
    NoFile = NoFile
    Prompt = TRUE
    Restarts = TRUE
    MaxCrashes = 1
INVARIANTS MutualExclusion
