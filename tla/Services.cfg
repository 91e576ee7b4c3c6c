SPECIFICATION ServicesSpec
CONSTANTS
    b1 = b1
    b2 = b2
    w1 = w1
    w2 = w2
    backend = backend
    worker = worker
    Threads <- FourThreads
    Procs <- TwoProcs
    ProcOf <- Placement
    NoThread = NoThread
    NoFile = NoFile
    Prompt = TRUE
    Restarts = FALSE
    MaxCrashes = 2
    Views = {1}
    PubMaxSource = 2
    PubMaxJobs = 2
    PubMaxKills = 1
    Callers = {1, 2, 3}
    Keys = {"k"}
    Outcomes = {ok, error}
    NoKey = NoKey
    Pending = Pending
    MaxRequests = 3
    Writers = {1, 2}
    Readers = {1}
    Nobody = Nobody
    MaxEvents = 3
    EvMaxFaults = 2
    Batch = 2
    Candidates = 5
    BatchSize = 2
    EmbMaxSource = 2
    EmbMaxFaults = 4
    Tiles = {1, 2, 3, 4}
    TileInfo <- FourTiles
    Scenes = {"a", "b"}
    CutSources = {s1, s2}
    Ratios <- HalfAndQuarter
    BlockTiles = 1
    BufferTiles = 1
INVARIANTS TypesOK MutualExclusion ShownIsCurrent EachEventOnce IndexIsWhole NothingLeaks
PROPERTIES LiveLockStays DeadLockIsTaken CandidateSettles ImplementsSharedCall RequestsEnd
CHECK_DEADLOCK FALSE
