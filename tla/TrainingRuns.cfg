SPECIFICATION FairSpec
CONSTANTS
    Runs = {r1, r2}
    Listers = {l1}
    Editors = {e1}
    NoRun = NoRun
    Cancels = {c1}
    MaxFaults = 1
INVARIANTS TypeOK RegisteredIsFinished PathResolves CompletedIsFinished
PROPERTIES DeleteSparesWorker RunningSettles
CHECK_DEADLOCK FALSE
