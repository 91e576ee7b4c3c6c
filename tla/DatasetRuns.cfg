SPECIFICATION FairSpec
CONSTANTS
    MaxRuns = 2
    Requests = {q1}
    Editors = {q1}
    Builder = b
    Labels = {v1}
    NoLabel = NoLabel
    Torn = Torn
    MaxEdits = 2
    MaxFaults = 1
    TornKills = FALSE
INVARIANTS TypeOK PublishedLabelsDiffer CompleteHasTiles
PROPERTIES CommitIsFinal IndexCatchesUp
CHECK_DEADLOCK FALSE
