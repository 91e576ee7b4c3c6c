SPECIFICATION FairSpec
CONSTANTS
    v0 = v0
    v1 = v1
    Scenes = {s1}
    Values <- TwoValues
    Empty = v0
    Absent = Absent
    Writers = {w1, w2}
    Readers = {r1}
    Nobody = Nobody
    Kinds <- AllKinds
    MaxAttempts = 3
    MaxMutations = 2
    MaxCrashes = 0
    BuildFaults = FALSE
INVARIANTS AnswersFresh
PROPERTIES Converges
