SPECIFICATION Spec
CONSTANTS
    v0 = v0
    v1 = v1
    Scenes = {s1}
    Values <- TwoValues
    Empty = v0
    Absent = Absent
    Writers = {w1}
    Readers = {r1}
    Nobody = Nobody
    Kinds <- Saves
    MaxAttempts = 3
    MaxMutations = 1
    MaxCrashes = 1
    BuildFaults = FALSE
INVARIANTS NeverSilentlyStale
