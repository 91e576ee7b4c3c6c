SPECIFICATION Spec
CONSTANTS
    Requests = {q1, q2}
    Mine = {a1, a2}
    Theirs = {b1}
    None = None
    MaxAsks = 4
    MaxCrashes = 1
SYMMETRY Symmetric
INVARIANTS TypeOK AloneSettles
PROPERTIES NothingLost OptimisticSave
CHECK_DEADLOCK FALSE
