\* Two revokers at the same time.
CONSTANTS
    a1 = a1
    a2 = a2
    e1 = e1
    e2 = e2
    v1 = v1
    v2 = v2
    None = None
    Allocations = {a1, a2}
    Nested = {a1}
    Operators = {}
    Revokers = {v1, v2}
    Entities = {e1, e2}
    Earlier = 0
    MinimumInputSize = 4
    MaxRetries = 2
SPECIFICATION Spec
SYMMETRY CallSymmetry
INVARIANTS LatestChangesPublished
CHECK_DEADLOCK FALSE
