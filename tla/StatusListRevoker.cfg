\* A list about to grow past its minimum, and one revoker.
CONSTANTS
    a1 = a1
    a2 = a2
    e1 = e1
    v1 = v1
    None = None
    Allocations = {a1, a2}
    Nested = {a1}
    Operators = {}
    Revokers = {v1}
    Entities = {e1}
    Earlier = 3
    MinimumInputSize = 4
    MaxRetries = 2
SPECIFICATION FairSpec
INVARIANTS PublishedIsCurrent TokenHasRoom RetriesPaidFor
PROPERTIES AllocationEnds
CHECK_DEADLOCK FALSE
