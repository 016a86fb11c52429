\* Three concurrent allocations on a new list, two of them inside an issuance,
\* and one operator.
CONSTANTS
    a1 = a1
    a2 = a2
    a3 = a3
    e1 = e1
    e2 = e2
    o1 = o1
    None = None
    Allocations = {a1, a2, a3}
    Nested = {a1, a2}
    Operators = {o1}
    Revokers = {}
    Entities = {e1, e2}
    Earlier = 0
    MinimumInputSize = 4
    MaxRetries = 2
SPECIFICATION Spec
INVARIANTS IInv PublishedIsCurrent
PROPERTIES AppendsOnly
CHECK_DEADLOCK FALSE
