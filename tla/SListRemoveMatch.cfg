SPECIFICATION Spec
CONSTANTS
    Node = {n1, n2, n3}
    Data = {d1, d2}
    NULL = NULL
    MaxCount = 3
SYMMETRY Interchangeable
INVARIANT RemoveReturnsMatch
CHECK_DEADLOCK FALSE
