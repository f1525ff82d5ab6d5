SPECIFICATION Spec
CONSTANTS
    Node = {n1, n2, n3, n4}
    Data = {d1, d2}
    NULL = NULL
    MaxCount = 4
SYMMETRY Interchangeable
INVARIANT TypeOK
INVARIANT BoundedWalk
INVARIANT EmptinessAgrees
INVARIANT InShape
INVARIANT NoCallIsWild
PROPERTY RefinesDeque
\* Undefined behaviour ends a behaviour.
CHECK_DEADLOCK FALSE
