SPECIFICATION Spec
CONSTANTS
    k1 = k1
    k2 = k2
    k3 = k3
    k4 = k4
    v1 = v1
    v2 = v2
    v3 = v3
    v4 = v4
    NULL = NULL
    Key <- MCKey
    Value <- MCValue
    Bucket = {0, 1}
    Hash <- MCHash
    MaxBodies = 4
INVARIANT TypeOK
INVARIANT OneEntryPerKey
INVARIANT CountsAgree
INVARIANT OnlySetLeaks
PROPERTY RefinesDictionary
SYMMETRY Interchangeable
CHECK_DEADLOCK FALSE
