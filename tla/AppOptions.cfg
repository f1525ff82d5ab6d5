SPECIFICATION Spec
CONSTANTS
    Software = {"s1", "s2"}
    Lines <- MCUsageLines
    MaxRecords <- MCRecords
    MaxDeps = 1
    MaxFailures = 1
    CharIsSigned = FALSE
INVARIANT UsageIsAccepted
\* A process ends, or meets undefined behaviour.
CHECK_DEADLOCK FALSE
