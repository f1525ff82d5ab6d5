SPECIFICATION Spec
CONSTANTS
    Software = {"s1", "s2"}
    Lines <- MCLines
    MaxRecords <- MCRecords
    MaxDeps = 1
    MaxFailures = 1
    CharIsSigned = TRUE
INVARIANT TypeOK
INVARIANT OneOwner
INVARIANT DestroyIsDefined
INVARIANT CleanEnd
INVARIANT GivesUp
 
INVARIANT UsageIsAccepted
\* A process ends, or meets undefined behaviour.
CHECK_DEADLOCK FALSE
