SPECIFICATION Spec
CONSTANTS
    NameLen = 2
    DescLen = 2
    UrlLen = 3
    DepsWidth = 3
    Arguments <- MCArguments
    Behind <- MCBehind
    Garbage <- MCGarbage
    MaxRecords = 2
    MaxCut = 1
INVARIANT TypeOK
INVARIANT FittingRecordsReturn
INVARIANT CutsInventNothing
PROPERTY ReadsAsFields
CHECK_DEADLOCK FALSE
