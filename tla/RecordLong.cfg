SPECIFICATION Spec
CONSTANTS
    NameLen = 2
    DescLen = 2
    UrlLen = 3
    DepsWidth = 65536
    Arguments <- MCArguments
    Behind <- MCBehind
    Garbage <- MCGarbage
    MaxRecords = 1
    MaxCut = 0
INVARIANT RecordsReturn
CHECK_DEADLOCK FALSE
