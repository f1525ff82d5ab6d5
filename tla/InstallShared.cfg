SPECIFICATION Spec
CONSTANTS
    p1 = p1
    p2 = p2
    s1 = s1
    s2 = s2
    s3 = s3
    s4 = s4
    s5 = s5
    folder = folder
    source = source
    Unknown = Unknown
    Junk = Junk
    Proc <- MCProc
    Software <- MCSoftware
    Url <- MCUrl
    Names <- MCNames
    Archive <- MCArchive
    Folders <- MCFolders
    MaxRuns = 3
INVARIANT TypeOK
INVARIANT WorkApart
INVARIANT WorksBelowTmp
INVARIANT DirectoriesAreStems
INVARIANT MakesWholeTree
PROPERTY NoSecondAttempt
CHECK_DEADLOCK FALSE
