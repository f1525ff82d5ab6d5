SPECIFICATION SpecWithFiles
CONSTANTS
    a = a
    b = b
    c = c
    t1 = t1
    t2 = t2
    p1 = p1
    p2 = p2
    Stump = Stump
    Look = Look
    Absent = Absent
    Name <- MCName
    Text <- MCText
    Garbage <- MCGarbage
    Proc <- TwoProcs
    Additions <- TwoAdditions
    Faults = FALSE
    MaxRuns = 2
INVARIANT ReportedIsAdded
CHECK_DEADLOCK FALSE
