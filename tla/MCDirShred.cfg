SPECIFICATION FairSpec
CONSTANTS
    t1 = t1
    t2 = t2
    root = root
    sub = sub
    subsub = subsub
    f1 = f1
    f2 = f2
    f3 = f3
    link = link
    Thread <- MCThread
    Dir <- MCDir
    Root = root
    File <- MCFile
    Other <- MCOther
    ParentOf <- MCParentOf
CHECK_DEADLOCK FALSE
INVARIANTS
    TypeOK
    SummaryTrue
    EveryCountDelivered
    CancelStopsNew
    LeftDirsHaveReason
PROPERTY Terminates
