SPECIFICATION FairSpec
CONSTANTS
    f1 = f1
    f2 = f2
    Proc = {p1, p2}
    Key = {k1}
    File <- MCFile
    InDir <- MCInDir
    MaxRuns = 2
    MaxEntries = 2
CHECK_DEADLOCK FALSE
INVARIANTS
    TypeOK
    LogOutlivesCommands
    EffectsLogged
    EntriesTrue
PROPERTY EveryRunEnds
