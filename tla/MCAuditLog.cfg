SPECIFICATION Spec
CONSTANTS
    Proc = {p1, p2}
    Key = {k1, k2}
    Op <- MCOp
    Data = {shredded}
    MaxEntries = 3
SYMMETRY Symmetry
ACTION_CONSTRAINT AlterMatters
INVARIANTS
    TypeOK
    RejectionExplained
    OkMeansLogged
PROPERTIES
    TamperEvident
    RejectionIsPermanent
    ImplementsJournal
