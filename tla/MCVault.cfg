SPECIFICATION Spec
CONSTANTS
    Proc = {p1, p2}
    Id = {e1, e2}
    MaxSalts = 2
SYMMETRY Symmetry
INVARIANTS
    TypeOK
    ListedHasBlob
    AddedIsListed
    DestroyedIsUnreadable
