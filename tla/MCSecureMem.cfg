SPECIFICATION Spec
CONSTANTS
    Vault = {v1, v2}
    Page = {1, 2, 3}
    Limit = 2
SYMMETRY Symmetry
INVARIANTS
    SwappedHasReason
    LockedPagesHaveOwner
    NoKeyFreed
