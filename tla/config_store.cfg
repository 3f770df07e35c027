SPECIFICATION Spec
CONSTANTS
    v1 = v1
    v2 = v2
    Version <- Versions
    Default = Default
    Erased = Erased
    N_DW = 4
    MAX_SAVES = 3
SYMMETRY Symmetric
INVARIANTS TypeOK SavedIsKept OneVersion
