SPECIFICATION Spec
CONSTANTS
    Metadata = {revparse}
    Gated = {cat}
    Contents = {v1, v2}
    Prewarmers = {q}
    None = None
    MaxEdits = 2
    MaxPrepared = 2
    MaxFaults = 1
SYMMETRY Symmetry
INVARIANTS
    TypeOK
    HitExact
PROPERTIES
    NothingUnlearned
