CONSTANTS
    Source <- MCSource
    Items = 4
    None = None
SPECIFICATION Spec
CHECK_DEADLOCK FALSE
INVARIANTS
    ConstructionInv
    DroppedOnce
    Whole
    Released
