CONSTANTS
    Source <- MCBox
    Items = 1
    None = None
SPECIFICATION Spec
CHECK_DEADLOCK FALSE
INVARIANT
    DroppedOnce
