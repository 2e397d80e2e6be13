CONSTANTS
    o = o
    t1 = t1
    t2 = t2
    x1 = x1
    x2 = x2
    x3 = x3
    NoObject = NoObject
    Owner = o
    Thread <- MCThread
    Object <- MCObject
    MaxDepth = 2
    MayPanic = TRUE
SPECIFICATION Spec
SYMMETRY Symmetry
CHECK_DEADLOCK FALSE
INVARIANT
    QueuedIsFlagged
