CONSTANTS
    t1 = t1
    t2 = t2
    t3 = t3
    x1 = x1
    x2 = x2
    None = None
    Thread <- MCThread
    Object <- MCObject
    MaxId = 2
SPECIFICATION Spec
SYMMETRY Symmetry
CHECK_DEADLOCK FALSE
INVARIANTS
    IdsInv
    StateCoherent
    OwnerEntry
    QueuedIsWatched
    IdsSpentFirst
    TableBounded
PROPERTIES
    OneLife
    RefinesOwnership
