CONSTANTS
    o = o
    t1 = t1
    t2 = t2
    r1 = r1
    r2 = r2
    r3 = r3
    None = None
    Owner = o
    Thread <- MCThread
    Ref <- MCRef
    Anonymous <- MCAnonymous
    AnonymousReads = FALSE
    WeakMax = 9
    SharedHalf = 8
    BiasedMax = 2
    IdRange = 4
SPECIFICATION DisciplinedHandoverSpec
SYMMETRY Symmetry
CHECK_DEADLOCK FALSE
INVARIANTS
    BrcInv
    WeakExact
    ExclusiveAccess
    StrongCountExact
    SharedCovers
PROPERTY
    DisciplinedSpec
