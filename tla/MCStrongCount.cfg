CONSTANTS
    o = o
    t1 = t1
    t2 = t2
    r1 = r1
    r2 = r2
    r3 = r3
    None = None
    Owner = o
    Thread <- MCThread
    Ref <- MCRef
    Anonymous <- MCAnonymous
    AnonymousReads = TRUE
    WeakMax = 9
    SharedHalf = 8
    BiasedMax = 3
    IdRange = 4
SPECIFICATION DisciplinedBrcSpec
SYMMETRY Symmetry
CHECK_DEADLOCK FALSE
INVARIANT
    OwnReferenceCounted
