CONSTANTS
    o = o
    t1 = t1
    t2 = t2
    r1 = r1
    r2 = r2
    r3 = r3
    r4 = r4
    r5 = r5
    r6 = r6
    None = None
    Owner = o
    Thread <- MCThread
    Ref <- MCRef3
    SharedHalf = 8
    BiasedMax = 3
    IdRange = 4
SPECIFICATION DisciplinedSpec
CHECK_DEADLOCK FALSE
INVARIANT
    UnownValid
