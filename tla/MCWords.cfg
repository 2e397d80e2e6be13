\* 4-bit counts (-8..7), 3-bit biased counts, 2-bit thread ids.
CONSTANTS
    SharedHalf = 8
    BiasedMax = 7
    IdRange = 4
    None = None
SPECIFICATION Spec
INVARIANTS
    Packing
    FetchEffect
