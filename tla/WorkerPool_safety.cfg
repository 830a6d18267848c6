\* Four calls, two workers, the pool started twice at most. Calls end for good.
SPECIFICATION Spec
CONSTANTS
    Calls = {c1, c2, c3, c4}
    PoolSize = 2
    Starts = {0, 10}
    None = None
SYMMETRY Symmetric
INVARIANTS
    IndexNamesOneKey
    
    ClearedIsGone

    
CHECK_DEADLOCK FALSE
