\* One tab and one session: writes, clean-ups, reads, clears and a destroy overlap.
SPECIFICATION Spec
CONSTANTS
    Tabs = {t1}
    Sessions = {s1}
    Calls = {c1, c2}
    Ops = {"flush", "getLogs", "clearLogs", "destroy"}
    MaxLines = 2
    MaxTime = 1
    MaxPending = 1
    MaxEntries = 1
    Retention = 1
    None = None
SYMMETRY Symmetric
INVARIANTS
    LinesInOrder
    
    NothingIsForgotten
CHECK_DEADLOCK FALSE
