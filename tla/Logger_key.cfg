\* A logger that is destroyed and initialized for another session.
SPECIFICATION Spec
CONSTANTS
    Tabs = {t1}
    Sessions = {s1, s2}
    Calls = {c1}
    Ops = {"destroy"}
    MaxLines = 2
    MaxTime = 0
    MaxPending = 1
    MaxEntries = 1
    Retention = 1
    None = None
SYMMETRY Symmetric
INVARIANTS
    EntriesAreReadable
CHECK_DEADLOCK FALSE
