\* Three overlapping calls in two tabs, two local ids, one with a session that was
\* saved before; four overlapping calls of setItem. A call is made once, so TLC sees
\* states where all are done.
SPECIFICATION SpecStores
CONSTANTS
    o1 = o1
    Tabs = {t1, t2}
    Calls = {c1, c2, c3}
    LocalIds = {1, 2}
    OldUids = {o1}
    OldLocalId <- MCOldLocalId
    None = None
    s1 = s1
    s2 = s2
    s3 = s3
    s4 = s4
    session = session
    other = other
    Saves = {s1, s2, s3, s4}
    StorageKeys = {session, other}
    KeyOf <- MCKeyOf
    NoSave = NoSave
SYMMETRY Symmetric
INVARIANTS
    
    NoResurrection
PROPERTIES
    DeletedForCause
    ImplementsRegister
CHECK_DEADLOCK FALSE
