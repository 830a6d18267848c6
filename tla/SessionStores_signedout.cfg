\* Two calls and one local id suffice; nothing is stored otherwise.
SPECIFICATION SpecStores
CONSTANTS
    o1 = o1
    Tabs = {t1, t2}
    Calls = {c1, c2}
    LocalIds = {1}
    OldUids = {o1}
    OldLocalId <- MCOldLocalId
    None = None
    s1 = s1
    s2 = s2
    s3 = s3
    s4 = s4
    session = session
    other = other
    Saves = {}
    StorageKeys = {session, other}
    KeyOf <- MCKeyOf
    NoSave = NoSave
INVARIANTS
    SignedOutIsGone
CHECK_DEADLOCK FALSE
