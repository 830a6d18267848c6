\* Three sessions of two local ids, and two calls.
SPECIFICATION Spec
CONSTANTS
    l1 = l1
    l2 = l2
    u1 = u1
    u2 = u2
    u3 = u3
    LocalIds = {l1, l2}
    Uids = {u1, u2, u3}
    LocalIdOf <- MCLocalIdOf
    Calls = {c1, c2}
    None = None
INVARIANTS
    ListsWhatIsLocal
PROPERTIES
    KeepsWhatWasRead
CHECK_DEADLOCK FALSE
