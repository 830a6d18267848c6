\* Two tabs and two sessions, setUid switching between them; three calls of one
\* session or two calls of any.  Calls that are never made are not waited for.
SPECIFICATION MCSpec
CONSTANTS
    t1 = t1
    t2 = t2
    c1 = c1
    c2 = c2
    c3 = c3
    u1 = u1
    u2 = u2
    Tabs = {t1, t2}
    Calls = {c1, c2, c3}
    TabOf <- MCTabOf
    Uids = {u1, u2}
    NoUid = NoUid
    NoTab = NoTab
INVARIANTS
    TypeOK
    OneRefreshPerUid
    TokensInStep
    NoSpuriousLogout
    WaitersHaveRefresh
PROPERTIES
    RetryHasNewToken
    ImplementsExchange
    CallsSettle
VIEW MCView
CHECK_DEADLOCK FALSE
