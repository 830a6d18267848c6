\* Two tabs; forks that fail lead to other forks, and a tab alone is followed one load
\* further: what a reload lost before the tab left can be asked for again.
SPECIFICATION Spec
CONSTANTS
    Tabs = {t1, t2}
    LocalIds = {l1}
    Data = {d1}
    MaxRequests = 3
    MaxForks = 2
    MaxLoads = 4
    SharedLoads = 3
    None = None
SYMMETRY Symmetric
CONSTRAINT Within
INVARIANTS
    OwnForksCanBePulled
    DataComesBack
    SpentStatesAreForgotten
CHECK_DEADLOCK FALSE
