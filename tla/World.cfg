SPECIFICATION Spec
CONSTANTS
    Client = {c1, c2}
    Name = {n, m}
    NoName = NoName
    Threads <- MCThreads
    CharLimit = 2
    AccountLimit = 3
    Elsewhere = {0, 2}
    FirstGuids = {0, 1}
    GuidMemory = {0}
    MaxCreations = 3
    MaxLists = 1
    MaxFailures = 1
SYMMETRY
    Symmetry
INVARIANTS
    TypeOK
    AccountLimitKept
    LimitsKept
    PromisesKept
    CreatedIsListed
CHECK_DEADLOCK FALSE
