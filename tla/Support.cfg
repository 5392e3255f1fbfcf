SPECIFICATION Spec
CONSTANTS
    MaxSpawns = 5
    MaxSpawnFailures = 1
    MaxWanted = 2
    OpenMax = 2
    Handler = {h1, h2}
    MaxTimers = 4
    Value = {v1, v2}
    ParamCount = 2
    numFields = 2
    MaxRows = 2
    MaxExecutions = 2
    MaxErrors = 1
    MaxRecords = 2
    MaxFlaws = 1
INVARIANTS
    TypeOK
    NoSecondCopy
    KeepsAnnouncing
    BoundAsAsked
    ReadsOwnRow
    RecordsAligned
PROPERTIES
    ServicesRestarted
CHECK_DEADLOCK FALSE
