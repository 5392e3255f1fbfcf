SPECIFICATION FairSpec
CONSTANTS
    update = update
    query = query
    create1 = create1
    create2 = create2
    Op = {update, query, create1, create2}
    KindOf <- MCKindOf
    SizeOf <- MCSizeOf
    PriorityOf <- MCPriorityOf
    DBThreads = 2
    UninitialisedFlag = {TRUE, FALSE}
    MaxFailures = 2
INVARIANTS
    TypeOK
    Durable
PROPERTIES
    StoreRefined
    OperationsSettle
    CloseEndsWorkers
CHECK_DEADLOCK FALSE
