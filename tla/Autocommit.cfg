SPECIFICATION FairSpec
CONSTANTS
    update = update
    query = query
    create1 = create1
    create2 = create2
    Op = {update, query, create1, create2}
    KindOf <- MCKindOf
    SizeOf <- MCSizeOf
    PriorityOf <- MCPriorityOf
    DBThreads = 33
    UninitialisedFlag = {TRUE, FALSE}
    MaxFailures = 1
INVARIANTS
    AutocommitRestored
CHECK_DEADLOCK FALSE
