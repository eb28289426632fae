SPECIFICATION FairSpec
CONSTANTS
    DbTypes = {"mysql", "sqlite"}
    Workers = {w1, w2}
    SqliteWorker = w1
    Shapes <- AllShapes
    MaxRequests = 2
INVARIANTS
    PoolInv
    ConnectionsBounded
    TransactionsUndone
    SqliteKeepsOrder
PROPERTIES
    CalledOnce
    EveryoneCalled
CHECK_DEADLOCK FALSE
