SPECIFICATION PrimSpec
CONSTANTS
    NULL = NULL
    Size = 3
    other = other
    Foreign <- MCForeign
    Room = 3
    Object = {a, b}
    t1 = t1
    t2 = t2
    t3 = t3
    t4 = t4
    Tid = {t1, t2, t3, t4}
    System = System
    Permits = 2
    StrayWoken <- Nobody
INVARIANTS
    PoolTypeOK
    NodesConserved
    FreeListExact
    QueueTypeOK
    ChainsAgree
    TypeOK
    PermitsConserved
    WaitersExact
    NoLostWakeup
    LockNeverKept
PROPERTIES
    ImplementsPoolSpec
    ImplementsFifo
    WaiterWoken
