CONSTANTS
    Call = {r1, r2, r3}
    Conn = {c1, c2}
    MaxPools = 1
    PoolSize = 1
    Threads = 2
    NoCall = NoCall
    NoConn = NoConn

SPECIFICATION WellBehaved

INVARIANTS
    WaiterHasAProvider
    NoConnectionLeaked
    NoPlaceLost

PROPERTIES
    TasksAnswered
    SomeWaiterServed
    QuietPoolServesAll
