CONSTANTS
    Call = {r1, r2}
    Conn = {c1, c2, c3}
    MaxPools = 2
    PoolSize = 1
    Threads = 2
    NoCall = NoCall
    NoConn = NoConn

SPECIFICATION Safe

SYMMETRY PoolSymmetry

INVARIANTS
    TypeOK
    OneOwner
    OneAnswer
    WaitIsJustified
    OvershootBound
    EveryConnectionCounted
    ConnectIsSerial
    OwnPool

PROPERTIES
    ImplementsService
