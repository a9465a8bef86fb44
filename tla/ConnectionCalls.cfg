CONSTANTS
    Job = {j1, j2, j3}
    Threads = 2
    Reconnect = {TRUE, FALSE}
    MaxCalls = 3
    MaxId = 3
    MaxLeases = 2
    NoJob = NoJob

SPECIFICATION CarefulSpec

SYMMETRY JobSymmetry

CHECK_DEADLOCK FALSE

INVARIANTS
    TypeOK
    OwnInsertId
    AnsweredInOrder
    EndedTransaction
    CleanHandover
    AnswersOwnUser
    OneThreadInDriver

PROPERTIES
    CoversWithoutReconnect
