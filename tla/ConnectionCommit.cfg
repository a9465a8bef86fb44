CONSTANTS
    Job = {j1, j2}
    Threads = 2
    Reconnect = {FALSE}
    MaxCalls = 3
    MaxId = 2
    NoJob = NoJob

SPECIFICATION Safe

INVARIANTS
    NoTransactionLeft
