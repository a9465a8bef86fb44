CONSTANTS
    Job = {j1, j2}
    Threads = 2
    Reconnect = {TRUE}
    MaxCalls = 3
    MaxId = 2
    NoJob = NoJob

SPECIFICATION Safe

PROPERTIES
    TransactionCovers
