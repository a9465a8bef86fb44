CONSTANTS
    Job = {j1, j2}
    Threads = 2
    Reconnect = {FALSE}
    MaxCalls = 2
    MaxId = 1
    MaxLeases = 1
    NoJob = NoJob

SPECIFICATION CarelessSpec

CHECK_DEADLOCK FALSE

INVARIANTS
    TasksHaveConnection
