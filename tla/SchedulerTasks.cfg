CONSTANTS
    Task = {t1, t2, t3, t4}
    MaxConcurrent = 2
    Threads = 3
    NoTask = NoTask

SPECIFICATION Spec

INVARIANTS
    TypeOK
    OnePlace
    CountExact
    ConcurrencyBound
    NoStrandedTask

PROPERTIES
    ImplementsService
    EveryTaskCompletes
