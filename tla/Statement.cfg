CONSTANTS
    Columns <- MCColumns
    MaxRows = 2
    MaxRefused = 2
    Null = Null

SPECIFICATION Spec

INVARIANTS
    TypeOK
    AnswerIsWhole
    DeletedOnce
    AcceptedCallsLeaveNothing

PROPERTIES
    QueuedCallEnds
