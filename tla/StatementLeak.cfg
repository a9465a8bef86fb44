CONSTANTS
    Columns <- MCColumns
    MaxRows = 1
    MaxRefused = 1
    Null = Null

SPECIFICATION Safe

INVARIANTS
    NothingLeft
