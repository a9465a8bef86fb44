CONSTANTS
    Half = 8
    Second = 3
    DefaultPort = 5
    Text = {"", "undefined", "localhost", "root", "utf8", "other"}
    Dicts <- MCDicts
    Indeterminate = {0, 1, 15}
    Undefined = Undefined
    None = None

SPECIFICATION Safe

INVARIANTS
    TypeOK
    OpensAsGiven
    DefaultsAsDocumented
    SocketDecides
    PoolSizeUsable
