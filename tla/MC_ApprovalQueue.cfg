SPECIFICATION LiveSpec
CONSTANTS
    Calls = {c1, c2}
    Modern = {c2}
    Hashes = {h1}
    NoHash = NoHash
    MaxRows = 3
    Expiry = 1
    Stale = 1
    Window = 1
    Wait = 1
    HashLimit = 1
    ToolLimit = 2
    MaxConflicts = 1
    MaxRetries = 1
    Skew = 1
INVARIANTS TypeOK RequestsSound BoundedOvershoot
PROPERTIES TerminalIsFinal LifeKept HandlersProgress NothingHangs
