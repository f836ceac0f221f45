SPECIFICATION LiveSpec
CONSTANTS
    Parts = {"server"}
    Procs = {p1, p2}
    NoProc = NoProc
    MaxContexts = 1
    MaxClients = 2
    MaxTimeouts = 1
    Kinds = {"lazy", "eager", "modern"}
    Faults = {"prep", "dial", "ping", "caps", "close"}
    Ops = {"ensure", "sleep", "timeout", "add", "create", "reconnect", "remove"}
    Requests = {p1}
    u1 = u1
    u2 = u2
    u3 = u3
    i1 = i1
    NoIdentity = NoIdentity
    Users = {u1, u2, u3}
    Identities = {i1}
    IdentityOf <- OneIdentity
    Namespaces = {"server", "entity"}
    MaxPurges = 1
    SecondHit = TRUE
    StoreFaults = {"versions", "get", "set", "admission"}
PROPERTIES OperationsEnd OperationsProgress
