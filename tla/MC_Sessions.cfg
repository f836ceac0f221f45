SPECIFICATION PartsSpec
CONSTANTS
    u1 = u1
    u2 = u2
    c1 = c1
    c2 = c2
    first = first
    second = second
    NoCred = NoCred
    Users = {u1, u2}
    Creds = {c1, c2}
    Owner <- TwoUsers
    Tasks = {t1, t2}
    CUsers = {first, second}
    CHandlers = {t1, t2}
    CPublic = TRUE
    MaxSids = 2
    MaxObjs = 3
    Ops = {"sweep", "bulk", "clear", "disable", "fail"}
SYMMETRY Symmetry
CHECK_DEADLOCK FALSE
INVARIANTS TypesOK OneOpenPerId ReuseKeepsOwner  LayersHold 
