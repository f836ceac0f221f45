CONSTANTS
    SUsers = {u1, u2}
    Devices = {d1, d2}
    Asks = {k1, k2}
    Jobs = {j1, j2}
    Sids = {m1}
    Approvals = {ap1}
    ApprovalOwner <- OwnerOfFirst
    NoUser = NoUser
    NoList = NoList
    NoDev = NoDev
    ESessions = {ea, eb}
    Streams = {g, q}
    MaxEvents = 3
    CacheSize = 1
    MaxCacheSize = 1
    NoStream = NoStream
    RSess = {sa, sb}
    Rids = {0, 1}
    RetryLimit = 1
    MaxEpoch = 2
    Limits = {0, 2}
    MaxLimit = 2
    Window = 5
    Second = 2
    AddrBits = 2
    IpEntries <- ListEntries
    Guards = {c1, c2}
    MaxIpId = 3
    c1 = c1
    c2 = c2
    u1 = u1
    u2 = u2
    d1 = d1
    d2 = d2
    k1 = k1
    k2 = k2
    j1 = j1
    j2 = j2
    m1 = m1
    ap1 = ap1
    ea = ea
    eb = eb
    g = g
    q = q
    sa = sa
    sb = sb
SPECIFICATION Spec
CHECK_DEADLOCK FALSE
INVARIANTS DevicesServed    
