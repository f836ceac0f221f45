SPECIFICATION Spec
CONSTANTS
    Absent = Absent
    NoClient = NoClient
    Clients = {c1, c2}
    UrlClients = {c2}
    Scopes = {a, b}
    Legacy = {a}
    Asked = {{a}, {a, b}}
    Flows = {1}
    Reqs = {q1, q2}
    MaxCodes = 1
    MaxRows = 2
    MaxAccess = 2
    Registrations = 1
SYMMETRY ReqSymmetry
INVARIANT TokensSound
PROPERTIES GrantsKept FlowKeepsOutcome

