CONSTANTS
    Servers = {managed, template}
    Templates = {template}
    People = {anyone}
    Handlers = {h1, h2}
    MaxConf = 2
    Uids = {owner1, owner2, user1}
    OwnerIds = {owner1, owner2}
    Requests = {h1, h2}
    MaxPerm = 2
    managed = managed
    template = template
    anyone = anyone
    h1 = h1
    h2 = h2
    owner1 = owner1
    owner2 = owner2
    user1 = user1
SPECIFICATION Spec
SYMMETRY Symmetry
CHECK_DEADLOCK FALSE
INVARIANTS ServersSound UsersSound
PROPERTY OwnerKept
