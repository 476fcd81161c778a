CONSTANTS
    Clients = {c1}
    Count = 1
    Hashes = {3}
    EmptyHash = 5
    MaxInc = 1
    MaxOpens = 1
    Mortal = {}
    None = None
SPECIFICATION Spec
INVARIANT PostedServersServe
CHECK_DEADLOCK FALSE
