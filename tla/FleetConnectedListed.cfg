SPECIFICATION Spec
CONSTANTS
    c1 = c1
    c2 = c2
    c3 = c3
    v1 = v1
    v2 = v2
    v3 = v3
    Conn <- MCConn
    Imei <- MCImei
    NoImei = NoImei
    NoDev = NoDev
    BuiltIn = v1
    PageSize = 2
    MaxStatuses = 2
    MaxRestarts = 0
INVARIANTS ConnectedListed
