CONSTANTS
    Conn = {c1, c2}
    Imei = {a, b}
    NoImei = NoImei
    NoDev = NoDev
    MaxKeys = 4
    MaxPosted = 2
    MaxAsk = 2
SPECIFICATION TwoVehiclesSpec
INVARIANTS
    DrivenShown
    ReleaseUnderWay
PROPERTY LeaveEndsControl
CHECK_DEADLOCK FALSE
