CONSTANTS
    Conn = {c1, c2}
    Imei = {a, b}
    NoImei = NoImei
    NoDev = NoDev
    MaxReq = 3
SPECIFICATION Spec
INVARIANT EndStopsControl
