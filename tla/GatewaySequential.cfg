CONSTANTS
    Conn = {c1, c2, c3}
    Imei = {a, b}
    NoImei = NoImei
    NoDev = NoDev
    MaxReq = 4
SPECIFICATION SequentialSpec
SYMMETRY Symmetry
INVARIANT SingleControl
PROPERTY ImplementsTakeover
