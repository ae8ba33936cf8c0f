CONSTANTS
    Conn = {c1, c2}
    Imei = {a, b}
    NoImei = NoImei
    NoDev = NoDev
    MaxReq = 2
SPECIFICATION LiveSpec
INVARIANTS
    TypeOK
    IndexAgrees
    FastDevWired
    TimerOwed
PROPERTIES
    LossEndsControl
    RequestResolved
    RequestKept
