CONSTANTS
    Conn = {c1}
    Imei = {a}
    NoImei = NoImei
    NoDev = NoDev
    MaxKeys = 4
    MaxPosted = 2
    MaxAsk = 2
SPECIFICATION OneByOneSpec
INVARIANTS
    SystemTypeOK
    EndLast
    DrivenShown
    ReleaseUnderWay
