CONSTANTS
    Conn = {c1}
    Imei = {a}
    NoImei = NoImei
    NoDev = NoDev
    MaxKeys = 4
    MaxPosted = 2
    MaxAsk = 1
SPECIFICATION SystemSpec
INVARIANT DisplayTruthful
