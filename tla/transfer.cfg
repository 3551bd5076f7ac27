CONSTANTS
    DataObjects = {d1, d2}
    Empty = {d2}
    Chunks = 1
    Connections = {c1, c2}
    None = none
    MaxSends = 2
    MaxErrors = 0
    SignatureChecked = {d1}
    BadSignature = {}
SPECIFICATION FairSpec
INVARIANTS OneCopyAccepted StoredIsKnown NoMutualWait
PROPERTIES AckedWhenReceived ReceivedIsStored
CHECK_DEADLOCK FALSE
