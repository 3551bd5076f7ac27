CONSTANTS
    DataObjects = {d1, d2}
    Empty = {}
    Chunks = 1
    Connections = {c1}
    None = none
    MaxSends = 2
    MaxErrors = 0
    SignatureChecked = {}
    BadSignature = {}
SPECIFICATION Spec
INVARIANT AckMeansReceived
CHECK_DEADLOCK FALSE
