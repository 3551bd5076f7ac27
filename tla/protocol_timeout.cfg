CONSTANTS
    Senders = {s1}
    Receivers = {}
    Servers = {}
    Peers = {n1}
    DObjs = {d1}
    None = none
    MaxRequests = 1
    MaxDowns = 0
    MaxMixed = 0
    PROT_CONNECTION_ATTEMPTS = 1
    MaxErrors = 0
    MayShutDown = TRUE
SPECIFICATION Spec
INVARIANT NoDeleteUnderLiveThread
CHECK_DEADLOCK FALSE
