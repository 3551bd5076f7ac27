CONSTANTS
    Senders = {s1}
    Receivers = {r1}
    Servers = {v1}
    Peers = {n1}
    DObjs = {d1}
    None = none
    MaxRequests = 2
    MaxDowns = 1
    MaxMixed = 0
    PROT_CONNECTION_ATTEMPTS = 1
    MaxErrors = 0
    MayShutDown = TRUE
SPECIFICATION FairSpec
INVARIANTS OneVerdictPerRequest RegistryIsLive JoinedBeforeTimeout
PROPERTIES EveryRequestAnswered ShutdownCompletes KernelResumes
CHECK_DEADLOCK FALSE
