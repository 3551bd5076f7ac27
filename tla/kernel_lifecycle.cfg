CONSTANTS
    Managers = {am, pm, fm, nm}
    AsyncStartup = {fm}
    AsyncShutdown = {am, fm}
    AsyncUnregister = {pm}
    None = none
    MaxResults = 2
    MaxCalls = 2
SPECIFICATION FairSpec
INVARIANTS TypeOK TimeoutMeansEvent NeverSleepsBesideEvent StartupBarrier ShutdownBarrier
PROPERTIES StatesAdvance StartupCompletes OrderlyShutdownCompletes
CHECK_DEADLOCK FALSE
