CONSTANTS
    Managers = {am, pm}
    AsyncStartup = {}
    AsyncShutdown = {am}
    AsyncUnregister = {pm}
    None = none
    MaxResults = 1
    MaxCalls = 1
SPECIFICATION FairSpec
PROPERTY ShutdownCompletes
CHECK_DEADLOCK FALSE
