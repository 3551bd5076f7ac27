CONSTANTS
    PlainObjects = {a}
    old = old
    new = new
    n1 = n1
    Descriptions = {old, new}
    Nodes = {n1}
    nodeOf <- MCnodeOf
    createTime <- MCcreateTime
    None = none
    MaxClock = 1
    MaxCalls = 3
    MaxStarts = 2
    MAX_AGED = 1
    MayCrash = TRUE
    KeepOnAging = FALSE
SPECIFICATION FairSpec
INVARIANTS WaitIsSafe StoredIsKnown KnownIsHeld AnnouncedOnce
PROPERTIES DescriptionsGetNewer StopCompletes
CHECK_DEADLOCK FALSE
