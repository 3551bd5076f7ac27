CONSTANTS
    Producers = {p1, p2}
    Consumer = c
    Elements = {e1, e2}
    Garbage = garbage
    NoThread = none
    Overload = "watchable"
    Timeouts = {"zero", "finite", "none"}
    MaxInserts = 3
SPECIFICATION FairSpec
INVARIANTS TypeOK MutualExclusion SignalMatchesList NeverTakesFromEmpty
PROPERTIES EveryElementTaken ImplementsAbstractQueue
CHECK_DEADLOCK FALSE
