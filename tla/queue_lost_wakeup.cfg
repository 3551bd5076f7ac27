CONSTANTS
    Producers = {p1}
    Consumer = c
    Elements = {e1, e2}
    Garbage = garbage
    NoThread = none
    Overload = "plain"
    Timeouts = {"zero", "finite", "none"}
    MaxInserts = 3
SPECIFICATION PlainSpec
INVARIANT NoSleepBesideElement
CHECK_DEADLOCK FALSE
