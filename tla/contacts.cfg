SPECIFICATION Spec
CONSTANTS
    Ifaces = {wifi, bt}
    MaxInputs = 3
CHECK_DEADLOCK FALSE
INVARIANTS OneRecordPerInterface PendingHasTimer NeighborIsTold
PROPERTY InterfaceFindsNode
