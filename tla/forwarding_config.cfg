SPECIFICATION Spec
CONSTANTS
    MaxUpdates = 0
    MaxConfigs = 2
    MaxStarts = 1
CHECK_DEADLOCK FALSE
PROPERTY
    ManagerIsNotified
