SPECIFICATION Spec
CONSTANTS
    MaxUpdates = 3
    MaxConfigs = 3
    MaxStarts = 2
CHECK_DEADLOCK FALSE
INVARIANTS ModuleIsUsedSafely LearnedIsSaved
PROPERTIES StartupCompletes ShutdownCompletes
