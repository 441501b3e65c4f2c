SPECIFICATION FairSpec
CONSTANTS
    MaxAttempts = 5
    MaxFaults = 2
INVARIANTS TypeOK RunsOncePerKey SavedIsStored
PROPERTIES ImplementsSaveOnce SaveIsAnswered
CHECK_DEADLOCK FALSE
