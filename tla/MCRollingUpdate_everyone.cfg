SPECIFICATION RollFairSpec
CONSTANTS
    Member = {1, 2, 3}
    MaxRelease = 1
    Off = {}
    MaxFault = 1
CHECK_DEADLOCK FALSE
INVARIANT OneAtRisk
PROPERTY EveryoneUpdates
