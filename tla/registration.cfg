SPECIFICATION FairSpec
CONSTANTS
    Procs = {p1, p2}
    Versions = {1, 2}
    MaxKeys = 3
    MaxFaults = 1
INVARIANTS ConfigIsBacked CompletedAgrees
PROPERTIES RefreshReachesVersion
CHECK_DEADLOCK FALSE
