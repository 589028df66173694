SPECIFICATION FairSpec
CONSTANTS
    BatchSize = 2
    BufferSize = 2
    ArrivalSizes = {0,1,3}
    SendSpace = 1
    MaxDatagrams = 4
    MaxArrivals = 2
    MaxTime = 1
INVARIANTS WireExact NotBeforeItsTime ReceivedExact AwaitsWithCause
PROPERTIES ComesToRest
CHECK_DEADLOCK FALSE
