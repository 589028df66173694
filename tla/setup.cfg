SPECIFICATION Spec
CONSTANTS
    a4 = a4
    b4 = b4
    a6 = a6
    k1 = k1
    k2 = k2
    V4 = {a4, b4}
    V6 = {a6}
    Keys = {k1, k2}
    Blank = Blank
    Invalid = Invalid
    PortLists <- MCPortLists
    Overrides = {0, 8443}
    MaxPeers = 2
    Minimum = 2
    Granularity = 2
    MaxSize = 32
    MtuOptions = {1200, 1400}
    MinMtu = 1280
    Periods = {0, 1, 2}
    Deadline = 3
    Fallback = 1
    IdleTimeouts = {0, 4}
    LongestPto = 2
    LongestFlush = 1
    MaxEvents = 2
    Spaces = {3, 4, 6}
    Prefix = 1
    InitialMtu = 3
    MaxTunMtu = 4
    QueueCap = 2
    Burst = 1
INVARIANTS SelectedAsDefined TunedAsFarAsPossible
    FailsClosed OnlyPinnedEndpoint AnswerDecides GivesUpInTime TooBigIsUseful
PROPERTIES ResponseWaitEnds SilenceIsNoticed MtuFollowsPath
CHECK_DEADLOCK FALSE
