SPECIFICATION FairSpec
CONSTANTS
    PoolSize = 2
    TxQueueLen = 1
    TxBurst = 1
    ChannelBurst = 1
    RxBurst = 2
    DgramCap = 1
    Cwnd = 1
    Oversize = {}
    Refused = {}
    Timers = {"quic", "keepalive", "pmtud"}
    Endless = TRUE
    MaxPackets = 2
    MaxRx = 3
CHECK_DEADLOCK FALSE
PROPERTIES
    UploadProgress
    DeadlinesMetWhenQuiet
