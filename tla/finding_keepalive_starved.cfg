SPECIFICATION FairSelectSpec
CONSTANTS
    PoolSize = 1
    TxQueueLen = 1
    TxBurst = 1
    ChannelBurst = 1
    RxBurst = 2
    DgramCap = 1
    Cwnd = 1
    Oversize = {}
    Refused = {}
    Timers = {"quic", "keepalive"}
    Endless = TRUE
    MaxPackets = 1
    MaxRx = 3
CHECK_DEADLOCK FALSE
PROPERTIES
    KeepaliveProgress
