SPECIFICATION Spec
CONSTANTS
    PoolSize = 3
    TxQueueLen = 2
    TxBurst = 1
    ChannelBurst = 2
    RxBurst = 1
    DgramCap = 2
    Cwnd = 1
    Oversize = {3}
    Refused = {4}
    Timers = {"quic", "keepalive"}
    Endless = FALSE
    MaxPackets = 5
    MaxRx = 1
CHECK_DEADLOCK FALSE
INVARIANTS
    BufferConservation
    EveryPacketAccounted
    ReaderDrained
    NoStrandedPackets
PROPERTIES
    FifoSpec
