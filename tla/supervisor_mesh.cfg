SPECIFICATION FairSystemSpec
CONSTANTS
    Mtus = {1200, 1400}
    Ipv6MinMtu = 1280
    TunnelIpv6 = TRUE
    ManageIpv6 = TRUE
    NEndpoints = 2
    Always = TRUE
    PmtudEnabled = TRUE
    InitialMtu = 1200
    MaxTunMtu = 1400
    FiniteIdle = TRUE
    HasProbe = TRUE
    MaxFaults = 2
    MaxSessions = 2
CHECK_DEADLOCK FALSE
INVARIANTS
    LifecyclePaired
PROPERTIES
    EventuallyEstablished
    ReporterSpec
    InventoryFollowsTunnel
