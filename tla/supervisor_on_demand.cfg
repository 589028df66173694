SPECIFICATION Spec
CONSTANTS
    Mtus = {1200, 1280, 1400}
    Ipv6MinMtu = 1280
    TunnelIpv6 = TRUE
    ManageIpv6 = TRUE
    NEndpoints = 3
    Always = FALSE
    PmtudEnabled = TRUE
    InitialMtu = 1200
    MaxTunMtu = 1400
    FiniteIdle = FALSE
    HasProbe = FALSE
    MaxFaults = 2
CHECK_DEADLOCK FALSE
INVARIANTS
    Ipv6NeedsMinMtu
    OnDemandHasPacket
    FallbackOnlyAfterFailure
PROPERTIES
    PendingSurvivesFailure
    PathSpec
