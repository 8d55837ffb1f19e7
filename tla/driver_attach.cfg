\* Dynamic streams, chosen node ids, requests that fail a check; cooldowns.
SPECIFICATION HistorySpec
CONSTANTS
    NoNode = NoNode
    n1 = n1
    n2 = n2
    StreamIds <- TwoStreams
    Configured <- OneStream
    RangeStart = 2
    RangeEnd = 2
    AllowDynamic = TRUE
    HasDefaultProfile = TRUE
    ConfigHuge = FALSE
    HugeDir = FALSE
    NodeIds <- OneNode
    NullNode = NoNode
    AttachRequests <- MixedRequests
    LeaseTicks = 1
    CooldownTicks = 2
    AnnounceTicks = 9
    GcKeep = 1
    GcMinAge = 0
    GcOnStartup = TRUE
    WallOffset = 20
    Wrap = 64
    MaxTime = 3
    MaxLeases = 2
    MaxRestarts = 0
    MaxFailures = 0
CHECK_DEADLOCK FALSE
PROPERTIES
    NodeIdReuseWaits
    SilentClientsLoseLeases
