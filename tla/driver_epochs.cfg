\* One configured stream, two clients, a restart, failing SHM creation, GC.
SPECIFICATION Spec
CONSTANTS
    NoNode = NoNode
    n1 = n1
    n2 = n2
    StreamIds <- OneStream
    Configured <- OneStream
    RangeStart = 1
    RangeEnd = 1
    AllowDynamic = FALSE
    HasDefaultProfile = TRUE
    ConfigHuge = FALSE
    HugeDir = FALSE
    NodeIds <- TwoNodes
    NullNode = NoNode
    AttachRequests <- PlainRequests
    LeaseTicks = 1
    CooldownTicks = 1
    AnnounceTicks = 2
    GcKeep = 2
    GcMinAge = 2
    GcOnStartup = TRUE
    WallOffset = 20
    Wrap = 64
    MaxTime = 3
    MaxLeases = 3
    MaxRestarts = 1
    MaxFailures = 1
SYMMETRY NodeSymmetry
CHECK_DEADLOCK FALSE
INVARIANTS
    SingleProducer
    DistinctIdentities
    ProducerBacked
    GcBounded
PROPERTIES
    ProducerEpochStable
    EpochNeverReused
    LeaseEndIsRevoked
