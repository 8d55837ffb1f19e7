\* Two slots, two pools, frames lap the ring, one claim, one consumer.
SPECIFICATION Spec
CONSTANTS
    NSlots = 2
    Pools <- TwoPools
    Stride <- TwoStrides
    MaxLen = 2
    MaxSeq = 3
    Claims = {k1}
    Consumers = {c1}
    FixedPool = FALSE
    MemoryOrder = "tso"
    k1 = k1
    k2 = k2
    c1 = c1
    c2 = c2
CHECK_DEADLOCK FALSE
INVARIANTS
    CommittedFrameIntact
    AcceptedHeaderUntorn
    UnchangedCommitMeansIntactPayload
PROPERTIES
    SlotNeverRegresses
    DropOnlyLostFrames
