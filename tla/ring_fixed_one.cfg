\* One fixed buffer: committed, re-queued and filled again, offers in between.
SPECIFICATION Spec
CONSTANTS
    NSlots = 2
    Pools <- OnePool
    Stride <- OneStride
    MaxLen = 1
    MaxSeq = 3
    Claims = {k1}
    Consumers = {c1}
    FixedPool = TRUE
    MemoryOrder = "tso"
    k1 = k1
    k2 = k2
    c1 = c1
    c2 = c2
CHECK_DEADLOCK FALSE
INVARIANTS
    CommittedFrameIntact
