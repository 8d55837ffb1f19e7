\* Three producers, two of them sharing a generator; three blobs on one stream.
SPECIFICATION Spec
CONSTANTS
    Producers = {"p1", "p2", "p3"}
    Generators = {"g1", "g2"}
    GeneratorOf <- SharedGenerator
    NodeOf <- Nodes
    NodeBits = 1
    SeqBits = 1
    Offset = 1
    MaxClock = 2
    NSlots = 1
    Parents <- ParentLists
    MaxParents = 2
    MaxSeq <- LastFrame
    MaxAttaches = 1
    MaxDraws = 2
    Blobs <- TwoStreams
    Damaged <- OtherVersion
    RingSlots <- RingSizes
    TrackerCapacity = 1
    PayloadLength = 2
    LastEpoch = 2
    LastSeq = 2
    MaxDims = 3
    Width = 8
    Headers <- TensorHeaders
CHECK_DEADLOCK FALSE
INVARIANTS
    TracesSound
    BlobsSound
    LayoutSound
PROPERTIES
    DrawnFresh
    ProgressNeverShrinks
