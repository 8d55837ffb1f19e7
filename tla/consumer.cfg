SPECIFICATION Spec
CONSTANTS
    MaxEpoch = 2
    MaxSeq = 3
    MaxQueue = 1
    MaxFaults = 2
INVARIANTS
    MappingSound
    GapCountsMissedFrames
PROPERTIES
    NeverBackToOlderEpoch
    FollowsStream
