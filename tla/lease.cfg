SPECIFICATION Spec
CONSTANTS
    Ids <- MCIds
    OwnId = 1
    Grace = 1
    MaxShift = 1
    MaxRequests = 1
    MaxInbox = 2
    MaxFaults = 1
INVARIANTS
    BeliefSound
PROPERTIES
    DroppedOnlyIfRevoked
    LeaseProgress
