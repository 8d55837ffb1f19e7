\* Two input streams, maps of two epochs and of both kinds, a registry of two.
SPECIFICATION Spec
CONSTANTS
    Maps <- JoinMaps
    Foreign <- Damaged
    Types <- AllTypes
    Calls <- SomeCalls
    RuleCapacity = 2
    RegistryCapacity = 2
    Values = {0, 1}
    MaxNow = 2
CHECK_DEADLOCK FALSE
INVARIANTS
    JoinSound
PROPERTIES
    ReadyIsStable
