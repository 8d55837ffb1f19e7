\* The conductor runs in its agent, the application polls its handles.
SPECIFICATION Spec
CONSTANTS
    Handles = {"control", "qos", "pub", "sub"}
    IsPublication <- Publications
    SharedSubs <- Shared
    Pollers = {"p1", "p2", "p3"}
    Capacity = 2
    Apart = TRUE
    MaxDepth = 2
CHECK_DEADLOCK FALSE
INVARIANTS
    ReadsLiveHandles
