\* The agent invoker: one thread, callbacks that call do_work.
SPECIFICATION Spec
CONSTANTS
    Handles = {"control", "qos", "pub", "sub"}
    IsPublication <- Publications
    SharedSubs <- Shared
    Pollers = {"p1", "p2", "p3"}
    Capacity = 2
    Apart = FALSE
    MaxDepth = 2
CHECK_DEADLOCK FALSE
INVARIANTS
    ConductorSound
PROPERTIES
    AddsResolved
    PollersServed
