\* One thread makes the first offer; the agent's thread and the
\* application's both poll.
SPECIFICATION FairSpec
CONSTANTS
    o1 = o1
    o2 = o2
    p1 = p1
    p2 = p2
    Offerers <- TwoOfferers
    Starters <- FirstOfferer
    Pollers <- TwoPollers
    Capacity = 2
    MaxOffers = 2
\* If every allocation fails, no offer is left and there is nothing to poll.
CHECK_DEADLOCK FALSE
INVARIANTS
    QueueSound
PROPERTIES
    ImplementsFifo
    OffersServed
