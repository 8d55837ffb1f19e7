\* Two consumers, the manager of the producer having room for one of them; two
\* streams, one of them in two epochs, and a discovery client that asks twice.
SPECIFICATION DirectoriesSpec
CONSTANTS
    Ids = {1, 2}
    Dests = {"d1", "d2"}
    Hellos <- TwoConsumers
    Numbers <- Interval
    Default <- DefaultInterval
    Capacity = 1
    SupervisorCapacity = 2
    Stale = 1
    AssignBase = 10
    AssignRange = 4
    Streams = {1, 2}
    Announces <- TwoEpochs
    Sources <- Renames
    Taggings <- Tags
    Filters <- Decoded
    MaxResults = 1
    BufferResults = 1
    Expiry = 1
    Timeout = 1
    MaxId = 2
    MaxWire = 1
INVARIANTS
    RegistriesSound
    AnswersSound
PROPERTIES
    SilenceDecides
    AnswersCurrent
    SoftStateEnds
