SPECIFICATION FairSpec
CONSTANTS
    Messages = {1, 2}
    Dispatchers = {d1, d2}
    BatchSize = 2
    MaxAttempts = 2
    MaxFaults = 1
INVARIANTS
    TypeOK
    ExclusiveUnlessLapsed
    StatusIsTrue
PROPERTIES
    KeepsPromise
