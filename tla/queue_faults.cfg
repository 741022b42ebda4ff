SPECIFICATION Spec
CONSTANTS
    Jobs = {j1, j2}
    Etas = {1, 2}
    Workers = {"a1", "b1"}
    Consumers = {"A", "B"}
    Owner <- OwnerByName
    Info <- Group
    NoInfo = NoInfo
    None = None
    MaxAttempts = 2
    TicksPerSecond = 2
    MaxTime = 2
    MaxFaults = 1
    MaxCrashes = 1
SYMMETRY Permuted
INVARIANTS
    TypeOK
    AcceptedAccounted
    OncePerAttempt
    NotASecondEarly
    Fifo
    EarliestEtaFirst
    LossBounded
    TakenWithinTwo
PROPERTIES
    ImplementsDelivery
    ImplementsTurns
    StalledForGood
CHECK_DEADLOCK FALSE
