SPECIFICATION FairSpec
CONSTANTS
    Jobs = {j1, j2}
    Etas = {}
    Workers = {"a1", "b1"}
    Consumers = {"A", "B"}
    Owner <- OwnerByName
    Info <- Group
    NoInfo = NoInfo
    None = None
    MaxAttempts = 2
    TicksPerSecond = 1
    MaxTime = 0
    MaxFaults = 0
    MaxCrashes = 1
PROPERTY CrashRedistributes
CHECK_DEADLOCK FALSE
