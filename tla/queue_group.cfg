SPECIFICATION StatsSpec
CONSTANTS
    Jobs = {j1, j2}
    Etas = {0}
    Workers = {"a1", "c1"}
    Consumers = {"A", "B", "C"}
    Owner <- OwnerByName
    Info <- Remnant
    NoInfo = NoInfo
    None = None
    MaxAttempts = 1
    TicksPerSecond = 1
    MaxTime = 0
    MaxFaults = 0
    MaxCrashes = 2
INVARIANTS
    SteadyJobsCounted
PROPERTIES
    SettledUnlessStalled
CHECK_DEADLOCK FALSE
