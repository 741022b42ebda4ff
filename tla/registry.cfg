SPECIFICATION Spec
CONSTANTS
    Processes = {1, 2, 3}
    Settle = 1
    Gap = 1
    Reads = 2
    Heartbeat = 2
    Ttl = 6
    NoKey = NoKey
    Forever = Forever
    MaxAttempts = 2
    MaxFaults = 1
    MaxCrashes = 1
    MaxWaits = 1
INVARIANTS
    TypeOK
    StartedTogetherAgree
    EqualTotalsDistinctIds
    LiveKeyKept
