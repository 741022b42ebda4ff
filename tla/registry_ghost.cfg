SPECIFICATION FairSpec
CONSTANTS
    Processes = {1, 2}
    Settle = 1
    Gap = 1
    Reads = 3
    Heartbeat = 4
    Ttl = 12
    NoKey = NoKey
    Forever = Forever
    MaxAttempts = 2
    MaxFaults = 0
    MaxCrashes = 1
    MaxWaits = 1
PROPERTY CrashedKeyExpires
