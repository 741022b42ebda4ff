SPECIFICATION PoolSpec
CONSTANTS
    Waiters = {w1, w2}
    Openers = {w1, w2}
    Checkers = {c1}
    MaxAttempts = 2
    BackoffAfter = 1
    MaxOutages = 1
    MaxErrors = 1
    MaxCalls = 2
    MaxChecks = 1
INVARIANTS
    PoolTypeOK
    EveryCallCounted
    ErrorsMatchFailures
    FirstIsServed
PROPERTIES
    ConnectedInTheEnd
    BlockedAreWoken
    StuckForGood
    MetricsServed
