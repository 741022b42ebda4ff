SPECIFICATION PoolSpec
CONSTANTS
    Waiters = {w1}
    Openers = {w1}
    Checkers = {c1}
    MaxAttempts = 1
    BackoffAfter = 0
    MaxOutages = 0
    MaxErrors = 1
    MaxCalls = 1
    MaxChecks = 1
PROPERTY ChecksReturn
