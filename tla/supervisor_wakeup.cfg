SPECIFICATION Spec
CONSTANTS
    Waiters = {w1}
    MaxAttempts = 2
    BackoffAfter = 1
    MaxOutages = 1
PROPERTY CallersGetReady
