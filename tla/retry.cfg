SPECIFICATION FairSpec
CONSTANTS
    Tasks = {k1, k2}
    Threads = {t1, t2}
    FailureThreshold = 2
    SuccessThreshold = 2
    Timeout = 1
    MaxAttempts = 2
    Never = Never
    NoBreaker = NoBreaker
INVARIANTS
    TypeOK
PROPERTIES
    OpensAfterStreak
    ClosesAfterTrials
    RefusalsEnd
