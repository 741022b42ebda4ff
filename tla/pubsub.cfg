SPECIFICATION FairSpec
CONSTANTS
    m1 = m1
    m2 = m2
    ch1 = ch1
    ch2 = ch2
    Messages = {m1, m2}
    Channels = {ch1, ch2}
    ChannelOf <- Apart
    Garbled = {m2}
    MaxAttempts = 2
    MaxOutages = 2
    MaxFaults = 1
    MaxPanics = 1
INVARIANTS
    TypeOK
    InOrderOncePerAttempt
    NothingMissed
PROPERTIES
    ListenerGetsAll
    ListensInTheEnd
CHECK_DEADLOCK FALSE
