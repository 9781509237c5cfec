SPECIFICATION FairSpec
CONSTANTS
    t1 = t1
    t2 = t2
    t3 = t3
    NoThread = NoThread
    Threads = {t1, t2, t3}
    MaxCalls <- Calls
    MaxSpurious = 1
    InitialTokens = 0
    InitialLatch = 2
    Threshold = 2
    Impatient = {t3}
    Mortal = {t1}
INVARIANTS
    MutexExclusive
    SleepersWake
    SemaphoreExact
    BarrierTogether
PROPERTIES
    CallsEnd
CHECK_DEADLOCK FALSE
