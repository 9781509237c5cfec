SPECIFICATION FairSpec
CONSTANTS
    t1 = t1
    t2 = t2
    Thread = {t1, t2}
    NSig = 2
    PendingLimit = 3
    MaxKills = 3
    MaxDepth <- Depth
    MaxCalls <- Budget
    InitialMask <- Blocked
    InitialMasks <- HandlerMasks
    Settings <- HandlerSettings
    Awaited = {{2}}
    Setters = {t1, t2}
    Sleepers = {t1}
INVARIANTS
    NoSignalLost
    SleepMissesNothing
    ActionsMatch
PROPERTIES
    MaskRestored
    SignalsHandled
CHECK_DEADLOCK FALSE
