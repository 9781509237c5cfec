SPECIFICATION FairSpec
CONSTANTS
    t1 = t1
    t2 = t2
    i = i
    o1 = o1
    o2 = o2
    Threads = {t1, t2}
    IPorts = {i}
    OPorts = {o1, o2}
    MayCall <- Users
    MaxCalls = 2
    BufSize = 3
    PutSizes = {2}
    InitialSlots <- OneOfTwo
    MayFail = {o1, o2}
    Short = {o1}
    Unbuffered = {o2}
    Mortal = {t1}
    Follows <- Bytes
    Inner <- InnerBytes
    InputSize = 2
    NoThread = NoThread
    NoPort = NoPort
    Taken = Taken
INVARIANTS
    StreamExact
    PutsContiguous
    LockExact
    NoPortForgotten
    InputExact
PROPERTIES
    OperationsEnd
CHECK_DEADLOCK FALSE
