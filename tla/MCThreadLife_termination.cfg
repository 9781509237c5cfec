SPECIFICATION FairSpec
CONSTANTS
    main = main
    a = a
    b = b
    Threads = {main, a, b}
    Primordial = {main}
    NoThread = NoThread
    MayCall <- Termination
PROPERTIES
    CancelledEnds
CHECK_DEADLOCK FALSE
