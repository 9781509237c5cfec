SPECIFICATION Spec
CONSTANTS
    main = main
    a = a
    b = b
    Threads = {main, a, b}
    Primordial = {main}
    NoThread = NoThread
    MayCall <- Inspection
INVARIANTS
    JoinersWake
    SuspendedWakes
    RequestNoticed
    StoppedIsStill
CHECK_DEADLOCK FALSE
