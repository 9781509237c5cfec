SPECIFICATION FairSpec
CONSTANTS
    t1 = t1
    t2 = t2
    Threads = {t1, t2}
    Mortal = {t1}
    MaxForces <- Forces
    MaxDepth = 2
    MaxPromises = 2
    MaxRuns = 4
    MaxItems = 3
    MaxErrors = 1
    NoThread = NoThread
    Desc = Desc
INVARIANTS
    ItemsInOrder
    ReturnedIsPair
PROPERTIES
    PromiseIsWriteOnce
    ForceEnds
CHECK_DEADLOCK FALSE
