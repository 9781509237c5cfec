SPECIFICATION Spec
CONSTANTS
    t1 = t1
    t2 = t2
    t3 = t3
    Threads = {t1, t2, t3}
    Values = {v1, v2, v3, v4}
    Marker = Marker
    NoThread = NoThread
    MayCall <- BoundedUsers
    TimeoutArgs = {FALSE}
    CloseArgs = {FALSE}
    MaxLength = 2
    NewLengths = {}
    Mortal = {}
    MaxReaders = 3
SYMMETRY ValueSymmetry
INVARIANTS
    LenExact
    NoDuplicates
    NobodySleepsForNothing
PROPERTIES
    InsertWithinBound
