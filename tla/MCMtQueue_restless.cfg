SPECIFICATION Spec
CONSTANTS
    t1 = t1
    t2 = t2
    t3 = t3
    Threads = {t1, t2, t3}
    Values = {v1, v2}
    Marker = Marker
    NoThread = NoThread
    MayCall <- RestlessUsers
    TimeoutArgs = {FALSE}
    CloseArgs = {FALSE}
    MaxLength = 1
    NewLengths <- Resizes
    Mortal = {t3}
    MaxReaders = 3
SYMMETRY ValueSymmetry
INVARIANTS
    BigLockExclusive
PROPERTIES
    NothingLost
