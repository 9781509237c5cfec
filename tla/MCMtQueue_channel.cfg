SPECIFICATION Spec
CONSTANTS
    t1 = t1
    t2 = t2
    t3 = t3
    Threads = {t1, t2, t3}
    Values = {v1, v2}
    Marker = Marker
    NoThread = NoThread
    MayCall <- ChannelUsers
    TimeoutArgs = {TRUE, FALSE}
    CloseArgs = {TRUE, FALSE}
    MaxLength = 0
    NewLengths = {}
    Mortal = {}
    MaxReaders = 3
SYMMETRY ValueSymmetry
INVARIANTS
    NobodySleepsForNothing
