SPECIFICATION FairSpec
CONSTANTS
    Threads = {t1, t2, t3}
    fa = fa
    fb = fb
    fc = fc
    Features = {fa, fb}
    Requires <- MutualRequires
    MaxCalls = 2
    NoFeature = NoFeature
INVARIANTS
    OneLoader
    CurrentEntryFirst
    SleepersHaveLoader
PROPERTIES
    RequireReturns
