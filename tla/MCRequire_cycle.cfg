SPECIFICATION Spec
CONSTANTS
    Threads = {t1, t2}
    fa = fa
    fb = fb
    fc = fc
    Features = {fa, fb, fc}
    Requires <- CyclicRequires
    MaxCalls = 2
    NoFeature = NoFeature
INVARIANTS
    NoCircularWait
