SPECIFICATION Spec
CONSTANTS
    t1 = t1
    t2 = t2
    t3 = t3
    Thread <- ThreeThreads
    None = None
    Calls <- MixedCalls
INVARIANTS
    TypeOK
    MutualExclusion
    NoCircularWait
PROPERTIES
    EveryCallReturns
