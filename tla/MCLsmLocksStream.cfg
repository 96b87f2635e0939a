SPECIFICATION Spec
CONSTANTS
    t1 = t1
    t2 = t2
    t3 = t3
    Thread <- TwoThreads
    None = None
    Calls <- StreamCalls
INVARIANTS
    NoCircularWait
