SPECIFICATION Spec
CONSTANTS
    p1 = p1
    p2 = p2
    r1 = r1
    r2 = r2
    A = A
    B = B
    None = None
    Task <- TwoTasks
    Replica <- TwoReplicas
    Deployments <- BothDeployments
    Symbol <- TwoSymbols
    Timestamp <- OneTimestamp
    Written <- TwoTicks
    MaxTicks = 2
    MaxFaults = 1
INVARIANTS
    TypeOK
    NoGap
    ReplicaCurrent
PROPERTY EveryTickReplicated
