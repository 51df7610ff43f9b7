CONSTANTS
    o1 = o1
    o2 = o2
    o3 = o3
    o4 = o4
    a = a
    b = b
    c = c
    Opens <- MCOpens
    Nodes <- MCNodes
    NodeOf <- MCNodeOf
    MaxActive = 2
    MaxPerNode = 1
SPECIFICATION MCSpec
INVARIANTS Inv CapacityHeld AccessAudited SessionsTracked
PROPERTY LeaseEnds
