CONSTANTS
    o1 = o1
    o2 = o2
    o3 = o3
    o4 = o4
    a = a
    b = b
    c = c
    Opens <- MCTwoOpens
    Nodes <- MCNodes
    NodeOf <- MCTwoNodeOf
    MaxActive = 2
    MaxPerNode = 2
SPECIFICATION Spec
INVARIANT StopTriesAll
