\* Two links to one account, two requests at a time, one removal notice; one device with two
\* lenses, two jobs, three changes at Ring, two attempts for a notice.
SPECIFICATION MCSpec
CONSTANTS
    Focuses = {"linking", "removal", "return", "status"}
    l1 = l1
    l2 = l2
    w1 = w1
    w2 = w2
    n1 = n1
    Links = {l1, l2}
    Workers = {w1, w2}
    Notices = {n1}
    None = None
    MaxAttempts = 2
    MaxVersion = 2
    d1 = d1
    k1 = k1
    k2 = k2
    Devices = {d1}
    Keys = {k1, k2}
    Jobs = {w1, w2}
    MaxClaims = 2
    MaxChanges = 3
CONSTRAINT Few
SYMMETRY Symmetry
INVARIANT Inv
INVARIANT ConfirmedOnce
INVARIANT CredentialKept
INVARIANT InventoryInv
INVARIANT UsesSerialised
INVARIANT RemovalErases
INVARIANT SpentTokenUnused
CHECK_DEADLOCK FALSE
