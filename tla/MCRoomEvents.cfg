CONSTANTS
    front = front
    back = back
    MaxEvents = 3
    Capacity = 2
    BatchSize = 2
    DeadCapacity = 1
    Malformed <- MCMalformed
    Portals <- MCPortals
    PortalOf <- MCPortalOf
    MaxFaults = 2
    MaxChanges = 1
    MaxRestarts = 1
    MaxTrouble = 2
SPECIFICATION MCSpec
INVARIANT Inv
INVARIANT NothingLost
INVARIANT OneRowPerEvent
INVARIANT DeadLettersDeserved
PROPERTY DeliverySafe
PROPERTY EventuallySettled
