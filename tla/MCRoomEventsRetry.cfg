CONSTANTS
    front = front
    back = back
    MaxEvents = 3
    Capacity = 2
    BatchSize = 2
    DeadCapacity = 1
    Malformed <- MCMalformed
    Portals <- MCPortals
    PortalOf <- MCPortalOf
    MaxFaults = 1
    MaxChanges = 1
    MaxRestarts = 0
    MaxTrouble = 2
SPECIFICATION Spec
INVARIANT StoredNeverRefused
