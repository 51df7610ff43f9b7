CONSTANTS
    Focuses = {"frames"}
    Capacity = 1
    Paced = TRUE
    Headless = TRUE
    Sizes = {s}
    MaxFrames = 5
    Confirmation = 1
    MaxActive = 2
    MaxLost = 1
    MaxTracks = 2
    ConfirmObservations = 2
    Cooldown = 3
    MaxTracked = 2
    None = None
    MinHigh = 2
    Window = 2
    Prior = 1
    MaxEvidence = 2
    Admins = {a1, a2}
    Areas = {r1, r2}
    MaxPortals = 1
    MaxRows = 2
    MaxRevision = 2
    MaxMoves = 1
    MaxSessions = 2
    Callers = {c1}
    MaxAttempts = 2
    MaxRequests = 5
SPECIFICATION MCSpec
INVARIANT StopReturns
CHECK_DEADLOCK FALSE
