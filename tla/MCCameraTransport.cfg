CONSTANTS
    MaxGenerations = 2
    MaxAttempts = 1
    MaxRenewals = 1
SPECIFICATION FairSpec
INVARIANT Inv
INVARIANT HopelessSessionsBounded
PROPERTY LegalTransitions
PROPERTY StaleMediaRejected
PROPERTY Decided
PROPERTY WorkersReleased
CHECK_DEADLOCK FALSE
