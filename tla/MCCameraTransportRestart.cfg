CONSTANTS
    MaxGenerations = 3
    MaxAttempts = 1
    MaxRenewals = 1
SPECIFICATION Spec
INVARIANT RenewalsOfOwnSession
CHECK_DEADLOCK FALSE
