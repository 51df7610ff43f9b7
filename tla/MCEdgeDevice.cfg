CONSTANTS
    Focuses = {"sessions", "flow", "usb", "backend", "preview", "release"}
    FewPictures = 1
    MaxAcquired = 2
    MaxRetries = 1
    MaxPictures = 4
    MaxOpened = 3
    MaxReadFailures = 1
    MaxReopens = 3
    MaxSaid = 3
    MaxErrors = 1
    MaxDrawn = 3
    Due = 1
    MaxAge = 1
    Releases = {1, 2}
SPECIFICATION MCSpec
INVARIANT DeviceInv
PROPERTY MediaEnds
CHECK_DEADLOCK FALSE
