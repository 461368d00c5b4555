CONSTANTS
    d1 = d1
    d2 = d2
    w1 = w1
    w2 = w2
    w3 = w3
    Device <- TwoDevices
    Supported <- OneDevice
    Worker <- TwoWorkers
    PasswordSet = TRUE
    MaxRequests = 3
    MaxCrashes = 1
SPECIFICATION Spec
SYMMETRY Symmetry
INVARIANTS RaisesOnlyIfDeleted EventHasRecord LatestIsFresh OutageIsReported RecoveryIffTransition
CHECK_DEADLOCK FALSE
