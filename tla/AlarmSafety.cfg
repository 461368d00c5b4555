CONSTANTS
    d1 = d1
    d2 = d2
    eth0 = eth0
    eth1 = eth1
    w1 = w1
    w2 = w2
    Device <- OneDevice
    Supported <- OneDevice
    Name <- OneName
    Worker <- TwoWorkers
    PasswordSet = TRUE
    MaxRequests = 2
    MaxCrashes = 1
    Limit <- OneOrTwo
    MaxListings = 1
    MaxHealthChecks = 1
SPECIFICATION AlarmSpec
SYMMETRY Symmetry
INVARIANTS AlarmTypeOK RaisesOnlyIfDeleted RowsAreReported RecoveryIffTransition QuietListIsExact SteadyDownIsListed
CHECK_DEADLOCK FALSE
