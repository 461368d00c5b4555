CONSTANTS
    d1 = d1
    d2 = d2
    d3 = d3
    w1 = w1
    w2 = w2
    Device <- OneDevice
    SlugOf <- OneSlug
    Supported <- OneDevice
    Worker <- TwoWorkers
    PasswordSet = TRUE
    MaxRequests = 1
    MaxSeconds = 0
    MaxCrashes = 0
SPECIFICATION Spec
INVARIANT FailureLeavesNoFile
CHECK_DEADLOCK FALSE
