CONSTANTS
    d1 = d1
    d2 = d2
    d3 = d3
    w1 = w1
    w2 = w2
    Device <- TwoDevices
    SlugOf <- SameSlug
    Supported <- TwoDevices
    Worker <- TwoWorkers
    PasswordSet = TRUE
    MaxRequests = 2
    MaxSeconds = 1
    MaxCrashes = 1
SPECIFICATION Spec
INVARIANTS SuccessHasItsFile FileIsAccountedFor RaisesOnlyIfDeleted RecordsMatchEvents
PROPERTY RequestIsAnswered
CHECK_DEADLOCK FALSE
