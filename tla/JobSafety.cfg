CONSTANTS
    d1 = d1
    d2 = d2
    d3 = d3
    w1 = w1
    j = j
    Device <- TwoDevices
    Supported <- OneDevice
    Worker <- JobAndRequest
    PasswordSet = FALSE
    MaxRequests = 1
    MaxCrashes = 1
    JobWorker = j
    MaxJobs = 1
SPECIFICATION JobSpec
INVARIANTS JobTypeOK JobAbortsOnlyIfDeleted JobAccountsForFleet
PROPERTY JobAndRequestsEnd
CHECK_DEADLOCK FALSE
