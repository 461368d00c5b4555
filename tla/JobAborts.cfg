CONSTANTS
    d1 = d1
    d2 = d2
    d3 = d3
    w1 = w1
    j = j
    Device <- TwoDevices
    Supported <- OneDevice
    Worker <- JobAndRequest
    PasswordSet = TRUE
    MaxRequests = 0
    MaxCrashes = 0
    JobWorker = j
    MaxJobs = 1
SPECIFICATION JobSpec
INVARIANT JobNeverAborts
CHECK_DEADLOCK FALSE
