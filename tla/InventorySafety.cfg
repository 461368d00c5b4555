CONSTANTS
    a = a
    b = b
    e1 = e1
    e2 = e2
    ip1 = ip1
    ip2 = ip2
    w1 = w1
    w2 = w2
    Username <- Usernames
    Email <- Emails
    UserPatch <- Patches
    FoundUsers <- UserTables
    Address <- Addresses
    DeviceChange <- Changes
    FoundDevices <- DeviceTables
    Worker <- Workers
    MaxRequests = 2
SPECIFICATION InventorySpec
SYMMETRY Symmetry
INVARIANT RaisesOnlyIfDeleted
PROPERTIES ConflictHasReason OnlyTheEntitledChange UpdatesKeepOtherFields
CHECK_DEADLOCK FALSE
