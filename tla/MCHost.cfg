CONSTANTS
    Agents = {service, desktop}
    Service = service
    Inodes = {i1, i2, i3, i4}
    small = small
    big = big
    Versions = {small, big}
    Size <- Sizes
    ReadLimit = 2
    EditLimit = 2
    OutLimit = 1
    Trees <- SomeTrees
    HitLimit = 2
    ScanLimit = 2
    MaxOut = 2
    MaxJobs = 2
    Newest = 3
    MaxCrashes = 1
    MaxFaults = 2
    Loads <- SomeLoads
    Missing = Missing
    Partial = Partial
    None = None
SPECIFICATION FairSpec
INVARIANTS HostTypeOK PathWhole Untruncated ExecHonest ExeWhole
PROPERTIES UpdateArrives
CHECK_DEADLOCK FALSE
