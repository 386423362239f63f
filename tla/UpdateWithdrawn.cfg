SPECIFICATION FairSpec
CONSTANTS
    j1 = j1
    j2 = j2
    ca = ca
    cb = cb
    Jobs = {j1}
    Clients = {c1}
    Self = c1
    Releases <- MCOneRelease
    GreeterReleases <- MCNoReleases
    MaxTime = 2
    Components = {ca}
    Dirs = {j1}
    ManualDirs = {}
    ManualReleases = {}
    OperatorWaits = TRUE
    TornWrites = FALSE
    MaxFaults = 2
    Withdrawals = TRUE
    Revocations = FALSE
PROPERTIES DispatchedIsReported
CHECK_DEADLOCK FALSE
