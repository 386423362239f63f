SPECIFICATION FairSpec
CONSTANTS
    j1 = j1
    j2 = j2
    ca = ca
    cb = cb
    Jobs = {j1, j2}
    Clients = {c1}
    Self = c1
    Releases <- MCOneRelease
    GreeterReleases <- MCOneRelease
    MaxTime = 2
    Components = {ca}
    Dirs = {j1, j2}
    ManualDirs = {}
    ManualReleases = {}
    OperatorWaits = TRUE
    TornWrites = TRUE
    MaxFaults = 1
    Withdrawals = FALSE
    Revocations = FALSE
PROPERTIES EveryJobEnds
CHECK_DEADLOCK FALSE
