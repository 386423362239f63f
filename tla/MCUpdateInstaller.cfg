SPECIFICATION InstallSpec
CONSTANTS
    Components = {ca, cb}
    Dirs = {m1, m2, m3}
    ManualDirs = {m1, m2, m3}
    ManualReleases <- MCReleases
    OperatorWaits = TRUE
    TornWrites = TRUE
    MaxFaults = 3
INVARIANTS MixedIsRecoverable ReportedSuccessInstalled
PROPERTIES PendingIsRecovered
CHECK_DEADLOCK FALSE
