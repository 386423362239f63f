SPECIFICATION Spec
CONSTANTS
    j1 = j1
    j2 = j2
    ca = ca
    cb = cb
    Jobs = {j1}
    Clients = {c1}
    Self = c1
    Releases <- MCNewerRelease
    GreeterReleases <- MCNewerRelease
    MaxTime = 2
    Components = {ca, cb}
    Dirs = {j1, m1}
    ManualDirs = {m1}
    ManualReleases = {1, 2}
    OperatorWaits = FALSE
    TornWrites = TRUE
    MaxFaults = 2
    Withdrawals = TRUE
    Revocations = TRUE
INVARIANTS IInv MixedHasEvidence
PROPERTIES DispatchedInWindow
SYMMETRY ComponentSymmetry
CHECK_DEADLOCK FALSE
