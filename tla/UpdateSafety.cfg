SPECIFICATION Spec
CONSTANTS
    j1 = j1
    j2 = j2
    ca = ca
    cb = cb
    Jobs = {j1, j2}
    Clients = {c1}
    Self = c1
    Releases <- MCReleases
    GreeterReleases <- MCReleases
    MaxTime = 2
    Components = {ca, cb}
    Dirs = {j1, j2}
    ManualDirs = {}
    ManualReleases = {}
    OperatorWaits = TRUE
    TornWrites = FALSE
    MaxFaults = 2
    Withdrawals = FALSE
    Revocations = FALSE
INVARIANTS OneOpenJob AuditTrail AtMostOnce PermissionFirst ResultTruthful EvidenceKept
PROPERTIES NoDowngrade ImplementsLifecycle
SYMMETRY Symmetry
CHECK_DEADLOCK FALSE
