SPECIFICATION Spec
CONSTANTS
    c1 = c1
    c2 = c2
    Users = {u1, u2}
    MaxBadges = 2
    MaxTime = 1
    Clients = {c1, c2}
    HelperClient <- MCHelperClient
    Handlers = {h1, h2}
    Grants = {g1, g2}
    GrantLifetime = 1
SYMMETRY Symmetry
INVARIANTS ReplacementsExclude OneUse SessionBacked NoLoginAfterRevocation
PROPERTIES RevokedForGood
CHECK_DEADLOCK FALSE
