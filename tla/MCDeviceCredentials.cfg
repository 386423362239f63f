SPECIFICATION Spec
CONSTANTS
    Keys = {k1, k2, k3}
    Tokens = {t1, t2}
    Window = 1
    Lifetime = 2
    MaxTime = 2
    MaxFaults = 2
INVARIANTS OneCredential TokenOnce LinearHistory KeyKept
SYMMETRY Symmetry
CHECK_DEADLOCK FALSE
