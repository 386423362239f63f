CONSTANTS
    p1 = p1
    p2 = p2
    s1 = s1
    s2 = s2
    Grants = {g1}
    Sessions = {s1, s2}
    Lifetimes = {3}
    Handlers = {h1}
    Micro = 2
    Second = 4
    MaxTime = 4
    Names <- MCNames
    Fold <- MCFold
    Runs = {p1, p2}
    MaximumRows = 2
    MaxUsers = 2
SPECIFICATION Spec
INVARIANTS OneExchange CutoverComplete NoLockCycle
PROPERTIES RevocationHolds
SYMMETRY Symmetry
