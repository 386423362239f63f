SPECIFICATION Spec
CONSTANTS
    Users = {u1, u2}
    Sessions = {s1, s2}
    Ceremonies = {m1, m2}
    Passkeys = {k1}
    Handlers = {h1, h2}
    SessionLifetime = 1
    CeremonyLifetime = 0
    LoginLimit = 1
    MaxCount = 1
    MaxTime = 2
SYMMETRY Symmetry
INVARIANTS CeremonyUsedOnce CounterUsedOnce PasskeyVouched AttemptsBounded
PROPERTIES RemovalIsFinal
CHECK_DEADLOCK FALSE
