SPECIFICATION Spec
CONSTANTS
    Clients = {c1, c2}
    Users = {u1}
    Uris = {uri1}
    Codes = {k1}
    Tokens = {t1, t2}
    Subjects = {s1, s2}
    Handlers = {h1, h2}
    CodeLifetime = 1
    TokenLifetime = 1
    Retention = 0
    MaxSecret = 1
    MaxTime = 2
SYMMETRY Symmetry
INVARIANTS
    OneOutcomePerCode
    SessionFromCode
    EndedStaysEnded
    OneSubjectPerUser
CHECK_DEADLOCK FALSE
