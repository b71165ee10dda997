CONSTANTS
    Clients = {c1, c2}
    PairingCodes = {k1}
    AuthCodes = {a1}
    Tokens = {t1, t2, t3, t4}
    MaxFailed = 2
    Concurrent = TRUE
    MaxCrashes = 1
SPECIFICATION Spec
SYMMETRY Symmetry
INVARIANTS FileConsistent
CHECK_DEADLOCK FALSE
