SPECIFICATION Spec
CONSTANTS
    Addresses = {a1, a2}
    Users = {u1, u2}
    Rooms = {r1, r2}
    Codes = {k1, k2}
    Allowlist = {u1}
    NoRoom = noRoom
    NoGrant = noGrant
    Max = 2
    Window = 2
    TTL = 2
    MaxTime = 3
    MaxAttempts = 3
    MaxProofs = 2
SYMMETRY Alike
INVARIANTS TypeOK WindowBound AccessWasProved
CHECK_DEADLOCK FALSE
