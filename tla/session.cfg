SPECIFICATION Spec
CONSTANTS
    Users = {u1, u2}
    Rooms = {r1, r2}
    Scenes = {s1, s2}
    NoUser = noUser
    NoRoom = noRoom
    NoScene = noScene
    MaxEvents = 2
    MaxCalls = 3
INVARIANTS TypeOK LatestAuthWins
PROPERTY BecomesReady
CHECK_DEADLOCK FALSE
