SPECIFICATION Spec
CONSTANTS
    Users = {u1, u2}
    Rooms = {r1, r2}
    Scenes = {s1, s2}
    NoUser = noUser
    NoRoom = noRoom
    NoScene = noScene
    MaxEvents = 1
    MaxCalls = 4
INVARIANT CanvasIsRooms
CHECK_DEADLOCK FALSE
