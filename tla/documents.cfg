SPECIFICATION HSpec
CONSTANTS
    Requests = {q1, q2}
    Rooms = {r1, r2}
    Scenes = {s1, s2}
    Names = {untitled}
    Untitled = untitled
    Blank = blank
    NoRoom = noRoom
    NoScene = noScene
    NoVersion = noVersion
    Versions = {v1, v2}
    Files = {}
    Stored = {}
    StoreMayFail = TRUE
    Workload <- Documentary
SYMMETRY Symmetry
INVARIANTS TypeOK OneRoomUnlessSplit IndexedUnlessTorn
PROPERTIES SceneIDFixedUnlessTorn IndexKeepsLive ImplementsSessions
