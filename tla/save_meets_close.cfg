SPECIFICATION Spec
CONSTANTS
    Requests = {q1, q2}
    Rooms = {r1, r2}
    Scenes = {s1, s2, s3}
    Names = {untitled, n1}
    Untitled = untitled
    Blank = blank
    NoRoom = noRoom
    NoScene = noScene
    NoVersion = noVersion
    Versions = {v1, v2, v3}
    Files = {}
    Stored = {}
    StoreMayFail = FALSE
    Workload <- SaveAndClose
INVARIANT IndexedRoomIsLive
