SPECIFICATION HSpec
CONSTANTS
    Requests = {q1, q2}
    Rooms = {r1}
    Scenes = {s1, s2, s3}
    Names = {untitled, n1}
    Untitled = untitled
    Blank = blank
    NoRoom = noRoom
    NoScene = noScene
    NoVersion = noVersion
    Versions = {v1, v2}
    Files = {f1}
    Stored = {s1}
    StoreMayFail = TRUE
    Workload <- WithoutSceneDelete
SYMMETRY Symmetry
INVARIANTS AckedVersionsKept FilesPresent
PROPERTY RenameReachesRoom
