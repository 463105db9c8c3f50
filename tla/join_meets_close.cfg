SPECIFICATION Spec
CONSTANTS
    Clients = {c1}
    Admins = {}
    Senders = {c1}
    Frail = {c1}
    MayClose = TRUE
    NoClient = noClient
    Buffer = 1
    MaxFrames = 1
INVARIANT NoneLeftBehind
CHECK_DEADLOCK FALSE
