SPECIFICATION Spec
CONSTANTS
    Clients = {c1, c2, c3}
    Admins = {c1}
    Senders = {c1, c2}
    Frail = {}
    MayClose = FALSE
    NoClient = noClient
    Buffer = 1
    MaxFrames = 4
INVARIANTS InOrder NoGap
CHECK_DEADLOCK FALSE
