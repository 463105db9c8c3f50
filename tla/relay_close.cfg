SPECIFICATION Spec
CONSTANTS
    Clients = {c1, c2}
    Admins = {c1}
    Senders = {c1}
    Frail = {c2}
    MayClose = TRUE
    NoClient = noClient
    Buffer = 1
    MaxFrames = 2
INVARIANTS TypeOK CloseComesLast MembersSignalled
PROPERTIES ConnectionsCleanedUp FanOutEnds CloseEnds
CHECK_DEADLOCK FALSE
