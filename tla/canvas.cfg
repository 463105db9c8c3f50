SPECIFICATION Spec
CONSTANTS
    Clients = {1, 2, 3}
    Ids = {e1, e2}
    Saved = {e1}
    Author <- DrawnBySeeder
    Seeder = 1
    Plays <- Performances
    PeersWait = TRUE
    NoElement = noElement
    MaxWrites = 8
    MaxDrops = 1
INVARIANTS TypeOK NothingLost VersionsAgree ImagesArrive EchoesBounded
PROPERTY NeverBackwards
CHECK_DEADLOCK FALSE
