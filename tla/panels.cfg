SPECIFICATION Spec
CONSTANTS
    Docs = {d1, d2}
    Stored = {d1}
    Rooms = {r1}
    None = none
    MaxChanges = 1
    MaxPolls = 2
    MaxReads = 1
    MaxActs = 2
INVARIANTS TypeOK PaneIsOwn BusyIsTrue
PROPERTIES NeverOlder LiveListFresh
