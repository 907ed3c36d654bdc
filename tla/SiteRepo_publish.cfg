SPECIFICATION Spec
CONSTANTS
    Draft = draft
    Published = published
    Feature = {feature}
    Paths = {home}
    Contents = {seed, new}
    Absent = absent
    Seed = seed
    Home = home
    MaxCommits = 4
    MaxFaults = 1
    Ops = {"WriteFile", "Publish", "GitHub", "ServedTree"}
INVARIANTS
    PointerInPublishedHistory
    AckedNeverLost
PROPERTIES
    HistoryPreserved
CHECK_DEADLOCK FALSE
