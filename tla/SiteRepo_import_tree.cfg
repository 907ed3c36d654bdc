SPECIFICATION Spec
CONSTANTS
    Draft = draft
    Published = published
    Feature = {feature}
    Paths = {home}
    Contents = {seed, new}
    Absent = absent
    Seed = seed
    Home = home
    MaxCommits = 3
    MaxFaults = 0
    Ops = {"ImportZip", "ServedTree"}
INVARIANTS
    ImportReplacesTree
CHECK_DEADLOCK FALSE
