SPECIFICATION Spec
CONSTANTS
    Draft = draft
    Published = published
    Feature = {feature}
    Paths = {home, page}
    Contents = {seed, new}
    Absent = absent
    Seed = seed
    Home = home
    MaxCommits = 3
    MaxFaults = 1
    Ops = {"WriteFile"}
INVARIANTS
    WritesOneFile
CHECK_DEADLOCK FALSE
