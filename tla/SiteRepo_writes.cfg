SPECIFICATION FairSpec
CONSTANTS
    Draft = draft
    Published = published
    Feature = {feature}
    Paths = {home, page}
    Contents = {seed}
    Absent = absent
    Seed = seed
    Home = home
    MaxCommits = 3
    MaxFaults = 1
    Ops = {"WriteFile", "DeleteFile", "Commit", "ImportZip", "Rollback", "Branch", "DeleteSite"}
INVARIANTS
    TypeOK
    AckedOnItsBase
    HeadIsWorkingBranch
    CommitsKeepToRequests
PROPERTIES
    LockIsReleased
CHECK_DEADLOCK FALSE
