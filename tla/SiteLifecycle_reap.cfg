SPECIFICATION MCSpec
CONSTANTS
    Sites = {s1, s2}
    Reapers = {server, cli}
    Server = server
    None = none
    MaxFaults = 1
    MaxCrashes = 1
    Servers <- MCServers
    Handlers = {h1}
    MaxPasses = 1
INVARIANTS
    LiveSiteIsWhole
    BundledBeforeRemoved
    PurgedRowHasNoRepo
    OrderlyStop
PROPERTIES
    DeletedIsPurged
    StopsWhenTold
CHECK_DEADLOCK FALSE
