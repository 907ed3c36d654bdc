SPECIFICATION MCSpec
CONSTANTS
    p1 = p1
    p2 = p2
    w1 = w1
    w2 = w2
    w3 = w3
    r1 = r1
    r2 = r2
    None = none
    Procs = {p1, p2}
    Threads = {w1, w2, w3, r1, r2}
    Writers = {w1, w2, w3}
    ProcOf <- MCProcOf
    MaxInodes = 3
    MaxCrashes = 1
    Visitors = {v1, v2}
    Refreshers = {f1, f2}
    MaxTip = 3
    MaxFaults = 1
    MaxExportCrashes = 1
INVARIANTS
    InProcessExclusion
    NeverOlderThanLabel
PROPERTIES
    ServedRecovers
CHECK_DEADLOCK FALSE
