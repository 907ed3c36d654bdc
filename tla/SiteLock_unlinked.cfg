SPECIFICATION Spec
CONSTANTS
    p1 = p1
    p2 = p2
    w1 = w1
    w2 = w2
    w3 = w3
    r1 = r1
    r2 = r2
    None = none
    Procs = {p1, p2}
    Threads = {w1, w2, w3, r1, r2}
    Writers = {w1, w2, w3}
    ProcOf <- MCProcOf
    MaxInodes = 2
    MaxCrashes = 0
INVARIANTS
    CrossProcessExclusion
CHECK_DEADLOCK FALSE
