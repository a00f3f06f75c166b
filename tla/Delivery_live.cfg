SPECIFICATION FairSpec
CONSTANTS
    r1 = r1
    r2 = r2
    d1 = d1
    d2 = d2
    n1 = n1
    n2 = n2
    p1 = p1
    p2 = p2
    None = None
    Runs = {r1, r2}
    Dirs = {d1, d2}
    Names = {n1, n2}
    Pids = {p1, p2}
    FinalName <- SameName
    Pid <- OnePid
    TargetsOf <- AllTargets
    Chunks = 1
    Faults <- SoftFaults
    SharedPids = TRUE
    MaxLive = 2
INVARIANT NoPartLeft
PROPERTIES
    RunEnds
    
