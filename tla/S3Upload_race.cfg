SPECIFICATION Spec
CONSTANTS
    r1 = r1
    r2 = r2
    k1 = k1
    None = None
    Runs = {r1, r2}
    Keys = {k1}
    KeyOf <- SameKey
    Parts = 1
    PartsPerRead = 2
    Capacity = 2
    MaxLive = 2
    Faults = {}
PROPERTY NoOverwrite
