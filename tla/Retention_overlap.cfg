SPECIFICATION Spec
CONSTANTS
    r1 = r1
    r2 = r2
    l1 = l1
    s1 = s1
    tgz = tgz
    gpg = gpg
    vw = vw
    vwDash = vwDash
    Unlimited = Unlimited
    Runs = {r1, r2}
    Locals = {l1}
    Buckets = {s1}
    Names = {vw}
    Dashed = {}
    Escaped = {}
    Ages = 100
    Exts = {tgz, gpg}
    NameOf <- OneName
    ExtOf <- Switched
    TargetsOf <- AllTargets
    PeriodOf <- Mixed
    TicksPerSecond = 2
    MaxTime = 6
    Faults <- ClockRight
    MaxLive = 2
INVARIANT FreshArchiveKept
PROPERTY DeletedIsOld
