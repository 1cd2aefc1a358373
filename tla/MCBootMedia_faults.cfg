SPECIFICATION FairSpec
CONSTANTS
    None = None
    Torn = Torn
    s1 = s1
    s2 = s2
    i1 = i1
    i2 = i2
    Saver = {s1, s2}
    Actor = {"apply", "unclaim"}
    Cast <- Failing
    Image = {i1, i2}
    Image0 = i1
    Bundle = {}
    Fault = {"rotation", "late-apply", "unclaim-known-good"}
    LIMIT = 1
    MaxVer = 0
    MaxWrites = 2
CHECK_DEADLOCK FALSE
INVARIANT CanonicalIntact
PROPERTY SaveEnds
