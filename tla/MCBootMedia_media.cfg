SPECIFICATION Spec
CONSTANTS
    None = None
    Torn = Torn
    s1 = s1
    s2 = s2
    i1 = i1
    i2 = i2
    Saver = {s1, s2}
    Actor = {"rollback", "promote", "apply", "unclaim"}
    Cast <- Contenders
    Image = {i1, i2}
    Image0 = i1
    Bundle = {}
    Fault = {}
    LIMIT = 1
    MaxVer = 1
    MaxWrites = 3
CHECK_DEADLOCK FALSE
INVARIANTS CanonicalIntact OverlayMatchesImage UnclaimLeavesNothing
PROPERTIES SavesRespectFences UndoKept
