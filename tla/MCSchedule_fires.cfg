SPECIFICATION Spec
CONSTANTS
    Jobs = {"nightly", "ask"}
    Manual = {"ask"}
    Continue = {}
    Needs = {"ask"}
    Backends = {"claude"}
    Shells = {s1, s2}
    Ticks = {crond, hand}
    Nobody = Nobody
    Page = Page
    Owner = Owner
    Saver = Saver
    Straddle = FALSE
    HandPark = FALSE
    MaxMinute = 2
    MaxSid = 0
    MaxEdit = 1
    MaxCut = 1
SYMMETRY Symmetry
INVARIANTS FiredOnce RowsTrue
CHECK_DEADLOCK FALSE
