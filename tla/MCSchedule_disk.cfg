SPECIFICATION Spec
CONSTANTS
    Jobs = {"chat"}
    Manual = {}
    Continue = {"chat"}
    Needs = {}
    Backends = {"claude"}
    Shells = {s1, s2}
    Ticks = {}
    Nobody = Nobody
    Page = Page
    Owner = Owner
    Saver = Saver
    Straddle = FALSE
    HandPark = TRUE
    MaxMinute = 1
    MaxSid = 2
    MaxEdit = 0
    MaxCut = 1
SYMMETRY Symmetry
INVARIANTS ParkedAgain ResumesReal
CHECK_DEADLOCK FALSE
