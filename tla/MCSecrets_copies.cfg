SPECIFICATION Spec
CONSTANTS
    Box = {1, 2, 3}
    NoBox = 0
    MaxAsk = 1
    Play <- AllPlays
INVARIANTS TypeOK NotesTrue TakenOnce DoneHeld
CHECK_DEADLOCK FALSE
