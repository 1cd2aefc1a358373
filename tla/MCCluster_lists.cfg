SPECIFICATION FairSpec
CONSTANTS
    NoCluster = NoCluster
    NoJob = NoJob
    Box = {1, 2, 3, 4}
    Cluster0 = {1, 2}
    Play <- AllPlays
CHECK_DEADLOCK FALSE
INVARIANTS TypeOK SelfInList OneEditorAgrees OneEditorIsMutual
PROPERTIES NeverMoved EditsEnd
