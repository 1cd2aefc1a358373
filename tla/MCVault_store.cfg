SPECIFICATION Spec
CONSTANTS
    Name = {"token", "key"}
    Value = {"v1", "v2"}
    NoValue = NoValue
    Chassis = {"here", "there"}
    None = None
    Torn = Torn
    Quoted = {}
    Cli = {"cli"}
    Calm <- Both
    MaxMint = 2
    MaxOps = 2
    MaxCut = 1
INVARIANTS ExportsCurrent SealedMedia
PROPERTY Implements
CHECK_DEADLOCK FALSE
