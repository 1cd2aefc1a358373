SPECIFICATION SpecSmall
CONSTANTS
    None = None
    Partial = Partial
    u1 = u1
    u2 = u2
    h1 = h1
    a = a
    Updater = {u1, u2}
    Hand = {h1}
    Cast <- Pairs
    Release = {0, 1, 2}
    Release0 = 0
    Resolving = {0, 2}
    IdPath = {a}
    Listed0 = {}
    MaxCrash = 1
INVARIANT RepoNeverPartial
PROPERTIES SyncAllOrNothing StampedIsOnMedia IdentitySurvives
SYMMETRY Symmetric
