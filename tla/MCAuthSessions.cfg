SPECIFICATION Spec
CONSTANTS
    Handlers = {x1, x2}
    AccessLife = 1
    RefreshLife = 2
    MaxPairs = 2
    MaxTime = 3
SYMMETRY HandlerSymmetry
CHECK_DEADLOCK FALSE
INVARIANTS TypeOK LoggedOutStaysOut InactiveMintsNothing LiveTokenStays SpentBuysNothing
