CONSTANTS
    TopBuses = {b1, b2}
    Plain = {d}
    Couplers = {c}
    Ports = {main}
    None = None
    Periodic = TRUE
    MaxMoves = 0
SPECIFICATION FairSpec
PROPERTY PeriodicScanRuns
