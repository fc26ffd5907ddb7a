CONSTANTS
    TopBuses = {b1, b2}
    Plain = {d}
    Couplers = {c}
    Ports = {main}
    None = None
    Periodic = TRUE
    MaxMoves = 2
SPECIFICATION FairSpec
INVARIANTS TypeOK 
PROPERTIES Converges StaysLocated ScanEnds 
