CONSTANTS
    Servers = {s1, s2}
    Devices = {d}
    None = None
    User = User
    Capacity = 2
SPECIFICATION FairSpec
INVARIANTS TypeOK  
PROPERTIES PushersProceed ExitEnds
