CONSTANTS
    Servers = {s1}
    Devices = {d}
    None = None
    User = User
    Capacity = 2
SPECIFICATION Spec
INVARIANT MonitorSurvives
