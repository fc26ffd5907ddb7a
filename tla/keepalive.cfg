CONSTANTS
    Idle = 10
    Limit = 15
    Delay = 4
    MaxOut = 3
SPECIFICATION Spec
INVARIANTS TypeOK NoFalseAlarm NoticedInTime
PROPERTY DeathNoticed
