CONSTANTS
    Devices = {d, e}
    Temps <- MCTemps
    Low = 0
    High = 2
    Nobody = Nobody
    MaxChanges = 2
    MaxErrors = 1
SPECIFICATION Spec
INVARIANTS TypeOK LimitsOrdered
PROPERTY AlarmsEnd
