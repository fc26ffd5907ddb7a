SPECIFICATION Spec
CONSTANTS
  Users = {u1, u2}
  Scan = scan
  BusNames <- MCBusNames
  DevNames <- MCDevNames
  Getter <- MCGetter
  Values = {1, 2}
  Nothing = "none"
INVARIANTS TypeOK  LastIntervalWins WantedOnBus
PROPERTY CallsReturn
