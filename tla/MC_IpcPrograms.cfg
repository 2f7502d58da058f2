SPECIFICATION Programs
CONSTANTS
  LINES = 3
  CLIENTS = 3
  Clients = {a, b, c}
  REGIONS = 3
  FAULTS = 2
INVARIANTS TurnsHandedOut EverythingArrives RecordsKept
PROPERTY EverybodyEnds
