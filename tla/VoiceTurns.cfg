SPECIFICATION FairSpec
CONSTANTS
  MaxStarts = 4
  MaxStops = 3
  MaxFaults = 1
INVARIANTS
  RunEndsOnce
  NewTurnFindsSilence
  TurnIsCollected
PROPERTIES
  TurnsEnd
CHECK_DEADLOCK FALSE
