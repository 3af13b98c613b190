SPECIFICATION FairSpec
CONSTANTS
  Callers = {c1, c2}
  Faults = {}
  MaxSockets = 2
  MaxCalls = 1
  MaxChunks = 1
PROPERTIES
  EveryCallEnds
CHECK_DEADLOCK FALSE
