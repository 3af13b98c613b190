SPECIFICATION ProvidersSpec
CONSTANTS
  Callers = {c1, c2, c3}
  Faults = {"refuse", "idle", "drop", "close"}
  MaxSockets = 4
  MaxCalls = 3
  MaxChunks = 1
  Words = {w1, w2}
  MaxSpokenSegments = 3
  MaxRepeats = 2
INVARIANTS
  ServedOnCurrentSocket
  WaitsForPendingSocket
  OnlyEchoesAreLost
SYMMETRY Alike
CHECK_DEADLOCK FALSE
