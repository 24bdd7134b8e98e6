SPECIFICATION Spec
CONSTANTS
  Calls = {c1, c2}
  NoCall = NoCall
  Gone = Gone
  Ops = {"spawnFg", "spawnBg", "wait", "resumeFg"}
  Max = 1
  MaxIds = 3
  MaxChunks = 2
  MaxStops = 0
  MaxInterrupts = 1
  MaxPanics = 1
SYMMETRY CallSymmetry
INVARIANTS
  TypeOK
  WorkingIsDriven
  LiveWithinMax
  DoneIsReachable
