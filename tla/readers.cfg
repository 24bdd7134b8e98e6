SPECIFICATION Spec
CONSTANTS
  Calls = {c1, c2}
  NoCall = NoCall
  Gone = Gone
  Ops = {"spawnBg", "wait", "waitAny"}
  Max = 2
  MaxIds = 2
  MaxChunks = 3
  MaxStops = 1
  MaxInterrupts = 0
  MaxPanics = 0
SYMMETRY CallSymmetry
INVARIANTS
  OneReader
  NothingLost
