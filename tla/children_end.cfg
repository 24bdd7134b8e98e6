SPECIFICATION FairSpec
CONSTANTS
  Calls = {c1}
  NoCall = NoCall
  Gone = Gone
  Ops = {"spawnBg", "wait", "resumeBg"}
  Max = 1
  MaxIds = 2
  MaxChunks = 3
  MaxStops = 1
  MaxInterrupts = 0
  MaxPanics = 1
PROPERTIES
  WaitsEnd
  ChildrenDie
