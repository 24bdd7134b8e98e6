SPECIFICATION Spec
CONSTANTS
  QueueMax = 1
  MaxStreak = 1
  StallTurns = 2
  Fallbacks = 1
  CanFill = TRUE
  MaxPrompts = 1
  MaxSteers = 0
  MaxNotices = 0
  MaxFolds = 0
  MaxSwitches = 1
  MaxGoals = 0
  MaxInterrupts = 0
  MaxErrors = 1
  MaxPanics = 0
  MaxBatches = 0
INVARIANTS
  PositionInChain
CHECK_DEADLOCK FALSE
