SPECIFICATION Spec
CONSTANTS
  QueueMax = 1
  MaxStreak = 1
  StallTurns = 2
  Fallbacks = 0
  CanFill = FALSE
  MaxPrompts = 1
  MaxSteers = 0
  MaxNotices = 1
  MaxFolds = 0
  MaxSwitches = 0
  MaxGoals = 0
  MaxInterrupts = 1
  MaxErrors = 0
  MaxPanics = 0
  MaxBatches = 2
PROPERTIES
  ContinuesOnlyUnanswered
CHECK_DEADLOCK FALSE
