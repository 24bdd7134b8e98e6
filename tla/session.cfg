SPECIFICATION Spec
CONSTANTS
  QueueMax = 2
  MaxStreak = 1
  StallTurns = 2
  Fallbacks = 1
  CanFill = TRUE
  MaxPrompts = 4
  MaxSteers = 1
  MaxNotices = 0
  MaxFolds = 0
  MaxSwitches = 0
  MaxGoals = 0
  MaxInterrupts = 1
  MaxErrors = 1
  MaxPanics = 1
  MaxBatches = 1
INVARIANTS
  TypeOK
  NothingDropped
  PromptsInOrder
  OneTurnAtATime
PROPERTIES
  InterruptSticks
CHECK_DEADLOCK FALSE
