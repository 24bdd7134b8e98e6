SPECIFICATION FairSpec
CONSTANTS
  QueueMax = 1
  MaxStreak = 1
  StallTurns = 2
  Fallbacks = 0
  CanFill = TRUE
  MaxPrompts = 1
  MaxSteers = 0
  MaxNotices = 1
  MaxFolds = 1
  MaxSwitches = 1
  MaxGoals = 1
  MaxInterrupts = 0
  MaxErrors = 1
  MaxPanics = 0
  MaxBatches = 1
INVARIANTS
  HeldWaitsForATurn
PROPERTIES
  TurnsEnd
  NoticesAnswered
  ParkedFoldTaken
CHECK_DEADLOCK FALSE
