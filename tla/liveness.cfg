CONSTANTS
  MaxSeq = 3
  MaxHeld = 1
  MaxTodos = 0
  MaxCommands = 1
  MaxFaults = 1
  MaxCrashes = 0
  Interrupts = TRUE
  Panics = FALSE
  PlanToggles = TRUE
SPECIFICATION FairSpec
PROPERTIES
  BarriersEnd
  ActorReturns
