CONSTANTS
  MaxSeq = 4
  MaxHeld = 1
  MaxTodos = 1
  MaxCommands = 1
  MaxFaults = 1
  MaxCrashes = 1
  Interrupts = FALSE
  Panics = TRUE
  PlanToggles = TRUE
SPECIFICATION Spec
INVARIANTS
  TypeOK
  ProjectionBehindLog
  EpochGate
  PipelineInv
  ProjectionIsLogPrefix
  ChainUnbroken
  ToolsAfterDurable
PROPERTIES
  PlanFollowsLog
  ImplementsEventLog
