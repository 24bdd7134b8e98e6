CONSTANTS
  MaxSeq = 6
  MaxHeld = 1
  MaxTodos = 0
  MaxCommands = 0
  MaxFaults = 0
  MaxCrashes = 0
  Interrupts = FALSE
  Panics = FALSE
  PlanToggles = FALSE
SPECIFICATION Spec
INVARIANTS
  ReadYourWrites
  AdoptedIsCurrent
  SteerNeverPrecedesUnseen
  BatchesStayPaired
