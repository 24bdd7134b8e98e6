SPECIFICATION Spec
CONSTANTS
  Runs = {r1}
  Phases <- Reused
  Args = {"x"}
  Answers = {"yes"}
  Width = 2
  GateWidth = 2
  Cap = 4
  MaxJumps = 0
  MaxStarts = 1
  MaxCancels = 0
  MaxKills = 0
  MaxTears = 0
  MaxFails = 0
INVARIANTS
  EndedMeansSettled
CHECK_DEADLOCK FALSE
