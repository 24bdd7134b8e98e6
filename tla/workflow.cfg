SPECIFICATION Spec
CONSTANTS
  Runs = {r1}
  Phases <- Review
  Args = {"x"}
  Answers = {"yes"}
  Width = 3
  GateWidth = 2
  Cap = 5
  MaxJumps = 1
  MaxStarts = 3
  MaxCancels = 1
  MaxKills = 1
  MaxTears = 1
  MaxFails = 1
INVARIANTS
  TypeOK
  EndedMeansSettled
  CapIsAnError
  CancelAccountsForAll
  AnswersMatchQuestions
  AnswersKept
PROPERTIES
  CancelStartsNothing
  RunsEnd
CHECK_DEADLOCK FALSE
