SPECIFICATION Spec
CONSTANTS
  t1 = t1
  t2 = t2
  Trees <- MCTrees
  SameSecond = FALSE
  TaskRisks = {"low", "high"}
  TaskAutonomies = {"hitl", "auto"}
  RecordKinds = {"test", "sast"}
  UsedStatuses = {"todo", "done"}
  Room <- MCRoom
SYMMETRY MCSymmetry
INVARIANTS
  TypeOK
  TighteningNeverOpens
  AgentTypedPassNeverOpens
PROPERTIES
  HighRiskCompletionRules
  RefusalsNeverOpen
